------------------------- MODULE SwapExecutorProofs -------------------------
(***************************************************************************)
(* Proofs about SwapExecutor, for any number of calls on one wallet and    *)
(* any number of looks for a receipt.                                      *)
(***************************************************************************)
EXTENDS SwapExecutor, TLAPS

-----------------------------------------------------------------------------
(* The inductive invariant.                                                *)

\* A call has a result when it has returned, its swap is pending or mined only
\* after it was sent, and an order is placed as the last thing it does.
SentOK ==
  \A s \in Swaps :
    /\ pc[s] # "returned" => result[s] = NoResult
    /\ pc[s] \notin {"receipt", "returned"} => ~Onchain(<<s, "swap">>)
    /\ pc[s] # "returned" => s \notin orders

\* The loop ends with its last look.
PollsOK == \A s \in Swaps : pc[s] # "returned" => polls[s] < MaxPolls

\* A returned call has one of the outcomes its callers know.
ResultsInContract ==
  \A s \in Swaps : pc[s] = "returned" => result[s] \in SwapOutcomes

\* A call has a nonce from when its swap is sent, and keeps it.
NonceOK ==
  \A s \in Swaps :
    /\ pc[s] \notin {"receipt", "returned"} => nonce[s] = 0
    /\ pc[s] = "receipt" => nonce[s] # 0
    /\ nonce[s] # 0 => KeepsNonce(s)

IInv ==
  /\ TypeOK
  /\ SentOK
  /\ PollsOK
  /\ ConfirmedIsMined
  /\ OneSwapPerCall
  /\ FailedMeansNotSent
  /\ NonceOK
  /\ SubmittedWasSent
  /\ ResultsInContract

-----------------------------------------------------------------------------
(* Induction.                                                              *)

\* The invariant holds before any call has started.
LEMMA InitInv == Init => IInv
BY PollsAssumption, NoTxAssumption
   DEF Init, IInv, TypeOK, SentOK, PollsOK, ConfirmedIsMined, OneSwapPerCall,
       FailedMeansNotSent, NonceOK, SubmittedWasSent, ResultsInContract, NoResult, Onchain,
       Txs

\* A call goes on to another request without touching its account.
LEMMA MoveStep ==
  ASSUME IInv, NEW s \in Swaps,
         NEW l \in {"approval", "quote", "order", "swap"},
         pc[s] \notin {"receipt", "returned"}, Goto(s, l),
         UNCHANGED <<dry, polls, chain, orders, lost>>
  PROVE  IInv'
<1> USE DEF IInv, Goto, chain
<1>1. TypeOK'
  BY DEF TypeOK
<1>2. SentOK' /\ PollsOK'
  BY DEF SentOK, PollsOK, TypeOK, Onchain
<1>3. ConfirmedIsMined' /\ OneSwapPerCall'
  BY DEF ConfirmedIsMined, OneSwapPerCall
<1>4. FailedMeansNotSent'
  BY DEF FailedMeansNotSent, Onchain
<1>5. ResultsInContract'
  BY DEF ResultsInContract, TypeOK
<1>6. NonceOK' /\ SubmittedWasSent'
  BY DEF NonceOK, SubmittedWasSent, KeepsNonce, At, TypeOK
<1> QED
  BY <1>1, <1>2, <1>3, <1>4, <1>5, <1>6

\* A call returns a result that the account bears out.
LEMMA ReturnStep ==
  ASSUME IInv, NEW s \in Swaps, NEW r \in SwapOutcomes,
         pc[s] # "returned", Return(s, r), UNCHANGED <<dry, chain>>,
         polls' \in [Swaps -> 0 .. MaxPolls],
         \A t \in Swaps \ {s} : polls'[t] = polls[t],
         orders \subseteq orders', orders' \subseteq orders \cup {s},
         lost \subseteq lost', lost' \subseteq lost \cup {s},
         r.status = "CONFIRMED" => \E i \in DOMAIN mined : mined[i] = <<s, "swap">>,
         r.status = "FAILED" /\ s \notin lost'
           => pc[s] # "receipt" /\ s \notin orders',
         r.status = "SUBMITTED" /\ ~dry => s \in orders' \/ nonce[s] # 0
  PROVE  IInv'
<1> USE DEF IInv, Return, chain
<1>0. \A t \in Swaps : /\ pc'[t] = IF t = s THEN "returned" ELSE pc[t]
                       /\ result'[t] = IF t = s THEN r ELSE result[t]
  BY DEF TypeOK
<1>1. TypeOK'
  BY DEF TypeOK, SwapOutcomes
<1>2. SentOK' /\ PollsOK'
  BY <1>0 DEF SentOK, PollsOK, Onchain
<1>3. ConfirmedIsMined'
  BY <1>0 DEF ConfirmedIsMined
<1>4. OneSwapPerCall'
  BY DEF OneSwapPerCall
<1>5. FailedMeansNotSent'
  BY <1>0 DEF FailedMeansNotSent, SentOK, Onchain
<1>6. ResultsInContract'
  BY <1>0 DEF ResultsInContract
<1>7. \A t \in Swaps : KeepsNonce(t)' <=> KeepsNonce(t)
  BY DEF KeepsNonce, At
<1>8. NonceOK'
  BY <1>0, <1>7 DEF NonceOK
<1>9. SubmittedWasSent'
  <2> SUFFICES ASSUME NEW t \in Swaps, result'[t].status = "SUBMITTED", ~dry
               PROVE  t \in orders' \/ KeepsNonce(t)
    BY <1>7 DEF SubmittedWasSent
  <2>1. CASE t = s
    BY <1>0, <2>1 DEF NonceOK
  <2>2. CASE t # s
    BY <1>0, <2>2 DEF SubmittedWasSent
  <2> QED
    BY <2>1, <2>2
<1> QED
  BY <1>1, <1>2, <1>3, <1>4, <1>5, <1>6, <1>8, <1>9

\* What the except clause returns is one of the outcomes.
LEMMA FailedOutcome ==
  ASSUME NEW s \in Swaps, Failed(s)
  PROVE  \E r \in SwapOutcomes : r.status = "FAILED" /\ Return(s, r)
<1>1. PICK err \in BOOLEAN : Return(s, [status |-> "FAILED", tx |-> FALSE, err |-> err])
  BY DEF Failed
<1>2. [status |-> "FAILED", tx |-> FALSE, err |-> err] \in SwapOutcomes
  BY DEF SwapOutcomes, SwapStatus
<1> QED
  BY <1>1, <1>2

\* A call fails before it has sent anything of its own.
LEMMA FailStep ==
  ASSUME IInv, NEW s \in Swaps, pc[s] \notin {"receipt", "returned"}, Failed(s),
         UNCHANGED <<dry, polls, chain>>,
         orders \subseteq orders', orders' \subseteq orders \cup {s},
         lost \subseteq lost', lost' \subseteq lost \cup {s},
         s \in orders' => s \in lost'
  PROVE  IInv'
<1>1. PICK r \in SwapOutcomes : r.status = "FAILED" /\ Return(s, r)
  BY FailedOutcome
<1>2. polls' \in [Swaps -> 0 .. MaxPolls]
  BY DEF IInv, TypeOK
<1> QED
  BY <1>1, <1>2, ReturnStep

\* The node takes a transaction of a call that has not sent its swap before,
\* in the place of whatever was pending; the call goes on or, not having
\* learned of it, fails.
LEMMA SendStep ==
  ASSUME IInv, NEW s \in Swaps, NEW kind \in {"approve", "swap"},
         pc[s] \notin {"receipt", "returned"}, ~dry,
         pool' = <<s, kind>>, UNCHANGED <<dry, polls, mined, orders>>,
         nonce' = IF kind = "swap" THEN [nonce EXCEPT ![s] = Len(mined) + 1] ELSE nonce,
         lost \subseteq lost', lost' \subseteq lost \cup {s},
         \/ \E l \in {"quote", "receipt"} :
              Goto(s, l) /\ (kind = "swap" <=> l = "receipt")
         \/ \E r \in SwapOutcomes :
              /\ r.status = "FAILED" /\ Return(s, r)
              /\ kind = "swap" => s \in lost'
  PROVE  IInv'
<1> USE DEF IInv
<1>1. \A t \in Swaps : <<t, "swap">> = <<s, kind>> => t = s /\ kind = "swap"
  OBVIOUS
<1>2. \A t \in Swaps : Onchain(<<t, "swap">>)' =>
                          Onchain(<<t, "swap">>) \/ (t = s /\ kind = "swap")
  BY <1>1 DEF Onchain
<1>3. /\ \A t \in Swaps \ {s} : pc'[t] = pc[t] /\ result'[t] = result[t]
      /\ \/ /\ pc'[s] \in {"quote", "receipt"}
            /\ kind = "swap" <=> pc'[s] = "receipt"
            /\ result'[s] = result[s]
         \/ /\ pc'[s] = "returned"
            /\ kind = "swap" => s \in lost'
            /\ result'[s] \in SwapOutcomes /\ result'[s].status = "FAILED"
  BY DEF Goto, Return, TypeOK
<1>4. TypeOK'
  <2>1. pool' \in Txs
    BY DEF Txs
  <2>2. /\ pc' \in [Swaps -> {"start", "approval", "quote", "order", "swap", "receipt",
                             "returned"}]
        /\ result' \in [Swaps -> [status : SwapStatus, tx : BOOLEAN, err : BOOLEAN]
                                  \cup {NoResult}]
    <3>1. SwapOutcomes \subseteq [status : SwapStatus, tx : BOOLEAN, err : BOOLEAN]
      BY DEF SwapOutcomes
    <3>2. CASE \E l \in {"quote", "receipt"} : Goto(s, l)
      BY <3>2 DEF Goto, TypeOK
    <3>3. CASE \E r \in SwapOutcomes : Return(s, r)
      BY <3>1, <3>3 DEF Return, TypeOK
    <3> QED
      BY <3>2, <3>3
  <2>3. nonce' \in [Swaps -> Nat]
    BY DEF TypeOK
  <2> QED
    BY <2>1, <2>2, <2>3 DEF TypeOK
<1>5. ~Onchain(<<s, "swap">>) /\ result[s] = NoResult /\ s \notin orders
  BY DEF SentOK
<1>6. SentOK'
  <2> SUFFICES ASSUME NEW t \in Swaps
               PROVE  /\ pc'[t] # "returned" => result'[t] = NoResult
                      /\ pc'[t] \notin {"receipt", "returned"} => ~Onchain(<<t, "swap">>)'
                      /\ pc'[t] # "returned" => t \notin orders'
    BY DEF SentOK
  <2>1. CASE t = s
    BY <1>2, <1>3, <1>5, <2>1
  <2>2. CASE t # s
    BY <1>2, <1>3, <2>2 DEF SentOK
  <2> QED
    BY <2>1, <2>2
<1>7. ConfirmedIsMined'
  BY <1>3, <1>5 DEF ConfirmedIsMined, NoResult
<1>8. OneSwapPerCall'
  BY <1>1, <1>5 DEF OneSwapPerCall, Onchain
<1>9. FailedMeansNotSent'
  BY <1>2, <1>3, <1>5 DEF FailedMeansNotSent, NoResult
<1>10. ResultsInContract'
  BY <1>3 DEF ResultsInContract
<1>11. PollsOK'
  BY <1>3 DEF PollsOK
<1>12. /\ nonce \in [Swaps -> Nat] /\ mined \in Seq(Txs)
       /\ Len(mined) \in Nat /\ DOMAIN mined = 1 .. Len(mined)
       /\ nonce[s] = 0
  BY DEF TypeOK, NonceOK
<1>13. /\ At(Len(mined) + 1)' = <<s, kind>>
       /\ \A n \in 1 .. Len(mined) : At(n)' = At(n)
  BY <1>12 DEF At
<1>14. ASSUME NEW t \in Swaps, nonce'[t] # 0
       PROVE  KeepsNonce(t)'
  <2>1. CASE t = s
    <3>1. kind = "swap" /\ nonce'[s] = Len(mined) + 1
      BY <1>12, <1>14, <2>1
    <3> QED
      BY <1>12, <1>13, <2>1, <3>1 DEF KeepsNonce
  <2>2. CASE t # s
    <3>1. nonce'[t] = nonce[t] /\ KeepsNonce(t)
      BY <1>12, <1>14, <2>2 DEF NonceOK
    <3>2. nonce[t] \in 1 .. Len(mined) + 1
      BY <3>1 DEF KeepsNonce
    <3>3. CASE nonce[t] = Len(mined) + 1
      <4>1. At(nonce[t])' = <<s, kind>> /\ s \in Swaps \ {t}
        BY <1>13, <2>2, <3>1, <3>3
      <4> QED
        BY <3>1, <3>2, <4>1 DEF KeepsNonce
    <3>4. CASE nonce[t] # Len(mined) + 1
      <4>1. At(nonce[t])' = At(nonce[t])
        BY <1>12, <1>13, <3>1, <3>2, <3>4
      <4> QED
        BY <3>1, <3>2, <4>1 DEF KeepsNonce
    <3> QED
      BY <3>3, <3>4
  <2> QED
    BY <2>1, <2>2
<1>15. NonceOK'
  <2>1. \A t \in Swaps \ {s} : nonce'[t] = nonce[t]
    BY <1>12
  <2>2. pc'[s] = "receipt" => nonce'[s] # 0
    BY <1>3, <1>12
  <2> QED
    BY <1>3, <1>12, <1>14, <2>1, <2>2 DEF NonceOK
<1>16. SubmittedWasSent'
  <2> SUFFICES ASSUME NEW t \in Swaps, result'[t].status = "SUBMITTED", ~dry
               PROVE  t \in orders \/ KeepsNonce(t)'
    BY DEF SubmittedWasSent
  <2>1. t # s
    BY <1>3, <1>5 DEF NoResult
  <2>2. t \in orders \/ KeepsNonce(t)
    BY <1>3, <2>1 DEF SubmittedWasSent
  <2>3. CASE KeepsNonce(t)
    BY <1>12, <1>14, <2>1, <2>3 DEF KeepsNonce
  <2> QED
    BY <2>2, <2>3
<1> QED
  BY <1>4, <1>6, <1>7, <1>8, <1>9, <1>10, <1>11, <1>15, <1>16

\* _broadcast with what the caller does about it.
LEMMA BroadcastStep ==
  ASSUME IInv, NEW s \in Swaps, NEW kind \in {"approve", "swap"},
         NEW how \in {"sent", "lost", "refused"},
         pc[s] \notin {"receipt", "returned"}, ~dry,
         Broadcast(s, kind, how), UNCHANGED <<dry, polls, orders>>,
         IF how = "sent"
           THEN Goto(s, IF kind = "swap" THEN "receipt" ELSE "quote")
           ELSE Failed(s)
  PROVE  IInv'
<1>1. CASE how = "refused"
  <2>1. s \notin orders
    BY DEF IInv, SentOK
  <2> QED
    BY <1>1, <2>1, FailStep DEF Broadcast
<1>2. CASE how = "lost"
  <2>1. PICK r \in SwapOutcomes : r.status = "FAILED" /\ Return(s, r)
    BY <1>2, FailedOutcome
  <2> QED
    BY <1>2, <2>1, SendStep DEF Broadcast
<1>3. CASE how = "sent"
  BY <1>3, SendStep DEF Broadcast
<1> QED
  BY <1>1, <1>2, <1>3

\* A block takes the pending transaction.
LEMMA MineStep ==
  ASSUME IInv, Mine
  PROVE  IInv'
<1> USE NoTxAssumption DEF IInv, Mine
<1>1. /\ pool \in Txs /\ mined \in Seq(Txs) /\ Len(mined) \in Nat
      /\ mined' = Append(mined, pool)
  BY DEF TypeOK
<1>2. /\ DOMAIN mined = 1 .. Len(mined) /\ DOMAIN mined' = 1 .. Len(mined) + 1
      /\ \A i \in DOMAIN mined : mined'[i] = mined[i]
      /\ mined'[Len(mined) + 1] = pool
  BY <1>1
<1>3. \A i \in DOMAIN mined' : i \in DOMAIN mined \/ i = Len(mined) + 1
  BY <1>1, <1>2
<1>4. \A t \in Txs : Onchain(t)' => Onchain(t)
  BY <1>2, <1>3 DEF Onchain
<1>5. TypeOK'
  BY <1>1 DEF TypeOK
<1>6. SentOK' /\ FailedMeansNotSent'
  BY <1>4 DEF SentOK, FailedMeansNotSent, Txs
<1>7. ConfirmedIsMined'
  <2>1. DOMAIN mined \subseteq DOMAIN mined'
    BY <1>1, <1>2
  <2> QED
    BY <1>2, <2>1 DEF ConfirmedIsMined
<1>8. OneSwapPerCall'
  <2> SUFFICES ASSUME NEW s \in Swaps, NEW i \in DOMAIN mined',
                      mined'[i] = <<s, "swap">>
               PROVE  /\ \A j \in DOMAIN mined' : mined'[j] = <<s, "swap">> => j = i
                      /\ pool' # <<s, "swap">>
    BY DEF OneSwapPerCall
  <2>1. pool' # <<s, "swap">>
    BY DEF Txs
  <2>2. CASE i \in DOMAIN mined
    <3>1. pool # <<s, "swap">>
      BY <1>2, <2>2 DEF OneSwapPerCall
    <3> QED
      BY <1>2, <1>3, <2>1, <2>2, <3>1 DEF OneSwapPerCall
  <2>3. CASE i = Len(mined) + 1
    <3>1. \A j \in DOMAIN mined : mined[j] # <<s, "swap">>
      BY <1>2, <2>3 DEF OneSwapPerCall
    <3> QED
      BY <1>2, <1>3, <2>1, <2>3, <3>1
  <2> QED
    BY <1>3, <2>2, <2>3
<1>9. ResultsInContract' /\ PollsOK'
  BY DEF ResultsInContract, PollsOK
<1>10. \A s \in Swaps : KeepsNonce(s) => KeepsNonce(s)'
  <2> SUFFICES ASSUME NEW s \in Swaps, KeepsNonce(s)
               PROVE  KeepsNonce(s)'
    OBVIOUS
  <2>1. nonce[s] \in 1 .. Len(mined) + 1 /\ nonce'[s] = nonce[s]
    BY DEF KeepsNonce
  <2>2. Len(mined') = Len(mined) + 1
    BY <1>1
  <2>3. At(nonce[s])' = At(nonce[s])
    BY <1>1, <1>2, <2>1 DEF At
  <2> QED
    BY <1>1, <2>1, <2>2, <2>3 DEF KeepsNonce
<1>11. NonceOK' /\ SubmittedWasSent'
  BY <1>10 DEF NonceOK, SubmittedWasSent
<1> QED
  BY <1>5, <1>6, <1>7, <1>8, <1>9, <1>11

\* Every step of a call and of the chain keeps the invariant.
LEMMA NextInv == IInv /\ [Next]_vars => IInv'
<1> SUFFICES ASSUME IInv, [Next]_vars
             PROVE  IInv'
  OBVIOUS
<1>1. ASSUME NEW s \in Swaps, NEW native \in BOOLEAN, Start(s, native)
      PROVE  IInv'
  BY <1>1, MoveStep DEF Start
<1>2. ASSUME NEW s \in Swaps, Approved(s) \/ \E order \in BOOLEAN : Quoted(s, order)
      PROVE  IInv'
  BY <1>2, MoveStep DEF Approved, Quoted
<1>3. ASSUME NEW s \in Swaps, NEW how \in {"sent", "lost", "refused"},
             Approve(s, how) \/ SwapSent(s, how)
      PROVE  IInv'
  BY <1>3, BroadcastStep DEF Approve, SwapSent
<1>4. ASSUME NEW s \in Swaps, RequestFails(s)
      PROVE  IInv'
  <2>1. s \notin orders
    BY <1>4 DEF IInv, SentOK, RequestFails
  <2> QED
    BY <1>4, <2>1, FailStep DEF RequestFails
<1>5. ASSUME NEW s \in Swaps, NEW tx \in BOOLEAN, OrderDone(s, tx)
      PROVE  IInv'
  <2> DEFINE r == [status |-> "SUBMITTED", tx |-> tx, err |-> FALSE]
  <2>1. r \in SwapOutcomes /\ r.status = "SUBMITTED"
    BY DEF SwapOutcomes, SwapStatus
  <2>2. Return(s, r) /\ polls' \in [Swaps -> 0 .. MaxPolls]
    BY <1>5 DEF OrderDone, IInv, TypeOK
  <2> HIDE DEF r
  <2> QED
    BY <1>5, <2>1, <2>2, ReturnStep DEF OrderDone
<1>6. ASSUME NEW s \in Swaps, NEW took \in BOOLEAN, OrderFails(s, took)
      PROVE  IInv'
  <2>1. s \notin orders
    BY <1>6 DEF IInv, SentOK, OrderFails
  <2> QED
    BY <1>6, <2>1, FailStep DEF OrderFails
<1>7. ASSUME NEW s \in Swaps, SwapSimulated(s)
      PROVE  IInv'
  <2> DEFINE r == [status |-> "SUBMITTED", tx |-> TRUE, err |-> FALSE]
  <2>1. r \in SwapOutcomes /\ r.status = "SUBMITTED"
    BY DEF SwapOutcomes, SwapStatus
  <2>2. Return(s, r) /\ polls' \in [Swaps -> 0 .. MaxPolls]
    BY <1>7 DEF SwapSimulated, IInv, TypeOK
  <2> HIDE DEF r
  <2> QED
    BY <1>7, <2>1, <2>2, ReturnStep DEF SwapSimulated
<1>8. ASSUME NEW s \in Swaps, ReceiptFound(s)
      PROVE  IInv'
  <2> DEFINE r == [status |-> "CONFIRMED", tx |-> TRUE, err |-> FALSE]
  <2>1. r \in SwapOutcomes /\ r.status = "CONFIRMED"
    BY DEF SwapOutcomes, SwapStatus
  <2>2. Return(s, r) /\ polls' \in [Swaps -> 0 .. MaxPolls]
    BY <1>8 DEF ReceiptFound, IInv, TypeOK
  <2> HIDE DEF r
  <2> QED
    BY <1>8, <2>1, <2>2, ReturnStep DEF ReceiptFound
<1>9. ASSUME NEW s \in Swaps, ReceiptMissing(s)
      PROVE  IInv'
  <2> DEFINE r == [status |-> "SUBMITTED", tx |-> TRUE, err |-> FALSE]
  <2>1. r \in SwapOutcomes /\ r.status = "SUBMITTED"
    BY DEF SwapOutcomes, SwapStatus
  <2> HIDE DEF r
  <2>2. CASE polls'[s] = MaxPolls
    <3>1. Return(s, r)
      BY <1>9, <2>2 DEF ReceiptMissing, r
    <3>2. polls' \in [Swaps -> 0 .. MaxPolls]
      BY <1>9, <2>2, PollsAssumption DEF ReceiptMissing, IInv, TypeOK
    <3>3. nonce[s] # 0 /\ pc[s] = "receipt"
      BY <1>9 DEF ReceiptMissing, IInv, NonceOK
    <3>4. /\ UNCHANGED <<dry, chain, orders, lost>>
          /\ \A t \in Swaps \ {s} : polls'[t] = polls[t]
      BY <1>9 DEF ReceiptMissing, IInv, TypeOK
    <3> QED
      BY <2>1, <3>1, <3>2, <3>3, <3>4, ReturnStep
  <2>3. CASE polls'[s] # MaxPolls
    <3>1. UNCHANGED <<dry, pc, result, pool, mined, nonce, orders, lost>>
      BY <1>9, <2>3 DEF ReceiptMissing, Goto, chain, IInv, TypeOK
    <3>2. polls' \in [Swaps -> 0 .. MaxPolls] /\ PollsOK'
      <4>0. polls' = [polls EXCEPT ![s] = polls[s] + 1] /\ pc[s] = "receipt"
        BY <1>9 DEF ReceiptMissing
      <4>1. polls[s] + 1 \in 0 .. MaxPolls /\ polls'[s] = polls[s] + 1
        <5>1. polls \in [Swaps -> 0 .. MaxPolls]
          BY DEF IInv, TypeOK
        <5>2. polls[s] < MaxPolls
          BY <4>0 DEF IInv, PollsOK
        <5>3. polls[s] \in 0 .. MaxPolls /\ polls'[s] = polls[s] + 1
          BY <4>0, <5>1
        <5> QED BY <5>2, <5>3, PollsAssumption
      <4>2. polls'[s] < MaxPolls
        BY <2>3, <4>1, PollsAssumption
      <4> QED
        BY <3>1, <4>0, <4>1, <4>2 DEF IInv, TypeOK, PollsOK
    <3> QED
      BY <3>1, <3>2 DEF IInv, TypeOK, SentOK, ConfirmedIsMined, OneSwapPerCall,
         FailedMeansNotSent, NonceOK, SubmittedWasSent, KeepsNonce, At,
         ResultsInContract, Onchain
  <2> QED
    BY <2>2, <2>3
<1>10. CASE UNCHANGED vars
  BY <1>10 DEF vars, IInv, TypeOK, SentOK, PollsOK, ConfirmedIsMined, OneSwapPerCall,
     FailedMeansNotSent, NonceOK, SubmittedWasSent, KeepsNonce, At, ResultsInContract,
     Onchain
<1> QED
  BY <1>1, <1>2, <1>3, <1>4, <1>5, <1>6, <1>7, <1>8, <1>9, <1>10, MineStep
     DEF Next, Step, Ended

\* Calls and account keep their types, and a call looks for its receipt
\* MaxPolls times at most.
THEOREM TypeCorrect == Spec => []TypeOK
<1>1. IInv => TypeOK
  BY DEF IInv
<1> QED
  BY InitInv, NextInv, <1>1, PTL DEF Spec

\* CONFIRMED is only said of a swap of this very call that is in a block.
THEOREM ConfirmedSafe == Spec => []ConfirmedIsMined
<1>1. IInv => ConfirmedIsMined
  BY DEF IInv
<1> QED
  BY InitInv, NextInv, <1>1, PTL DEF Spec

\* execute_swap puts no more than one swap on the chain, whatever is lost or
\* replaced on the way.
THEOREM OneSwapSafe == Spec => []OneSwapPerCall
<1>1. IInv => OneSwapPerCall
  BY DEF IInv
<1> QED
  BY InitInv, NextInv, <1>1, PTL DEF Spec

\* FAILED is said of nothing that was sent, lost answers to the send aside.
THEOREM FailedSafe == Spec => []FailedMeansNotSent
<1>1. IInv => FailedMeansNotSent
  BY DEF IInv
<1> QED
  BY InitInv, NextInv, <1>1, PTL DEF Spec

\* SUBMITTED is said of what was sent: if the swap is not on the chain, another
\* call of the wallet has its nonce.
THEOREM SubmittedSafe == Spec => []SubmittedWasSent
<1>1. IInv => SubmittedWasSent
  BY DEF IInv
<1> QED
  BY InitInv, NextInv, <1>1, PTL DEF Spec

\* A step of one call leaves the others where they are, and a call that it
\* makes return had no result before.
LEMMA OneReturns ==
  ASSUME IInv, [Next]_vars
  PROVE  \/ UNCHANGED result
         \/ \E s \in Swaps : pc[s] # "returned" /\ \E r : Return(s, r)
<1>1. ASSUME NEW s \in Swaps, NEW native \in BOOLEAN, Start(s, native)
      PROVE  UNCHANGED result
  BY <1>1 DEF Start, Goto
<1>2. ASSUME NEW s \in Swaps, Step(s)
      PROVE  UNCHANGED result \/ (pc[s] # "returned" /\ \E r : Return(s, r))
  BY <1>2 DEF Step, Approved, Approve, SwapSent, Quoted, RequestFails, OrderDone, OrderFails,
              SwapSimulated, ReceiptFound, ReceiptMissing, Goto, Failed
<1>3. CASE Mine \/ UNCHANGED vars
  BY <1>3 DEF Mine, vars
<1> QED
  BY <1>1, <1>2, <1>3 DEF Next, Ended

\* SwapExecutor keeps the promise of execute_swap: the callers written for
\* KeeperHubSwapExecutor can be given it instead.
THEOREM PromiseKept == Spec => KeepsPromise
<1>1. Init => Promise!Init
  BY DEF Init, Promise!Init
<1>2. ASSUME IInv, IInv', [Next]_vars
      PROVE  [Promise!Next]_result
  <2>1. CASE UNCHANGED result
    BY <2>1
  <2>2. ASSUME NEW s \in Swaps, NEW r, pc[s] # "returned", Return(s, r)
        PROVE  Promise!Next
    <3>1. result[s] = NoResult
      BY <1>2, <2>2 DEF IInv, SentOK
    <3>2. result' = [result EXCEPT ![s] = r] /\ result'[s] = r /\ pc'[s] = "returned"
      BY <1>2, <2>2 DEF Return, IInv, TypeOK
    <3>3. r \in SwapOutcomes
      BY <1>2, <3>2 DEF IInv, ResultsInContract
    <3>4. r \in Promise!SwapOutcomes
      BY <3>3 DEF SwapOutcomes, Promise!SwapOutcomes, SwapStatus, Promise!SwapStatus
    <3> QED
      BY <3>1, <3>2, <3>4 DEF Promise!Next, Promise!Returns
  <2> QED
    BY <1>2, <2>1, <2>2, OneReturns
<1> QED
  BY <1>1, <1>2, InitInv, NextInv, PTL DEF Spec, KeepsPromise, Promise!Spec

-----------------------------------------------------------------------------
(* How long execute_swap can go on.                                        *)

\* The answers and looks for a receipt that a call can still wait for.
Work(s) ==
  CASE pc[s] = "start"             -> MaxPolls + 4
    [] pc[s] = "approval"          -> MaxPolls + 3
    [] pc[s] = "quote"             -> MaxPolls + 2
    [] pc[s] \in {"order", "swap"} -> MaxPolls + 1
    [] pc[s] = "receipt"           -> MaxPolls - polls[s]
    [] OTHER                       -> 0

\* The steps of a call, its first one included.
OwnStep(s) == Step(s) \/ \E native \in BOOLEAN : Start(s, native)

\* A step of a call uses some of its work up, and nothing else does, or gives
\* it more: not the chain, and not the other calls of the wallet.
WorkIsUsedUp ==
  [][\A s \in Swaps : /\ OwnStep(s)  => Work(s)' < Work(s)
                      /\ ~OwnStep(s) => Work(s)' = Work(s)]_vars

\* The work left is a number, and none is left of a call that returned.
LEMMA WorkIsNat ==
  ASSUME IInv, NEW s \in Swaps
  PROVE  /\ Work(s) \in 0 .. MaxPolls + 4
         /\ Work(s) = 0 <=> pc[s] = "returned"
<1>1. /\ pc[s] \in {"start", "approval", "quote", "order", "swap", "receipt", "returned"}
      /\ polls[s] \in 0 .. MaxPolls
      /\ pc[s] = "receipt" => polls[s] < MaxPolls
  BY DEF IInv, TypeOK, PollsOK
<1> QED
  BY <1>1, PollsAssumption DEF Work

\* A step moves one call and leaves the others where they are.
LEMMA OthersKeepWork ==
  ASSUME IInv, NEW s \in Swaps, NEW r \in Swaps \ {s}, OwnStep(r)
  PROVE  Work(s)' = Work(s)
<1>1. pc'[s] = pc[s] /\ polls'[s] = polls[s]
  BY DEF IInv, TypeOK, OwnStep, Step, Start, Goto, Return, Failed, Approved, Approve, Quoted,
         RequestFails, OrderDone, OrderFails, SwapSimulated, SwapSent, ReceiptFound,
         ReceiptMissing
<1> QED
  BY <1>1 DEF Work

\* Whatever the answer is, it brings the call nearer to its end.
LEMMA StepUsesWork ==
  ASSUME IInv, NEW s \in Swaps, OwnStep(s)
  PROVE  Work(s)' < Work(s)
<1>1. /\ pc \in [Swaps -> {"start", "approval", "quote", "order", "swap", "receipt",
                           "returned"}]
      /\ polls \in [Swaps -> 0 .. MaxPolls]
      /\ polls[s] \in 0 .. MaxPolls /\ MaxPolls \in Nat
      /\ pc[s] # "returned" => polls[s] < MaxPolls
  BY PollsAssumption DEF IInv, TypeOK, PollsOK
<1>2. CASE \E native \in BOOLEAN : Start(s, native)
  <2>1. pc[s] = "start" /\ pc'[s] \in {"approval", "quote"}
    BY <1>1, <1>2 DEF Start, Goto
  <2> QED BY <1>1, <2>1 DEF Work
<1>3. CASE Approved(s) \/ \E how \in {"sent", "lost", "refused"} : Approve(s, how)
  <2>1. pc[s] = "approval" /\ pc'[s] \in {"quote", "returned"}
    BY <1>1, <1>3 DEF Approved, Approve, Goto, Failed, Return
  <2> QED BY <1>1, <2>1 DEF Work
<1>4. CASE \E order \in BOOLEAN : Quoted(s, order)
  <2>1. pc[s] = "quote" /\ pc'[s] \in {"order", "swap"}
    BY <1>1, <1>4 DEF Quoted, Goto
  <2> QED BY <1>1, <2>1 DEF Work
<1>5. CASE \/ RequestFails(s) \/ SwapSimulated(s)
           \/ \E tx \in BOOLEAN : OrderDone(s, tx)
           \/ \E took \in BOOLEAN : OrderFails(s, took)
  <2>1. pc[s] \in {"approval", "quote", "order", "swap"} /\ pc'[s] = "returned"
    BY <1>1, <1>5 DEF RequestFails, SwapSimulated, OrderDone, OrderFails, Failed, Return
  <2> QED BY <1>1, <2>1 DEF Work
<1>6. CASE \E how \in {"sent", "lost", "refused"} : SwapSent(s, how)
  <2>1. /\ pc[s] = "swap" /\ pc'[s] \in {"receipt", "returned"}
        /\ polls'[s] = polls[s]
    BY <1>1, <1>6 DEF SwapSent, Goto, Failed, Return
  <2> QED BY <1>1, <2>1 DEF Work
<1>7. CASE ReceiptFound(s) \/ ReceiptMissing(s)
  <2>1. /\ pc[s] = "receipt"
        /\ pc'[s] = "returned" \/ (pc'[s] = "receipt" /\ polls'[s] = polls[s] + 1)
    <3>1. CASE ReceiptFound(s)
      BY <1>1, <3>1 DEF ReceiptFound, Return
    <3>2. CASE ReceiptMissing(s)
      <4>1. pc[s] = "receipt" /\ polls'[s] = polls[s] + 1
        BY <1>1, <3>2 DEF ReceiptMissing
      <4>2. pc'[s] \in {"returned", "receipt"}
        BY <1>1, <3>2 DEF ReceiptMissing, Goto, Return
      <4> QED BY <4>1, <4>2
    <3> QED BY <1>7, <3>1, <3>2
  <2> QED BY <1>1, <2>1 DEF Work
<1> QED
  BY <1>2, <1>3, <1>4, <1>5, <1>6, <1>7 DEF OwnStep, Step

\* A call of execute_swap takes at most MaxPolls + 4 steps, mined or not, and
\* whatever the other calls of the wallet do to its transaction.  With the
\* fairness of FairSpec, that is why CallsReturn holds.
THEOREM WorkSafe == Spec => WorkIsUsedUp
<1>1. ASSUME IInv, Next
      PROVE  \A s \in Swaps : /\ OwnStep(s)  => Work(s)' < Work(s)
                              /\ ~OwnStep(s) => Work(s)' = Work(s)
  <2> SUFFICES ASSUME NEW s \in Swaps, ~OwnStep(s)
               PROVE  Work(s)' = Work(s)
    BY <1>1, StepUsesWork
  <2>1. CASE Mine \/ UNCHANGED vars
    BY <2>1 DEF Mine, vars, Work
  <2>2. ASSUME NEW r \in Swaps, OwnStep(r)
        PROVE  Work(s)' = Work(s)
    <3>1. r \in Swaps \ {s}
      BY <2>2
    <3> QED BY <1>1, <2>2, <3>1, OthersKeepWork
  <2> QED BY <1>1, <2>1, <2>2 DEF Next, OwnStep
<1>2. Spec => []IInv
  BY InitInv, NextInv, PTL DEF Spec
<1> QED
  BY <1>1, <1>2, PTL DEF Spec, WorkIsUsedUp
=============================================================================
