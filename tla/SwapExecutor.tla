---------------------------- MODULE SwapExecutor ----------------------------
(***************************************************************************)
(* SwapExecutor.execute_swap (core/uniswap/executor.py): approval, quote,  *)
(* permit, transaction or order, broadcast with the local key, receipt.    *)
(*                                                                         *)
(* Calls of one wallet share its account: every transaction is sent with   *)
(* the number of those already mined as its nonce, so that the wallet has  *)
(* at most one transaction pending, and the node (external) refuses a      *)
(* second one or puts it in the place of the first.  web3 is called        *)
(* without an await: between two awaits of a call only the chain moves.    *)
(* (The first look for a receipt follows the send at once; to let other    *)
(* calls in between adds only what they do before the second look.)        *)
(***************************************************************************)
EXTENDS Integers, Sequences, SwapContract

CONSTANTS Swaps,     \* calls of execute_swap with one wallet
          MaxPolls,  \* _MAX_POLL_TRIES
          NoTx

Txs == Swaps \X {"approve", "swap"}

ASSUME PollsAssumption == MaxPolls \in Nat \ {0}
ASSUME NoTxAssumption  == NoTx \notin Txs

VARIABLES
  dry,      \* _dry_run: no private key
  pc,       \* the await at which a call is suspended
  polls,    \* looks for the receipt so far
  result,   \* status of the SwapResult, whether it has a tx_hash and an error
  pool,     \* the pending transaction of the wallet
  mined,    \* its transactions on the chain, in the order of their nonces
  nonce,    \* under which the swap of a call was sent, counted from 1; 0 before
  orders,   \* calls whose order UniswapX has accepted
  lost      \* history: calls that did not learn that a request took effect

chain == <<pool, mined, nonce>>
vars  == <<dry, pc, polls, result, pool, mined, nonce, orders, lost>>

NoResult == [status |-> "none", tx |-> FALSE, err |-> FALSE]

Goto(s, l) == pc' = [pc EXCEPT ![s] = l] /\ UNCHANGED result

Return(s, r) ==
  /\ pc' = [pc EXCEPT ![s] = "returned"]
  /\ result' = [result EXCEPT ![s] = r]

\* The except clause: the text of an exception may be empty.
Failed(s) ==
  \E err \in BOOLEAN : Return(s, [status |-> "FAILED", tx |-> FALSE, err |-> err])

Onchain(t) == pool = t \/ \E i \in DOMAIN mined : mined[i] = t

\* The transaction that has a nonce of the wallet.
At(n) == IF n \in DOMAIN mined THEN mined[n] ELSE pool

-----------------------------------------------------------------------------
(* The wallet's account.                                                   *)

\* _broadcast.  how = "lost": the node took the transaction and its answer did
\* not arrive; "refused": anything that raises before the node took it.
Broadcast(s, kind, how) ==
  /\ IF how = "refused"
       THEN UNCHANGED chain
       ELSE /\ pool' = <<s, kind>>
            /\ nonce' = IF kind = "swap" THEN [nonce EXCEPT ![s] = Len(mined) + 1]
                                         ELSE nonce
            /\ UNCHANGED mined
  /\ lost' = IF how = "lost" /\ kind = "swap" THEN lost \cup {s} ELSE lost

\* The pending transaction gets into a block, whether it reverts there or not:
\* the code does not look.
Mine ==
  /\ pool # NoTx
  /\ mined' = Append(mined, pool)
  /\ pool' = NoTx
  /\ UNCHANGED <<dry, pc, polls, result, nonce, orders, lost>>

-----------------------------------------------------------------------------
(* execute_swap.                                                           *)

\* The native token needs no approval.
Start(s, native) ==
  /\ pc[s] = "start"
  /\ Goto(s, IF native THEN "quote" ELSE "approval")
  /\ UNCHANGED <<dry, polls, chain, orders, lost>>

\* _ensure_approval, when nothing is to be approved, or in a dry run.
Approved(s) ==
  /\ pc[s] = "approval"
  /\ Goto(s, "quote")
  /\ UNCHANGED <<dry, polls, chain, orders, lost>>

\* _ensure_approval: the approval is sent, and not waited for.
Approve(s, how) ==
  /\ pc[s] = "approval"
  /\ ~dry
  /\ Broadcast(s, "approve", how)
  /\ IF how = "sent" THEN Goto(s, "quote") ELSE Failed(s)
  /\ UNCHANGED <<dry, polls, orders>>

\* The quote arrives, and its permit, if any, is signed; the routing tells
\* which endpoint is next.
Quoted(s, order) ==
  /\ pc[s] = "quote"
  /\ Goto(s, IF order THEN "order" ELSE "swap")
  /\ UNCHANGED <<dry, polls, chain, orders, lost>>

\* A request raises once its retries are used up, an answer does not parse, a
\* permit cannot be signed or the transaction has no data.
RequestFails(s) ==
  /\ pc[s] \in {"approval", "quote", "swap"}
  /\ Failed(s)
  /\ UNCHANGED <<dry, polls, chain, orders, lost>>

\* _submit_order, in a dry run too; an answer without an orderId gives "".
OrderDone(s, tx) ==
  /\ pc[s] = "order"
  /\ Return(s, [status |-> "SUBMITTED", tx |-> tx, err |-> FALSE])
  /\ orders' = orders \cup {s}
  /\ UNCHANGED <<dry, polls, chain, lost>>

\* The answer does not arrive, or has nothing the result can be made of.
OrderFails(s, took) ==
  /\ pc[s] = "order"
  /\ Failed(s)
  /\ orders' = IF took THEN orders \cup {s} ELSE orders
  /\ lost' = IF took THEN lost \cup {s} ELSE lost
  /\ UNCHANGED <<dry, polls, chain>>

\* _submit_swap without a key: the mock hash is returned.
SwapSimulated(s) ==
  /\ pc[s] = "swap"
  /\ dry
  /\ Return(s, [status |-> "SUBMITTED", tx |-> TRUE, err |-> FALSE])
  /\ UNCHANGED <<dry, polls, chain, orders, lost>>

\* Mutant: a swap that could not be sent is built and sent again.
SwapSentAgain(s, how) ==
  /\ pc[s] = "swap"
  /\ ~dry
  /\ Broadcast(s, "swap", how)
  /\ Goto(s, IF how = "sent" THEN "receipt" ELSE "swap")
  /\ UNCHANGED <<dry, polls, orders>>

\* Mutant: the hash is computed here, and waited for whatever the node says.
SwapSentAnyway(s, how) ==
  /\ pc[s] = "swap"
  /\ ~dry
  /\ Broadcast(s, "swap", how)
  /\ Goto(s, "receipt")
  /\ UNCHANGED <<dry, polls, orders>>

\* _submit_swap: the transaction is sent as soon as it is built.
SwapSent(s, how) ==
  /\ pc[s] = "swap"
  /\ ~dry
  /\ Broadcast(s, "swap", how)
  /\ IF how = "sent" THEN Goto(s, "receipt") ELSE Failed(s)
  /\ UNCHANGED <<dry, polls, orders>>

\* _wait_for_receipt: there is a receipt.
ReceiptFound(s) ==
  /\ pc[s] = "receipt"
  /\ \E i \in DOMAIN mined : mined[i] = <<s, "swap">>
  /\ Return(s, [status |-> "CONFIRMED", tx |-> TRUE, err |-> FALSE])
  /\ UNCHANGED <<dry, polls, chain, orders, lost>>

\* Mutant: an exception of the node leaves the loop.
ReceiptRaises(s) ==
  /\ pc[s] = "receipt"
  /\ Failed(s)
  /\ UNCHANGED <<dry, polls, chain, orders, lost>>

\* Mutant: the last look is taken for a confirmation.
ReceiptAssumed(s) ==
  /\ pc[s] = "receipt"
  /\ polls' = [polls EXCEPT ![s] = polls[s] + 1]
  /\ IF polls'[s] = MaxPolls
       THEN Return(s, [status |-> "CONFIRMED", tx |-> TRUE, err |-> FALSE])
       ELSE Goto(s, "receipt")
  /\ UNCHANGED <<dry, chain, orders, lost>>

\* Mutant: the loop does not count.
ReceiptUncounted(s) ==
  /\ pc[s] = "receipt"
  /\ Goto(s, "receipt")
  /\ UNCHANGED <<dry, polls, chain, orders, lost>>

\* Mutant: the timeout is reported as an error of a submitted swap.
ReceiptBlamed(s) ==
  /\ pc[s] = "receipt"
  /\ polls' = [polls EXCEPT ![s] = polls[s] + 1]
  /\ IF polls'[s] = MaxPolls
       THEN Return(s, [status |-> "SUBMITTED", tx |-> TRUE, err |-> TRUE])
       ELSE Goto(s, "receipt")
  /\ UNCHANGED <<dry, chain, orders, lost>>

\* _wait_for_receipt: there is none yet, or the node fails, which is ignored.
ReceiptMissing(s) ==
  /\ pc[s] = "receipt"
  /\ polls' = [polls EXCEPT ![s] = polls[s] + 1]
  /\ IF polls'[s] = MaxPolls
       THEN Return(s, [status |-> "SUBMITTED", tx |-> TRUE, err |-> FALSE])
       ELSE Goto(s, "receipt")
  /\ UNCHANGED <<dry, chain, orders, lost>>

-----------------------------------------------------------------------------

Init ==
  /\ dry    \in BOOLEAN
  /\ pc     = [s \in Swaps |-> "start"]
  /\ polls  = [s \in Swaps |-> 0]
  /\ result = [s \in Swaps |-> NoResult]
  /\ pool   = NoTx
  /\ mined  = <<>>
  /\ nonce  = [s \in Swaps |-> 0]
  /\ orders = {}
  /\ lost   = {}

Step(s) ==
  \/ Approved(s)
  \/ \E how \in {"sent", "lost", "refused"} : Approve(s, how) \/ SwapSent(s, how)
  \/ \E order \in BOOLEAN : Quoted(s, order)
  \/ RequestFails(s)
  \/ \E tx \in BOOLEAN : OrderDone(s, tx)
  \/ \E took \in BOOLEAN : OrderFails(s, took)
  \/ SwapSimulated(s)
  \/ ReceiptFound(s)
  \/ ReceiptMissing(s)

Ended == \A s \in Swaps : pc[s] = "returned"

Next ==
  \/ \E s \in Swaps, native \in BOOLEAN : Start(s, native)
  \/ \E s \in Swaps : Step(s)
  \/ Mine
  \/ Ended /\ UNCHANGED vars

Spec == Init /\ [][Next]_vars

\* The event loop resumes a suspended call and every request has a timeout.
\* Nothing is assumed of the chain.
FairSpec == Spec /\ \A s \in Swaps : WF_vars(Step(s))

-----------------------------------------------------------------------------
(* Properties.                                                             *)

\* The shape of calls, results and the account; looks for a receipt are
\* bounded.
TypeOK ==
  /\ dry    \in BOOLEAN
  /\ pc     \in [Swaps -> {"start", "approval", "quote", "order", "swap", "receipt",
                          "returned"}]
  /\ polls  \in [Swaps -> 0 .. MaxPolls]
  /\ result \in [Swaps -> [status : SwapStatus, tx : BOOLEAN, err : BOOLEAN]
                          \cup {NoResult}]
  /\ pool   \in Txs \cup {NoTx}
  /\ mined  \in Seq(Txs)
  /\ nonce  \in [Swaps -> Nat]
  /\ orders \subseteq Swaps
  /\ lost   \subseteq Swaps

\* A call reports CONFIRMED only for its own swap and when that is in a block,
\* however calls replace each other's transactions and whichever looks fail.
ConfirmedIsMined ==
  \A s \in Swaps :
    result[s].status = "CONFIRMED" => \E i \in DOMAIN mined : mined[i] = <<s, "swap">>

\* One call swaps once: with answers lost, transactions replaced and mined at
\* any moment, its swap is in one block at most and not pending again after.
OneSwapPerCall ==
  \A s \in Swaps, i \in DOMAIN mined :
    mined[i] = <<s, "swap">> =>
      /\ \A j \in DOMAIN mined : mined[j] = <<s, "swap">> => j = i
      /\ pool # <<s, "swap">>

\* A FAILED result is about a swap that was not sent and an order that was not
\* placed, unless the answer to that very request was lost or unusable: nothing
\* that goes wrong after an answered send makes a swap look as if it had failed.
FailedMeansNotSent ==
  \A s \in Swaps :
    result[s].status = "FAILED" /\ s \notin lost
      => ~Onchain(<<s, "swap">>) /\ s \notin orders

\* The nonce of a call's swap is the swap's own, or that of another call, never
\* free and never back with the call's own approval.
KeepsNonce(s) ==
  /\ nonce[s] \in 1 .. Len(mined) + 1
  /\ \/ At(nonce[s]) = <<s, "swap">>
     \/ At(nonce[s]) \in (Swaps \ {s}) \X {"approve", "swap"}

\* SUBMITTED with a key stands for an order that UniswapX took or a swap that the
\* node took, which is pending or in a block unless another call of the wallet
\* sent something under the same nonce.  Refusals, lost answers and timeouts do
\* not end as SUBMITTED of something that was never sent.
SubmittedWasSent ==
  \A s \in Swaps :
    result[s].status = "SUBMITTED" /\ ~dry => s \in orders \/ KeepsNonce(s)

\* Callers written for the results of KeeperHubSwapExecutor get the same kinds
\* of result from this one, each call once and for good.
Promise == INSTANCE SwapPromise WITH Calls <- Swaps, Pending <- NoResult, outcome <- result

KeepsPromise == Promise!Spec

\* execute_swap returns, even if nothing it sent is ever mined.
CallsReturn == \A s \in Swaps : pc[s] # "start" ~> pc[s] = "returned"
=============================================================================
