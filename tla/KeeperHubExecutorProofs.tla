---------------------- MODULE KeeperHubExecutorProofs ----------------------
(***************************************************************************)
(* Proofs about KeeperHubExecutor, for any set of concurrent calls, any    *)
(* retry budget and any poll budget.                                       *)
(***************************************************************************)
EXTENDS KeeperHubExecutor, TLAPS

-----------------------------------------------------------------------------
(* The inductive invariant.                                                *)

\* The service has a transfer on the chain behind every success it reports.
ServiceOK == \A e \in Execs : exec[e].raw \in Success => exec[e].sent

\* A call holds an execution_id exactly from the answer to its POST on, and
\* only ever posts with attempt numbers it has not used.
TrackingOK ==
  \A s \in Swaps :
    /\ pc[s] \in {"idle", "quote", "submit"} => id[s] = 0 /\ polls[s] = 0
    /\ pc[s] \in {"poll", "logs"} => id[s] \in Attempts
    /\ pc[s] \in {"idle", "quote"} => attempt[s] = 0
    /\ pc[s] = "poll" => polls[s] < MaxPolls

\* What status st claims for call s is backed by the execution s tracks.
Backed(s, st) ==
  /\ st.status # "COMPLETED"
  /\ st.status = "RUNNING" => ~st.err
  /\ st.tx \in {NoTx, <<s, id[s]>>}
  /\ st.tx # NoTx \/ Succeeded(st)
       => id[s] \in Attempts /\ exec[<<s, id[s]>>].sent

StatusesOK ==
  \A s \in Swaps :
    /\ last[s] # NoStatus => last[s] \in Status /\ Backed(s, last[s])
    /\ pc[s] = "audit" => kh[s] \in Status /\ Backed(s, kh[s])

\* The two outcomes of a returned call, the result and the audit entry.
OutcomeOK ==
  \A s \in Swaps :
    /\ pc[s] # "returned" => audit[s] = "none"
    /\ pc[s] = "returned" =>
         /\ result[s] \in Result
         /\ result[s].tx \in {NoTx, <<s, id[s]>>}
         /\ result[s].status = "CONFIRMED" => ~result[s].err
         /\ result[s].status = "SUBMITTED" => result[s].tx = NoTx \/ ~result[s].err
         /\ result[s].tx # NoTx \/ result[s].status = "CONFIRMED"
              => id[s] \in Attempts /\ exec[<<s, id[s]>>].sent
         /\ audit[s] # "none"
              => (audit[s] = "TRADE_EXECUTED" <=> result[s].status = "CONFIRMED")

IInv == TypeOK /\ ServiceOK /\ TrackingOK /\ StatusesOK /\ OutcomeOK

-----------------------------------------------------------------------------
(* Facts about the operators of the model.                                 *)

\* A status answer about execution e is well formed, names no execution but
\* e, and claims a hash or a success only for a transfer on the chain.
LEMMA StatusOfIsBacked ==
  ASSUME TypeOK, ServiceOK, NEW e \in Execs, NEW st \in StatusOf(e)
  PROVE  /\ st \in Status
         /\ st.status # "COMPLETED"
         /\ st.status = "RUNNING" => ~st.err
         /\ st.tx \in {NoTx, e}
         /\ st.tx # NoTx \/ Succeeded(st) => exec[e].sent
BY DEF TypeOK, ServiceOK, StatusOf, StatusMap, Status, Succeeded, Success, Failure

\* FinalResult is a SwapResult that keeps the hash, and is CONFIRMED exactly
\* when the commitment succeeded.
LEMMA FinalResultFaithful ==
  ASSUME NEW st \in Status, st.status = "RUNNING" => ~st.err
  PROVE  /\ FinalResult(st) \in Result
         /\ FinalResult(st).tx = st.tx
         /\ FinalResult(st).err => ~Succeeded(st) /\ FinalResult(st).status # "SUBMITTED"
         /\ FinalResult(st).status = "CONFIRMED" <=> Succeeded(st)
BY DEF FinalResult, Result, SwapStatus, Status, KHStatus, Succeeded

\* The status of a commitment that raised claims nothing of the chain.
LEMMA FailedIsStatus ==
  /\ Failed \in Status
  /\ Failed.tx = NoTx /\ Failed.status = "FAILED" /\ ~Succeeded(Failed)
BY DEF Failed, Status, KHStatus, Succeeded

-----------------------------------------------------------------------------
(* Induction.                                                              *)

\* Before any call has started the invariant holds.
LEMMA InitInv == Init => IInv
BY AttemptsAssumption, PollsAssumption
   DEF Init, IInv, TypeOK, ServiceOK, TrackingOK, StatusesOK, OutcomeOK, Status,
       Result, Raw, PC, Execs, Attempts, Absent, Success

\* What the service does on its own only adds hashes to the chain.
LEMMA ServiceStep ==
  ASSUME IInv, Service
  PROVE  IInv'
<1> USE DEF IInv
<1>1. PICK e \in Execs :
        \/ KHRun(e)
        \/ KHBroadcast(e)
        \/ \E r \in Success \cup Failure : KHFinish(e, r)
  BY DEF Service
<1>2. /\ UNCHANGED callVars
      /\ exec' \in [Execs -> [raw : Raw \cup {"absent"}, sent : BOOLEAN]]
      /\ \A d \in Execs : exec[d].sent => exec'[d].sent
      /\ ServiceOK'
  <2>1. CASE KHRun(e)
    BY <2>1 DEF KHRun, TypeOK, ServiceOK, Raw, Success
  <2>2. CASE KHBroadcast(e)
    BY <2>2 DEF KHBroadcast, TypeOK, ServiceOK, Raw, Success
  <2>3. ASSUME NEW r \in Success \cup Failure, KHFinish(e, r)
        PROVE  /\ UNCHANGED callVars
               /\ exec' \in [Execs -> [raw : Raw \cup {"absent"}, sent : BOOLEAN]]
               /\ \A d \in Execs : exec[d].sent => exec'[d].sent
               /\ ServiceOK'
    BY <2>3 DEF KHFinish, TypeOK, ServiceOK, Raw, Success, Failure
  <2> QED
    BY <1>1, <2>1, <2>2, <2>3
<1>3. TypeOK' /\ TrackingOK'
  BY <1>2 DEF TypeOK, TrackingOK, callVars
<1>4. StatusesOK'
  BY <1>2 DEF StatusesOK, TypeOK, Backed, callVars, Execs
<1>5. OutcomeOK'
  BY <1>2 DEF OutcomeOK, callVars, Execs
<1> QED
  BY <1>2, <1>3, <1>4, <1>5

\* Entering execute_swap preserves the invariant.
LEMMA StartStep ==
  ASSUME IInv, NEW s \in Swaps, Start(s)
  PROVE  IInv'
<1> USE DEF IInv, Start
<1>1. TypeOK'
  BY DEF TypeOK, PC
<1>2. ServiceOK' /\ TrackingOK'
  BY DEF ServiceOK, TrackingOK, TypeOK
<1>3. StatusesOK'
  BY DEF StatusesOK, TrackingOK, Backed, TypeOK
<1>4. OutcomeOK'
  BY DEF OutcomeOK, TypeOK
<1> QED
  BY <1>1, <1>2, <1>3, <1>4

\* A quote in hand preserves the invariant: nothing is submitted yet.
LEMMA QuoteReceivedStep ==
  ASSUME IInv, NEW s \in Swaps, QuoteReceived(s)
  PROVE  IInv'
<1> USE DEF IInv, QuoteReceived
<1>1. TypeOK'
  BY DEF TypeOK, PC
<1>2. ServiceOK' /\ TrackingOK'
  BY DEF ServiceOK, TrackingOK, TypeOK
<1>3. StatusesOK'
  BY DEF StatusesOK, TrackingOK, Backed, TypeOK
<1>4. OutcomeOK'
  BY DEF OutcomeOK, TypeOK
<1> QED
  BY <1>1, <1>2, <1>3, <1>4

\* The outer except, quirk or not, returns a result without a hash.
LEMMA QuoteFailsStep ==
  ASSUME IInv, NEW s \in Swaps, NEW quirk \in BOOLEAN, QuoteFails(s, quirk)
  PROVE  IInv'
<1> USE DEF IInv, QuoteFails
<1>1. TypeOK'
  BY DEF TypeOK, PC, Result, SwapStatus
<1>2. ServiceOK' /\ TrackingOK'
  BY DEF ServiceOK, TrackingOK, TypeOK
<1>3. StatusesOK'
  BY DEF StatusesOK, TrackingOK, Backed, TypeOK
<1>4. OutcomeOK'
  BY DEF OutcomeOK, TypeOK, Result, SwapStatus, TrackingOK
<1> QED
  BY <1>1, <1>2, <1>3, <1>4

\* The early return for a missing recipient preserves the invariant.
LEMMA NoRecipientStep ==
  ASSUME IInv, NEW s \in Swaps, NoRecipient(s)
  PROVE  IInv'
<1> USE FailedIsStatus DEF IInv, NoRecipient
<1>1. TypeOK'
  BY DEF TypeOK, PC
<1>2. ServiceOK' /\ TrackingOK'
  BY DEF ServiceOK, TrackingOK, TypeOK
<1>3. StatusesOK'
  BY DEF StatusesOK, TrackingOK, Backed, TypeOK
<1>4. OutcomeOK'
  BY DEF OutcomeOK, TypeOK
<1> QED
  BY <1>1, <1>2, <1>3, <1>4

\* The answer to the POST starts the tracking of a fresh execution.
LEMMA TransferAnsweredStep ==
  ASSUME IInv, NEW s \in Swaps, TransferAnswered(s)
  PROVE  IInv'
<1> USE AttemptsAssumption, PollsAssumption, FailedIsStatus DEF IInv, TransferAnswered, Post
<1>1. TypeOK'
  BY DEF TypeOK, PC, Raw, Execs, Attempts
<1>2. ServiceOK' /\ TrackingOK'
  BY DEF ServiceOK, TrackingOK, TypeOK, Success, Execs, Attempts
<1>3. StatusesOK'
  BY DEF StatusesOK, TrackingOK, Backed, TypeOK, Execs, Attempts
<1>4. OutcomeOK'
  BY DEF OutcomeOK, TypeOK, Execs, Attempts
<1> QED
  BY <1>1, <1>2, <1>3, <1>4

\* A timed out POST, retried or given up, touches no tracked execution.
LEMMA TransferTimesOutStep ==
  ASSUME IInv, NEW s \in Swaps, NEW got \in BOOLEAN, TransferTimesOut(s, got)
  PROVE  IInv'
<1> USE AttemptsAssumption, PollsAssumption, FailedIsStatus DEF IInv, TransferTimesOut, Post
<1>1. TypeOK'
  BY DEF TypeOK, PC, Raw, Execs, Attempts
<1>2. ServiceOK' /\ TrackingOK'
  BY DEF ServiceOK, TrackingOK, TypeOK, Success, Execs, Attempts
<1>3. StatusesOK'
  BY DEF StatusesOK, TrackingOK, Backed, TypeOK, Execs, Attempts
<1>4. OutcomeOK'
  BY DEF OutcomeOK, TypeOK, Execs, Attempts
<1> QED
  BY <1>1, <1>2, <1>3, <1>4

\* A POST that raises, accepted or not, touches no tracked execution.
LEMMA TransferRaisesStep ==
  ASSUME IInv, NEW s \in Swaps, NEW got \in BOOLEAN, TransferRaises(s, got)
  PROVE  IInv'
<1> USE AttemptsAssumption, PollsAssumption, FailedIsStatus DEF IInv, TransferRaises, Post
<1>1. TypeOK'
  BY DEF TypeOK, PC, Raw, Execs, Attempts
<1>2. ServiceOK' /\ TrackingOK'
  BY DEF ServiceOK, TrackingOK, TypeOK, Success, Execs, Attempts
<1>3. StatusesOK'
  BY DEF StatusesOK, TrackingOK, Backed, TypeOK, Execs, Attempts
<1>4. OutcomeOK'
  BY DEF OutcomeOK, TypeOK, Execs, Attempts
<1> QED
  BY <1>1, <1>2, <1>3, <1>4

\* A poll answer with a hash is a status the chain backs.
LEMMA PollFindsHashStep ==
  ASSUME IInv, NEW s \in Swaps, NEW st \in StatusOf(<<s, id[s]>>), PollFindsHash(s, st)
  PROVE  IInv'
<1> USE PollsAssumption DEF IInv, PollFindsHash
<1>0. /\ st \in Status /\ Backed(s, st)
      /\ <<s, id[s]>> \in Execs
  <2>1. <<s, id[s]>> \in Execs
    BY DEF TrackingOK, Execs
  <2> QED
    BY <2>1, StatusOfIsBacked DEF Backed, TrackingOK
<1>1. TypeOK'
  BY <1>0 DEF TypeOK, PC, TrackingOK
<1>2. ServiceOK' /\ TrackingOK'
  BY <1>0 DEF ServiceOK, TrackingOK, TypeOK
<1>3. StatusesOK'
  BY <1>0 DEF StatusesOK, TrackingOK, Backed, TypeOK
<1>4. OutcomeOK'
  BY <1>0 DEF OutcomeOK, TypeOK
<1> QED
  BY <1>1, <1>2, <1>3, <1>4

\* A poll answer without a hash, terminal or not, is remembered as is.
LEMMA PollNoHashStep ==
  ASSUME IInv, NEW s \in Swaps, NEW st \in StatusOf(<<s, id[s]>>), PollNoHash(s, st)
  PROVE  IInv'
<1> USE PollsAssumption DEF IInv, PollNoHash, EndIteration
<1>0. /\ st \in Status /\ Backed(s, st)
      /\ <<s, id[s]>> \in Execs
  <2>1. <<s, id[s]>> \in Execs
    BY DEF TrackingOK, Execs
  <2> QED
    BY <2>1, StatusOfIsBacked DEF Backed, TrackingOK
<1>1. TypeOK'
  BY <1>0 DEF TypeOK, PC, TrackingOK
<1>2. ServiceOK' /\ TrackingOK'
  BY <1>0 DEF ServiceOK, TrackingOK, TypeOK
<1>3. StatusesOK'
  BY <1>0 DEF StatusesOK, TrackingOK, Backed, TypeOK
<1>4. OutcomeOK'
  BY <1>0 DEF OutcomeOK, TypeOK
<1> QED
  BY <1>1, <1>2, <1>3, <1>4

\* A status request that raises only uses up an iteration of the loop.
LEMMA PollFailsStep ==
  ASSUME IInv, NEW s \in Swaps, PollFails(s)
  PROVE  IInv'
<1> USE PollsAssumption DEF IInv, PollFails, EndIteration
<1>1. TypeOK'
  BY DEF TypeOK, PC, TrackingOK
<1>2. ServiceOK' /\ TrackingOK'
  BY DEF ServiceOK, TrackingOK, TypeOK
<1>3. StatusesOK'
  BY DEF StatusesOK, TrackingOK, Backed, TypeOK
<1>4. OutcomeOK'
  BY DEF OutcomeOK, TypeOK
<1> QED
  BY <1>1, <1>2, <1>3, <1>4

\* The log look-up reports the tracked transfer.
LEMMA LogsFindHashStep ==
  ASSUME IInv, NEW s \in Swaps, LogsFindHash(s)
  PROVE  IInv'
<1> USE DEF IInv, LogsFindHash
<1>1. TypeOK'
  BY DEF TypeOK, PC, Status, KHStatus, TrackingOK, Execs, Attempts
<1>2. ServiceOK' /\ TrackingOK'
  BY DEF ServiceOK, TrackingOK, TypeOK
<1>3. StatusesOK'
  BY DEF StatusesOK, TrackingOK, Backed, TypeOK, Status, KHStatus, TrackingOK, Execs, Attempts, Succeeded
<1>4. OutcomeOK'
  BY DEF OutcomeOK, TypeOK
<1> QED
  BY <1>1, <1>2, <1>3, <1>4

\* The last resort returns what the loop saw, or RUNNING.
LEMMA LogsNoHashStep ==
  ASSUME IInv, NEW s \in Swaps, LogsNoHash(s)
  PROVE  IInv'
<1> USE DEF IInv, LogsNoHash
<1>1. TypeOK'
  BY DEF TypeOK, PC, Status, KHStatus, TrackingOK, Execs, Attempts, StatusesOK
<1>2. ServiceOK' /\ TrackingOK'
  BY DEF ServiceOK, TrackingOK, TypeOK
<1>3. StatusesOK'
  BY DEF StatusesOK, TrackingOK, Backed, TypeOK, Status, KHStatus, TrackingOK, Execs, Attempts, Succeeded
<1>4. OutcomeOK'
  BY DEF OutcomeOK, TypeOK
<1> QED
  BY <1>1, <1>2, <1>3, <1>4

\* The audit entry and the SwapResult are made from the same status.
LEMMA ReturnStep ==
  ASSUME IInv, NEW s \in Swaps, NEW stored \in BOOLEAN, Return(s, stored)
  PROVE  IInv'
<1> USE FinalResultFaithful DEF IInv, Return
<1>1. TypeOK'
  BY DEF TypeOK, PC, StatusesOK, Backed, AuditEvent
<1>2. ServiceOK' /\ TrackingOK'
  BY DEF ServiceOK, TrackingOK, TypeOK
<1>3. StatusesOK'
  BY DEF StatusesOK, TrackingOK, Backed, TypeOK
<1>4. OutcomeOK'
  BY DEF OutcomeOK, TypeOK, StatusesOK, Backed, AuditEvent, Succeeded, Status, KHStatus
<1> QED
  BY <1>1, <1>2, <1>3, <1>4

\* Every step of every call and of the service preserves the invariant.
LEMMA NextStep ==
  ASSUME IInv, [Next]_vars
  PROVE  IInv'
<1>1. CASE Service
  BY <1>1, ServiceStep
<1>2. ASSUME NEW s \in Swaps, Start(s) \/ Step(s)
      PROVE  IInv'
  <2>1. CASE Start(s)
    BY <2>1, StartStep
  <2>2. CASE Submit(s)
    BY <2>2, NoRecipientStep, TransferAnsweredStep, TransferTimesOutStep,
       TransferRaisesStep DEF Submit
  <2>3. CASE Poll(s)
    BY <2>3, PollFindsHashStep, PollNoHashStep, PollFailsStep DEF Poll
  <2> QED
    BY <1>2, <2>1, <2>2, <2>3, QuoteReceivedStep, QuoteFailsStep,
       LogsFindHashStep, LogsNoHashStep, ReturnStep DEF Step
<1>3. CASE UNCHANGED vars
  BY <1>3 DEF vars, IInv, TypeOK, ServiceOK, TrackingOK, StatusesOK, OutcomeOK,
              Backed
<1> QED
  BY <1>1, <1>2, <1>3 DEF Next, Terminating

-----------------------------------------------------------------------------
(* The theorems.                                                           *)

\* The inductive invariant holds of every behaviour of execute_swap and the
\* service around it.
THEOREM Invariance == Spec => []IInv
<1>1. Init => IInv
  BY InitInv
<1>2. IInv /\ [Next]_vars => IInv'
  BY NextStep
<1> QED
  BY <1>1, <1>2, PTL DEF Spec

\* Retries and polls stay within their budgets, and every status and result
\* is well formed.
THEOREM TypeCorrect == Spec => []TypeOK
<1>1. IInv => TypeOK
  BY DEF IInv
<1> QED
  BY <1>1, Invariance, PTL

\* A CONFIRMED result has the call's own tracked transfer on the chain.
THEOREM ConfirmedSafe == Spec => []ConfirmedIsOnChain
<1>1. IInv => ConfirmedIsOnChain
  BY DEF IInv, OutcomeOK, ConfirmedIsOnChain, Returned
<1> QED
  BY <1>1, Invariance, PTL

\* A reported hash is that of the execution the call tracked.
THEOREM HashSafe == Spec => []ReportedHashIsTracked
<1>1. IInv => ReportedHashIsTracked
  BY DEF IInv, OutcomeOK, ReportedHashIsTracked, Returned
<1> QED
  BY <1>1, Invariance, PTL

\* The audit entry written to 0G agrees with the SwapResult.
THEOREM AuditSafe == Spec => []AuditAgrees
<1>1. IInv => AuditAgrees
  BY DEF IInv, OutcomeOK, AuditAgrees, Returned
<1> QED
  BY <1>1, Invariance, PTL

\* What a returned call reports is one of the outcomes its callers know.
ResultsInContract ==
  \A s \in Swaps :
    Returned(s) => [result[s] EXCEPT !.tx = (@ # NoTx)] \in SwapOutcomes

\* The status loop, the logs and the error paths build no other result.
LEMMA InContract == IInv => ResultsInContract
<1> SUFFICES ASSUME IInv, NEW s \in Swaps, Returned(s)
             PROVE  [result[s] EXCEPT !.tx = (@ # NoTx)] \in SwapOutcomes
  BY DEF ResultsInContract
<1>1. /\ result[s] \in Result
      /\ result[s].status = "CONFIRMED" => ~result[s].err
      /\ result[s].status = "SUBMITTED" => result[s].tx = NoTx \/ ~result[s].err
  BY DEF IInv, OutcomeOK, Returned
<1> QED
  BY <1>1 DEF Result, SwapOutcomes

\* A step returns from one call at most, and touches no other call's result.
LEMMA OneReturns ==
  ASSUME IInv, [Next]_vars
  PROVE  \/ UNCHANGED result /\ \A t \in Swaps : Returned(t)' <=> Returned(t)
         \/ \E s \in Swaps : /\ ~Returned(s)
                             /\ \A t \in Swaps \ {s} : /\ Returned(t)' <=> Returned(t)
                                                       /\ result'[t] = result[t]
<1>1. CASE Service \/ UNCHANGED vars
  BY <1>1 DEF Service, KHRun, KHBroadcast, KHFinish, callVars, vars, Returned
<1>2. ASSUME NEW s \in Swaps, Start(s) \/ Step(s)
      PROVE  /\ ~Returned(s)
             /\ \A t \in Swaps \ {s} : /\ Returned(t)' <=> Returned(t)
                                       /\ result'[t] = result[t]
  <2>1. pc[s] # "returned"
    BY <1>2 DEF Start, Step, QuoteReceived, QuoteFails, Submit, NoRecipient, TransferAnswered,
                TransferTimesOut, TransferRaises, Post, LogsFindHash, LogsNoHash, Return
  <2>2. \E l : pc' = [pc EXCEPT ![s] = l] \/ UNCHANGED pc
    BY <1>2 DEF Start, Step, QuoteReceived, QuoteFails, Submit, NoRecipient, TransferAnswered,
                TransferTimesOut, TransferRaises, Poll, PollFindsHash, PollNoHash, PollFails,
                EndIteration, LogsFindHash, LogsNoHash, Return
  <2>3. \E r : result' = [result EXCEPT ![s] = r] \/ UNCHANGED result
    BY <1>2 DEF Start, Step, QuoteReceived, QuoteFails, Submit, NoRecipient, TransferAnswered,
                TransferTimesOut, TransferRaises, Post, Poll, PollFindsHash, PollNoHash, PollFails,
                LogsFindHash, LogsNoHash, Return
  <2> QED
    BY <2>1, <2>2, <2>3 DEF IInv, TypeOK, Returned
<1> QED
  BY <1>1, <1>2 DEF Next, Terminating

\* KeeperHubSwapExecutor keeps the promise of execute_swap, whatever the
\* service does and however many calls race.
THEOREM PromiseKept == Spec => KeepsPromise
<1> DEFINE shown == [s \in Swaps |-> IF Returned(s) THEN [result[s] EXCEPT !.tx = (@ # NoTx)]
                                                   ELSE NoStatus]
<1>1. Init => Promise!Init
  BY DEF Init, Promise!Init, Returned
<1>2. IInv' => ResultsInContract'
  BY InContract, PTL
<1>3. ASSUME IInv, IInv', [Next]_vars
      PROVE  [Promise!Next]_shown
  <2>1. CASE UNCHANGED result /\ \A t \in Swaps : Returned(t)' <=> Returned(t)
    BY <2>1
  <2>2. ASSUME NEW s \in Swaps, ~Returned(s),
               \A t \in Swaps \ {s} : (Returned(t)' <=> Returned(t)) /\ result'[t] = result[t]
        PROVE  [Promise!Next]_shown
    <3>1. \A t \in Swaps \ {s} : shown'[t] = shown[t]
      BY <2>2
    <3>2. shown[s] = NoStatus
      BY <2>2
    <3>3. CASE ~Returned(s)'
      <4>1. shown'[s] = NoStatus
        BY <3>3
      <4>2. shown' = shown
        BY <3>1, <3>2, <4>1
      <4> QED
        BY <4>2
    <3>4. CASE Returned(s)'
      <4>1. shown'[s] \in SwapOutcomes
        BY <1>2, <1>3, <3>4 DEF ResultsInContract
      <4>2. shown'[s] \in Promise!SwapOutcomes
        BY <4>1 DEF SwapOutcomes, Promise!SwapOutcomes, SwapStatus, Promise!SwapStatus
      <4>3. shown' = [shown EXCEPT ![s] = shown'[s]]
        BY <3>1
      <4> QED
        BY <3>2, <4>2, <4>3 DEF Promise!Next, Promise!Returns
    <3> QED
      BY <3>3, <3>4
  <2> QED
    BY <1>3, <2>1, <2>2, OneReturns
<1> QED
  BY <1>1, <1>3, Invariance, PTL DEF Spec, KeepsPromise, Promise!Spec

\* A call that holds an execution_id, or has returned, submits no more.
THEOREM NoSubmitSafe == Spec => NoSubmitOnceTracked
<1>1. ASSUME IInv, [Next]_vars, NEW s \in Swaps, id[s] # 0 \/ Returned(s)
      PROVE  Accepted(s)' = Accepted(s)
  <2>1. pc[s] # "submit"
    BY <1>1 DEF IInv, TrackingOK, Returned
  <2>2. SUFFICES \A a \in Attempts :
          exec[<<s, a>>].raw = "absent" <=> exec'[<<s, a>>].raw = "absent"
    BY DEF Accepted
  <2>3. CASE Service
    <3>1. PICK e \in Execs :
            \/ KHRun(e)
            \/ KHBroadcast(e)
            \/ \E r \in Success \cup Failure : KHFinish(e, r)
      BY <2>3 DEF Service
    <3> QED
      BY <1>1, <3>1 DEF IInv, TypeOK, KHRun, KHBroadcast, KHFinish, Success,
                        Failure, Execs
  <2>4. ASSUME NEW r \in Swaps, Submit(r)
        PROVE  \A a \in Attempts : exec'[<<s, a>>] = exec[<<s, a>>]
    <3>1. r # s
      BY <2>1, <2>4 DEF Submit, NoRecipient, TransferAnswered, TransferTimesOut,
                        TransferRaises, Post
    <3>2. ASSUME NEW got \in BOOLEAN, Post(r, got)
          PROVE  \A a \in Attempts : exec'[<<s, a>>] = exec[<<s, a>>]
      BY <1>1, <3>1, <3>2 DEF Post, IInv, TypeOK, Execs
    <3> QED
      BY <2>4, <3>2 DEF Submit, NoRecipient, TransferAnswered,
                        TransferTimesOut, TransferRaises
  <2>5. ASSUME NEW r \in Swaps, Start(r) \/ Step(r), ~Submit(r)
        PROVE  UNCHANGED exec
    BY <2>5 DEF Step, Start, QuoteReceived, QuoteFails, Poll, PollFindsHash,
                PollNoHash, PollFails, LogsFindHash, LogsNoHash, Return
  <2>6. CASE UNCHANGED vars
    BY <2>6 DEF vars
  <2> QED
    BY <1>1, <2>3, <2>4, <2>5, <2>6 DEF Next, Terminating, Start, Step
<1>2. IInv /\ [Next]_vars =>
        [\A s \in Swaps : id[s] # 0 \/ Returned(s) => Accepted(s)' = Accepted(s)]_vars
  BY <1>1
<1> QED
  BY <1>2, Invariance, PTL DEF Spec, NoSubmitOnceTracked

-----------------------------------------------------------------------------
(* Where a second transfer of one call can come from.                      *)

\* The service has accepted no POST that was not sent, and the call tracks its
\* last one.
PostedOK ==
  \A s \in Swaps :
    /\ \A a \in Attempts :
         /\ exec[<<s, a>>].raw # "absent" => a <= attempt[s]
         /\ exec[<<s, a>>].sent => exec[<<s, a>>].raw # "absent"
    /\ id[s] # 0 => id[s] = attempt[s]

\* A call that sent its POST once has one transfer at most, and the other
\* transfers of a call that tracks one are those of earlier POSTs.
ExtrasAreRetries ==
  \A s \in Swaps :
    /\ attempt[s] <= 1 =>
         \A a, b \in Attempts : exec[<<s, a>>].sent /\ exec[<<s, b>>].sent => a = b
    /\ id[s] # 0 =>
         \A a \in Attempts : exec[<<s, a>>].sent => a = id[s] \/ a < id[s]

\* What the service does concerns accepted transfers only.
LEMMA PostedService ==
  ASSUME IInv, PostedOK, Service
  PROVE  PostedOK'
<1>1. PICK e \in Execs :
        \/ KHRun(e)
        \/ KHBroadcast(e)
        \/ \E r \in Success \cup Failure : KHFinish(e, r)
  BY DEF Service
<1>2. exec \in [Execs -> [raw : Raw \cup {"absent"}, sent : BOOLEAN]]
  BY DEF IInv, TypeOK
<1>3. /\ UNCHANGED <<attempt, id>>
      /\ exec[e].raw # "absent" /\ exec'[e].raw # "absent"
      /\ \A d \in Execs : d # e => exec'[d] = exec[d]
  BY <1>1, <1>2 DEF KHRun, KHBroadcast, KHFinish, callVars, Success, Failure
<1>4. \A s \in Swaps, a \in Attempts : <<s, a>> \in Execs
  BY DEF Execs
<1> QED
  BY <1>3, <1>4 DEF PostedOK

\* A POST counts before the service can accept it.
LEMMA PostedPost ==
  ASSUME IInv, PostedOK, NEW s \in Swaps, NEW got \in BOOLEAN, Post(s, got),
         id' = id \/ id' = [id EXCEPT ![s] = attempt[s] + 1]
  PROVE  PostedOK'
<1>1. /\ exec \in [Execs -> [raw : Raw \cup {"absent"}, sent : BOOLEAN]]
      /\ attempt \in [Swaps -> 0 .. MaxAttempts] /\ id \in [Swaps -> 0 .. MaxAttempts]
      /\ id[s] = 0 /\ attempt[s] \in Int /\ MaxAttempts \in Nat
  BY AttemptsAssumption DEF IInv, TypeOK, Post, TrackingOK
<1>2. /\ attempt'[s] = attempt[s] + 1
      /\ \A r \in Swaps : r # s => attempt'[r] = attempt[r] /\ id'[r] = id[r]
      /\ id'[s] = 0 \/ id'[s] = attempt'[s]
  BY <1>1 DEF Post
<1>3. ASSUME NEW r \in Swaps, NEW a \in Attempts, ~ (r = s /\ a = attempt[s] + 1)
      PROVE  exec'[<<r, a>>] = exec[<<r, a>>]
  BY <1>1, <1>3 DEF Post, Execs
<1>4. attempt[s] + 1 \in Attempts
      => \/ exec'[<<s, attempt[s] + 1>>] = exec[<<s, attempt[s] + 1>>]
         \/ exec'[<<s, attempt[s] + 1>>] = [raw |-> "pending", sent |-> FALSE]
  BY <1>1 DEF Post, Execs
<1>5. ASSUME NEW r \in Swaps, NEW a \in Attempts
      PROVE  /\ exec'[<<r, a>>].raw # "absent" => a <= attempt'[r]
             /\ exec'[<<r, a>>].sent => exec'[<<r, a>>].raw # "absent"
  <2>0. a \in Int
    BY DEF Attempts
  <2>1. CASE r = s /\ a = attempt[s] + 1
    BY <1>1, <1>2, <1>4, <2>0, <2>1 DEF PostedOK
  <2>2. CASE ~ (r = s /\ a = attempt[s] + 1)
    <3>1. exec'[<<r, a>>] = exec[<<r, a>>]
      BY <1>3, <2>2
    <3>2. attempt[r] \in Int /\ (attempt'[r] = attempt[r] \/ attempt'[r] = attempt[r] + 1)
      BY <1>1, <1>2
    <3> QED BY <2>0, <3>1, <3>2 DEF PostedOK
  <2> QED BY <2>1, <2>2
<1>6. ASSUME NEW r \in Swaps
      PROVE  id'[r] # 0 => id'[r] = attempt'[r]
  BY <1>2 DEF PostedOK
<1> QED
  BY <1>5, <1>6 DEF PostedOK

\* Every step keeps PostedOK.
LEMMA PostedStep ==
  ASSUME IInv, PostedOK, [Next]_vars
  PROVE  PostedOK'
<1>1. ASSUME UNCHANGED <<attempt, id, exec>>
      PROVE  PostedOK'
  BY <1>1 DEF PostedOK
<1>2. ASSUME NEW s \in Swaps, Submit(s)
      PROVE  PostedOK'
  <2>1. CASE NoRecipient(s)
    BY <1>1, <2>1 DEF NoRecipient
  <2>2. CASE TransferAnswered(s)
    BY <2>2, PostedPost DEF TransferAnswered
  <2>3. ASSUME NEW got \in BOOLEAN, TransferTimesOut(s, got) \/ TransferRaises(s, got)
        PROVE  PostedOK'
    BY <2>3, PostedPost DEF TransferTimesOut, TransferRaises
  <2> QED BY <1>2, <2>1, <2>2, <2>3 DEF Submit
<1>3. ASSUME NEW s \in Swaps, Start(s) \/ Step(s), ~Submit(s)
      PROVE  PostedOK'
  BY <1>1, <1>3 DEF Step, Start, QuoteReceived, QuoteFails, Poll, PollFindsHash,
                    PollNoHash, PollFails, LogsFindHash, LogsNoHash, Return
<1>4. CASE UNCHANGED vars
  BY <1>1, <1>4 DEF vars
<1> QED
  BY <1>2, <1>3, <1>4, PostedService DEF Next, Terminating

\* The retries of execute_transfer are the only source of a second transfer:
\* what core/pnl.py says of one transfer per cycle holds of every call whose
\* first POST was answered or not retried.
THEOREM OneTransferUnlessRetried == Spec => []ExtrasAreRetries
<1>1. Init => PostedOK
  BY DEF Init, PostedOK, Absent, Execs
<1>2. IInv /\ PostedOK => ExtrasAreRetries
  <2> SUFFICES ASSUME IInv, PostedOK, NEW s \in Swaps
               PROVE  /\ attempt[s] <= 1 =>
                           \A a, b \in Attempts :
                             exec[<<s, a>>].sent /\ exec[<<s, b>>].sent => a = b
                      /\ id[s] # 0 =>
                           \A a \in Attempts : exec[<<s, a>>].sent => a = id[s] \/ a < id[s]
    BY DEF ExtrasAreRetries
  <2>1. attempt[s] \in Int /\ \A a \in Attempts : a \in Int /\ 1 <= a
    BY AttemptsAssumption DEF IInv, TypeOK, Attempts
  <2>2. \A a \in Attempts : exec[<<s, a>>].sent => a <= attempt[s]
    BY DEF PostedOK
  <2>3. id[s] # 0 => id[s] = attempt[s]
    BY DEF PostedOK
  <2> QED BY <2>1, <2>2, <2>3
<1> QED
  BY <1>1, <1>2, PostedStep, Invariance, PTL DEF Spec

-----------------------------------------------------------------------------
(* How long execute_swap can go on.                                        *)

\* The requests and answers that a call can still go through: the quote, the
\* POSTs left, the polls left, the logs and the audit entry.
Work(s) ==
  CASE pc[s] = "quote"  -> MaxAttempts + MaxPolls + 3
    [] pc[s] = "submit" -> (MaxAttempts - attempt[s]) + MaxPolls + 2
    [] pc[s] = "poll"   -> (MaxPolls - polls[s]) + 2
    [] pc[s] = "logs"   -> 2
    [] pc[s] = "audit"  -> 1
    [] OTHER            -> 0

\* A step of a call uses some of its work up, and nothing else does, or gives
\* it more: not the service, and not the other calls.
WorkIsUsedUp ==
  [][\A s \in Swaps :
       /\ Step(s) => Work(s)' < Work(s)
       /\ pc[s] # "idle" /\ ~Step(s) => Work(s)' = Work(s)]_vars

\* The work left is a number, and none is left of a call that returned.
LEMMA WorkIsNat ==
  ASSUME IInv, NEW s \in Swaps
  PROVE  /\ Work(s) \in Nat /\ Work(s) <= MaxAttempts + MaxPolls + 3
         /\ Work(s) = 0 <=> pc[s] \in {"idle", "returned"}
<1>1. /\ pc[s] \in PC /\ attempt[s] \in 0 .. MaxAttempts /\ polls[s] \in 0 .. MaxPolls
      /\ pc[s] = "poll" => polls[s] < MaxPolls
  BY DEF IInv, TypeOK, TrackingOK
<1> QED
  BY <1>1, AttemptsAssumption, PollsAssumption DEF Work, PC

\* What Work is made of, and that a step leaves the other calls' alone.
LEMMA OthersKeepWork ==
  ASSUME IInv, NEW s \in Swaps, NEW r \in Swaps \ {s}, Start(r) \/ Step(r)
  PROVE  Work(s)' = Work(s)
<1>1. pc'[s] = pc[s] /\ attempt'[s] = attempt[s] /\ polls'[s] = polls[s]
  <2>1. CASE Start(r) \/ QuoteReceived(r) \/ \E quirk \in BOOLEAN : QuoteFails(r, quirk)
    BY <2>1 DEF IInv, TypeOK, Start, QuoteReceived, QuoteFails
  <2>2. CASE Submit(r)
    BY <2>2 DEF IInv, TypeOK, Submit, NoRecipient, Post, TransferAnswered,
                TransferTimesOut, TransferRaises
  <2>3. CASE Poll(r)
    BY <2>3 DEF IInv, TypeOK, Poll, PollFindsHash, PollNoHash, PollFails, EndIteration
  <2>4. CASE LogsFindHash(r) \/ LogsNoHash(r) \/ \E stored \in BOOLEAN : Return(r, stored)
    BY <2>4 DEF IInv, TypeOK, LogsFindHash, LogsNoHash, Return
  <2> QED BY <2>1, <2>2, <2>3, <2>4 DEF Step
<1> QED BY <1>1 DEF Work

\* Whatever the answer of a request is, it brings the call nearer to its end.
LEMMA StepUsesWork ==
  ASSUME IInv, NEW s \in Swaps, Step(s)
  PROVE  Work(s)' < Work(s)
<1>1. /\ pc \in [Swaps -> PC] /\ attempt \in [Swaps -> 0 .. MaxAttempts]
      /\ polls \in [Swaps -> 0 .. MaxPolls]
      /\ attempt[s] \in 0 .. MaxAttempts /\ polls[s] \in 0 .. MaxPolls
      /\ pc[s] = "poll" => polls[s] < MaxPolls
      /\ MaxAttempts \in Nat /\ MaxPolls \in Nat
  BY AttemptsAssumption, PollsAssumption DEF IInv, TypeOK, TrackingOK
<1>2. CASE QuoteReceived(s)
  <2>1. pc[s] = "quote" /\ pc'[s] = "submit" /\ attempt'[s] = attempt[s]
    BY <1>1, <1>2 DEF QuoteReceived
  <2> QED BY <1>1, <2>1 DEF Work
<1>3. CASE \E quirk \in BOOLEAN : QuoteFails(s, quirk)
  <2>1. pc[s] = "quote" /\ pc'[s] = "returned"
    BY <1>1, <1>3 DEF QuoteFails
  <2> QED BY <1>1, <2>1 DEF Work
<1>4. CASE Submit(s)
  <2>1. /\ pc[s] = "submit" /\ polls'[s] = polls[s]
        /\ \/ pc'[s] \in {"poll", "audit"} /\ attempt[s] <= MaxAttempts
              /\ (pc'[s] = "poll" => attempt[s] < MaxAttempts)
           \/ pc'[s] = "submit" /\ attempt'[s] = attempt[s] + 1 /\ attempt[s] < MaxAttempts
    BY <1>1, <1>4 DEF Submit, NoRecipient, Post, TransferAnswered, TransferTimesOut,
                      TransferRaises
  <2> QED BY <1>1, <2>1 DEF Work
<1>5. CASE pc[s] = "poll" /\ Poll(s)
  <2>1. /\ pc[s] = "poll"
        /\ \/ pc'[s] \in {"logs", "audit"}
           \/ pc'[s] = "poll" /\ polls'[s] = polls[s] + 1
    BY <1>1, <1>5 DEF Poll, PollFindsHash, PollNoHash, PollFails, EndIteration
  <2> QED BY <1>1, <2>1 DEF Work
<1>6. CASE LogsFindHash(s) \/ LogsNoHash(s)
  <2>1. pc[s] = "logs" /\ pc'[s] = "audit"
    BY <1>1, <1>6 DEF LogsFindHash, LogsNoHash
  <2> QED BY <1>1, <2>1 DEF Work
<1>7. CASE \E stored \in BOOLEAN : Return(s, stored)
  <2>1. pc[s] = "audit" /\ pc'[s] = "returned"
    BY <1>1, <1>7 DEF Return
  <2> QED BY <1>1, <2>1 DEF Work
<1> QED
  BY <1>2, <1>3, <1>4, <1>5, <1>6, <1>7 DEF Step

\* A call of execute_swap takes at most MaxAttempts + MaxPolls + 3 steps, for
\* every retry and poll budget and whatever the service does: each of its steps
\* uses work up and nothing gives it back.  With the fairness of FairSpec, that
\* is why SwapReturns holds.
THEOREM WorkSafe == Spec => WorkIsUsedUp
<1>1. ASSUME IInv, Next
      PROVE  \A s \in Swaps :
               /\ Step(s) => Work(s)' < Work(s)
               /\ pc[s] # "idle" /\ ~Step(s) => Work(s)' = Work(s)
  <2> SUFFICES ASSUME NEW s \in Swaps, pc[s] # "idle", ~Step(s)
               PROVE  Work(s)' = Work(s)
    BY <1>1, StepUsesWork
  <2>1. CASE Service
    BY <2>1 DEF Service, KHRun, KHBroadcast, KHFinish, callVars, Work
  <2>2. ASSUME NEW r \in Swaps, Start(r) \/ Step(r)
        PROVE  Work(s)' = Work(s)
    <3>1. r # s
      BY <2>2 DEF Start
    <3> QED BY <1>1, <2>2, <3>1, OthersKeepWork
  <2>3. CASE Terminating
    BY <2>3 DEF Terminating, vars, Work
  <2> QED BY <1>1, <2>1, <2>2, <2>3 DEF Next
<1> QED
  BY <1>1, Invariance, PTL DEF Spec, WorkIsUsedUp
=============================================================================
