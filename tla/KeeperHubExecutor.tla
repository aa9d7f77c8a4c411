------------------------- MODULE KeeperHubExecutor -------------------------
(***************************************************************************)
(* KeeperHubSwapExecutor.execute_swap (core/keeperhub/executor.py) with    *)
(* the live KeeperHub client below it (core/keeperhub/client.py) and the   *)
(* KeeperHub service and the chain around it (external).                   *)
(*                                                                         *)
(* Every member of Swaps is one call of execute_swap.  Calls share no      *)
(* Python state, only the service.  An action is the code between two      *)
(* awaits: one HTTP request with its outcome, and what the code does with  *)
(* it up to the next request.  Amounts, addresses, routes and error texts  *)
(* are abstracted to what the control flow tells apart: whether an error   *)
(* text is present, and whether it matches the kh_quirks list.             *)
(***************************************************************************)
EXTENDS Integers, SwapContract

CONSTANTS Swaps,        \* calls of execute_swap
          MaxAttempts,  \* stop_after_attempt(3) of the client's retry policy
          MaxPolls,     \* range(60) of the status loop
          NoTx, NoStatus

ASSUME AttemptsAssumption == MaxAttempts \in Nat \ {0}
ASSUME PollsAssumption    == MaxPolls \in Nat \ {0}
ASSUME NoTxAssumption     == NoTx \notin Swaps \X (1 .. MaxAttempts)

VARIABLES
  pc,        \* where each call stands
  attempt,   \* POST /execute/transfer requests sent by the call
  id,        \* attempt whose execution_id the call received, 0 before that
  polls,     \* iterations of the status loop done
  last,      \* last_status
  kh,        \* kh_result, the _ExecStatus of the commitment
  audit,     \* event type of the KHAuditEntry on 0G, "none" if not written
  result,    \* the SwapResult returned
  exec       \* the service: one execution per accepted POST

callVars == <<pc, attempt, id, polls, last, kh, audit, result>>
vars     == <<pc, attempt, id, polls, last, kh, audit, result, exec>>

Attempts == 1 .. MaxAttempts
Execs    == Swaps \X Attempts

Success == {"success", "completed"}          \* spellings of KHExecutionStatus
Failure == {"failed", "error", "cancelled"}
Raw     == {"pending", "running"} \cup Success \cup Failure

KHStatus == {"PENDING", "RUNNING", "SUCCESS", "COMPLETED", "FAILED", "ERROR",
             "CANCELLED"}
Status   == [status : KHStatus, tx : Execs \cup {NoTx}, err : BOOLEAN]

Result     == [status : SwapStatus, tx : Execs \cup {NoTx}, err : BOOLEAN]

Failed     == [status |-> "FAILED", tx |-> NoTx, err |-> TRUE]

-----------------------------------------------------------------------------
(* The service (external): an accepted transfer is an execution that runs, *)
(* may be broadcast, and ends.  Its on-chain effect is sent.               *)

Absent   == [raw |-> "absent", sent |-> FALSE]
Accepted(s) == {a \in Attempts : exec[<<s, a>>].raw # "absent"}

KHRun(e) ==
  /\ exec[e].raw = "pending"
  /\ exec' = [exec EXCEPT ![e] = [raw |-> "running", sent |-> @.sent]]
  /\ UNCHANGED callVars

KHBroadcast(e) ==
  /\ exec[e].raw = "running"
  /\ ~exec[e].sent
  /\ exec' = [exec EXCEPT ![e] = [raw |-> @.raw, sent |-> TRUE]]
  /\ UNCHANGED callVars

KHFinish(e, r) ==
  /\ exec[e].raw \in {"pending", "running"}
  /\ r \in Success => exec[e].sent
  /\ exec' = [exec EXCEPT ![e] = [raw |-> r, sent |-> @.sent]]
  /\ UNCHANGED callVars

-----------------------------------------------------------------------------
(* get_execution_status: the status_map, and what one answer may hold.     *)

\* Mutant: "completed" kept as the enum member of the same spelling.
StatusMapKeepsSynonym(raw) ==
  CASE raw = "completed" -> "COMPLETED"
    [] raw = "error"     -> "FAILED"
    [] raw = "running"   -> "RUNNING"
    [] OTHER             -> "PENDING"

\* Spellings outside the map ("failed", "success", "cancelled") read PENDING.
StatusMap(raw) ==
  CASE raw = "completed" -> "SUCCESS"
    [] raw = "error"     -> "FAILED"
    [] raw = "running"   -> "RUNNING"
    [] OTHER             -> "PENDING"

\* The answers GET /execute/{id}/status may give: the hash of a broadcast
\* transfer may or may not have surfaced, a failure may or may not say why.
StatusOf(e) ==
  {st \in Status : /\ st.status = StatusMap(exec[e].raw)
                   /\ st.tx # NoTx => st.tx = e /\ exec[e].sent
                   /\ st.err => exec[e].raw \in Failure}

Succeeded(st)  == st.status \in {"SUCCESS", "COMPLETED"}
IsTerminal(st) == st.status \in {"SUCCESS", "COMPLETED", "FAILED", "ERROR",
                                 "CANCELLED"}

-----------------------------------------------------------------------------
(* execute_swap, step 1: the Uniswap quote.                                *)

Start(s) ==
  /\ pc[s] = "idle"
  /\ pc' = [pc EXCEPT ![s] = "quote"]
  /\ UNCHANGED <<attempt, id, polls, last, kh, audit, result, exec>>

QuoteReceived(s) ==
  /\ pc[s] = "quote"
  /\ pc' = [pc EXCEPT ![s] = "submit"]
  /\ UNCHANGED <<attempt, id, polls, last, kh, audit, result, exec>>

\* Nothing but the quote can raise up to the outer except: the commitment
\* and the audit catch their own exceptions.  An error text on the kh_quirks
\* list ("500 Internal Server Error") makes the result SUBMITTED.
QuoteFails(s, quirk) ==
  /\ pc[s] = "quote"
  /\ pc' = [pc EXCEPT ![s] = "returned"]
  /\ result' = [result EXCEPT ![s] =
                  [status |-> IF quirk THEN "SUBMITTED" ELSE "FAILED",
                   tx |-> NoTx, err |-> TRUE]]
  /\ UNCHANGED <<attempt, id, polls, last, kh, audit, exec>>

-----------------------------------------------------------------------------
(* _submit_treasury_commitment: the transfer.                              *)

\* No recipient configured: a FAILED status without any request.
NoRecipient(s) ==
  /\ pc[s] = "submit"
  /\ attempt[s] = 0
  /\ kh' = [kh EXCEPT ![s] = Failed]
  /\ pc' = [pc EXCEPT ![s] = "audit"]
  /\ UNCHANGED <<attempt, id, polls, last, audit, result, exec>>

\* One POST; got says whether the service accepted it.
Post(s, got) ==
  /\ pc[s] = "submit"
  /\ attempt[s] < MaxAttempts
  /\ attempt' = [attempt EXCEPT ![s] = @ + 1]
  /\ exec' = IF got
               THEN [exec EXCEPT ![<<s, attempt[s] + 1>>] =
                                   [raw |-> "pending", sent |-> FALSE]]
               ELSE exec
  /\ UNCHANGED <<polls, last, audit, result>>

\* The answer arrives and carries the execution_id.
TransferAnswered(s) ==
  /\ Post(s, TRUE)
  /\ id' = [id EXCEPT ![s] = attempt[s] + 1]
  /\ pc' = [pc EXCEPT ![s] = "poll"]
  /\ UNCHANGED kh

\* ConnectError (never accepted) or TimeoutException (accepted or not): the
\* client retries, and re-raises after the last attempt.
TransferTimesOut(s, got) ==
  /\ Post(s, got)
  /\ IF attempt[s] + 1 < MaxAttempts
       THEN UNCHANGED <<pc, kh>>
       ELSE /\ kh' = [kh EXCEPT ![s] = Failed]
            /\ pc' = [pc EXCEPT ![s] = "audit"]
  /\ UNCHANGED id

\* Any other exception of execute_transfer (an HTTP error status, a body that
\* does not parse) is not retried.
TransferRaises(s, got) ==
  /\ Post(s, got)
  /\ kh' = [kh EXCEPT ![s] = Failed]
  /\ pc' = [pc EXCEPT ![s] = "audit"]
  /\ UNCHANGED id

-----------------------------------------------------------------------------
(* _submit_treasury_commitment: the status loop and its fallbacks.         *)

\* Mutant: the iteration counter of the loop is lost.
EndIterationUncounted(s, stop) ==
  /\ UNCHANGED polls
  /\ pc' = [pc EXCEPT ![s] = IF stop THEN "logs" ELSE "poll"]

\* break, or the next iteration after the sleep.
EndIteration(s, stop) ==
  /\ polls' = [polls EXCEPT ![s] = @ + 1]
  /\ pc' = [pc EXCEPT ![s] =
              IF stop \/ polls[s] + 1 = MaxPolls THEN "logs" ELSE "poll"]

\* A status with a hash ends the commitment, whatever the status is.
PollFindsHash(s, st) ==
  /\ pc[s] = "poll"
  /\ st.tx # NoTx
  /\ kh' = [kh EXCEPT ![s] = st]
  /\ last' = [last EXCEPT ![s] = st]
  /\ polls' = [polls EXCEPT ![s] = @ + 1]
  /\ pc' = [pc EXCEPT ![s] = "audit"]
  /\ UNCHANGED <<attempt, id, audit, result, exec>>

PollNoHash(s, st) ==
  /\ pc[s] = "poll"
  /\ st.tx = NoTx
  /\ last' = [last EXCEPT ![s] = st]
  /\ EndIteration(s, IsTerminal(st))
  /\ UNCHANGED <<attempt, id, kh, audit, result, exec>>

\* Mutant: a status request that fails submits the transfer again.
PollFailsResubmits(s) ==
  /\ pc[s] = "poll"
  /\ pc' = [pc EXCEPT ![s] = "submit"]
  /\ UNCHANGED <<attempt, id, polls, last, kh, audit, result, exec>>

PollFails(s) ==
  /\ pc[s] = "poll"
  /\ EndIteration(s, FALSE)
  /\ UNCHANGED <<attempt, id, last, kh, audit, result, exec>>

\* Mutant: the hash is taken from the logs of the first submission.
LogsFindFirstHash(s) ==
  /\ pc[s] = "logs"
  /\ exec[<<s, 1>>].sent
  /\ kh' = [kh EXCEPT ![s] =
              [status |-> "SUCCESS", tx |-> <<s, 1>>, err |-> FALSE]]
  /\ pc' = [pc EXCEPT ![s] = "audit"]
  /\ UNCHANGED <<attempt, id, polls, last, audit, result, exec>>

\* The execution log of a broadcast transfer shows a hash: SUCCESS.
LogsFindHash(s) ==
  /\ pc[s] = "logs"
  /\ exec[<<s, id[s]>>].sent
  /\ kh' = [kh EXCEPT ![s] =
              [status |-> "SUCCESS", tx |-> <<s, id[s]>>, err |-> FALSE]]
  /\ pc' = [pc EXCEPT ![s] = "audit"]
  /\ UNCHANGED <<attempt, id, polls, last, audit, result, exec>>

\* Mutant: the last resort assumes the transfer settled.
LogsNoHashOptimistic(s) ==
  /\ pc[s] = "logs"
  /\ kh' = [kh EXCEPT ![s] =
              [status |-> "SUCCESS", tx |-> NoTx, err |-> FALSE]]
  /\ pc' = [pc EXCEPT ![s] = "audit"]
  /\ UNCHANGED <<attempt, id, polls, last, audit, result, exec>>

\* No hash in the logs, or the request raised: what the loop saw last.
LogsNoHash(s) ==
  /\ pc[s] = "logs"
  /\ kh' = [kh EXCEPT ![s] =
              IF last[s] # NoStatus
                THEN last[s]
                ELSE [status |-> "RUNNING", tx |-> NoTx, err |-> FALSE]]
  /\ pc' = [pc EXCEPT ![s] = "audit"]
  /\ UNCHANGED <<attempt, id, polls, last, audit, result, exec>>

-----------------------------------------------------------------------------
(* execute_swap, steps 4 and 5.                                            *)

\* KHAuditEntry.succeeded knows one spelling of success, _ExecStatus two.
AuditEvent(st) ==
  IF st.status = "SUCCESS" THEN "TRADE_EXECUTED" ELSE "TRADE_FAILED"

\* Mutant: whatever is not settled counts as submitted.
FinalResultHopeful(st) ==
  [status |-> IF Succeeded(st) THEN "CONFIRMED" ELSE "SUBMITTED",
   tx  |-> st.tx,
   err |-> st.err /\ ~Succeeded(st)]

FinalResult(st) ==
  [status |-> CASE Succeeded(st)          -> "CONFIRMED"
                [] st.status = "RUNNING"  -> "SUBMITTED"
                [] OTHER                  -> "FAILED",
   tx  |-> st.tx,
   err |-> st.err /\ ~Succeeded(st)]

\* _write_audit swallows a storage error; without a 0G client it writes
\* nothing.  Then the result is returned.
Return(s, stored) ==
  /\ pc[s] = "audit"
  /\ audit' = [audit EXCEPT ![s] = IF stored THEN AuditEvent(kh[s]) ELSE @]
  /\ result' = [result EXCEPT ![s] = FinalResult(kh[s])]
  /\ pc' = [pc EXCEPT ![s] = "returned"]
  /\ UNCHANGED <<attempt, id, polls, last, kh, exec>>

-----------------------------------------------------------------------------

Init ==
  /\ pc      = [s \in Swaps |-> "idle"]
  /\ attempt = [s \in Swaps |-> 0]
  /\ id      = [s \in Swaps |-> 0]
  /\ polls   = [s \in Swaps |-> 0]
  /\ last    = [s \in Swaps |-> NoStatus]
  /\ kh      = [s \in Swaps |-> NoStatus]
  /\ audit   = [s \in Swaps |-> "none"]
  /\ result  = [s \in Swaps |-> NoStatus]
  /\ exec    = [e \in Execs |-> Absent]

Submit(s) ==
  \/ NoRecipient(s)
  \/ TransferAnswered(s)
  \/ \E got \in BOOLEAN : TransferTimesOut(s, got) \/ TransferRaises(s, got)

Poll(s) ==
  \/ \E st \in StatusOf(<<s, id[s]>>) : PollFindsHash(s, st) \/ PollNoHash(s, st)
  \/ PollFails(s)

\* One step of a call that has started; the event loop keeps taking them.
Step(s) ==
  \/ QuoteReceived(s)
  \/ \E quirk \in BOOLEAN : QuoteFails(s, quirk)
  \/ Submit(s)
  \/ pc[s] = "poll" /\ Poll(s)
  \/ LogsFindHash(s)
  \/ LogsNoHash(s)
  \/ \E stored \in BOOLEAN : Return(s, stored)

Service ==
  \E e \in Execs :
    \/ KHRun(e)
    \/ KHBroadcast(e)
    \/ \E r \in Success \cup Failure : KHFinish(e, r)

\* Every call has returned and the service may be idle for good.
Terminating == (\A s \in Swaps : pc[s] = "returned") /\ UNCHANGED vars

Next == Service \/ (\E s \in Swaps : Start(s) \/ Step(s)) \/ Terminating

Spec == Init /\ [][Next]_vars

\* The event loop resumes a suspended call and httpx bounds every request by
\* its 30 s timeout, so a call in progress keeps taking steps.  Nothing is
\* assumed of the service.
FairSpec == Spec /\ \A s \in Swaps : WF_vars(Step(s))

-----------------------------------------------------------------------------
(* Properties.                                                             *)

PC == {"idle", "quote", "submit", "poll", "logs", "audit", "returned"}

\* The shape of the state: counters within the retry and poll budgets of
\* execute_transfer and of the status loop, statuses and results well formed.
TypeOK ==
  /\ pc      \in [Swaps -> PC]
  /\ attempt \in [Swaps -> 0 .. MaxAttempts]
  /\ id      \in [Swaps -> 0 .. MaxAttempts]
  /\ polls   \in [Swaps -> 0 .. MaxPolls]
  /\ last    \in [Swaps -> Status \cup {NoStatus}]
  /\ kh      \in [Swaps -> Status \cup {NoStatus}]
  /\ audit   \in [Swaps -> {"none", "TRADE_EXECUTED", "TRADE_FAILED"}]
  /\ result  \in [Swaps -> Result \cup {NoStatus}]
  /\ exec    \in [Execs -> [raw : Raw \cup {"absent"}, sent : BOOLEAN]]

Returned(s) == pc[s] = "returned"

\* A swap reported CONFIRMED has its own, tracked transfer on the chain: not
\* one that is only accepted, and not another call's.  The status came from
\* polls and log look-ups that raced with the service, maybe retried.
ConfirmedIsOnChain ==
  \A s \in Swaps :
    Returned(s) /\ result[s].status = "CONFIRMED"
      => id[s] \in Attempts /\ exec[<<s, id[s]>>].sent

\* A hash in a SwapResult, whatever its status, is the hash of the execution
\* whose id this call received and polled, and that transfer was broadcast.
ReportedHashIsTracked ==
  \A s \in Swaps :
    Returned(s) /\ result[s].tx # NoTx
      => result[s].tx = <<s, id[s]>> /\ exec[result[s].tx].sent

\* The audit entry on 0G and the SwapResult tell the same story, although
\* KHAuditEntry.succeeded knows fewer spellings of success than _ExecStatus.
AuditAgrees ==
  \A s \in Swaps :
    Returned(s) /\ audit[s] # "none"
      => (audit[s] = "TRADE_EXECUTED" <=> result[s].status = "CONFIRMED")

\* Over all the ways the status loop, the logs and the error paths build a
\* SwapResult, callers get what execute_swap promises: each call one of the
\* outcomes they know, once, and for good.
Promise ==
  INSTANCE SwapPromise
    WITH Calls <- Swaps, Pending <- NoStatus,
         outcome <- [s \in Swaps |-> IF Returned(s) THEN [result[s] EXCEPT !.tx = (@ # NoTx)]
                                                    ELSE NoStatus]

KeepsPromise == Promise!Spec

\* Once a call holds an execution_id, or has returned, it never makes the
\* service accept another transfer: a failing poll is not a resubmission.
NoSubmitOnceTracked ==
  [][\A s \in Swaps :
       id[s] # 0 \/ Returned(s) => Accepted(s)' = Accepted(s)]_vars

\* execute_swap returns, whatever the service does or fails to do: retries
\* and polls are bounded.
SwapReturns == \A s \in Swaps : pc[s] = "quote" ~> Returned(s)

\* core/pnl.py:6: one fixed-size on-chain transfer per approved cycle.
OneTransferPerSwap ==
  \A s \in Swaps : \A a, b \in Attempts :
    exec[<<s, a>>].sent /\ exec[<<s, b>>].sent => a = b
=============================================================================
