---------------------------- MODULE SwarmAgents ----------------------------
(***************************************************************************)
(* The three agents as separate processes: the life cycle and the dispatch *)
(* loop of agents/base.py, the message handlers of agents/researcher.py,   *)
(* risk.py and executor.py, the AXL client below them (core/axl_client.py) *)
(* and the risk gate (core/compute/risk_scorer.py).                        *)
(*                                                                         *)
(* An action is what a coroutine does from one await to the next.  The     *)
(* AXL nodes (external) keep one mailbox per agent, a bag of messages that *)
(* survives its agent.  A message is its type, the market signal it goes   *)
(* back to and the one field its receiver branches on; ids, keys, tokens   *)
(* and amounts are left out.  The signal a message goes back to is not on  *)
(* the wire: it only serves to state properties.                           *)
(***************************************************************************)
EXTENDS Integers, SwapContract

CONSTANTS Signals,    \* market signals sent to the risk agent
          NoSignal,
          MaxSends,   \* stop_after_attempt(3) of AXLClient._retrying
          Threshold,  \* RiskScorer.RISK_THRESHOLD
          MaxPings,   \* bound on the pings that ping_swarm sends
          FaultSets   \* each a set of things that may go wrong together

ASSUME SignalsAssumption   == NoSignal \notin Signals
ASSUME SendsAssumption     == MaxSends \in Nat \ {0}
ASSUME ThresholdAssumption == Threshold \in 0 .. 10
ASSUME PingsAssumption     == MaxPings \in Nat
ASSUME FaultsAssumption    ==
  FaultSets \subseteq SUBSET {"start", "stop", "send", "recv", "memory", "model"}

VARIABLES
  faults,     \* what may go wrong in this behaviour
  running,    \* BaseAgent._running
  at,         \* where the agent's start or its dispatch task stands
  cur,        \* the signal its handler works for
  swap,       \* outcome of the execute_swap call the executor awaits or records
  out,        \* message the handler is sending
  tries,      \* attempts of that send that failed
  stop,       \* where stop() stands
  status,     \* AgentState.status of the agent on 0G
  mail,       \* the mailboxes of the AXL nodes
  pings,      \* pings sent so far
  heard,      \* execution results the researcher received
  announced,  \* signals handed to the risk agent's node
  approvals,  \* answers of the model that approve a trade, per signal
  swaps,      \* execute_swap calls begun, per signal
  settled     \* what kinds of outcome they returned, per signal

agent   == <<running, at, cur, swap, out, tries, stop, status>>
network == <<mail, pings, heard, announced>>
history == <<approvals, swaps, settled>>
vars    == <<faults, running, at, cur, swap, out, tries, stop, status,
             mail, pings, heard, announced, approvals, swaps, settled>>

Roles == {"researcher", "risk", "executor"}

Message(t, s, b) == [type |-> t, sig |-> s, body |-> b]

Ping         == Message("ping", NoSignal, "none")
Pong         == Message("pong", NoSignal, "none")
Signal(s)    == Message("signal", s, "none")
Decision(s, a) == Message("decision", s, a)
Report(s, b) == Message("result", s, b)

Actions == {"trade", "hold"}       \* TradeAction: BUY and SELL are alike
Verdicts == {"success", "failure"}

Messages == {Ping, Pong} \cup [type : {"signal"}, sig : Signals, body : {"none"}]
            \cup [type : {"decision"}, sig : Signals, body : Actions]
            \cup [type : {"result"}, sig : Signals, body : Verdicts]

NoOutcome == [status |-> "none", tx |-> FALSE, err |-> FALSE]

-----------------------------------------------------------------------------
(* Sending: one POST /send per action.                                     *)

Dest(m) == CASE m.type = "signal"   -> "risk"
             [] m.type = "decision" -> "executor"
             [] OTHER               -> "researcher"

Put(r, m, n) == [mail EXCEPT ![r][m] = @ + n]
Deliver(m, got) == IF got THEN Put(Dest(m), m, 1) ELSE mail

\* The exception of a send ends the handler of a message, which _route and
\* _send_result catch, but the dispatch loop when the message is a pong.
AfterRaise(m) == IF m = Pong THEN "crashed" ELSE "recv"

\* A handler is over: its local variables are gone.
Leave(r, to) ==
  /\ at'    = [at EXCEPT ![r] = to]
  /\ cur'   = [cur EXCEPT ![r] = NoSignal]
  /\ swap'  = IF r = "executor" THEN NoOutcome ELSE swap
  /\ out'   = [out EXCEPT ![r] = Pong]
  /\ tries' = [tries EXCEPT ![r] = 0]

Sending(r, got) ==
  /\ at[r] = "send"
  /\ stop[r] # "closed"
  /\ mail' = Deliver(out[r], got)
  /\ UNCHANGED <<running, stop, status, pings, heard, announced>>
  /\ UNCHANGED history

SendDone(r) ==
  /\ Sending(r, TRUE)
  /\ Leave(r, "recv")

\* Mutant: the attempts of a send are never counted.
SendTimesOutForever(r, got) ==
  /\ "send" \in faults
  /\ Sending(r, got)
  /\ UNCHANGED <<at, cur, swap, out, tries>>

\* Mutant: one attempt too many.
SendTimesOutLate(r, got) ==
  /\ "send" \in faults
  /\ Sending(r, got)
  /\ IF tries[r] < MaxSends
       THEN tries' = [tries EXCEPT ![r] = @ + 1] /\ UNCHANGED <<at, cur, swap, out>>
       ELSE Leave(r, AfterRaise(out[r]))

\* ConnectError (not delivered) or TimeoutException (delivered or not):
\* retried, and re-raised after the last attempt.
SendTimesOut(r, got) ==
  /\ "send" \in faults
  /\ Sending(r, got)
  /\ IF tries[r] + 1 < MaxSends
       THEN tries' = [tries EXCEPT ![r] = @ + 1] /\ UNCHANGED <<at, cur, swap, out>>
       ELSE Leave(r, AfterRaise(out[r]))

\* Any other failure, such as the node's 502, is not retried.
SendRaises(r, got) ==
  /\ "send" \in faults
  /\ Sending(r, got)
  /\ Leave(r, AfterRaise(out[r]))

\* The handler of r starts to send m, which is all it still needs.
StartSend(r, m) ==
  /\ at'    = [at EXCEPT ![r] = "send"]
  /\ cur'   = [cur EXCEPT ![r] = NoSignal]
  /\ swap'  = IF r = "executor" THEN NoOutcome ELSE swap
  /\ out'   = [out EXCEPT ![r] = m]
  /\ tries' = [tries EXCEPT ![r] = 0]

-----------------------------------------------------------------------------
(* Receiving.                                                              *)

Take(r, m) == mail[r][m] > 0 /\ mail' = Put(r, m, -1)

\* Mutant: a HOLD is dropped where it arrives.
HandlerDropsHold(r, m) ==
  CASE r = "risk" /\ m.type = "signal"                          -> "deciding"
    [] r = "executor" /\ m.type = "decision" /\ m.body # "hold" -> "executing"
    [] OTHER                                                    -> "recv"

\* The first step of the handler of m; a message that the agent's on_message
\* does not know is logged and dropped.
Handler(r, m) ==
  CASE r = "risk" /\ m.type = "signal"                          -> "deciding"
    [] r = "executor" /\ m.type = "decision" /\ m.body = "hold" -> "holding"
    [] r = "executor" /\ m.type = "decision" /\ m.body # "hold" -> "executing"
    [] OTHER                                                    -> "recv"

\* The handler of a message that goes back to s begins, if there is one.
Enter(r, l, s) ==
  /\ at' = [at EXCEPT ![r] = l]
  /\ cur' = [cur EXCEPT ![r] = IF l \in {"recv", "ended"} THEN NoSignal ELSE s]
  /\ UNCHANGED <<swap, out, tries>>

\* _route: a ping is answered, everything else goes to on_message.  A loop
\* that finds _running false breaks, and the message is gone.
Receive(r, m) ==
  /\ at[r] = "recv"
  /\ stop[r] # "closed"
  /\ Take(r, m)
  /\ heard' = IF running[r] /\ r = "researcher" /\ m.type = "result"
                THEN heard \cup {m} ELSE heard
  /\ IF running[r] /\ m.type = "ping"
       THEN StartSend(r, Pong)
       ELSE Enter(r, IF running[r] THEN Handler(r, m) ELSE "ended", m.sig)
  /\ UNCHANGED <<running, stop, status, pings, announced>>
  /\ UNCHANGED history

\* GET /recv times out after the node handed the message over.
ReceiveLost(r, m) ==
  /\ "recv" \in faults
  /\ at[r] = "recv"
  /\ stop[r] # "closed"
  /\ Take(r, m)
  /\ UNCHANGED <<agent, pings, heard, announced>>
  /\ UNCHANGED history

\* recv does not retry: a connection error, an HTTP error or a body that does
\* not decode ends the dispatch loop, and _running stays as it is.  So does a
\* client that stop() closed while start() was under way.
ReceiveRaises(r) ==
  /\ "recv" \in faults \/ stop[r] = "closed"
  /\ at[r] = "recv"
  /\ at' = [at EXCEPT ![r] = "crashed"]
  /\ UNCHANGED <<running, cur, swap, out, tries, stop, status>>
  /\ UNCHANGED <<network, history>>

-----------------------------------------------------------------------------
(* Steps of a handler.  The call of memory that a step makes takes effect  *)
(* with the step; a call that raises ends the handler in _route.           *)

Step(r, from, to) ==
  /\ at[r] = from
  /\ at' = [at EXCEPT ![r] = to]

SetStatus(r, st) == status' = [status EXCEPT ![r] = st]

\* Mutant: a decision leaves the agent's status alone.
ShownStale(r) ==
  CASE at[r] = "deciding"  -> "DECIDING"
    [] at[r] = "holding"   -> "IDLE"
    [] at[r] = "executing" -> "EXECUTING"
    [] at[r] = "settle"    -> IF swap.status = "CONFIRMED" THEN "IDLE" ELSE "ERROR"
    [] OTHER               -> status[r]

\* What the update_status of a step writes; the other memory calls are log_event.
Shown(r) ==
  CASE at[r] = "deciding"               -> "DECIDING"
    [] at[r] \in {"decided", "holding"} -> "IDLE"
    [] at[r] = "executing"              -> "EXECUTING"
    [] at[r] = "settle"                 -> IF swap.status = "CONFIRMED" THEN "IDLE" ELSE "ERROR"
    [] OTHER                            -> status[r]

MemorySteps == {"deciding", "logDecision", "decided", "holding", "logHold",
                "executing", "settle", "logSettle"}

\* update_status may have written the agent's own key before it raised.
MemoryFails(r, wrote) ==
  /\ "memory" \in faults
  /\ at[r] \in MemorySteps
  /\ Leave(r, "recv")
  /\ SetStatus(r, IF wrote THEN Shown(r) ELSE status[r])
  /\ UNCHANGED <<running, stop>>
  /\ UNCHANGED <<network, history>>

-----------------------------------------------------------------------------
(* RiskAgent._handle_signal.                                               *)

Deciding ==
  /\ Step("risk", "deciding", "score")
  /\ SetStatus("risk", Shown("risk"))
  /\ UNCHANGED <<running, cur, swap, out, tries, stop>>
  /\ UNCHANGED <<network, history>>

\* The model's answer: a score out of ten, whole numbers suffice, and an action.
Answers == [risk : 0 .. 10, act : Actions]

Approves(a) == a.act = "trade" /\ a.risk < Threshold

\* Mutant: the threshold itself passes the gate.
ScoredAtThreshold(a) ==
  IF a.risk > Threshold THEN "hold" ELSE a.act

\* score: a score at or above the threshold forces HOLD.
Scored(a) == IF a.risk >= Threshold THEN "hold" ELSE a.act

\* The answer is turned into a TRADE_DECISION.
Score(a) ==
  /\ Step("risk", "score", "logDecision")
  /\ out' = [out EXCEPT !["risk"] = Decision(cur["risk"], Scored(a))]
  /\ approvals' = [approvals EXCEPT ![cur["risk"]] = IF Approves(a) THEN @ + 1 ELSE @]
  /\ UNCHANGED <<running, cur, swap, tries, stop, status, swaps, settled>>
  /\ UNCHANGED network

\* The inference, with its retries, or the parsing of the answer fails: HOLD.
ScoreFails ==
  /\ "model" \in faults
  /\ Step("risk", "score", "logDecision")
  /\ out' = [out EXCEPT !["risk"] = Decision(cur["risk"], "hold")]
  /\ UNCHANGED <<running, cur, swap, tries, stop, status>>
  /\ UNCHANGED <<network, history>>

\* An answer outside the ranges of TradeDecisionPayload (a score above 10, a
\* confidence of 80) raises out of the handler: no decision is sent.
ScoreRaises ==
  /\ "model" \in faults
  /\ at["risk"] = "score"
  /\ Leave("risk", "recv")
  /\ UNCHANGED <<running, stop, status>>
  /\ UNCHANGED <<network, history>>

LogDecision ==
  /\ Step("risk", "logDecision", "decided")
  /\ UNCHANGED <<running, cur, swap, out, tries, stop, status>>
  /\ UNCHANGED <<network, history>>

Decided ==
  /\ at["risk"] = "decided"
  /\ SetStatus("risk", Shown("risk"))
  /\ StartSend("risk", out["risk"])
  /\ UNCHANGED <<running, stop>>
  /\ UNCHANGED <<network, history>>

-----------------------------------------------------------------------------
(* ExecutorAgent._handle_trade_decision.                                   *)

Holding ==
  /\ Step("executor", "holding", "logHold")
  /\ SetStatus("executor", Shown("executor"))
  /\ UNCHANGED <<running, cur, swap, out, tries, stop>>
  /\ UNCHANGED <<network, history>>

LogHold ==
  /\ at["executor"] = "logHold"
  /\ StartSend("executor", Report(cur["executor"], "failure"))
  /\ UNCHANGED <<running, stop, status>>
  /\ UNCHANGED <<network, history>>

\* The call of execute_swap follows without another await.
Executing ==
  /\ Step("executor", "executing", "swap")
  /\ SetStatus("executor", Shown("executor"))
  /\ swaps' = [swaps EXCEPT ![cur["executor"]] = @ + 1]
  /\ UNCHANGED <<running, cur, swap, out, tries, stop, approvals, settled>>
  /\ UNCHANGED network

\* An outcome that stands for a transaction, and any other.
Kind(o) == IF o.status # "FAILED" /\ o.tx THEN "landed" ELSE "other"

SwapDone(o) ==
  /\ Step("executor", "swap", "settle")
  /\ swap' = o
  /\ settled' = [settled EXCEPT ![cur["executor"]] = @ \cup {Kind(o)}]
  /\ UNCHANGED <<running, cur, out, tries, stop, status, approvals, swaps>>
  /\ UNCHANGED network

Settle ==
  /\ Step("executor", "settle", "logSettle")
  /\ SetStatus("executor", Shown("executor"))
  /\ UNCHANGED <<running, cur, swap, out, tries, stop>>
  /\ UNCHANGED <<network, history>>

Verdict(o) == IF o.status \in {"CONFIRMED", "SUBMITTED"} THEN "success" ELSE "failure"

\* Mutant: a success needs no hash.
ReportableAnyway(o) == Verdict(o) = "success" \/ o.err

\* ExecutionResultPayload: a success needs a hash, a failure an error text.
Reportable(o) == IF Verdict(o) = "success" THEN o.tx ELSE o.err

\* The outcome is logged and _send_result called; a payload that does not
\* validate raises out of the handler.
LogSettle ==
  /\ at["executor"] = "logSettle"
  /\ IF Reportable(swap)
       THEN StartSend("executor", Report(cur["executor"], Verdict(swap)))
       ELSE Leave("executor", "recv")
  /\ UNCHANGED <<running, stop, status>>
  /\ UNCHANGED <<network, history>>

-----------------------------------------------------------------------------
(* start and stop.                                                         *)

\* topology answers, or raises out of start; the researcher has no memory.
\* stop() may have been called and have closed the client by then: the request
\* fails, or its answer had arrived and start() goes on, running again.
Start(r, ok) ==
  /\ ok \/ "start" \in faults \/ stop[r] = "closed"
  /\ Step(r, "off", IF ~ok THEN "failed" ELSE IF r = "researcher" THEN "recv" ELSE "start")
  /\ running' = [running EXCEPT ![r] = ok]
  /\ UNCHANGED <<cur, swap, out, tries, stop, status>>
  /\ UNCHANGED <<network, history>>

\* The first update_status and log_event; if they raise, so does start, and
\* the agent has no dispatch loop.
StartMemory(r, ok, wrote) ==
  /\ ok \/ "memory" \in faults
  /\ ok => wrote
  /\ Step(r, "start", IF ok THEN "recv" ELSE "failed")
  /\ SetStatus(r, IF wrote THEN "IDLE" ELSE status[r])
  /\ UNCHANGED <<running, cur, swap, out, tries, stop>>
  /\ UNCHANGED <<network, history>>

\* A signal handler's task: it runs beside start and beside the dispatch loop.
\* While start() awaits the topology there is neither a memory nor a task, and
\* stop() goes on to close the client.
StopCalled(r) ==
  /\ "stop" \in faults
  /\ stop[r] = "no"
  /\ at[r] # "failed"
  /\ running' = [running EXCEPT ![r] = FALSE]
  /\ stop' = [stop EXCEPT ![r] = IF at[r] = "off" THEN "closed"
                                 ELSE IF r = "researcher" THEN "cancel" ELSE "idle"]
  /\ UNCHANGED <<at, cur, swap, out, tries, status>>
  /\ UNCHANGED <<network, history>>

\* A failing memory is only logged.
StopIdle(r, ok, wrote) ==
  /\ stop[r] = "idle"
  /\ ok \/ "memory" \in faults
  /\ ok => wrote
  /\ stop' = [stop EXCEPT ![r] = IF ok THEN "log" ELSE "cancel"]
  /\ SetStatus(r, IF wrote THEN "IDLE" ELSE status[r])
  /\ UNCHANGED <<running, at, cur, swap, out, tries>>
  /\ UNCHANGED <<network, history>>

StopLog(r) ==     \* a log_event that raises comes to the same
  /\ stop[r] = "log"
  /\ stop' = [stop EXCEPT ![r] = "cancel"]
  /\ UNCHANGED <<running, at, cur, swap, out, tries, status>>
  /\ UNCHANGED <<network, history>>

\* Mutant: stop closes the client and leaves the dispatch task alone.
StopCloseOnly(r, got) ==
  /\ stop[r] = "cancel"
  /\ ~got
  /\ stop' = [stop EXCEPT ![r] = "closed"]
  /\ UNCHANGED <<running, at, cur, swap, out, tries, status>>
  /\ UNCHANGED <<network, history>>

\* Mutant: stop waits for the dispatch task instead of cancelling it.
StopAwaits(r, got) ==
  /\ stop[r] = "cancel"
  /\ ~got
  /\ at[r] \in {"start", "failed", "crashed", "ended"}
  /\ stop' = [stop EXCEPT ![r] = "closed"]
  /\ UNCHANGED <<running, at, cur, swap, out, tries, status>>
  /\ UNCHANGED <<network, history>>

\* The dispatch task is cancelled at its await, whatever it waits for: a POST
\* on the wire may still be delivered, a swap goes on without its caller.
\* Then the client is closed.
StopCancel(r, got) ==
  /\ stop[r] = "cancel"
  /\ got => at[r] = "send"
  /\ stop' = [stop EXCEPT ![r] = "closed"]
  /\ mail' = Deliver(out[r], got)
  /\ Leave(r, IF at[r] \in {"start", "failed", "crashed"} THEN at[r] ELSE "ended")
  /\ UNCHANGED <<running, status, pings, heard, announced>>
  /\ UNCHANGED history

-----------------------------------------------------------------------------
(* Around the agents.                                                      *)

\* ResearcherAgent.ping_swarm pings each other agent; its send puts n copies
\* of the ping into the mailbox, more than one if it retried after a timeout.
PingSwarm(r, n) ==
  /\ r # "researcher"
  /\ running["researcher"]
  /\ stop["researcher"] # "closed"
  /\ pings < MaxPings
  /\ n = 1 \/ "send" \in faults
  /\ pings' = pings + 1
  /\ mail' = Put(r, Ping, n)
  /\ UNCHANGED <<agent, heard, announced>>
  /\ UNCHANGED history

\* A signal is sent to the risk agent's node (external: the researcher agent
\* is a stub that sends none itself), in n copies as above.
SignalArrives(s, n) ==
  /\ s \notin announced
  /\ n = 1 \/ "send" \in faults
  /\ announced' = announced \cup {s}
  /\ mail' = Put("risk", Signal(s), n)
  /\ UNCHANGED <<agent, pings, heard>>
  /\ UNCHANGED history

-----------------------------------------------------------------------------

Init ==
  /\ faults    \in FaultSets
  /\ running   = [r \in Roles |-> FALSE]
  /\ at        = [r \in Roles |-> "off"]
  /\ cur       = [r \in Roles |-> NoSignal]
  /\ swap      = NoOutcome
  /\ out       = [r \in Roles |-> Pong]
  /\ tries     = [r \in Roles |-> 0]
  /\ stop      = [r \in Roles |-> "no"]
  /\ status    = [r \in Roles |-> "UNKNOWN"]
  /\ mail      = [r \in Roles |-> [m \in Messages |-> 0]]
  /\ pings     = 0
  /\ heard     = {}
  /\ announced = {}
  /\ approvals = [s \in Signals |-> 0]
  /\ swaps     = [s \in Signals |-> 0]
  /\ settled   = [s \in Signals |-> {}]

RiskStep ==
  \/ Deciding
  \/ \E a \in Answers : Score(a)
  \/ ScoreFails
  \/ ScoreRaises
  \/ LogDecision
  \/ Decided

ExecutorStep ==
  \/ Holding
  \/ LogHold
  \/ Executing
  \/ \E o \in SwapOutcomes : SwapDone(o)
  \/ Settle
  \/ LogSettle

\* A step of the dispatch task of r while it handles a message.
Work(r) ==
  /\ UNCHANGED faults
  /\ \/ r = "risk" /\ RiskStep
     \/ r = "executor" /\ ExecutorStep
     \/ \E wrote \in BOOLEAN : MemoryFails(r, wrote)
     \/ SendDone(r)
     \/ \E got \in BOOLEAN : SendTimesOut(r, got) \/ SendRaises(r, got)

Poll(r) ==
  /\ UNCHANGED faults
  /\ \/ \E m \in Messages : Receive(r, m) \/ ReceiveLost(r, m)
     \/ ReceiveRaises(r)

Starting(r) ==
  /\ UNCHANGED faults
  /\ \/ \E ok \in BOOLEAN : Start(r, ok)
     \/ \E ok, wrote \in BOOLEAN : StartMemory(r, ok, wrote)

Stopping(r) ==
  /\ UNCHANGED faults
  /\ \/ \E ok, wrote \in BOOLEAN : StopIdle(r, ok, wrote)
     \/ StopLog(r)
     \/ \E got \in BOOLEAN : StopCancel(r, got)

Environment ==
  /\ UNCHANGED faults
  /\ \/ \E r \in Roles : StopCalled(r)
     \/ \E r \in Roles, n \in 0 .. MaxSends : PingSwarm(r, n)
     \/ \E s \in Signals, n \in 0 .. MaxSends : SignalArrives(s, n)

Next ==
  \/ \E r \in Roles : Starting(r) \/ Poll(r) \/ Work(r) \/ Stopping(r)
  \/ Environment

Spec == Init /\ [][Next]_vars

\* The event loop resumes every suspended coroutine, requests are bounded by
\* their timeouts, and execute_swap returns (KeeperHubExecutor, SwapReturns).
FairSpec == Spec /\ \A r \in Roles : WF_vars(Work(r)) /\ WF_vars(Stopping(r))

\* Agents do get started, and the dispatch loop keeps polling.
LiveSpec == FairSpec /\ \A r \in Roles : WF_vars(Starting(r)) /\ WF_vars(Poll(r))

-----------------------------------------------------------------------------
(* Properties.                                                             *)

Handling == MemorySteps \cup {"score", "swap", "send"}

\* The shape of the state of agents, mailboxes and history.
TypeOK ==
  /\ faults    \in FaultSets
  /\ running   \in [Roles -> BOOLEAN]
  /\ at        \in [Roles -> Handling \cup {"off", "start", "failed", "recv",
                                            "crashed", "ended"}]
  /\ cur       \in [Roles -> Signals \cup {NoSignal}]
  /\ swap      \in SwapOutcomes \cup {NoOutcome}
  /\ out       \in [Roles -> Messages]
  /\ tries     \in [Roles -> 0 .. MaxSends - 1]
  /\ stop      \in [Roles -> {"no", "idle", "log", "cancel", "closed"}]
  /\ status    \in [Roles -> {"UNKNOWN", "IDLE", "DECIDING", "EXECUTING", "ERROR"}]
  /\ mail      \in [Roles -> [Messages -> Nat]]
  /\ pings     \in 0 .. MaxPings
  /\ heard     \subseteq [type : {"result"}, sig : Signals, body : Verdicts]
  /\ announced \subseteq Signals
  /\ approvals \in [Signals -> Nat]
  /\ swaps     \in [Signals -> Nat]
  /\ settled   \in [Signals -> SUBSET {"landed", "other"}]

\* The risk gate holds from end to end: every swap the executor begins goes
\* back to an answer of the model that approved this signal below the
\* threshold, and the retries of the AXL client multiply an approval by the
\* number of its attempts at most.
SwapsWereApproved ==
  \A s \in Signals : swaps[s] <= MaxSends * approvals[s]

\* A success that the researcher hears of, or that is in its mailbox, goes
\* back to a swap for the same signal that returned CONFIRMED or SUBMITTED
\* with a transaction hash.
SuccessIsReal ==
  \A s \in Signals :
    \/ Report(s, "success") \in heard
    \/ mail["researcher"][Report(s, "success")] > 0
    => "landed" \in settled[s]

\* Once stop() has returned, the agent takes no message from its node, sends
\* none and begins no swap, although stop() ran beside its dispatch task and
\* maybe beside start().
StoppedIsQuiet ==
  [][\A r \in Roles : stop[r] = "closed" =>
       /\ \A m \in Messages : mail'[r][m] >= mail[r][m]
       /\ r = "risk" => \A m \in Messages :
             m.type = "decision" => mail'["executor"][m] <= mail["executor"][m]
       /\ r = "executor" =>
             /\ \A m \in Messages :
                  m.type = "result" => mail'["researcher"][m] <= mail["researcher"][m]
             /\ swaps' = swaps]_vars

\* A handler comes to an end, whichever requests fail: retries are bounded.
\* (The researcher's handler awaits nothing: nobody sends it a ping.)
HandlersEnd ==
  \A r \in {"risk", "executor"} : at[r] \in Handling ~> at[r] \notin Handling

\* stop() returns, whatever the dispatch task waits for.
StopReturns == \A r \in Roles : stop[r] # "no" ~> stop[r] = "closed"

\* Without faults, no signal is lost on its way through the agents: a swap
\* for it returns or the researcher is told that it was held.
SignalsSettle ==
  \A s \in Signals :
    s \in announced ~> settled[s] # {} \/ Report(s, "failure") \in heard

\* Without faults, an agent that waits for messages does not look busy to
\* those that read its state on 0G, and one that trades does.
StatusFollowsWork ==
  /\ \A r \in {"risk", "executor"} : at[r] = "recv" => status[r] \in {"IDLE", "ERROR"}
  /\ at["executor"] = "swap" => status["executor"] = "EXECUTING"
=============================================================================
