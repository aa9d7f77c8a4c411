-------------------------- MODULE SwarmAgentsProofs --------------------------
(***************************************************************************)
(* Proofs about SwarmAgents, for any signals, threshold, number of send    *)
(* attempts, pings and sets of faults.                                     *)
(*                                                                         *)
(* None of the invariants of SwarmAgents is inductive.  What a mailbox may *)
(* hold follows from what an agent may be sending, and that from where its *)
(* handler stands (InStep).  A closed agent has no handler (Quiet).  That  *)
(* swaps are approved is a budget: an approval pays for MaxSends attempts  *)
(* to send its decision, each of which may put one decision into the       *)
(* executor's mailbox, each of which becomes one swap at most (Budgeted).  *)
(* That a success is real is followed back from the mailbox through the    *)
(* report under way to the outcome of the swap (Genuine).                  *)
(***************************************************************************)
EXTENDS SwarmAgents, TLAPS

USE SignalsAssumption, SendsAssumption, ThresholdAssumption, PingsAssumption,
    FaultsAssumption

Idle == {"off", "start", "failed", "recv", "crashed", "ended"}

DecisionSteps == {"deciding", "score", "logDecision", "decided"}
SwapSteps == {"holding", "logHold", "executing", "swap", "settle", "logSettle"}

Decisions == [type : {"decision"}, sig : Signals, body : Actions]
Reports   == [type : {"result"}, sig : Signals, body : Verdicts]

\* Which handler an agent can be in, the signal it works for, and what it can
\* be sending: a pong, and at the end of its handler a decision or a report.
InStep ==
  /\ at["researcher"] \in Idle \cup {"send"}
  /\ at["risk"] \in Idle \cup DecisionSteps \cup {"send"}
  /\ at["executor"] \in Idle \cup SwapSteps \cup {"send"}
  /\ \A r \in Roles : at[r] \in DecisionSteps \cup SwapSteps => cur[r] \in Signals
  /\ out["researcher"] = Pong
  /\ out["risk"] \in Decisions \cup {Pong}
  /\ out["executor"] \in Reports \cup {Pong}
  /\ out["risk"] # Pong => at["risk"] \in {"logDecision", "decided", "send"}
  /\ out["executor"] # Pong => at["executor"] = "send"
  /\ at["risk"] \in {"logDecision", "decided"} => out["risk"] # Pong

\* A client is closed only when no handler runs.
Quiet == \A r \in Roles : stop[r] = "closed" => at[r] \in Idle

\* The decisions to trade on s that the risk agent may still put into the
\* mailbox, and the swap that the executor is about to begin for s.
Owed(s) ==
  IF out["risk"] # Decision(s, "trade") THEN 0
  ELSE IF at["risk"] = "send" THEN MaxSends - tries["risk"] ELSE MaxSends
Begun(s) == IF at["executor"] = "executing" /\ cur["executor"] = s THEN 1 ELSE 0

Budgeted ==
  \A s \in Signals :
    swaps[s] + Begun(s) + mail["executor"][Decision(s, "trade")] + Owed(s)
      <= MaxSends * approvals[s]

\* The report under way and the outcome it is made from.
Genuine ==
  /\ SuccessIsReal
  /\ \A s \in Signals : out["executor"] = Report(s, "success") => "landed" \in settled[s]
  /\ at["executor"] \in {"settle", "logSettle"} =>
       swap \in SwapOutcomes /\ Kind(swap) \in settled[cur["executor"]]

IInv == TypeOK /\ InStep /\ Quiet

\* Where memory and model answer and nobody calls stop, the status is set
\* before an agent waits for messages again, and before it swaps.
StatusKept ==
  faults \cap {"memory", "model", "stop"} = {} =>
    /\ \A r \in Roles : stop[r] = "no"
    /\ \A r \in {"risk", "executor"} :
         at[r] \in {"recv", "send", "logHold", "logSettle"} => status[r] \in {"IDLE", "ERROR"}
    /\ at["executor"] = "swap" => status["executor"] = "EXECUTING"

-----------------------------------------------------------------------------
(* The operators the model is built from.                                  *)

\* What a message says, by its type; the kinds differ.
LEMMA MessageFacts ==
  /\ Ping \in Messages /\ Pong \in Messages /\ Ping # Pong
  /\ Ping.type = "ping" /\ Pong.type = "pong"
  /\ Decisions \subseteq Messages /\ Reports \subseteq Messages
  /\ \A s \in Signals : /\ Signal(s) \in Messages
                        /\ Signal(s).type = "signal"
                        /\ Signal(s).sig = s
  /\ \A s \in Signals, a \in Actions : /\ Decision(s, a) \in Decisions
                                       /\ Decision(s, a).sig = s
                                       /\ Decision(s, a).body = a
  /\ \A s \in Signals, v \in Verdicts : /\ Report(s, v) \in Reports
                                        /\ Report(s, v).sig = s
                                        /\ Report(s, v).body = v
  /\ \A m \in Decisions : /\ m.type = "decision"
                          /\ m.sig \in Signals
                          /\ m.body \in Actions
                          /\ m = Decision(m.sig, m.body)
  /\ \A m \in Reports : /\ m.type = "result"
                        /\ m.sig \in Signals
                        /\ m.body \in Verdicts
                        /\ m = Report(m.sig, m.body)
  /\ \A m \in Messages : /\ m.type = "signal" => m.sig \in Signals
                         /\ m.type = "decision" => m \in Decisions
                         /\ m.type = "result" => m \in Reports
  BY DEF Messages, Ping, Pong, Signal, Decision, Report, Message, Decisions,
         Reports, Actions, Verdicts

\* Where a message goes: a decision to the executor, a report or a pong to
\* the researcher.
LEMMA DestFacts ==
  /\ \A m \in Messages : Dest(m) \in Roles
  /\ \A m \in Decisions : Dest(m) = "executor"
  /\ \A m \in Reports \cup {Pong} : Dest(m) = "researcher"
  BY MessageFacts DEF Dest, Roles

\* Put adds to one entry of one mailbox.
LEMMA PutEffect ==
  ASSUME NEW r \in Roles, NEW m \in Messages, NEW n \in Int,
         mail \in [Roles -> [Messages -> Nat]], mail[r][m] + n >= 0
  PROVE  /\ Put(r, m, n) \in [Roles -> [Messages -> Nat]]
         /\ Put(r, m, n)[r][m] = mail[r][m] + n
         /\ \A q \in Roles, k \in Messages :
              q # r \/ k # m => Put(r, m, n)[q][k] = mail[q][k]
  <1> DEFINE box == [mail[r] EXCEPT ![m] = @ + n]
  <1>1. /\ box \in [Messages -> Nat]
        /\ box[m] = mail[r][m] + n
        /\ \A k \in Messages : k # m => box[k] = mail[r][k]
    OBVIOUS
  <1>2. Put(r, m, n) = [mail EXCEPT ![r] = box]
    BY DEF Put
  <1> HIDE DEF box
  <1> QED BY <1>1, <1>2

-----------------------------------------------------------------------------
(* Types, and where a handler stands.                                      *)

\* The variables of a handler.
HandlerOK ==
  /\ at    \in [Roles -> Idle \cup DecisionSteps \cup SwapSteps \cup {"send"}]
  /\ cur   \in [Roles -> Signals \cup {NoSignal}]
  /\ swap  \in SwapOutcomes \cup {NoOutcome}
  /\ out   \in [Roles -> Messages]
  /\ tries \in [Roles -> 0 .. MaxSends - 1]
  /\ InStep

\* The other variables.
RestOK ==
  /\ faults    \in FaultSets
  /\ running   \in [Roles -> BOOLEAN]
  /\ stop      \in [Roles -> {"no", "idle", "log", "cancel", "closed"}]
  /\ status    \in [Roles -> {"UNKNOWN", "IDLE", "DECIDING", "EXECUTING", "ERROR"}]
  /\ mail      \in [Roles -> [Messages -> Nat]]
  /\ pings     \in 0 .. MaxPings
  /\ heard     \subseteq Reports
  /\ announced \subseteq Signals
  /\ approvals \in [Signals -> Nat]
  /\ swaps     \in [Signals -> Nat]
  /\ settled   \in [Signals -> SUBSET {"landed", "other"}]

\* The inductive invariant, regrouped by the variables that steps change.
LEMMA InvariantParts == IInv <=> HandlerOK /\ RestOK /\ Quiet
  <1>1. Handling \cup {"off", "start", "failed", "recv", "crashed", "ended"}
          = Idle \cup DecisionSteps \cup SwapSteps \cup {"send"}
    BY DEF Handling, MemorySteps, Idle, DecisionSteps, SwapSteps
  <1> QED BY <1>1 DEF IInv, TypeOK, HandlerOK, RestOK, Reports

\* The same for the state after a step.
LEMMA InvariantPartsNext == IInv' <=> HandlerOK' /\ RestOK' /\ Quiet'
  <1>1. Handling \cup {"off", "start", "failed", "recv", "crashed", "ended"}
          = Idle \cup DecisionSteps \cup SwapSteps \cup {"send"}
    BY DEF Handling, MemorySteps, Idle, DecisionSteps, SwapSteps
  <1> QED BY <1>1 DEF IInv, TypeOK, HandlerOK, RestOK, Reports

\* A handler that is left leaves nothing behind.
LEMMA LeaveOK ==
  ASSUME HandlerOK, NEW r \in Roles, NEW l \in Idle, Leave(r, l)
  PROVE  HandlerOK' /\ at'[r] = l /\ \A q \in Roles : q # r => at'[q] = at[q]
  <1>1. /\ at' \in [Roles -> Idle \cup DecisionSteps \cup SwapSteps \cup {"send"}]
        /\ at'[r] = l /\ \A q \in Roles : q # r => at'[q] = at[q]
    BY DEF Leave, HandlerOK
  <1>2. /\ cur' \in [Roles -> Signals \cup {NoSignal}]
        /\ \A q \in Roles : q # r => cur'[q] = cur[q]
    BY DEF Leave, HandlerOK
  <1>3. swap' \in SwapOutcomes \cup {NoOutcome}
    BY DEF Leave, HandlerOK
  <1>4. /\ out' \in [Roles -> Messages]
        /\ out'[r] = Pong /\ \A q \in Roles : q # r => out'[q] = out[q]
    BY MessageFacts DEF Leave, HandlerOK
  <1>5. tries' \in [Roles -> 0 .. MaxSends - 1]
    BY DEF Leave, HandlerOK
  <1>6. InStep'
    BY <1>1, <1>2, <1>4 DEF HandlerOK, InStep, Roles, Idle, DecisionSteps, SwapSteps
  <1> QED BY <1>1, <1>2, <1>3, <1>4, <1>5, <1>6 DEF HandlerOK

\* A send begins with a message its agent may send.
LEMMA StartSendOK ==
  ASSUME HandlerOK, NEW r \in Roles, NEW m \in Messages, StartSend(r, m),
         \/ m = Pong
         \/ r = "risk" /\ m \in Decisions
         \/ r = "executor" /\ m \in Reports
  PROVE  HandlerOK' /\ at'[r] = "send" /\ \A q \in Roles : q # r => at'[q] = at[q]
  <1>1. /\ at' \in [Roles -> Idle \cup DecisionSteps \cup SwapSteps \cup {"send"}]
        /\ at'[r] = "send" /\ \A q \in Roles : q # r => at'[q] = at[q]
    BY DEF StartSend, HandlerOK
  <1>2. /\ cur' \in [Roles -> Signals \cup {NoSignal}]
        /\ \A q \in Roles : q # r => cur'[q] = cur[q]
    BY DEF StartSend, HandlerOK
  <1>3. swap' \in SwapOutcomes \cup {NoOutcome}
    BY DEF StartSend, HandlerOK
  <1>4. /\ out' \in [Roles -> Messages]
        /\ out'[r] = m /\ \A q \in Roles : q # r => out'[q] = out[q]
    BY MessageFacts DEF StartSend, HandlerOK
  <1>5. tries' \in [Roles -> 0 .. MaxSends - 1]
    BY DEF StartSend, HandlerOK
  <1>6. InStep'
    BY <1>1, <1>2, <1>4 DEF HandlerOK, InStep, Roles, Idle, DecisionSteps, SwapSteps
  <1> QED BY <1>1, <1>2, <1>3, <1>4, <1>5, <1>6 DEF HandlerOK

\* A handler moves on to l with the signal and the message it has then.
LEMMA MoveOK ==
  ASSUME HandlerOK, NEW r \in Roles, NEW l \in Idle \cup DecisionSteps \cup SwapSteps,
         at' = [at EXCEPT ![r] = l],
         UNCHANGED tries,
         swap' \in SwapOutcomes \cup {NoOutcome},
         cur' \in [Roles -> Signals \cup {NoSignal}],
         out' \in [Roles -> Messages],
         \A q \in Roles : q # r => cur'[q] = cur[q] /\ out'[q] = out[q],
         l \notin Idle => cur'[r] \in Signals,
         r = "researcher" => l \in Idle /\ out'[r] = Pong,
         r = "risk" => /\ l \notin SwapSteps
                       /\ out'[r] \in Decisions \cup {Pong}
                       /\ l \in {"logDecision", "decided"} <=> out'[r] # Pong,
         r = "executor" => l \notin DecisionSteps /\ out'[r] = Pong
  PROVE  HandlerOK' /\ at'[r] = l /\ \A q \in Roles : q # r => at'[q] = at[q]
  <1>1. /\ at' \in [Roles -> Idle \cup DecisionSteps \cup SwapSteps \cup {"send"}]
        /\ at'[r] = l /\ \A q \in Roles : q # r => at'[q] = at[q]
    BY DEF HandlerOK
  <1>2. tries' \in [Roles -> 0 .. MaxSends - 1]
    BY DEF HandlerOK
  <1>3. InStep'
    BY <1>1 DEF HandlerOK, InStep, Roles, Idle, DecisionSteps, SwapSteps
  <1> QED BY <1>1, <1>2, <1>3 DEF HandlerOK

\* Outside a send, only a decision that was made is ready to be sent.
LEMMA NothingToSend ==
  ASSUME HandlerOK, NEW r \in Roles, at[r] \notin {"send", "logDecision", "decided"}
  PROVE  out[r] = Pong
  BY DEF HandlerOK, InStep, Roles

\* What is sent is what the agent may send.
LEMMA Sendable ==
  ASSUME HandlerOK, NEW r \in Roles
  PROVE  /\ out[r] \in Messages
         /\ \/ out[r] = Pong
            \/ r = "risk" /\ out[r] \in Decisions
            \/ r = "executor" /\ out[r] \in Reports
  BY DEF HandlerOK, InStep, Roles

\* A client stays closed beside handlers that were not running.
LEMMA QuietKept ==
  ASSUME Quiet, NEW r \in Roles, UNCHANGED stop,
         \A q \in Roles : q # r => at'[q] = at[q],
         at'[r] \in Idle \/ stop[r] # "closed"
  PROVE  Quiet'
  BY DEF Quiet

\* What update_status writes is a status.
LEMMA ShownOK ==
  ASSUME RestOK, NEW r \in Roles
  PROVE  Shown(r) \in {"UNKNOWN", "IDLE", "DECIDING", "EXECUTING", "ERROR"}
  BY DEF RestOK, Shown

\* An agent that works for a signal is not closed.
LEMMA OpenInHandler ==
  ASSUME Quiet, NEW r \in Roles, at[r] \notin Idle
  PROVE  stop[r] # "closed"
  BY DEF Quiet

\* A delivery adds one message of the agent's own to the mailbox it is for.
LEMMA DeliverOK ==
  ASSUME HandlerOK, RestOK, NEW r \in Roles, NEW got \in BOOLEAN,
         mail' = Deliver(out[r], got)
  PROVE  mail' \in [Roles -> [Messages -> Nat]]
  <1>1. CASE got
    <2>1. out[r] \in Messages /\ Dest(out[r]) \in Roles
      BY Sendable, DestFacts
    <2>2. mail \in [Roles -> [Messages -> Nat]]
      BY DEF RestOK
    <2>3. mail[Dest(out[r])][out[r]] + 1 >= 0
      BY <2>1, <2>2
    <2>4. Put(Dest(out[r]), out[r], 1) \in [Roles -> [Messages -> Nat]]
      BY <2>1, <2>2, <2>3, PutEffect
    <2> QED BY <1>1, <2>4 DEF Deliver
  <1>2. CASE ~got
    BY <1>2 DEF Deliver, RestOK
  <1> QED BY <1>1, <1>2

\* Every step of the risk agent's handler.
LEMMA RiskStepOK ==
  ASSUME IInv, UNCHANGED faults, RiskStep
  PROVE  IInv'
  <1> USE DEF Roles
  <1>0. HandlerOK /\ RestOK /\ Quiet
    BY InvariantParts
  <1>1. CASE Deciding
    <2>1. HandlerOK' /\ \A q \in Roles : q # "risk" => at'[q] = at[q]
      <3>1. cur["risk"] \in Signals /\ out["risk"] = Pong
        BY <1>0, <1>1 DEF Deciding, Step, HandlerOK, InStep, DecisionSteps
      <3> QED
        BY <1>0, <1>1, <3>1, MoveOK
        DEF Deciding, Step, HandlerOK, DecisionSteps, SwapSteps, Idle
    <2>2. RestOK'
      BY <1>0, <1>1, ShownOK DEF Deciding, SetStatus, RestOK, network, history
    <2>3. Quiet'
      BY <1>0, <1>1, <2>1, QuietKept, OpenInHandler DEF Deciding, Step, Idle
    <2> QED BY <2>1, <2>2, <2>3, InvariantPartsNext
  <1>2. ASSUME NEW a \in Answers, Score(a)
        PROVE  IInv'
    <2>0. at["risk"] = "score" /\ cur["risk"] \in Signals
      BY <1>0, <1>2 DEF Score, Step, HandlerOK, InStep, DecisionSteps
    <2>1. Decision(cur["risk"], Scored(a)) \in Decisions
      BY <2>0, MessageFacts DEF Scored, Answers, Actions
    <2>2. HandlerOK' /\ \A q \in Roles : q # "risk" => at'[q] = at[q]
      <3>1. /\ out' \in [Roles -> Messages]
            /\ out'["risk"] \in Decisions
            /\ out'["risk"] # Pong
            /\ \A q \in Roles : q # "risk" => out'[q] = out[q]
        BY <1>0, <1>2, <2>1, MessageFacts DEF Score, HandlerOK
      <3> QED
        BY <1>0, <1>2, <2>0, <3>1, MoveOK
        DEF Score, Step, HandlerOK, DecisionSteps, SwapSteps, Idle
    <2>3. RestOK'
      <3>1. approvals' \in [Signals -> Nat]
        BY <1>0, <1>2, <2>0 DEF Score, RestOK
      <3> QED BY <1>0, <1>2, <3>1 DEF Score, RestOK, network
    <2>4. Quiet'
      BY <1>0, <1>2, <2>2, QuietKept, OpenInHandler DEF Score, Step, Idle
    <2> QED BY <2>2, <2>3, <2>4, InvariantPartsNext
  <1>3. CASE ScoreFails
    <2>0. at["risk"] = "score" /\ cur["risk"] \in Signals
      BY <1>0, <1>3 DEF ScoreFails, Step, HandlerOK, InStep, DecisionSteps
    <2>1. Decision(cur["risk"], "hold") \in Decisions
      BY <2>0, MessageFacts DEF Actions
    <2>2. HandlerOK' /\ \A q \in Roles : q # "risk" => at'[q] = at[q]
      <3>1. /\ out' \in [Roles -> Messages]
            /\ out'["risk"] \in Decisions
            /\ out'["risk"] # Pong
            /\ \A q \in Roles : q # "risk" => out'[q] = out[q]
        BY <1>0, <1>3, <2>1, MessageFacts DEF ScoreFails, HandlerOK
      <3> QED
        BY <1>0, <1>3, <2>0, <3>1, MoveOK
        DEF ScoreFails, Step, HandlerOK, DecisionSteps, SwapSteps, Idle
    <2>3. RestOK'
      BY <1>0, <1>3 DEF ScoreFails, RestOK, network, history
    <2>4. Quiet'
      BY <1>0, <1>3, <2>2, QuietKept, OpenInHandler DEF ScoreFails, Step, Idle
    <2> QED BY <2>2, <2>3, <2>4, InvariantPartsNext
  <1>4. CASE ScoreRaises
    <2>1. HandlerOK' /\ at'["risk"] = "recv" /\ \A q \in Roles : q # "risk" => at'[q] = at[q]
      BY <1>0, <1>4, LeaveOK DEF ScoreRaises, Idle
    <2>2. RestOK'
      BY <1>0, <1>4 DEF ScoreRaises, RestOK, network, history
    <2>3. Quiet'
      BY <1>0, <1>4, <2>1, QuietKept DEF ScoreRaises, Idle
    <2> QED BY <2>1, <2>2, <2>3, InvariantPartsNext
  <1>5. CASE LogDecision
    <2>1. HandlerOK' /\ \A q \in Roles : q # "risk" => at'[q] = at[q]
      <3>1. cur["risk"] \in Signals /\ out["risk"] \in Decisions /\ out["risk"] # Pong
        BY <1>0, <1>5 DEF LogDecision, Step, HandlerOK, InStep, DecisionSteps
      <3> QED
        BY <1>0, <1>5, <3>1, MoveOK
        DEF LogDecision, Step, HandlerOK, DecisionSteps, SwapSteps, Idle
    <2>2. RestOK'
      BY <1>0, <1>5 DEF LogDecision, RestOK, network, history
    <2>3. Quiet'
      BY <1>0, <1>5, <2>1, QuietKept, OpenInHandler DEF LogDecision, Step, Idle
    <2> QED BY <2>1, <2>2, <2>3, InvariantPartsNext
  <1>6. CASE Decided
    <2>1. HandlerOK' /\ \A q \in Roles : q # "risk" => at'[q] = at[q]
      BY <1>0, <1>6, Sendable, StartSendOK DEF Decided
    <2>2. RestOK'
      BY <1>0, <1>6, ShownOK DEF Decided, SetStatus, RestOK, network, history
    <2>3. Quiet'
      BY <1>0, <1>6, <2>1, QuietKept, OpenInHandler DEF Decided, Idle
    <2> QED BY <2>1, <2>2, <2>3, InvariantPartsNext
  <1> QED BY <1>1, <1>2, <1>3, <1>4, <1>5, <1>6 DEF RiskStep

\* Every step of the executor's handler.
LEMMA ExecutorStepOK ==
  ASSUME IInv, UNCHANGED faults, ExecutorStep
  PROVE  IInv'
  <1> USE DEF Roles
  <1>0. HandlerOK /\ RestOK /\ Quiet
    BY InvariantParts
  <1>00. at["executor"] \in SwapSteps => cur["executor"] \in Signals /\ out["executor"] = Pong
    BY <1>0 DEF HandlerOK, InStep, SwapSteps
  <1>1. CASE Holding
    <2>1. HandlerOK' /\ \A q \in Roles : q # "executor" => at'[q] = at[q]
      BY <1>0, <1>00, <1>1, MoveOK
      DEF Holding, Step, HandlerOK, DecisionSteps, SwapSteps, Idle
    <2>2. RestOK'
      BY <1>0, <1>1, ShownOK DEF Holding, SetStatus, RestOK, network, history
    <2>3. Quiet'
      BY <1>0, <1>1, <2>1, QuietKept, OpenInHandler DEF Holding, Step, Idle
    <2> QED BY <2>1, <2>2, <2>3, InvariantPartsNext
  <1>2. CASE LogHold
    <2>1. Report(cur["executor"], "failure") \in Reports
      BY <1>00, <1>2, MessageFacts DEF LogHold, SwapSteps, Verdicts
    <2>2. HandlerOK' /\ \A q \in Roles : q # "executor" => at'[q] = at[q]
      BY <1>0, <1>2, <2>1, MessageFacts, StartSendOK DEF LogHold
    <2>3. RestOK'
      BY <1>0, <1>2 DEF LogHold, RestOK, network, history
    <2>4. Quiet'
      BY <1>0, <1>2, <2>2, QuietKept, OpenInHandler DEF LogHold, Idle
    <2> QED BY <2>2, <2>3, <2>4, InvariantPartsNext
  <1>3. CASE Executing
    <2>1. HandlerOK' /\ \A q \in Roles : q # "executor" => at'[q] = at[q]
      BY <1>0, <1>00, <1>3, MoveOK
      DEF Executing, Step, HandlerOK, DecisionSteps, SwapSteps, Idle
    <2>2. swaps' \in [Signals -> Nat]
      BY <1>0, <1>00, <1>3 DEF Executing, Step, SwapSteps, RestOK
    <2>3. RestOK'
      BY <1>0, <1>3, <2>2, ShownOK DEF Executing, SetStatus, RestOK, network
    <2>4. Quiet'
      BY <1>0, <1>3, <2>1, QuietKept, OpenInHandler DEF Executing, Step, Idle
    <2> QED BY <2>1, <2>3, <2>4, InvariantPartsNext
  <1>4. ASSUME NEW o \in SwapOutcomes, SwapDone(o)
        PROVE  IInv'
    <2>1. HandlerOK' /\ \A q \in Roles : q # "executor" => at'[q] = at[q]
      BY <1>0, <1>00, <1>4, MoveOK
      DEF SwapDone, Step, HandlerOK, DecisionSteps, SwapSteps, Idle
    <2>2. settled' \in [Signals -> SUBSET {"landed", "other"}]
      BY <1>0, <1>00, <1>4 DEF SwapDone, Step, SwapSteps, RestOK, Kind
    <2>3. RestOK'
      BY <1>0, <1>4, <2>2 DEF SwapDone, RestOK, network
    <2>4. Quiet'
      BY <1>0, <1>4, <2>1, QuietKept, OpenInHandler DEF SwapDone, Step, Idle
    <2> QED BY <2>1, <2>3, <2>4, InvariantPartsNext
  <1>5. CASE Settle
    <2>1. HandlerOK' /\ \A q \in Roles : q # "executor" => at'[q] = at[q]
      BY <1>0, <1>00, <1>5, MoveOK
      DEF Settle, Step, HandlerOK, DecisionSteps, SwapSteps, Idle
    <2>2. RestOK'
      BY <1>0, <1>5, ShownOK DEF Settle, SetStatus, RestOK, network, history
    <2>3. Quiet'
      BY <1>0, <1>5, <2>1, QuietKept, OpenInHandler DEF Settle, Step, Idle
    <2> QED BY <2>1, <2>2, <2>3, InvariantPartsNext
  <1>6. CASE LogSettle
    <2>1. Report(cur["executor"], Verdict(swap)) \in Reports
      BY <1>00, <1>6, MessageFacts DEF LogSettle, SwapSteps, Verdicts, Verdict
    <2>2. HandlerOK' /\ \A q \in Roles : q # "executor" => at'[q] = at[q]
      <3>1. CASE Reportable(swap)
        BY <1>0, <1>6, <2>1, <3>1, MessageFacts, StartSendOK DEF LogSettle
      <3>2. CASE ~Reportable(swap)
        BY <1>0, <1>6, <3>2, LeaveOK DEF LogSettle, Idle
      <3> QED BY <3>1, <3>2
    <2>3. RestOK'
      BY <1>0, <1>6 DEF LogSettle, RestOK, network, history
    <2>4. Quiet'
      BY <1>0, <1>6, <2>2, QuietKept, OpenInHandler DEF LogSettle, Idle
    <2> QED BY <2>2, <2>3, <2>4, InvariantPartsNext
  <1> QED BY <1>1, <1>2, <1>3, <1>4, <1>5, <1>6 DEF ExecutorStep

\* What an attempt to send leaves alone, and what it does to the mailboxes.
LEMMA SendingOK ==
  ASSUME IInv, UNCHANGED faults, NEW r \in Roles, NEW got \in BOOLEAN, Sending(r, got)
  PROVE  RestOK' /\ UNCHANGED stop /\ stop[r] # "closed"
  <1>0. HandlerOK /\ RestOK
    BY InvariantParts
  <1>1. mail' \in [Roles -> [Messages -> Nat]]
    BY <1>0, DeliverOK DEF Sending
  <1> QED BY <1>0, <1>1 DEF Sending, RestOK, history

\* A send that ends, is retried or raises.
LEMMA SendOK ==
  ASSUME IInv, UNCHANGED faults, NEW r \in Roles, NEW got \in BOOLEAN,
         SendDone(r) \/ SendTimesOut(r, got) \/ SendRaises(r, got)
  PROVE  IInv'
  <1>0. HandlerOK /\ RestOK /\ Quiet
    BY InvariantParts
  <1>1. AfterRaise(out[r]) \in Idle /\ "recv" \in Idle
    BY DEF AfterRaise, Idle
  <1>2. CASE SendDone(r)
    <2>1. RestOK' /\ UNCHANGED stop /\ stop[r] # "closed"
      BY <1>2, SendingOK DEF SendDone
    <2>2. HandlerOK' /\ \A q \in Roles : q # r => at'[q] = at[q]
      BY <1>0, <1>1, <1>2, LeaveOK DEF SendDone
    <2>3. Quiet'
      BY <1>0, <2>1, <2>2, QuietKept
    <2> QED BY <2>1, <2>2, <2>3, InvariantPartsNext
  <1>3. CASE SendTimesOut(r, got)
    <2>1. RestOK' /\ UNCHANGED stop /\ stop[r] # "closed"
      BY <1>3, SendingOK DEF SendTimesOut
    <2>2. HandlerOK' /\ \A q \in Roles : q # r => at'[q] = at[q]
      <3>1. CASE tries[r] + 1 < MaxSends
        <4>1. tries' \in [Roles -> 0 .. MaxSends - 1]
          BY <1>0, <1>3, <3>1 DEF SendTimesOut, HandlerOK
        <4>2. InStep'
          BY <1>0, <1>3, <3>1 DEF SendTimesOut, HandlerOK, InStep
        <4> QED BY <1>0, <1>3, <3>1, <4>1, <4>2 DEF SendTimesOut, HandlerOK
      <3>2. CASE ~(tries[r] + 1 < MaxSends)
        BY <1>0, <1>1, <1>3, <3>2, LeaveOK DEF SendTimesOut
      <3> QED BY <3>1, <3>2
    <2>3. Quiet'
      BY <1>0, <2>1, <2>2, QuietKept
    <2> QED BY <2>1, <2>2, <2>3, InvariantPartsNext
  <1>4. CASE SendRaises(r, got)
    <2>1. RestOK' /\ UNCHANGED stop /\ stop[r] # "closed"
      BY <1>4, SendingOK DEF SendRaises
    <2>2. HandlerOK' /\ \A q \in Roles : q # r => at'[q] = at[q]
      BY <1>0, <1>1, <1>4, LeaveOK DEF SendRaises
    <2>3. Quiet'
      BY <1>0, <2>1, <2>2, QuietKept
    <2> QED BY <2>1, <2>2, <2>3, InvariantPartsNext
  <1> QED BY <1>2, <1>3, <1>4

\* A handler that memory ends.
LEMMA MemoryFailsOK ==
  ASSUME IInv, UNCHANGED faults, NEW r \in Roles, NEW wrote \in BOOLEAN,
         MemoryFails(r, wrote)
  PROVE  IInv'
  <1>0. HandlerOK /\ RestOK /\ Quiet
    BY InvariantParts
  <1>1. HandlerOK' /\ at'[r] = "recv" /\ \A q \in Roles : q # r => at'[q] = at[q]
    BY <1>0, LeaveOK DEF MemoryFails, Idle
  <1>2. RestOK'
    BY <1>0, ShownOK DEF MemoryFails, SetStatus, RestOK, network, history
  <1>3. Quiet'
    BY <1>0, <1>1, QuietKept DEF MemoryFails, Idle
  <1> QED BY <1>1, <1>2, <1>3, InvariantPartsNext

\* Every step of a handler.
LEMMA WorkOK ==
  ASSUME IInv, NEW r \in Roles, Work(r)
  PROVE  IInv'
  BY RiskStepOK, ExecutorStepOK, MemoryFailsOK, SendOK DEF Work

\* A message that is taken leaves its mailbox, and only that.
LEMMA TakeOK ==
  ASSUME RestOK, NEW r \in Roles, NEW m \in Messages, Take(r, m)
  PROVE  /\ mail' \in [Roles -> [Messages -> Nat]]
         /\ mail'[r][m] = mail[r][m] - 1
         /\ \A q \in Roles, k \in Messages : q # r \/ k # m => mail'[q][k] = mail[q][k]
  <1>1. mail \in [Roles -> [Messages -> Nat]]
    BY DEF RestOK
  <1>2. mail[r][m] + -1 >= 0
    BY <1>1 DEF Take
  <1> QED BY <1>1, <1>2, PutEffect DEF Take

\* The handler that a message starts has a signal to work for.
LEMMA EnterOK ==
  ASSUME HandlerOK, RestOK, NEW r \in Roles, NEW m \in Messages, at[r] = "recv",
         Enter(r, IF running[r] THEN Handler(r, m) ELSE "ended", m.sig)
  PROVE  HandlerOK' /\ \A q \in Roles : q # r => at'[q] = at[q]
  <1> DEFINE l == IF running[r] THEN Handler(r, m) ELSE "ended"
  <1>1. /\ l \in {"recv", "ended", "deciding", "holding", "executing"}
        /\ l = "deciding" => r = "risk" /\ m.type = "signal"
        /\ l \in {"holding", "executing"} => r = "executor" /\ m.type = "decision"
    BY DEF Handler
  <1>2. l \notin {"recv", "ended"} => m.sig \in Signals
    BY <1>1, MessageFacts
  <1>3. out[r] = Pong
    BY NothingToSend
  <1> HIDE DEF l
  <1>4. /\ at' = [at EXCEPT ![r] = l]
        /\ cur' = [cur EXCEPT ![r] = IF l \in {"recv", "ended"} THEN NoSignal ELSE m.sig]
        /\ UNCHANGED <<swap, out, tries>>
    BY DEF Enter, l
  <1>5. /\ cur' \in [Roles -> Signals \cup {NoSignal}]
        /\ \A q \in Roles : q # r => cur'[q] = cur[q]
        /\ l \notin {"recv", "ended"} => cur'[r] \in Signals
    BY <1>2, <1>4 DEF HandlerOK
  <1>6. l \in Idle \cup DecisionSteps \cup SwapSteps
    BY <1>1 DEF Idle, DecisionSteps, SwapSteps
  <1>7. /\ l \notin Idle => cur'[r] \in Signals
        /\ r = "researcher" => l \in Idle
        /\ r = "risk" => l \notin SwapSteps
        /\ r = "executor" => l \notin DecisionSteps
        /\ l \notin {"logDecision", "decided"}
    BY <1>1, <1>5 DEF Idle, DecisionSteps, SwapSteps
  <1> QED BY <1>3, <1>4, <1>5, <1>6, <1>7, MoveOK DEF HandlerOK

\* Every step of the dispatch loop of agents/base.py.
LEMMA PollOK ==
  ASSUME IInv, NEW r \in Roles, Poll(r)
  PROVE  IInv'
  <1>0. HandlerOK /\ RestOK /\ Quiet /\ UNCHANGED faults
    BY InvariantParts DEF Poll
  <1>1. ASSUME NEW m \in Messages, Receive(r, m)
        PROVE  IInv'
    <2>1. HandlerOK' /\ \A q \in Roles : q # r => at'[q] = at[q]
      <3>1. CASE running[r] /\ m.type = "ping"
        BY <1>0, <1>1, <3>1, MessageFacts, StartSendOK DEF Receive
      <3>2. CASE ~(running[r] /\ m.type = "ping")
        BY <1>0, <1>1, <3>2, EnterOK DEF Receive
      <3> QED BY <3>1, <3>2
    <2>2. RestOK'
      <3>1. heard' \subseteq Reports
        BY <1>0, <1>1, MessageFacts DEF Receive, RestOK
      <3>2. mail' \in [Roles -> [Messages -> Nat]]
        BY <1>0, <1>1, TakeOK DEF Receive
      <3> QED BY <1>0, <1>1, <3>1, <3>2 DEF Receive, RestOK, history
    <2>3. Quiet'
      BY <1>0, <1>1, <2>1, QuietKept DEF Receive
    <2> QED BY <2>1, <2>2, <2>3, InvariantPartsNext
  <1>2. ASSUME NEW m \in Messages, ReceiveLost(r, m)
        PROVE  IInv'
    <2>1. HandlerOK'
      BY <1>0, <1>2 DEF ReceiveLost, agent, HandlerOK, InStep
    <2>2. RestOK'
      <3>1. mail' \in [Roles -> [Messages -> Nat]]
        BY <1>0, <1>2, TakeOK DEF ReceiveLost
      <3> QED BY <1>0, <1>2, <3>1 DEF ReceiveLost, agent, RestOK, history
    <2>3. Quiet'
      BY <1>0, <1>2 DEF ReceiveLost, agent, Quiet
    <2> QED BY <2>1, <2>2, <2>3, InvariantPartsNext
  <1>3. CASE ReceiveRaises(r)
    <2>1. out[r] = Pong
      BY <1>0, <1>3, NothingToSend DEF ReceiveRaises
    <2>2. "crashed" \in Idle
      BY DEF Idle
    <2>3. "crashed" \notin SwapSteps /\ "crashed" \notin DecisionSteps
      BY DEF SwapSteps, DecisionSteps
    <2>4. HandlerOK' /\ at'[r] = "crashed" /\ \A q \in Roles : q # r => at'[q] = at[q]
      BY <1>0, <1>3, <2>1, <2>2, <2>3, MoveOK DEF ReceiveRaises, HandlerOK
    <2>5. RestOK'
      BY <1>0, <1>3 DEF ReceiveRaises, RestOK, network, history
    <2>6. Quiet'
      BY <1>0, <1>3, <2>2, <2>4, QuietKept DEF ReceiveRaises
    <2> QED BY <2>4, <2>5, <2>6, InvariantPartsNext
  <1> QED BY <1>1, <1>2, <1>3 DEF Poll

\* Every step of start().
LEMMA StartingOK ==
  ASSUME IInv, NEW r \in Roles, Starting(r)
  PROVE  IInv'
  <1>0. HandlerOK /\ RestOK /\ Quiet /\ UNCHANGED faults
    BY InvariantParts DEF Starting
  <1>1. Idle \cap SwapSteps = {} /\ Idle \cap DecisionSteps = {}
    BY DEF Idle, SwapSteps, DecisionSteps
  <1>2. ASSUME NEW ok \in BOOLEAN, Start(r, ok)
        PROVE  IInv'
    <2>1. out[r] = Pong
      BY <1>0, <1>2, NothingToSend DEF Start, Step
    <2>2. PICK l \in {"failed", "recv", "start"} : at' = [at EXCEPT ![r] = l]
      BY <1>2 DEF Start, Step
    <2>3. l \in Idle /\ l # "off" /\ l \notin {"logDecision", "decided"}
      BY <2>2 DEF Idle
    <2>4. HandlerOK' /\ at'[r] = l /\ \A q \in Roles : q # r => at'[q] = at[q]
      BY <1>0, <1>1, <1>2, <2>1, <2>2, <2>3, MoveOK DEF Start, HandlerOK
    <2>5. RestOK'
      BY <1>0, <1>2 DEF Start, RestOK, network, history
    <2>6. Quiet'
      BY <1>0, <1>2, <2>3, <2>4, QuietKept DEF Start
    <2> QED BY <2>4, <2>5, <2>6, InvariantPartsNext
  <1>3. ASSUME NEW ok \in BOOLEAN, NEW wrote \in BOOLEAN, StartMemory(r, ok, wrote)
        PROVE  IInv'
    <2>1. out[r] = Pong
      BY <1>0, <1>3, NothingToSend DEF StartMemory, Step
    <2>2. PICK l \in {"failed", "recv"} : at' = [at EXCEPT ![r] = l]
      BY <1>3 DEF StartMemory, Step
    <2>3. l \in Idle /\ l # "off" /\ l \notin {"logDecision", "decided"}
      BY <2>2 DEF Idle
    <2>4. HandlerOK' /\ at'[r] = l /\ \A q \in Roles : q # r => at'[q] = at[q]
      BY <1>0, <1>1, <1>3, <2>1, <2>2, <2>3, MoveOK DEF StartMemory, HandlerOK
    <2>5. RestOK'
      BY <1>0, <1>3 DEF StartMemory, SetStatus, RestOK, network, history
    <2>6. Quiet'
      BY <1>0, <1>3, <2>3, <2>4, QuietKept DEF StartMemory
    <2> QED BY <2>4, <2>5, <2>6, InvariantPartsNext
  <1> QED BY <1>2, <1>3 DEF Starting

\* Every step of stop().
LEMMA StoppingOK ==
  ASSUME IInv, NEW r \in Roles, Stopping(r)
  PROVE  IInv'
  <1>0. HandlerOK /\ RestOK /\ Quiet /\ UNCHANGED faults
    BY InvariantParts DEF Stopping
  <1>1. ASSUME NEW ok \in BOOLEAN, NEW wrote \in BOOLEAN, StopIdle(r, ok, wrote)
        PROVE  IInv'
    <2>1. HandlerOK'
      BY <1>0, <1>1 DEF StopIdle, HandlerOK, InStep
    <2>2. RestOK'
      BY <1>0, <1>1 DEF StopIdle, SetStatus, RestOK, network, history
    <2>3. Quiet'
      BY <1>0, <1>1 DEF StopIdle, Quiet, RestOK
    <2> QED BY <2>1, <2>2, <2>3, InvariantPartsNext
  <1>2. CASE StopLog(r)
    <2>1. HandlerOK'
      BY <1>0, <1>2 DEF StopLog, HandlerOK, InStep
    <2>2. RestOK'
      BY <1>0, <1>2 DEF StopLog, RestOK, network, history
    <2>3. Quiet'
      BY <1>0, <1>2 DEF StopLog, Quiet, RestOK
    <2> QED BY <2>1, <2>2, <2>3, InvariantPartsNext
  <1>3. ASSUME NEW got \in BOOLEAN, StopCancel(r, got)
        PROVE  IInv'
    <2>1. PICK l \in {"start", "failed", "crashed", "ended"} : Leave(r, l)
      BY <1>3 DEF StopCancel
    <2>2. HandlerOK' /\ at'[r] = l /\ \A q \in Roles : q # r => at'[q] = at[q]
      BY <1>0, <2>1, LeaveOK DEF Idle
    <2>3. RestOK'
      <3>1. mail' \in [Roles -> [Messages -> Nat]]
        BY <1>0, <1>3, DeliverOK DEF StopCancel
      <3> QED BY <1>0, <1>3, <3>1 DEF StopCancel, RestOK, history
    <2>4. Quiet'
      BY <1>0, <1>3, <2>2 DEF StopCancel, Quiet, RestOK, Idle
    <2> QED BY <2>2, <2>3, <2>4, InvariantPartsNext
  <1> QED BY <1>1, <1>2, <1>3 DEF Stopping

\* stop() is called, a ping or a signal arrives.
LEMMA EnvironmentOK ==
  ASSUME IInv, Environment
  PROVE  IInv'
  <1>0. HandlerOK /\ RestOK /\ Quiet /\ UNCHANGED faults
    BY InvariantParts DEF Environment
  <1>1. ASSUME NEW r \in Roles, StopCalled(r)
        PROVE  IInv'
    <2>1. HandlerOK'
      BY <1>0, <1>1 DEF StopCalled, HandlerOK, InStep
    <2>2. RestOK'
      BY <1>0, <1>1 DEF StopCalled, RestOK, network, history
    <2>3. Quiet'
      <3>1. ASSUME NEW q \in Roles, stop'[q] = "closed" PROVE at'[q] \in Idle
        BY <1>0, <1>1, <3>1 DEF StopCalled, Quiet, RestOK, Idle
      <3> QED BY <3>1 DEF Quiet
    <2> QED BY <2>1, <2>2, <2>3, InvariantPartsNext
  <1>2. ASSUME NEW r \in Roles, NEW n \in 0 .. MaxSends, PingSwarm(r, n)
        PROVE  IInv'
    <2>1. HandlerOK' /\ Quiet'
      BY <1>0, <1>2 DEF PingSwarm, agent, HandlerOK, InStep, Quiet
    <2>2. mail[r][Ping] + n >= 0 /\ n \in Int
      BY <1>0, MessageFacts DEF RestOK
    <2>3. mail' \in [Roles -> [Messages -> Nat]]
      BY <1>0, <1>2, <2>2, MessageFacts, PutEffect DEF PingSwarm, RestOK
    <2>4. RestOK'
      BY <1>0, <1>2, <2>3 DEF PingSwarm, agent, RestOK, history
    <2> QED BY <2>1, <2>4, InvariantPartsNext
  <1>3. ASSUME NEW s \in Signals, NEW n \in 0 .. MaxSends, SignalArrives(s, n)
        PROVE  IInv'
    <2>1. HandlerOK' /\ Quiet'
      BY <1>0, <1>3 DEF SignalArrives, agent, HandlerOK, InStep, Quiet
    <2>2. mail["risk"][Signal(s)] + n >= 0 /\ n \in Int
      BY <1>0, MessageFacts DEF RestOK, Roles
    <2>3. mail' \in [Roles -> [Messages -> Nat]]
      BY <1>0, <1>3, <2>2, MessageFacts, PutEffect DEF SignalArrives, RestOK, Roles
    <2>4. RestOK'
      BY <1>0, <1>3, <2>3 DEF SignalArrives, agent, RestOK, history
    <2> QED BY <2>1, <2>4, InvariantPartsNext
  <1> QED BY <1>1, <1>2, <1>3 DEF Environment

\* Agents that were not started.
LEMMA InitOK == Init => IInv
  <1> SUFFICES ASSUME Init PROVE HandlerOK /\ RestOK /\ Quiet
    BY InvariantParts
  <1>1. HandlerOK
    BY MessageFacts DEF Init, HandlerOK, InStep, Roles, Idle, DecisionSteps, SwapSteps
  <1>2. RestOK
    BY DEF Init, RestOK
  <1>3. Quiet
    BY DEF Init, Quiet
  <1> QED BY <1>1, <1>2, <1>3

\* A step of something else.
LEMMA StutterOK ==
  ASSUME IInv, UNCHANGED vars
  PROVE  IInv'
  <1>0. HandlerOK /\ RestOK /\ Quiet
    BY InvariantParts
  <1>1. HandlerOK'
    BY <1>0 DEF vars, HandlerOK, InStep
  <1>2. RestOK' /\ Quiet'
    BY <1>0 DEF vars, RestOK, Quiet
  <1> QED BY <1>1, <1>2, InvariantPartsNext

\* The invariant is inductive.
LEMMA NextOK == IInv /\ [Next]_vars => IInv'
  BY WorkOK, PollOK, StartingOK, StoppingOK, EnvironmentOK, StutterOK DEF Next

\* Agents, mailboxes and history keep their shape; together with it, where a
\* handler stands and what it may be sending.
LEMMA Inductive == Spec => []IInv
  BY InitOK, NextOK, PTL DEF Spec

\* The state of the agents of agents/base.py and their subclasses is well
\* formed in every reachable state, whatever goes wrong: in particular no
\* more than MaxSends - 1 attempts of a send (AXLClient._retrying) have
\* failed while another one runs.
THEOREM TypeCorrect == Spec => []TypeOK
  BY Inductive, PTL DEF IInv

-----------------------------------------------------------------------------
(* A stopped agent is quiet.                                               *)

\* What a step does to the mailboxes: an agent that polls takes a message, an
\* agent that sends delivers its own, or a ping or a signal arrives.
LEMMA MailEffect ==
  ASSUME IInv, [Next]_vars
  PROVE  \/ UNCHANGED mail
         \/ \E r \in Roles, m \in Messages :
              at[r] = "recv" /\ stop[r] # "closed" /\ Take(r, m)
         \/ \E r \in Roles :
              /\ at[r] = "send" /\ stop[r] # "closed"
              /\ mail' = Put(Dest(out[r]), out[r], 1)
         \/ \E r \in Roles, n \in 0 .. MaxSends : mail' = Put(r, Ping, n)
         \/ \E s \in Signals, n \in 0 .. MaxSends : mail' = Put("risk", Signal(s), n)
  <1>1. CASE UNCHANGED vars
    BY <1>1 DEF vars
  <1>2. ASSUME NEW r \in Roles, Starting(r)
        PROVE  UNCHANGED mail
    BY <1>2 DEF Starting, Start, StartMemory, network
  <1>3. ASSUME NEW r \in Roles, Poll(r)
        PROVE  \/ UNCHANGED mail
               \/ \E m \in Messages : at[r] = "recv" /\ stop[r] # "closed" /\ Take(r, m)
    BY <1>3 DEF Poll, Receive, ReceiveLost, ReceiveRaises, network
  <1>4. ASSUME NEW r \in Roles, Work(r)
        PROVE  \/ UNCHANGED mail
               \/ /\ at[r] = "send" /\ stop[r] # "closed"
                  /\ mail' = Put(Dest(out[r]), out[r], 1)
    <2>1. CASE RiskStep
      BY <2>1 DEF RiskStep, Deciding, Score, ScoreFails, ScoreRaises, LogDecision,
                  Decided, network
    <2>2. CASE ExecutorStep
      BY <2>2 DEF ExecutorStep, Holding, LogHold, Executing, SwapDone, Settle,
                  LogSettle, network
    <2>3. CASE \E wrote \in BOOLEAN : MemoryFails(r, wrote)
      BY <2>3 DEF MemoryFails, network
    <2>4. ASSUME NEW got \in BOOLEAN, Sending(r, got)
          PROVE  \/ UNCHANGED mail
                 \/ /\ at[r] = "send" /\ stop[r] # "closed"
                    /\ mail' = Put(Dest(out[r]), out[r], 1)
      BY <2>4 DEF Sending, Deliver
    <2> QED
      BY <1>4, <2>1, <2>2, <2>3, <2>4 DEF Work, SendDone, SendTimesOut, SendRaises
  <1>5. ASSUME NEW r \in Roles, Stopping(r)
        PROVE  \/ UNCHANGED mail
               \/ /\ at[r] = "send" /\ stop[r] # "closed"
                  /\ mail' = Put(Dest(out[r]), out[r], 1)
    BY <1>5 DEF Stopping, StopIdle, StopLog, StopCancel, Deliver, network
  <1>6. CASE Environment
    BY <1>6 DEF Environment, StopCalled, PingSwarm, SignalArrives, network
  <1> QED BY <1>1, <1>2, <1>3, <1>4, <1>5, <1>6 DEF Next

\* Only an answer of the model approves, only the executor's handler begins
\* swaps, and only its swaps return outcomes.
LEMMA HistoryEffect ==
  ASSUME [Next]_vars
  PROVE  /\ UNCHANGED approvals \/ RiskStep
         /\ UNCHANGED swaps \/ Executing
         /\ UNCHANGED settled \/ \E o \in SwapOutcomes : SwapDone(o)
  <1> USE DEF history
  <1>1. CASE UNCHANGED vars
    BY <1>1 DEF vars
  <1>2. ASSUME NEW r \in Roles, Starting(r) \/ Poll(r) \/ Stopping(r)
        PROVE  UNCHANGED history
    BY <1>2 DEF Starting, Start, StartMemory, Poll, Receive, ReceiveLost,
                ReceiveRaises, Stopping, StopIdle, StopLog, StopCancel
  <1>3. ASSUME NEW r \in Roles, Work(r)
        PROVE  /\ UNCHANGED approvals \/ RiskStep
               /\ UNCHANGED swaps \/ Executing
               /\ UNCHANGED settled \/ \E o \in SwapOutcomes : SwapDone(o)
    <2>1. CASE RiskStep
      BY <2>1 DEF RiskStep, Deciding, Score, ScoreFails, ScoreRaises, LogDecision, Decided
    <2>2. CASE ExecutorStep
      BY <2>2 DEF ExecutorStep, Holding, LogHold, Executing, SwapDone, Settle, LogSettle
    <2>3. CASE \E wrote \in BOOLEAN : MemoryFails(r, wrote)
      BY <2>3 DEF MemoryFails
    <2> QED
      BY <1>3, <2>1, <2>2, <2>3
      DEF Work, SendDone, SendTimesOut, SendRaises, Sending
  <1>4. CASE Environment
    BY <1>4 DEF Environment, StopCalled, PingSwarm, SignalArrives
  <1> QED BY <1>1, <1>2, <1>3, <1>4 DEF Next

\* A message that arrives in n copies lowers no count and raises its own only.
LEMMA PutAdds ==
  ASSUME NEW r \in Roles, NEW m \in Messages, NEW n \in Nat,
         mail \in [Roles -> [Messages -> Nat]], mail' = Put(r, m, n)
  PROVE  /\ \A q \in Roles, k \in Messages : mail'[q][k] >= mail[q][k]
         /\ \A q \in Roles, k \in Messages :
              q # r \/ k # m => mail'[q][k] = mail[q][k]
         /\ mail'[r][m] = mail[r][m] + n
  <1>1. mail[r][m] + n >= 0 /\ n \in Int /\ mail[r][m] \in Nat
    OBVIOUS
  <1>2. /\ mail'[r][m] = mail[r][m] + n
        /\ \A q \in Roles, k \in Messages : q # r \/ k # m => mail'[q][k] = mail[q][k]
    BY <1>1, PutEffect
  <1>3. \A q \in Roles, k \in Messages : mail[q][k] \in Nat
    OBVIOUS
  <1>4. mail'[r][m] >= mail[r][m]
    BY <1>1, <1>2
  <1> QED BY <1>2, <1>3, <1>4

\* What a step of the swarm does to an agent that is closed.
LEMMA QuietStep ==
  ASSUME IInv, [Next]_vars, NEW r \in Roles, stop[r] = "closed"
  PROVE  /\ \A m \in Messages : mail'[r][m] >= mail[r][m]
         /\ r = "risk" => \A m \in Messages :
               m.type = "decision" => mail'["executor"][m] <= mail["executor"][m]
         /\ r = "executor" => \A m \in Messages :
               m.type = "result" => mail'["researcher"][m] <= mail["researcher"][m]
         /\ r = "executor" => swaps' = swaps
  <1> USE DEF Roles
  <1>0. HandlerOK /\ RestOK /\ Quiet
    BY InvariantParts
  <1>1. mail \in [Roles -> [Messages -> Nat]]
    BY <1>0 DEF RestOK
  <1>2. r = "executor" => swaps' = swaps
    BY <1>0, HistoryEffect DEF Executing, Step, Quiet, Idle
  <1>3. CASE UNCHANGED mail
    BY <1>1, <1>2, <1>3
  <1>4. ASSUME NEW q \in Roles, NEW m \in Messages, stop[q] # "closed", Take(q, m)
        PROVE  /\ \A k \in Messages : mail'[r][k] >= mail[r][k]
               /\ \A p \in Roles, k \in Messages : mail'[p][k] <= mail[p][k]
    BY <1>0, <1>1, <1>4, TakeOK
  <1>5. ASSUME NEW q \in Roles, NEW m \in Messages, NEW n \in Nat, mail' = Put(q, m, n)
        PROVE  /\ \A k \in Messages : mail'[r][k] >= mail[r][k]
               /\ \A p \in Roles, k \in Messages : k # m => mail'[p][k] <= mail[p][k]
    BY <1>1, <1>5, PutAdds
  <1>6. ASSUME NEW q \in Roles, at[q] = "send", mail' = Put(Dest(out[q]), out[q], 1)
        PROVE  /\ \A k \in Messages : mail'[r][k] >= mail[r][k]
               /\ r = "risk" => \A k \in Messages :
                    k.type = "decision" => mail'["executor"][k] <= mail["executor"][k]
               /\ r = "executor" => \A k \in Messages :
                    k.type = "result" => mail'["researcher"][k] <= mail["researcher"][k]
    <2>1. q # r
      BY <1>0, <1>6 DEF Quiet, Idle
    <2>2. /\ out[q] \in Messages
          /\ r = "risk" => out[q].type # "decision"
          /\ r = "executor" => out[q].type # "result"
      BY <1>0, <2>1, Sendable, MessageFacts
    <2>3. Dest(out[q]) \in Roles
      BY <2>2, DestFacts
    <2> QED BY <1>5, <1>6, <2>2, <2>3
  <1>7. ASSUME NEW q \in Roles, NEW n \in 0 .. MaxSends, mail' = Put(q, Ping, n)
        PROVE  /\ \A k \in Messages : mail'[r][k] >= mail[r][k]
               /\ \A p \in Roles, k \in Messages :
                    k.type # "ping" => mail'[p][k] <= mail[p][k]
    <2>1. Ping \in Messages /\ Ping.type = "ping" /\ n \in Nat
      BY MessageFacts
    <2> QED BY <1>5, <1>7, <2>1
  <1>8. ASSUME NEW s \in Signals, NEW n \in 0 .. MaxSends, mail' = Put("risk", Signal(s), n)
        PROVE  /\ \A k \in Messages : mail'[r][k] >= mail[r][k]
               /\ \A p \in Roles, k \in Messages :
                    k.type # "signal" => mail'[p][k] <= mail[p][k]
    <2>1. Signal(s) \in Messages /\ Signal(s).type = "signal" /\ n \in Nat
      BY MessageFacts
    <2> QED BY <1>5, <1>8, <2>1
  <1> QED BY <1>2, <1>3, <1>4, <1>6, <1>7, <1>8, MailEffect

\* Once stop() of agents/base.py has closed the client of an agent, the agent
\* takes no message, sends none and begins no swap.
THEOREM StoppedStaysQuiet == Spec => StoppedIsQuiet
  <1>1. IInv /\ [Next]_vars =>
          [\A r \in Roles : stop[r] = "closed" =>
             /\ \A m \in Messages : mail'[r][m] >= mail[r][m]
             /\ r = "risk" => \A m \in Messages :
                   m.type = "decision" => mail'["executor"][m] <= mail["executor"][m]
             /\ r = "executor" =>
                   /\ \A m \in Messages :
                        m.type = "result" => mail'["researcher"][m] <= mail["researcher"][m]
                   /\ swaps' = swaps]_vars
    BY QuietStep
  <1> QED BY <1>1, Inductive, PTL DEF Spec, StoppedIsQuiet

-----------------------------------------------------------------------------
(* Swaps were approved.                                                    *)

\* The swaps for s begun, and those that its decisions may still lead to.
Load(s) == swaps[s] + Begun(s) + mail["executor"][Decision(s, "trade")] + Owed(s)

\* The parts of the load are counts; the risk agent owes something from the
\* decision to the end of the send, an attempt at least while it sends.
LEMMA LoadParts ==
  ASSUME IInv, NEW s \in Signals
  PROVE  /\ swaps[s] \in Nat
         /\ Begun(s) \in Nat
         /\ mail["executor"][Decision(s, "trade")] \in Nat
         /\ Owed(s) \in Nat
         /\ Owed(s) <= MaxSends
         /\ out["risk"] = Decision(s, "trade") => Owed(s) >= 1
         /\ out["risk"] # Decision(s, "trade") => Owed(s) = 0
         /\ at["risk"] \notin {"logDecision", "decided", "send"} => Owed(s) = 0
  <1>0. HandlerOK /\ RestOK
    BY InvariantParts
  <1>1. swaps[s] \in Nat /\ Begun(s) \in Nat
    BY <1>0 DEF RestOK, Begun
  <1>2. mail["executor"][Decision(s, "trade")] \in Nat
    BY <1>0, MessageFacts DEF RestOK, Roles, Actions
  <1>3. Decision(s, "trade") # Pong
    BY MessageFacts DEF Actions
  <1>4. tries["risk"] \in 0 .. MaxSends - 1
    BY <1>0 DEF HandlerOK, Roles
  <1>5. /\ Owed(s) \in Nat /\ Owed(s) <= MaxSends
        /\ out["risk"] = Decision(s, "trade") => Owed(s) >= 1
        /\ out["risk"] # Decision(s, "trade") => Owed(s) = 0
    BY <1>4 DEF Owed
  <1>6. at["risk"] \notin {"logDecision", "decided", "send"} => Owed(s) = 0
    BY <1>0, <1>3, <1>5, NothingToSend DEF Roles
  <1> QED BY <1>1, <1>2, <1>5, <1>6

\* The parts of the load are counts after a step as well.
LEMMA LoadPartsNext ==
  ASSUME IInv', NEW s \in Signals
  PROVE  /\ swaps'[s] \in Nat
         /\ Begun(s)' \in Nat
         /\ mail'["executor"][Decision(s, "trade")] \in Nat
         /\ Owed(s)' \in Nat
  <1>0. HandlerOK' /\ RestOK'
    BY InvariantPartsNext
  <1>1. swaps'[s] \in Nat /\ Begun(s)' \in Nat
    BY <1>0 DEF RestOK, Begun
  <1>2. tries'["risk"] \in 0 .. MaxSends - 1
    BY <1>0 DEF HandlerOK, Roles
  <1>3. Owed(s)' \in Nat
    BY <1>2 DEF Owed
  <1>4. mail'["executor"][Decision(s, "trade")] \in Nat
    BY <1>0, MessageFacts DEF RestOK, Roles, Actions
  <1> QED BY <1>1, <1>3, <1>4

\* A load whose parts do not grow.
LEMMA LoadFrom ==
  ASSUME IInv, IInv', NEW s \in Signals,
         UNCHANGED swaps,
         mail'["executor"][Decision(s, "trade")] <= mail["executor"][Decision(s, "trade")],
         Begun(s)' <= Begun(s), Owed(s)' <= Owed(s)
  PROVE  Load(s)' <= Load(s)
  <1>1. /\ swaps[s] \in Nat /\ Begun(s) \in Nat /\ Owed(s) \in Nat
        /\ mail["executor"][Decision(s, "trade")] \in Nat
    BY LoadParts
  <1>2. /\ Begun(s)' \in Nat /\ Owed(s)' \in Nat
        /\ mail'["executor"][Decision(s, "trade")] \in Nat
    BY LoadPartsNext
  <1> QED BY <1>1, <1>2 DEF Load

\* A handler that is left owes nothing and begins nothing.
LEMMA LeaveLoad ==
  ASSUME IInv, NEW s \in Signals, NEW r \in Roles, NEW l \in Idle, Leave(r, l)
  PROVE  /\ Begun(s)' <= Begun(s)
         /\ Owed(s)' <= Owed(s)
         /\ r = "risk" => Owed(s)' = 0
  <1>0. HandlerOK
    BY InvariantParts
  <1>1. /\ at' = [at EXCEPT ![r] = l] /\ cur' = [cur EXCEPT ![r] = NoSignal]
        /\ out' = [out EXCEPT ![r] = Pong] /\ tries' = [tries EXCEPT ![r] = 0]
        /\ at \in [Roles -> Idle \cup DecisionSteps \cup SwapSteps \cup {"send"}]
        /\ cur \in [Roles -> Signals \cup {NoSignal}]
        /\ out \in [Roles -> Messages] /\ tries \in [Roles -> 0 .. MaxSends - 1]
    BY <1>0 DEF HandlerOK, Leave
  <1>2. Begun(s)' <= Begun(s)
    BY <1>1 DEF Begun, Idle, Roles
  <1>3. CASE r = "risk"
    <2>1. out'["risk"] = Pong /\ Decision(s, "trade") # Pong
      BY <1>1, <1>3, MessageFacts DEF Roles, Actions
    <2>2. Owed(s)' = 0
      BY <2>1 DEF Owed
    <2> QED BY <1>2, <2>2, LoadParts
  <1>4. CASE r # "risk"
    <2>1. out'["risk"] = out["risk"] /\ at'["risk"] = at["risk"] /\ tries'["risk"] = tries["risk"]
      BY <1>1, <1>4 DEF Roles
    <2>2. Owed(s)' = Owed(s)
      BY <2>1 DEF Owed
    <2> QED BY <1>2, <1>4, <2>2, LoadParts
  <1> QED BY <1>3, <1>4

\* A delivery by r brings a decision to trade only if that is what the risk
\* agent is sending.
LEMMA DeliverLoad ==
  ASSUME IInv, NEW s \in Signals, NEW r \in Roles, NEW got \in BOOLEAN,
         mail' = Deliver(out[r], got)
  PROVE  \/ mail'["executor"][Decision(s, "trade")] = mail["executor"][Decision(s, "trade")]
         \/ /\ r = "risk" /\ out["risk"] = Decision(s, "trade")
            /\ mail'["executor"][Decision(s, "trade")]
                 = mail["executor"][Decision(s, "trade")] + 1
  <1>0. HandlerOK /\ RestOK
    BY InvariantParts
  <1>1. /\ mail \in [Roles -> [Messages -> Nat]]
        /\ "executor" \in Roles
        /\ Decision(s, "trade") \in Decisions /\ Decision(s, "trade") \in Messages
    BY <1>0, MessageFacts DEF RestOK, Roles, Actions
  <1>2. CASE ~got
    BY <1>2 DEF Deliver
  <1>3. CASE got
    <2>1. mail' = Put(Dest(out[r]), out[r], 1)
      BY <1>3 DEF Deliver
    <2>2. out[r] \in Messages /\ Dest(out[r]) \in Roles /\ 1 \in Nat
      BY <1>0, Sendable, DestFacts
    <2>3. CASE out[r] # Decision(s, "trade")
      BY <1>1, <2>1, <2>2, <2>3, PutAdds
    <2>4. CASE out[r] = Decision(s, "trade")
      <3>1. r = "risk"
        BY <1>0, <1>1, <2>4, Sendable, MessageFacts
      <3>2. Dest(out[r]) = "executor"
        BY <1>1, <2>4, DestFacts
      <3> QED BY <1>1, <2>1, <2>2, <2>4, <3>1, <3>2, PutAdds
    <2> QED BY <2>3, <2>4
  <1> QED BY <1>2, <1>3

\* A send: the attempt that is used up pays for what it delivered.
LEMMA SendLoad ==
  ASSUME IInv, IInv', NEW s \in Signals, NEW r \in Roles, NEW got \in BOOLEAN,
         SendDone(r) \/ SendTimesOut(r, got) \/ SendRaises(r, got)
  PROVE  Load(s)' <= Load(s)
  <1> DEFINE d == mail["executor"][Decision(s, "trade")]
             e == mail'["executor"][Decision(s, "trade")]
  <1>0. HandlerOK
    BY InvariantParts
  <1>1. /\ swaps' = swaps
        /\ \E g \in BOOLEAN : mail' = Deliver(out[r], g)
        /\ at[r] = "send"
    BY DEF SendDone, SendTimesOut, SendRaises, Sending, history
  <1>2. e = d \/ (r = "risk" /\ out["risk"] = Decision(s, "trade") /\ e = d + 1)
    BY <1>1, DeliverLoad
  <1>3. Begun(s)' <= Begun(s) /\ Owed(s)' <= Owed(s)
        /\ (r = "risk" /\ out["risk"] = Decision(s, "trade") => Owed(s)' + 1 <= Owed(s))
    <2>1. ASSUME NEW l \in Idle, Leave(r, l)
          PROVE  Begun(s)' <= Begun(s) /\ Owed(s)' <= Owed(s)
                 /\ (r = "risk" /\ out["risk"] = Decision(s, "trade") => Owed(s)' + 1 <= Owed(s))
      BY <2>1, LeaveLoad, LoadParts
    <2>2. AfterRaise(out[r]) \in Idle /\ "recv" \in Idle
      BY DEF AfterRaise, Idle
    <2>3. CASE SendDone(r) \/ SendRaises(r, got)
      BY <2>1, <2>2, <2>3 DEF SendDone, SendRaises
    <2>4. CASE SendTimesOut(r, got) /\ ~(tries[r] + 1 < MaxSends)
      BY <2>1, <2>2, <2>4 DEF SendTimesOut
    <2>5. CASE SendTimesOut(r, got) /\ tries[r] + 1 < MaxSends
      <3>1. tries' = [tries EXCEPT ![r] = @ + 1] /\ UNCHANGED <<at, cur, swap, out>>
        BY <2>5 DEF SendTimesOut
      <3>2. Begun(s)' = Begun(s) /\ Begun(s) \in Nat
        BY <3>1 DEF Begun
      <3>3. tries \in [Roles -> 0 .. MaxSends - 1] /\ "risk" \in Roles
        BY <1>0 DEF HandlerOK, Roles
      <3>4. CASE r = "risk"
        <4>1. tries'["risk"] = tries["risk"] + 1 /\ tries["risk"] \in Int
          BY <3>1, <3>3, <3>4
        <4>2. out["risk"] = Decision(s, "trade") =>
                Owed(s) = MaxSends - tries["risk"] /\ Owed(s)' = MaxSends - tries'["risk"]
          BY <1>1, <3>1, <3>4 DEF Owed
        <4>3. out["risk"] # Decision(s, "trade") => Owed(s) = 0 /\ Owed(s)' = 0
          BY <3>1 DEF Owed
        <4> QED BY <3>2, <4>1, <4>2, <4>3
      <3>5. CASE r # "risk"
        <4>1. tries'["risk"] = tries["risk"]
          BY <3>1, <3>3, <3>5
        <4>2. Owed(s)' = Owed(s)
          BY <3>1, <4>1 DEF Owed
        <4> QED BY <3>2, <3>5, <4>2, LoadParts
      <3> QED BY <3>4, <3>5
    <2> QED BY <2>3, <2>4, <2>5
  <1>4. /\ swaps[s] \in Nat /\ Begun(s) \in Nat /\ d \in Nat /\ Owed(s) \in Nat
        /\ Begun(s)' \in Nat /\ e \in Nat /\ Owed(s)' \in Nat
    BY LoadParts, LoadPartsNext
  <1>5. Load(s) = swaps[s] + Begun(s) + d + Owed(s) /\ Load(s)' = swaps[s] + Begun(s)' + e + Owed(s)'
    BY <1>1 DEF Load
  <1> HIDE DEF d, e
  <1> QED BY <1>2, <1>3, <1>4, <1>5

\* Stopping: the POST that is cancelled on the wire was paid for.
LEMMA StopLoad ==
  ASSUME IInv, IInv', NEW s \in Signals, NEW r \in Roles, Stopping(r)
  PROVE  Load(s)' <= Load(s)
  <1>1. ASSUME NEW ok \in BOOLEAN, NEW wrote \in BOOLEAN, StopIdle(r, ok, wrote)
        PROVE  Load(s)' <= Load(s)
    <2>1. Load(s)' = Load(s)
      BY <1>1 DEF StopIdle, Load, Begun, Owed, network, history
    <2> QED BY <2>1, LoadParts DEF Load
  <1>2. CASE StopLog(r)
    <2>1. Load(s)' = Load(s)
      BY <1>2 DEF StopLog, Load, Begun, Owed, network, history
    <2> QED BY <2>1, LoadParts DEF Load
  <1>3. ASSUME NEW got \in BOOLEAN, StopCancel(r, got)
        PROVE  Load(s)' <= Load(s)
    <2> DEFINE d == mail["executor"][Decision(s, "trade")]
               e == mail'["executor"][Decision(s, "trade")]
    <2>1. PICK l \in {"start", "failed", "crashed", "ended"} : Leave(r, l)
      BY <1>3 DEF StopCancel
    <2>2. /\ Begun(s)' <= Begun(s) /\ Owed(s)' <= Owed(s)
          /\ r = "risk" => Owed(s)' = 0
      BY <2>1, LeaveLoad DEF Idle
    <2>3. e = d \/ (r = "risk" /\ out["risk"] = Decision(s, "trade") /\ e = d + 1)
      BY <1>3, DeliverLoad DEF StopCancel
    <2>4. /\ swaps[s] \in Nat /\ Begun(s) \in Nat /\ d \in Nat /\ Owed(s) \in Nat
          /\ Begun(s)' \in Nat /\ e \in Nat /\ Owed(s)' \in Nat
          /\ out["risk"] = Decision(s, "trade") => Owed(s) >= 1
      BY LoadParts, LoadPartsNext
    <2>5. Load(s) = swaps[s] + Begun(s) + d + Owed(s) /\ Load(s)' = swaps[s] + Begun(s)' + e + Owed(s)'
      BY <1>3 DEF StopCancel, history, Load
    <2> HIDE DEF d, e
    <2> QED BY <2>2, <2>3, <2>4, <2>5
  <1> QED BY <1>1, <1>2, <1>3 DEF Stopping

\* An agent that starts has nothing to send and nothing to begin.
LEMMA StartLoad ==
  ASSUME IInv, IInv', NEW s \in Signals, NEW r \in Roles, Starting(r)
  PROVE  Load(s)' <= Load(s)
  <1>0. HandlerOK
    BY InvariantParts
  <1>1. /\ UNCHANGED <<cur, out, tries, mail, swaps>>
        /\ at[r] \in {"off", "start"}
        /\ \E l \in {"failed", "recv", "start"} : at' = [at EXCEPT ![r] = l]
    BY DEF Starting, Start, StartMemory, Step, network, history
  <1>2. Begun(s)' = Begun(s)
    BY <1>0, <1>1 DEF Begun, HandlerOK, Roles
  <1>3. Owed(s)' = Owed(s)
    <2>1. CASE r = "risk"
      <3>1. out["risk"] = Pong
        BY <1>0, <1>1, <2>1, NothingToSend
      <3>2. out["risk"] # Decision(s, "trade") /\ out'["risk"] # Decision(s, "trade")
        BY <1>1, <3>1, MessageFacts DEF Actions
      <3> QED BY <3>2 DEF Owed
    <2>2. CASE r # "risk"
      BY <1>0, <1>1, <2>2 DEF Owed, HandlerOK, Roles
    <2> QED BY <2>1, <2>2
  <1>4. Load(s)' = Load(s)
    BY <1>1, <1>2, <1>3 DEF Load
  <1> QED BY <1>4, LoadParts DEF Load

\* A decision that the executor takes becomes the swap it is about to begin.
LEMMA ReceiveLoad ==
  ASSUME IInv, IInv', NEW s \in Signals, NEW r \in Roles, NEW m \in Messages, Receive(r, m)
  PROVE  Load(s)' <= Load(s)
  <1> DEFINE d == mail["executor"][Decision(s, "trade")]
             e == mail'["executor"][Decision(s, "trade")]
  <1>0. HandlerOK /\ RestOK
    BY InvariantParts
  <1>1. "executor" \in Roles /\ "risk" \in Roles /\ Decision(s, "trade") \in Messages
    BY MessageFacts DEF Roles, Actions
  <1>2. at[r] = "recv" /\ Take(r, m) /\ UNCHANGED swaps
    BY DEF Receive, history
  <1>3. e = IF r = "executor" /\ m = Decision(s, "trade") THEN d - 1 ELSE d
    BY <1>0, <1>1, <1>2, TakeOK
  <1>4. Owed(s)' <= Owed(s)
    <2>1. CASE r = "risk"
      <3>1. out["risk"] = Pong
        BY <1>0, <1>2, <2>1, NothingToSend
      <3>2. out'["risk"] = Pong
        BY <1>0, <2>1, <3>1 DEF Receive, StartSend, Enter, HandlerOK
      <3>3. out["risk"] # Decision(s, "trade") /\ out'["risk"] # Decision(s, "trade")
        BY <3>1, <3>2, MessageFacts DEF Actions
      <3> QED BY <3>3 DEF Owed
    <2>2. CASE r # "risk"
      <3>1. out'["risk"] = out["risk"] /\ at'["risk"] = at["risk"] /\ tries'["risk"] = tries["risk"]
        BY <1>0, <1>1, <2>2 DEF Receive, StartSend, Enter, HandlerOK
      <3>2. Owed(s)' = Owed(s)
        BY <3>1 DEF Owed
      <3> QED BY <3>2, LoadParts
    <2> QED BY <2>1, <2>2
  <1>5. Begun(s)' <= Begun(s) \/ (r = "executor" /\ m = Decision(s, "trade") /\ Begun(s)' = 1)
    <2>1. CASE r # "executor"
      <3>1. at'["executor"] = at["executor"] /\ cur'["executor"] = cur["executor"]
        BY <1>0, <1>1, <2>1 DEF Receive, StartSend, Enter, HandlerOK
      <3>2. Begun(s)' = Begun(s)
        BY <3>1 DEF Begun
      <3> QED BY <3>2, LoadParts
    <2>2. CASE r = "executor"
      <3>1. CASE Begun(s)' = 0
        BY <3>1, LoadParts
      <3>2. CASE Begun(s)' # 0
        <4>1. at'["executor"] = "executing" /\ cur'["executor"] = s /\ Begun(s)' = 1
          BY <3>2 DEF Begun
        <4>2. CASE running[r] /\ m.type = "ping"
          BY <1>0, <1>1, <2>2, <4>1, <4>2 DEF Receive, StartSend, HandlerOK
        <4>3. CASE ~(running[r] /\ m.type = "ping")
          <5>1. Enter(r, IF running[r] THEN Handler(r, m) ELSE "ended", m.sig)
            BY <4>3 DEF Receive
          <5>2. (IF running[r] THEN Handler(r, m) ELSE "ended") = "executing" /\ m.sig = s
            BY <1>0, <1>1, <2>2, <4>1, <5>1 DEF Enter, HandlerOK
          <5>3. m.type = "decision" /\ m.body # "hold"
            BY <2>2, <5>2 DEF Handler
          <5>4. m = Decision(s, "trade")
            BY <5>2, <5>3, MessageFacts DEF Actions
          <5> QED BY <2>2, <4>1, <5>4
        <4> QED BY <4>2, <4>3
      <3> QED BY <3>1, <3>2
    <2> QED BY <2>1, <2>2
  <1>6. /\ swaps[s] \in Nat /\ Begun(s) \in Nat /\ d \in Nat /\ Owed(s) \in Nat
        /\ Begun(s)' \in Nat /\ e \in Nat /\ Owed(s)' \in Nat
    BY LoadParts, LoadPartsNext
  <1>7. Load(s) = swaps[s] + Begun(s) + d + Owed(s) /\ Load(s)' = swaps[s] + Begun(s)' + e + Owed(s)'
    BY <1>2 DEF Load
  <1> HIDE DEF d, e
  <1> QED BY <1>3, <1>4, <1>5, <1>6, <1>7

\* A message that is taken is never more than one.
LEMMA PollLoad ==
  ASSUME IInv, IInv', NEW s \in Signals, NEW r \in Roles, Poll(r)
  PROVE  Load(s)' <= Load(s)
  <1>0. HandlerOK /\ RestOK
    BY InvariantParts
  <1>1. "executor" \in Roles /\ "risk" \in Roles /\ Decision(s, "trade") \in Messages
    BY MessageFacts DEF Roles, Actions
  <1>2. ASSUME NEW m \in Messages, ReceiveLost(r, m)
        PROVE  Load(s)' <= Load(s)
    <2>1. UNCHANGED <<at, cur, out, tries, swaps>>
      BY <1>2 DEF ReceiveLost, agent, history
    <2>2. Begun(s)' = Begun(s) /\ Owed(s)' = Owed(s)
      BY <2>1 DEF Begun, Owed
    <2>3. mail'["executor"][Decision(s, "trade")] <= mail["executor"][Decision(s, "trade")]
      <3>1. mail["executor"][Decision(s, "trade")] \in Nat
        BY LoadParts
      <3> QED BY <1>0, <1>1, <1>2, <3>1, TakeOK DEF ReceiveLost
    <2> QED BY <2>1, <2>2, <2>3, LoadFrom, LoadParts
  <1>3. CASE ReceiveRaises(r)
    <2>1. /\ UNCHANGED <<cur, out, tries, mail, swaps>>
          /\ at[r] = "recv" /\ at' = [at EXCEPT ![r] = "crashed"]
      BY <1>3 DEF ReceiveRaises, network, history
    <2>2. Begun(s)' = Begun(s)
      BY <1>0, <2>1 DEF Begun, HandlerOK, Roles
    <2>3. Owed(s)' = Owed(s)
      <3>1. CASE r = "risk"
        <4>1. out["risk"] = Pong
          BY <1>0, <2>1, <3>1, NothingToSend
        <4>2. out["risk"] # Decision(s, "trade") /\ out'["risk"] # Decision(s, "trade")
          BY <2>1, <4>1, MessageFacts DEF Actions
        <4> QED BY <4>2 DEF Owed
      <3>2. CASE r # "risk"
        BY <1>0, <2>1, <3>2 DEF Owed, HandlerOK, Roles
      <3> QED BY <3>1, <3>2
    <2>4. Load(s)' = Load(s)
      BY <2>1, <2>2, <2>3 DEF Load
    <2> QED BY <2>4, LoadParts DEF Load
  <1> QED BY <1>2, <1>3, ReceiveLoad DEF Poll

\* No decision comes from outside the risk agent.
LEMMA EnvironmentLoad ==
  ASSUME IInv, IInv', NEW s \in Signals, Environment
  PROVE  Load(s)' <= Load(s)
  <1>0. RestOK
    BY InvariantParts
  <1>1. UNCHANGED <<at, cur, out, tries, swaps>>
    BY DEF Environment, StopCalled, PingSwarm, SignalArrives, agent, history
  <1>2. Begun(s)' = Begun(s) /\ Owed(s)' = Owed(s)
    BY <1>1 DEF Begun, Owed
  <1>3. /\ mail \in [Roles -> [Messages -> Nat]]
        /\ "executor" \in Roles /\ "risk" \in Roles /\ Decision(s, "trade") \in Messages
    BY <1>0, MessageFacts DEF RestOK, Roles, Actions
  <1>4. mail'["executor"][Decision(s, "trade")] = mail["executor"][Decision(s, "trade")]
    <2>1. ASSUME NEW r \in Roles, NEW n \in 0 .. MaxSends, PingSwarm(r, n)
          PROVE  mail'["executor"][Decision(s, "trade")] = mail["executor"][Decision(s, "trade")]
      <3>1. Ping \in Messages /\ Ping # Decision(s, "trade") /\ n \in Nat
        BY MessageFacts DEF Actions
      <3> QED BY <1>3, <2>1, <3>1, PutAdds DEF PingSwarm
    <2>2. ASSUME NEW q \in Signals, NEW n \in 0 .. MaxSends, SignalArrives(q, n)
          PROVE  mail'["executor"][Decision(s, "trade")] = mail["executor"][Decision(s, "trade")]
      <3>1. Signal(q) \in Messages /\ Signal(q) # Decision(s, "trade") /\ n \in Nat
        BY MessageFacts DEF Actions
      <3> QED BY <1>3, <2>2, <3>1, PutAdds DEF SignalArrives
    <2>3. ASSUME NEW r \in Roles, StopCalled(r)
          PROVE  mail' = mail
      BY <2>3 DEF StopCalled, network
    <2> QED BY <2>1, <2>2, <2>3 DEF Environment
  <1>5. Load(s)' = Load(s)
    BY <1>1, <1>2, <1>4 DEF Load
  <1> QED BY <1>5, LoadParts DEF Load

\* The executor's handler: what it was about to begin becomes a swap.
LEMMA ExecutorLoad ==
  ASSUME IInv, IInv', NEW s \in Signals, ExecutorStep
  PROVE  Load(s)' <= Load(s)
  <1>0. HandlerOK /\ RestOK
    BY InvariantParts
  <1>1. "executor" \in Roles /\ "risk" \in Roles
    BY DEF Roles
  <1>2. /\ UNCHANGED mail
        /\ out'["risk"] = out["risk"] /\ at'["risk"] = at["risk"] /\ tries'["risk"] = tries["risk"]
    BY <1>0, <1>1 DEF ExecutorStep, Holding, LogHold, Executing, SwapDone, Settle, LogSettle,
                      Step, StartSend, Leave, HandlerOK, network
  <1>3. Owed(s)' = Owed(s)
    BY <1>2 DEF Owed
  <1>4. CASE Executing
    <2>1. /\ at["executor"] = "executing" /\ at'["executor"] = "swap"
          /\ cur["executor"] \in Signals /\ cur' = cur
          /\ swaps' = [swaps EXCEPT ![cur["executor"]] = @ + 1]
          /\ swaps \in [Signals -> Nat]
      BY <1>0, <1>1, <1>4 DEF Executing, Step, HandlerOK, InStep, SwapSteps, RestOK
    <2>2. Begun(s)' = 0
      BY <2>1 DEF Begun
    <2>3. swaps'[s] = swaps[s] + Begun(s)
      BY <2>1 DEF Begun
    <2>4. Load(s)' = Load(s)
      BY <1>2, <1>3, <2>2, <2>3, LoadParts DEF Load
    <2> QED BY <2>4, LoadParts DEF Load
  <1>5. CASE ~Executing
    <2>1. /\ UNCHANGED swaps
          /\ at["executor"] # "executing" /\ at'["executor"] # "executing"
      <3>1. CASE Holding
        BY <1>0, <1>1, <3>1 DEF Holding, Step, HandlerOK, history
      <3>2. CASE LogHold
        BY <1>0, <1>1, <3>2 DEF LogHold, StartSend, HandlerOK, history
      <3>3. CASE \E o \in SwapOutcomes : SwapDone(o)
        BY <1>0, <1>1, <3>3 DEF SwapDone, Step, HandlerOK
      <3>4. CASE Settle
        BY <1>0, <1>1, <3>4 DEF Settle, Step, HandlerOK, history
      <3>5. CASE LogSettle
        BY <1>0, <1>1, <3>5 DEF LogSettle, StartSend, Leave, HandlerOK, history
      <3> QED BY <1>5, <3>1, <3>2, <3>3, <3>4, <3>5 DEF ExecutorStep
    <2>2. Begun(s)' = Begun(s)
      BY <2>1 DEF Begun
    <2>3. Load(s)' = Load(s)
      BY <1>2, <1>3, <2>1, <2>2 DEF Load
    <2> QED BY <2>3, LoadParts DEF Load
  <1> QED BY <1>4, <1>5

\* The risk agent's handler owes more only with an approval.
LEMMA RiskLoad ==
  ASSUME IInv, IInv', NEW s \in Signals, RiskStep
  PROVE  \/ Load(s)' <= Load(s) /\ approvals'[s] = approvals[s]
         \/ Load(s)' <= Load(s) + MaxSends /\ approvals'[s] = approvals[s] + 1
  <1>0. HandlerOK /\ RestOK
    BY InvariantParts
  <1>1. "executor" \in Roles /\ "risk" \in Roles
    BY DEF Roles
  <1>2. /\ UNCHANGED <<mail, swaps>>
        /\ at'["executor"] = at["executor"] /\ cur'["executor"] = cur["executor"]
    BY <1>0, <1>1 DEF RiskStep, Deciding, Score, ScoreFails, ScoreRaises, LogDecision,
                      Decided, Step, StartSend, Leave, HandlerOK, network, history
  <1>3. Begun(s)' = Begun(s)
    BY <1>2 DEF Begun
  <1>4. /\ swaps[s] \in Nat /\ Begun(s) \in Nat /\ Owed(s) \in Nat /\ Owed(s)' \in Nat
        /\ mail["executor"][Decision(s, "trade")] \in Nat
    BY LoadParts, LoadPartsNext
  <1>5. ASSUME NEW a \in Answers, Score(a)
        PROVE  \/ Load(s)' <= Load(s) /\ approvals'[s] = approvals[s]
               \/ Load(s)' <= Load(s) + MaxSends /\ approvals'[s] = approvals[s] + 1
    <2>1. /\ at["risk"] = "score" /\ at'["risk"] = "logDecision" /\ cur["risk"] \in Signals
          /\ out'["risk"] = Decision(cur["risk"], Scored(a))
          /\ approvals' = [approvals EXCEPT ![cur["risk"]] = IF Approves(a) THEN @ + 1 ELSE @]
          /\ approvals \in [Signals -> Nat]
      BY <1>0, <1>1, <1>5 DEF Score, Step, HandlerOK, InStep, DecisionSteps, RestOK
    <2>2. Owed(s) = 0
      BY <2>1, LoadParts
    <2>3. CASE cur["risk"] = s /\ Approves(a)
      <3>1. approvals'[s] = approvals[s] + 1
        BY <2>1, <2>3
      <3>2. Owed(s)' <= MaxSends
        BY <2>1 DEF Owed
      <3> QED BY <1>2, <1>3, <1>4, <2>2, <3>1, <3>2 DEF Load
    <2>4. CASE ~(cur["risk"] = s /\ Approves(a))
      <3>1. approvals'[s] = approvals[s]
        BY <2>1, <2>4
      <3>2. cur["risk"] = s => Scored(a) = "hold"
        BY <2>4 DEF Approves, Scored, Answers, Actions
      <3>3. Decision(cur["risk"], Scored(a)) # Decision(s, "trade")
        BY <2>1, <3>2, MessageFacts DEF Scored, Answers, Actions
      <3>4. Owed(s)' = 0
        BY <2>1, <3>3 DEF Owed
      <3> QED BY <1>2, <1>3, <1>4, <2>2, <3>1, <3>4 DEF Load
    <2> QED BY <2>3, <2>4
  <1>6. ASSUME ~(\E a \in Answers : Score(a))
        PROVE  approvals' = approvals /\ Owed(s)' <= Owed(s)
    <2>1. CASE Deciding
      <3>1. at["risk"] = "deciding" /\ out'["risk"] = out["risk"]
        BY <2>1 DEF Deciding, Step
      <3>2. out["risk"] # Decision(s, "trade")
        BY <3>1, <1>0, <1>1, NothingToSend, MessageFacts DEF Actions
      <3> QED BY <2>1, <3>1, <3>2 DEF Deciding, Owed, history
    <2>2. CASE ScoreFails
      <3>1. /\ cur["risk"] \in Signals
            /\ out'["risk"] = Decision(cur["risk"], "hold")
        BY <1>0, <1>1, <2>2 DEF ScoreFails, Step, HandlerOK, InStep, DecisionSteps
      <3>2. out'["risk"] # Decision(s, "trade")
        BY <3>1, MessageFacts DEF Actions
      <3>3. Owed(s)' = 0
        BY <3>2 DEF Owed
      <3> QED BY <1>4, <2>2, <3>3 DEF ScoreFails, history
    <2>3. CASE ScoreRaises
      BY <1>1, <2>3, LeaveLoad DEF ScoreRaises, Idle, history
    <2>4. CASE LogDecision
      <3>1. at["risk"] # "send" /\ at'["risk"] # "send" /\ out' = out
        BY <1>0, <1>1, <2>4 DEF LogDecision, Step, HandlerOK
      <3>2. Owed(s)' = Owed(s)
        BY <3>1 DEF Owed
      <3> QED BY <1>4, <2>4, <3>2 DEF LogDecision, history
    <2>5. CASE Decided
      <3>1. /\ at["risk"] # "send" /\ at'["risk"] = "send"
            /\ out'["risk"] = out["risk"] /\ tries'["risk"] = 0
        BY <1>0, <1>1, <2>5 DEF Decided, StartSend, HandlerOK
      <3>2. Owed(s)' = Owed(s)
        BY <3>1 DEF Owed
      <3> QED BY <1>4, <2>5, <3>2 DEF Decided, history
    <2> QED BY <1>6, <2>1, <2>2, <2>3, <2>4, <2>5 DEF RiskStep
  <1>7. ASSUME ~(\E a \in Answers : Score(a))
        PROVE  Load(s)' <= Load(s) /\ approvals'[s] = approvals[s]
    BY <1>2, <1>3, <1>4, <1>6, <1>7 DEF Load
  <1> QED BY <1>5, <1>7

\* The load grows with an approval only, and then by the attempts of a send.
LEMMA LoadStep ==
  ASSUME IInv, IInv', [Next]_vars, NEW s \in Signals
  PROVE  \/ Load(s)' <= Load(s) /\ approvals'[s] = approvals[s]
         \/ Load(s)' <= Load(s) + MaxSends /\ approvals'[s] = approvals[s] + 1
  <1>1. CASE RiskStep
    BY <1>1, RiskLoad
  <1>2. ASSUME ~RiskStep
        PROVE  Load(s)' <= Load(s) /\ approvals'[s] = approvals[s]
    <2>1. approvals' = approvals
      BY <1>2, HistoryEffect
    <2>2. CASE UNCHANGED vars
      <3>1. Load(s)' = Load(s)
        BY <2>2 DEF vars, Load, Begun, Owed
      <3> QED BY <2>1, <3>1, LoadParts DEF Load
    <2>3. ASSUME NEW r \in Roles, NEW wrote \in BOOLEAN, MemoryFails(r, wrote)
          PROVE  Load(s)' <= Load(s)
      <3>1. UNCHANGED <<swaps, mail>> /\ Leave(r, "recv") /\ "recv" \in Idle
        BY <2>3 DEF MemoryFails, network, history, Idle
      <3>2. Begun(s)' <= Begun(s) /\ Owed(s)' <= Owed(s)
        BY <3>1, LeaveLoad
      <3> QED BY <3>1, <3>2, LoadFrom, LoadParts
    <2>4. ASSUME NEW r \in Roles, Work(r)
          PROVE  Load(s)' <= Load(s)
      BY <1>2, <2>3, <2>4, ExecutorLoad, SendLoad DEF Work
    <2> QED
      BY <2>1, <2>2, <2>4, StartLoad, PollLoad, StopLoad, EnvironmentLoad DEF Next
  <1> QED BY <1>1, <1>2

\* An approval more pays for MaxSends attempts more.
LEMMA Budget ==
  ASSUME NEW a \in Nat
  PROVE  /\ MaxSends * a \in Int
         /\ MaxSends * (a + 1) = MaxSends * a + MaxSends
  OBVIOUS

\* The budget is kept by every step.
LEMMA BudgetedStep ==
  ASSUME IInv, IInv', Budgeted, [Next]_vars
  PROVE  Budgeted'
  <1> SUFFICES ASSUME NEW s \in Signals
               PROVE  Load(s)' <= MaxSends * approvals'[s]
    BY DEF Budgeted, Load
  <1>1. Load(s) <= MaxSends * approvals[s]
    BY DEF Budgeted, Load
  <1>2. approvals[s] \in Nat
    BY DEF IInv, TypeOK
  <1>3. Load(s) \in Int
    BY LoadParts DEF Load
  <1>4. Load(s)' \in Int
    BY LoadPartsNext DEF Load
  <1> DEFINE K == MaxSends * approvals[s]
  <1>5. K \in Int /\ MaxSends * (approvals[s] + 1) = K + MaxSends
    BY <1>2, Budget
  <1>6. CASE Load(s)' <= Load(s) /\ approvals'[s] = approvals[s]
    <2>1. MaxSends * approvals'[s] = K
      BY <1>6
    <2> HIDE DEF K
    <2> QED BY <1>1, <1>3, <1>4, <1>5, <1>6, <2>1 DEF K
  <1>7. CASE Load(s)' <= Load(s) + MaxSends /\ approvals'[s] = approvals[s] + 1
    <2>1. MaxSends * approvals'[s] = K + MaxSends
      BY <1>5, <1>7
    <2>2. Load(s) <= K
      BY <1>1
    <2> HIDE DEF K
    <2> QED BY <1>3, <1>4, <1>5, <1>7, <2>1, <2>2
  <1> QED BY <1>6, <1>7, LoadStep

\* The risk gate of core/compute/risk_scorer.py holds from end to end: every
\* swap the executor begins for a signal goes back to an answer of the model
\* that approved it below the threshold, through at most MaxSends attempts of
\* core/axl_client.py to send the decision.
THEOREM GateHolds == Spec => []SwapsWereApproved
  <1>1. Init => Budgeted
    <2> SUFFICES ASSUME Init, NEW s \in Signals
                 PROVE  swaps[s] + Begun(s) + mail["executor"][Decision(s, "trade")] + Owed(s)
                          <= MaxSends * approvals[s]
      BY DEF Budgeted
    <2>1. swaps[s] = 0 /\ approvals[s] = 0
      BY DEF Init
    <2>2. mail["executor"][Decision(s, "trade")] = 0
      BY MessageFacts DEF Init, Roles, Actions
    <2>3. Begun(s) = 0
      BY DEF Init, Begun, Roles
    <2>4. Owed(s) = 0
      BY InitOK, LoadParts DEF Init, Roles
    <2> QED BY <2>1, <2>2, <2>3, <2>4
  <1>2. IInv /\ Budgeted => SwapsWereApproved
    <2> SUFFICES ASSUME IInv, Budgeted, NEW s \in Signals
                 PROVE  swaps[s] <= MaxSends * approvals[s]
      BY DEF SwapsWereApproved
    <2>1. Load(s) <= MaxSends * approvals[s]
      BY DEF Budgeted, Load
    <2>2. swaps[s] \in Nat /\ swaps[s] <= Load(s) /\ Load(s) \in Nat
      BY LoadParts DEF Load
    <2>3. MaxSends * approvals[s] \in Int
      BY Budget DEF IInv, TypeOK
    <2> QED BY <2>1, <2>2, <2>3
  <1>3. IInv /\ IInv' /\ Budgeted /\ [Next]_vars => Budgeted'
    BY BudgetedStep
  <1> QED BY <1>1, <1>2, <1>3, Inductive, PTL DEF Spec

-----------------------------------------------------------------------------
(* A success is real.                                                      *)

\* Outcomes are only added.
LEMMA SettledGrows ==
  ASSUME IInv, [Next]_vars, NEW s \in Signals
  PROVE  settled[s] \subseteq settled'[s]
  <1>1. ASSUME NEW o \in SwapOutcomes, SwapDone(o)
        PROVE  settled[s] \subseteq settled'[s]
    BY <1>1 DEF SwapDone, IInv, TypeOK
  <1> QED BY <1>1, HistoryEffect

\* The researcher hears what was in its mailbox.
LEMMA HeardEffect ==
  ASSUME [Next]_vars, NEW m \in heard'
  PROVE  m \in heard \/ mail["researcher"][m] > 0
  <1> USE DEF network
  <1>1. CASE UNCHANGED vars
    BY <1>1 DEF vars
  <1>2. ASSUME NEW r \in Roles, Starting(r) \/ Stopping(r)
        PROVE  UNCHANGED heard
    BY <1>2 DEF Starting, Start, StartMemory, Stopping, StopIdle, StopLog, StopCancel
  <1>3. ASSUME NEW r \in Roles, Poll(r)
        PROVE  m \in heard \/ mail["researcher"][m] > 0
    BY <1>3 DEF Poll, Receive, ReceiveLost, ReceiveRaises, Take
  <1>4. ASSUME NEW r \in Roles, Work(r)
        PROVE  UNCHANGED heard
    <2>1. CASE RiskStep
      BY <2>1 DEF RiskStep, Deciding, Score, ScoreFails, ScoreRaises, LogDecision, Decided
    <2>2. CASE ExecutorStep
      BY <2>2 DEF ExecutorStep, Holding, LogHold, Executing, SwapDone, Settle, LogSettle
    <2>3. CASE \E wrote \in BOOLEAN : MemoryFails(r, wrote)
      BY <2>3 DEF MemoryFails
    <2> QED
      BY <1>4, <2>1, <2>2, <2>3 DEF Work, SendDone, SendTimesOut, SendRaises, Sending
  <1>5. CASE Environment
    BY <1>5 DEF Environment, StopCalled, PingSwarm, SignalArrives
  <1> QED BY <1>1, <1>2, <1>3, <1>4, <1>5 DEF Next

\* A report is in the researcher's mailbox after a step if it was there before
\* or the executor was sending it.
LEMMA ReportEffect ==
  ASSUME IInv, [Next]_vars, NEW s \in Signals, NEW v \in Verdicts,
         mail'["researcher"][Report(s, v)] > 0
  PROVE  mail["researcher"][Report(s, v)] > 0 \/ out["executor"] = Report(s, v)
  <1> DEFINE k == Report(s, v)
  <1>0. HandlerOK /\ RestOK
    BY InvariantParts
  <1>1. /\ mail \in [Roles -> [Messages -> Nat]]
        /\ "researcher" \in Roles /\ "risk" \in Roles
        /\ k \in Messages /\ k \in Reports /\ k.type = "result"
    BY <1>0, MessageFacts DEF RestOK, Roles
  <1> HIDE DEF k
  <1>2. mail["researcher"][k] \in Nat
    BY <1>1
  <1>3. mail'["researcher"][k] > mail["researcher"][k] => out["executor"] = k
    <2>1. CASE UNCHANGED mail
      BY <1>2, <2>1
    <2>2. ASSUME NEW r \in Roles, NEW m \in Messages, Take(r, m)
          PROVE  ~(mail'["researcher"][k] > mail["researcher"][k])
      BY <1>0, <1>1, <1>2, <2>2, TakeOK
    <2>3. ASSUME NEW r \in Roles, mail' = Put(Dest(out[r]), out[r], 1)
          PROVE  mail'["researcher"][k] > mail["researcher"][k] => out["executor"] = k
      <3>1. out[r] \in Messages /\ Dest(out[r]) \in Roles /\ 1 \in Nat
        BY <1>0, Sendable, DestFacts
      <3>2. CASE out[r] # k
        BY <1>1, <1>2, <2>3, <3>1, <3>2, PutAdds
      <3>3. CASE out[r] = k
        BY <1>0, <1>1, <3>3, Sendable, MessageFacts
      <3> QED BY <3>2, <3>3
    <2>4. ASSUME NEW r \in Roles, NEW n \in 0 .. MaxSends, mail' = Put(r, Ping, n)
          PROVE  mail'["researcher"][k] = mail["researcher"][k]
      <3>1. Ping \in Messages /\ Ping # k /\ n \in Nat
        BY <1>1, MessageFacts
      <3> QED BY <1>1, <2>4, <3>1, PutAdds
    <2>5. ASSUME NEW q \in Signals, NEW n \in 0 .. MaxSends, mail' = Put("risk", Signal(q), n)
          PROVE  mail'["researcher"][k] = mail["researcher"][k]
      <3>1. Signal(q) \in Messages /\ Signal(q) # k /\ n \in Nat
        BY <1>1, MessageFacts
      <3> QED BY <1>1, <2>5, <3>1, PutAdds
    <2> QED BY <1>2, <2>1, <2>2, <2>3, <2>4, <2>5, MailEffect
  <1>4. mail'["researcher"][k] > 0
    BY DEF k
  <1>5. mail["researcher"][k] > 0 \/ out["executor"] = k
    BY <1>2, <1>3, <1>4
  <1> QED BY <1>5 DEF k

\* Outside the steps of its handler, the executor keeps where it stands, or it
\* ends up without an outcome and with nothing new to report.
LEMMA ExecutorFrame ==
  ASSUME IInv, [Next]_vars
  PROVE  \/ ExecutorStep
         \/ /\ at'["executor"] = at["executor"] /\ cur'["executor"] = cur["executor"]
            /\ out'["executor"] = out["executor"] /\ swap' = swap
         \/ /\ at'["executor"] \notin {"settle", "logSettle"}
            /\ out'["executor"] = Pong
  <1> DEFINE Kept == /\ at'["executor"] = at["executor"] /\ cur'["executor"] = cur["executor"]
                     /\ out'["executor"] = out["executor"] /\ swap' = swap
             Reset == at'["executor"] \notin {"settle", "logSettle"} /\ out'["executor"] = Pong
  <1>0. HandlerOK /\ "executor" \in Roles
    BY InvariantParts DEF Roles
  <1>1. CASE UNCHANGED vars
    BY <1>1 DEF vars
  <1>2. ASSUME NEW r \in Roles, NEW l \in Idle, Leave(r, l)
        PROVE  Kept \/ Reset
    BY <1>0, <1>2 DEF Leave, HandlerOK, Idle
  <1>3. ASSUME NEW r \in Roles, Starting(r)
        PROVE  Kept \/ Reset
    <2>1. /\ UNCHANGED <<cur, out, swap>>
          /\ at[r] \in {"off", "start"}
          /\ \E l \in {"failed", "recv", "start"} : at' = [at EXCEPT ![r] = l]
      BY <1>3 DEF Starting, Start, StartMemory, Step
    <2>2. CASE r = "executor"
      BY <1>0, <2>1, <2>2, NothingToSend DEF HandlerOK
    <2>3. CASE r # "executor"
      BY <1>0, <2>1, <2>3 DEF HandlerOK
    <2> QED BY <2>2, <2>3
  <1>4. ASSUME NEW r \in Roles, Poll(r)
        PROVE  Kept \/ Reset
    <2>1. ASSUME NEW m \in Messages, Receive(r, m)
          PROVE  Kept \/ Reset
      <3>1. CASE r = "executor"
        <4>1. out["executor"] = Pong
          BY <1>0, <2>1, <3>1, NothingToSend DEF Receive
        <4>2. (IF running[r] THEN Handler(r, m) ELSE "ended") \notin {"settle", "logSettle"}
          BY DEF Handler
        <4> QED BY <1>0, <2>1, <3>1, <4>1, <4>2 DEF Receive, StartSend, Enter, HandlerOK
      <3>2. CASE r # "executor"
        BY <1>0, <2>1, <3>2 DEF Receive, StartSend, Enter, HandlerOK
      <3> QED BY <3>1, <3>2
    <2>2. ASSUME NEW m \in Messages, ReceiveLost(r, m)
          PROVE  Kept
      BY <2>2 DEF ReceiveLost, agent
    <2>3. CASE ReceiveRaises(r)
      <3>1. out[r] = Pong
        BY <1>0, <2>3, NothingToSend DEF ReceiveRaises
      <3> QED BY <1>0, <2>3, <3>1 DEF ReceiveRaises, HandlerOK
    <2> QED BY <1>4, <2>1, <2>2, <2>3 DEF Poll
  <1>5. ASSUME NEW r \in Roles, Work(r), ~ExecutorStep
        PROVE  Kept \/ Reset
    <2>0. AfterRaise(out[r]) \in Idle /\ "recv" \in Idle
      BY DEF AfterRaise, Idle
    <2>1. CASE RiskStep
      BY <1>0, <2>1 DEF RiskStep, Deciding, Score, ScoreFails, ScoreRaises, LogDecision,
                        Decided, Step, StartSend, Leave, HandlerOK
    <2>2. CASE \E wrote \in BOOLEAN : MemoryFails(r, wrote)
      BY <1>2, <2>0, <2>2 DEF MemoryFails
    <2>3. CASE SendDone(r)
      BY <1>2, <2>0, <2>3 DEF SendDone
    <2>4. ASSUME NEW got \in BOOLEAN, SendTimesOut(r, got) \/ SendRaises(r, got)
          PROVE  Kept \/ Reset
      BY <1>2, <2>0, <2>4 DEF SendTimesOut, SendRaises
    <2> QED BY <1>5, <2>1, <2>2, <2>3, <2>4 DEF Work
  <1>6. ASSUME NEW r \in Roles, Stopping(r)
        PROVE  Kept \/ Reset
    <2>1. ASSUME NEW got \in BOOLEAN, StopCancel(r, got)
          PROVE  Kept \/ Reset
      <3>1. PICK l \in {"start", "failed", "crashed", "ended"} : Leave(r, l)
        BY <2>1 DEF StopCancel
      <3> QED BY <1>2, <3>1 DEF Idle
    <2> QED BY <1>6, <2>1 DEF Stopping, StopIdle, StopLog
  <1>7. CASE Environment
    BY <1>7 DEF Environment, StopCalled, PingSwarm, SignalArrives, agent
  <1> QED BY <1>1, <1>3, <1>4, <1>5, <1>6, <1>7 DEF Next

\* The report under way and the outcome of the swap, through a step.
LEMMA GenuineStep ==
  ASSUME IInv, IInv', Genuine, [Next]_vars
  PROVE  Genuine'
  <1> DEFINE Sent == \A s \in Signals :
               out["executor"] = Report(s, "success") => "landed" \in settled[s]
             Known == at["executor"] \in {"settle", "logSettle"} =>
               swap \in SwapOutcomes /\ Kind(swap) \in settled[cur["executor"]]
  <1>0. HandlerOK /\ "executor" \in Roles
    BY InvariantParts DEF Roles
  <1>1. SuccessIsReal /\ Sent /\ Known
    BY DEF Genuine
  <1>2. \A s \in Signals : settled[s] \subseteq settled'[s]
    BY SettledGrows
  <1>3. SuccessIsReal'
    <2> SUFFICES ASSUME NEW s \in Signals,
                        \/ Report(s, "success") \in heard'
                        \/ mail'["researcher"][Report(s, "success")] > 0
                 PROVE  "landed" \in settled[s]
      BY <1>2 DEF SuccessIsReal
    <2>1. CASE Report(s, "success") \in heard'
      BY <1>1, <2>1, HeardEffect DEF SuccessIsReal
    <2>2. CASE mail'["researcher"][Report(s, "success")] > 0
      BY <1>1, <2>2, ReportEffect DEF SuccessIsReal, Verdicts
    <2> QED BY <2>1, <2>2
  <1>4. \A s \in Signals : Pong # Report(s, "success")
    BY MessageFacts DEF Verdicts
  <1>5. CASE ExecutorStep
    <2>0. at["executor"] \in SwapSteps => cur["executor"] \in Signals /\ out["executor"] = Pong
      BY <1>0 DEF HandlerOK, InStep, SwapSteps
    <2>1. CASE Holding \/ Executing
      <3>1. out' = out /\ at'["executor"] \in {"logHold", "swap"}
        BY <1>0, <2>1 DEF Holding, Executing, Step, HandlerOK
      <3>2. Sent' /\ Known'
        BY <1>1, <1>2, <3>1
      <3> QED BY <1>3, <3>2 DEF Genuine
    <2>2. CASE LogHold
      <3>1. /\ out'["executor"] = Report(cur["executor"], "failure")
            /\ cur["executor"] \in Signals /\ at'["executor"] = "send"
        BY <1>0, <2>0, <2>2 DEF LogHold, StartSend, HandlerOK, SwapSteps
      <3>2. \A s \in Signals : out'["executor"] # Report(s, "success")
        BY <3>1, MessageFacts DEF Verdicts
      <3> QED BY <1>3, <3>1, <3>2 DEF Genuine
    <2>3. ASSUME NEW o \in SwapOutcomes, SwapDone(o)
          PROVE  Genuine'
      <3>1. /\ out' = out /\ swap' = o /\ cur' = cur /\ cur["executor"] \in Signals
            /\ settled' = [settled EXCEPT ![cur["executor"]] = @ \cup {Kind(o)}]
        BY <2>0, <2>3 DEF SwapDone, Step, SwapSteps
      <3>2. Kind(o) \in settled'[cur["executor"]]
        BY <3>1 DEF IInv, TypeOK
      <3>3. Sent'
        BY <1>1, <1>2, <3>1
      <3>4. Known'
        BY <3>1, <3>2
      <3> QED BY <1>3, <3>3, <3>4 DEF Genuine
    <2>4. CASE Settle
      <3>1. /\ UNCHANGED <<out, swap, cur>> /\ at["executor"] = "settle"
            /\ cur["executor"] \in Signals
        BY <2>0, <2>4 DEF Settle, Step, SwapSteps
      <3>2. Sent'
        BY <1>1, <1>2, <3>1
      <3>3. Known'
        BY <1>1, <1>2, <3>1
      <3> QED BY <1>3, <3>2, <3>3 DEF Genuine
    <2>5. CASE LogSettle
      <3>1. at["executor"] = "logSettle" /\ cur["executor"] \in Signals
        BY <2>0, <2>5 DEF LogSettle, SwapSteps
      <3>2. swap \in SwapOutcomes /\ Kind(swap) \in settled[cur["executor"]]
        BY <1>1, <3>1
      <3>3. at'["executor"] \notin {"settle", "logSettle"}
        BY <1>0, <2>5 DEF LogSettle, StartSend, Leave, HandlerOK
      <3>4. CASE Reportable(swap)
        <4>1. out'["executor"] = Report(cur["executor"], Verdict(swap))
          BY <1>0, <2>5, <3>4 DEF LogSettle, StartSend, HandlerOK
        <4>2. Verdict(swap) = "success" => Kind(swap) = "landed"
          BY <3>4 DEF Reportable, Verdict, Kind
        <4>3. Verdict(swap) \in Verdicts
          BY DEF Verdict, Verdicts
        <4>4. ASSUME NEW s \in Signals, out'["executor"] = Report(s, "success")
              PROVE  "landed" \in settled'[s]
          <5>0. Report(cur["executor"], Verdict(swap)) = Report(s, "success")
            BY <4>1, <4>4
          <5>1. s = cur["executor"] /\ Verdict(swap) = "success"
            BY <5>0 DEF Report, Message
          <5> QED BY <1>2, <3>2, <4>2, <5>1
        <4> QED BY <1>3, <3>3, <4>4 DEF Genuine
      <3>5. CASE ~Reportable(swap)
        <4>1. out'["executor"] = Pong
          BY <1>0, <2>5, <3>5 DEF LogSettle, Leave, HandlerOK
        <4> QED BY <1>3, <1>4, <3>3, <4>1 DEF Genuine
      <3> QED BY <3>4, <3>5
    <2> QED BY <1>5, <2>1, <2>2, <2>3, <2>4, <2>5 DEF ExecutorStep
  <1>6. CASE /\ at'["executor"] = at["executor"] /\ cur'["executor"] = cur["executor"]
             /\ out'["executor"] = out["executor"] /\ swap' = swap
    <2>1. Sent'
      BY <1>1, <1>2, <1>6
    <2>2. at["executor"] \in {"settle", "logSettle"} => cur["executor"] \in Signals
      BY <1>0 DEF HandlerOK, InStep, SwapSteps
    <2>3. Known'
      BY <1>1, <1>2, <1>6, <2>2
    <2> QED BY <1>3, <2>1, <2>3 DEF Genuine
  <1>7. CASE at'["executor"] \notin {"settle", "logSettle"} /\ out'["executor"] = Pong
    BY <1>3, <1>4, <1>7 DEF Genuine
  <1> QED BY <1>5, <1>6, <1>7, ExecutorFrame

\* A success that reaches the researcher from agents/executor.py goes back to
\* a swap for the same signal that returned CONFIRMED or SUBMITTED with a hash.
THEOREM ReportsAreReal == Spec => []SuccessIsReal
  <1>1. Init => Genuine
    <2> SUFFICES ASSUME Init PROVE Genuine
      OBVIOUS
    <2>1. SuccessIsReal
      BY MessageFacts DEF Init, SuccessIsReal, Roles, Verdicts
    <2>2. \A s \in Signals : out["executor"] # Report(s, "success")
      BY MessageFacts DEF Init, Roles, Verdicts
    <2>3. at["executor"] = "off"
      BY DEF Init, Roles
    <2> QED BY <2>1, <2>2, <2>3 DEF Genuine
  <1>2. Genuine => SuccessIsReal
    BY DEF Genuine
  <1>3. IInv /\ IInv' /\ Genuine /\ [Next]_vars => Genuine'
    BY GenuineStep
  <1> QED BY <1>1, <1>2, <1>3, Inductive, PTL DEF Spec

-----------------------------------------------------------------------------
(* The status on 0G follows the work.                                      *)

\* An agent whose stop() was never called and whose memory and model answer.
Sound == faults \cap {"memory", "model", "stop"} = {}

Settled(r) == at[r] \in {"recv", "send", "logHold", "logSettle"} => status[r] \in {"IDLE", "ERROR"}
Trading == at["executor"] = "swap" => status["executor"] = "EXECUTING"

\* The status invariant, by its parts.
LEMMA StatusParts ==
  /\ StatusKept <=> (Sound => /\ \A r \in Roles : stop[r] = "no"
                              /\ Settled("risk") /\ Settled("executor") /\ Trading)
  /\ StatusKept' <=> (Sound' => /\ \A r \in Roles : stop'[r] = "no"
                                /\ Settled("risk")' /\ Settled("executor")' /\ Trading')
  BY DEF StatusKept, Sound, Settled, Trading

\* A handler that is left, or that begins a send, from a step after which the
\* status is settled.
LEMMA StatusFrame ==
  ASSUME IInv, NEW r \in Roles, UNCHANGED status,
         Settled("risk"), Settled("executor"), Trading,
         \A q \in Roles : q # r => at'[q] = at[q],
         at'[r] # "swap",
         at[r] \in {"recv", "send", "logHold", "logSettle"} \/ at'[r] \notin {"recv", "send", "logHold", "logSettle"}
  PROVE  Settled("risk")' /\ Settled("executor")' /\ Trading'
  BY DEF Settled, Trading, Roles

\* The status invariant is kept by every step.
LEMMA StatusStep ==
  ASSUME IInv, StatusKept, [Next]_vars
  PROVE  StatusKept'
  <1> USE DEF Roles
  <1>0. HandlerOK /\ RestOK
    BY InvariantParts
  <1>00. /\ at \in [Roles -> Idle \cup DecisionSteps \cup SwapSteps \cup {"send"}]
         /\ status \in [Roles -> {"UNKNOWN", "IDLE", "DECIDING", "EXECUTING", "ERROR"}]
         /\ at["researcher"] \in Idle \cup {"send"}
         /\ at["risk"] \in Idle \cup DecisionSteps \cup {"send"}
         /\ at["executor"] \in Idle \cup SwapSteps \cup {"send"}
    BY <1>0 DEF HandlerOK, RestOK, InStep
  <1>1. faults' = faults
    BY DEF Next, Starting, Poll, Work, Stopping, Environment, vars
  <1> SUFFICES ASSUME Sound
               PROVE  /\ \A r \in Roles : stop'[r] = "no"
                      /\ Settled("risk")' /\ Settled("executor")' /\ Trading'
    BY <1>1, StatusParts DEF Sound
  <1>2. /\ \A r \in Roles : stop[r] = "no"
        /\ Settled("risk") /\ Settled("executor") /\ Trading
    BY StatusParts
  <1>3. "memory" \notin faults /\ "model" \notin faults /\ "stop" \notin faults
    BY DEF Sound
  <1>4. CASE UNCHANGED vars
    BY <1>2, <1>4 DEF vars, Settled, Trading
  <1>5. ASSUME NEW r \in Roles, Stopping(r)
        PROVE  FALSE
    BY <1>2, <1>5 DEF Stopping, StopIdle, StopLog, StopCancel
  <1>6. CASE Environment
    <2>1. UNCHANGED <<stop, status, at>>
      BY <1>3, <1>6 DEF Environment, StopCalled, PingSwarm, SignalArrives, agent
    <2> QED BY <1>2, <2>1 DEF Settled, Trading
  <1>7. ASSUME NEW r \in Roles, Starting(r)
        PROVE  /\ \A q \in Roles : stop'[q] = "no"
               /\ Settled("risk")' /\ Settled("executor")' /\ Trading'
    <2>1. ASSUME NEW ok \in BOOLEAN, Start(r, ok)
          PROVE  UNCHANGED <<stop, status>> /\ Settled("risk")' /\ Settled("executor")' /\ Trading'
      BY <1>00, <1>2, <2>1 DEF Start, Step, Settled, Trading
    <2>2. ASSUME NEW ok \in BOOLEAN, NEW wrote \in BOOLEAN, StartMemory(r, ok, wrote)
          PROVE  UNCHANGED stop /\ Settled("risk")' /\ Settled("executor")' /\ Trading'
      <3>1. /\ UNCHANGED stop
            /\ at' = [at EXCEPT ![r] = "recv"]
            /\ status' = [status EXCEPT ![r] = "IDLE"]
        BY <1>3, <2>2 DEF StartMemory, Step, SetStatus
      <3> QED BY <1>00, <1>2, <3>1 DEF Settled, Trading
    <2> QED BY <1>2, <1>7, <2>1, <2>2 DEF Starting
  <1>8. ASSUME NEW r \in Roles, Poll(r)
        PROVE  /\ \A q \in Roles : stop'[q] = "no"
               /\ Settled("risk")' /\ Settled("executor")' /\ Trading'
    <2>1. UNCHANGED <<stop, status>>
      BY <1>8 DEF Poll, Receive, ReceiveLost, ReceiveRaises, agent
    <2>2. /\ at[r] = "recv" /\ at'[r] # "swap"
          /\ \A q \in Roles : q # r => at'[q] = at[q]
      <3>1. ASSUME NEW m \in Messages, Receive(r, m)
            PROVE  /\ at'[r] # "swap" /\ at[r] = "recv"
                   /\ \A q \in Roles : q # r => at'[q] = at[q]
        <4>1. (IF running[r] THEN Handler(r, m) ELSE "ended") # "swap"
          BY DEF Handler
        <4> QED BY <1>00, <3>1, <4>1 DEF Receive, StartSend, Enter
      <3>2. ASSUME NEW m \in Messages, ReceiveLost(r, m)
            PROVE  at' = at /\ at[r] = "recv"
        BY <3>2 DEF ReceiveLost, agent
      <3>3. CASE ReceiveRaises(r)
        BY <1>00, <3>3 DEF ReceiveRaises
      <3> QED BY <1>8, <3>1, <3>2, <3>3 DEF Poll
    <2> QED BY <1>2, <2>1, <2>2, StatusFrame
  <1>9. ASSUME NEW r \in Roles, Work(r)
        PROVE  /\ \A q \in Roles : stop'[q] = "no"
               /\ Settled("risk")' /\ Settled("executor")' /\ Trading'
    <2>1. CASE r = "risk" /\ RiskStep
      <3>1. CASE Decided
        <4>1. /\ UNCHANGED stop /\ at' = [at EXCEPT !["risk"] = "send"]
              /\ status' = [status EXCEPT !["risk"] = "IDLE"]
          BY <3>1 DEF Decided, StartSend, SetStatus, Shown
        <4> QED BY <1>00, <1>2, <4>1 DEF Settled, Trading
      <3>2. CASE ~Decided
        <4>1. /\ UNCHANGED stop
              /\ \E l \in {"score", "logDecision", "decided"} : at' = [at EXCEPT !["risk"] = l]
              /\ status'["executor"] = status["executor"]
          BY <1>00, <1>3, <2>1, <3>2 DEF RiskStep, Deciding, Score, ScoreFails, ScoreRaises,
                                   LogDecision, Step, SetStatus
        <4> QED BY <1>00, <1>2, <4>1 DEF Settled, Trading
      <3> QED BY <3>1, <3>2
    <2>2. CASE r = "executor" /\ ExecutorStep
      <3>1. CASE Holding
        <4>1. /\ UNCHANGED stop /\ at' = [at EXCEPT !["executor"] = "logHold"]
              /\ status' = [status EXCEPT !["executor"] = "IDLE"]
          BY <3>1 DEF Holding, Step, SetStatus, Shown
        <4> QED BY <1>00, <1>2, <4>1 DEF Settled, Trading
      <3>2. CASE LogHold \/ LogSettle
        <4>1. /\ UNCHANGED <<stop, status>> /\ at["executor"] \in {"logHold", "logSettle"}
              /\ at'["executor"] \in {"send", "recv"} /\ at'["risk"] = at["risk"]
          BY <1>00, <3>2 DEF LogHold, LogSettle, StartSend, Leave
        <4> QED BY <1>2, <4>1 DEF Settled, Trading
      <3>3. CASE Executing
        <4>1. /\ UNCHANGED stop /\ at' = [at EXCEPT !["executor"] = "swap"]
              /\ status' = [status EXCEPT !["executor"] = "EXECUTING"]
          BY <3>3 DEF Executing, Step, SetStatus, Shown
        <4> QED BY <1>00, <1>2, <4>1 DEF Settled, Trading
      <3>4. CASE \E o \in SwapOutcomes : SwapDone(o)
        <4>1. /\ UNCHANGED <<stop, status>> /\ at' = [at EXCEPT !["executor"] = "settle"]
          BY <3>4 DEF SwapDone, Step
        <4> QED BY <1>00, <1>2, <4>1 DEF Settled, Trading
      <3>5. CASE Settle
        <4>1. /\ UNCHANGED stop /\ at' = [at EXCEPT !["executor"] = "logSettle"]
              /\ status'["executor"] \in {"IDLE", "ERROR"} /\ status'["risk"] = status["risk"]
          BY <1>00, <3>5 DEF Settle, Step, SetStatus, Shown
        <4> QED BY <1>00, <1>2, <4>1 DEF Settled, Trading
      <3> QED BY <2>2, <3>1, <3>2, <3>3, <3>4, <3>5 DEF ExecutorStep
    <2>3. ASSUME NEW got \in BOOLEAN, SendDone(r) \/ SendTimesOut(r, got) \/ SendRaises(r, got)
          PROVE  /\ UNCHANGED stop
                 /\ Settled("risk")' /\ Settled("executor")' /\ Trading'
      <3>1. UNCHANGED <<stop, status>> /\ at[r] = "send"
        BY <2>3 DEF SendDone, SendTimesOut, SendRaises, Sending
      <3>2. at'[r] # "swap" /\ \A q \in Roles : q # r => at'[q] = at[q]
        BY <1>00, <2>3, <3>1 DEF SendDone, SendTimesOut, SendRaises, Leave, AfterRaise
      <3> QED BY <1>2, <3>1, <3>2, StatusFrame
    <2>4. ASSUME NEW wrote \in BOOLEAN, MemoryFails(r, wrote)
          PROVE  FALSE
      BY <1>3, <2>4 DEF MemoryFails
    <2> QED BY <1>2, <1>9, <2>1, <2>2, <2>3, <2>4 DEF Work
  <1> QED BY <1>4, <1>5, <1>6, <1>7, <1>8, <1>9 DEF Next

\* Where the calls of core/storage/agent_memory.py and of the model succeed and
\* nobody calls stop(), whatever else goes wrong, an agent that waits for
\* messages does not look busy to the readers of its status on 0G, and an
\* executor that swaps does.
THEOREM StatusIsTrue ==
  Spec => [](faults \cap {"memory", "model", "stop"} = {} => StatusFollowsWork)
  <1>1. Init => StatusKept
    BY DEF Init, StatusKept, Roles
  <1>2. StatusKept => (faults \cap {"memory", "model", "stop"} = {} => StatusFollowsWork)
    BY DEF StatusKept, StatusFollowsWork
  <1>3. IInv /\ StatusKept /\ [Next]_vars => StatusKept'
    BY StatusStep
  <1> QED BY <1>1, <1>2, <1>3, Inductive, PTL DEF Spec

-----------------------------------------------------------------------------
(* How long a handler can go on.                                           *)

\* The awaits that the handler of an agent can still go through: the memory
\* calls, the model or the swap, and the attempts left of its send.
Left(r) ==
  CASE at[r] = "send"                                 -> MaxSends - tries[r]
    [] at[r] \in {"decided", "logHold", "logSettle"}  -> MaxSends + 1
    [] at[r] \in {"logDecision", "holding", "settle"} -> MaxSends + 2
    [] at[r] \in {"score", "swap"}                    -> MaxSends + 3
    [] at[r] \in {"deciding", "executing"}            -> MaxSends + 4
    [] OTHER                                          -> 0

\* A step of a handler, a failing one included, brings it nearer to its end,
\* and nothing takes it further away: not stop(), not the messages that arrive
\* and not the other agents.
HandlersGoOn ==
  [][\A r \in Roles :
       /\ Work(r) => Left(r)' < Left(r)
       /\ at[r] \in Handling => Left(r)' <= Left(r)]_vars

\* Whoever is in a handler has something left, and nobody else.
LEMMA LeftFacts ==
  ASSUME IInv, NEW r \in Roles
  PROVE  /\ Left(r) \in Nat
         /\ at[r] = "send" => Left(r) = MaxSends - tries[r] /\ Left(r) >= 1 /\ Left(r) <= MaxSends
         /\ at[r] \in Handling <=> Left(r) >= 1
  <1>1. /\ tries[r] \in 0 .. MaxSends - 1 /\ MaxSends \in Nat /\ MaxSends >= 1
        /\ at[r] \in Handling \cup Idle
    BY DEF IInv, TypeOK, Idle
  <1> QED BY <1>1 DEF Left, Handling, MemorySteps, Idle

\* Where a handler's step leads, one after the other.
LEMMA WorkMoves ==
  ASSUME IInv, NEW r \in Roles, Work(r)
  PROVE  /\ \A q \in Roles : q # r => at'[q] = at[q] /\ tries'[q] = tries[q]
         /\ \/ at[r] \in Handling /\ at'[r] \in {"recv", "crashed"}
            \/ at[r] = "send" /\ at'[r] = "send" /\ tries'[r] = tries[r] + 1
            \/ at[r] \in {"decided", "logHold", "logSettle"} /\ at'[r] = "send" /\ tries'[r] = 0
            \/ at[r] = "logDecision" /\ at'[r] = "decided"
            \/ at[r] = "holding" /\ at'[r] = "logHold"
            \/ at[r] = "settle" /\ at'[r] = "logSettle"
            \/ at[r] = "score" /\ at'[r] = "logDecision"
            \/ at[r] = "swap" /\ at'[r] = "settle"
            \/ at[r] = "deciding" /\ at'[r] = "score"
            \/ at[r] = "executing" /\ at'[r] = "swap"
  <1>1. /\ at \in [Roles -> Handling \cup Idle] /\ tries \in [Roles -> 0 .. MaxSends - 1]
        /\ "risk" \in Roles /\ "executor" \in Roles
    BY DEF IInv, TypeOK, Idle, Roles
  <1> USE DEF Handling, MemorySteps
  <1>2. CASE r = "risk" /\ RiskStep
    <2>1. CASE Deciding \/ LogDecision
      BY <1>1, <1>2, <2>1 DEF Deciding, LogDecision, Step
    <2>2. CASE ScoreFails \/ \E a \in Answers : Score(a)
      BY <1>1, <1>2, <2>2 DEF ScoreFails, Score, Step
    <2>3. CASE ScoreRaises
      BY <1>1, <1>2, <2>3 DEF ScoreRaises, Leave
    <2>4. CASE Decided
      BY <1>1, <1>2, <2>4 DEF Decided, StartSend
    <2> QED BY <1>2, <2>1, <2>2, <2>3, <2>4 DEF RiskStep
  <1>3. CASE r = "executor" /\ ExecutorStep
    <2>1. CASE Holding \/ Settle \/ Executing
      BY <1>1, <1>3, <2>1 DEF Holding, Settle, Executing, Step
    <2>2. CASE \E o \in SwapOutcomes : SwapDone(o)
      BY <1>1, <1>3, <2>2 DEF SwapDone, Step
    <2>3. CASE LogHold
      BY <1>1, <1>3, <2>3 DEF LogHold, StartSend
    <2>4. CASE LogSettle
      BY <1>1, <1>3, <2>4 DEF LogSettle, StartSend, Leave
    <2> QED BY <1>3, <2>1, <2>2, <2>3, <2>4 DEF ExecutorStep
  <1>4. CASE \E wrote \in BOOLEAN : MemoryFails(r, wrote)
    BY <1>1, <1>4 DEF MemoryFails, Leave
  <1>5. CASE SendDone(r) \/ \E got \in BOOLEAN : SendTimesOut(r, got) \/ SendRaises(r, got)
    <2>1. AfterRaise(out[r]) \in {"recv", "crashed"}
      BY DEF AfterRaise
    <2>2. at[r] = "send"
      BY <1>5 DEF SendDone, SendTimesOut, SendRaises, Sending
    <2>3. CASE SendDone(r) \/ \E l \in {"recv", "crashed"} : Leave(r, l)
      BY <1>1, <2>2, <2>3 DEF SendDone, Leave
    <2>4. CASE UNCHANGED at /\ tries' = [tries EXCEPT ![r] = tries[r] + 1]
      BY <1>1, <2>2, <2>4
    <2> QED BY <1>1, <1>5, <2>1, <2>3, <2>4 DEF SendTimesOut, SendRaises
  <1> QED BY <1>2, <1>3, <1>4, <1>5 DEF Work

\* Each of these steps uses something up.
LEMMA WorkUsesUp ==
  ASSUME IInv, NEW r \in Roles, Work(r)
  PROVE  Left(r)' < Left(r)
  <1>1. /\ Left(r) \in Nat /\ tries[r] \in 0 .. MaxSends - 1 /\ MaxSends \in Nat /\ MaxSends >= 1
        /\ at[r] \in Handling <=> Left(r) >= 1
    BY LeftFacts DEF IInv, TypeOK
  <1>2. CASE at[r] \in Handling /\ at'[r] \in {"recv", "crashed"}
    <2>1. Left(r)' = 0
      BY <1>2 DEF Left
    <2> QED BY <1>1, <1>2, <2>1
  <1>3. CASE at[r] = "send" /\ at'[r] = "send" /\ tries'[r] = tries[r] + 1
    BY <1>1, <1>3 DEF Left
  <1>4. CASE at[r] \in {"decided", "logHold", "logSettle"} /\ at'[r] = "send" /\ tries'[r] = 0
    BY <1>1, <1>4 DEF Left
  <1>5. CASE \/ at[r] = "logDecision" /\ at'[r] = "decided"
             \/ at[r] = "holding" /\ at'[r] = "logHold"
             \/ at[r] = "settle" /\ at'[r] = "logSettle"
    BY <1>1, <1>5 DEF Left
  <1>6. CASE \/ at[r] = "score" /\ at'[r] = "logDecision"
             \/ at[r] = "swap" /\ at'[r] = "settle"
             \/ at[r] = "deciding" /\ at'[r] = "score"
             \/ at[r] = "executing" /\ at'[r] = "swap"
    BY <1>1, <1>6 DEF Left
  <1> QED BY <1>2, <1>3, <1>4, <1>5, <1>6, WorkMoves

\* A handler takes at most MaxSends + 4 steps, whatever fails: a message takes
\* the dispatch loop away from the mailbox for a bounded number of awaits.
\* With the fairness of FairSpec, that is why HandlersEnd holds.
THEOREM HandlersSafe == Spec => HandlersGoOn
  <1>1. ASSUME IInv, Next
        PROVE  \A r \in Roles : /\ Work(r) => Left(r)' < Left(r)
                                /\ at[r] \in Handling => Left(r)' <= Left(r)
    <2> SUFFICES ASSUME NEW r \in Roles, at[r] \in Handling
                 PROVE  Left(r)' <= Left(r)
      BY <1>1, WorkUsesUp
    <2>1. /\ Left(r) \in Nat /\ Left(r) >= 1
          /\ at \in [Roles -> Handling \cup Idle] /\ tries \in [Roles -> 0 .. MaxSends - 1]
      BY <1>1, LeftFacts DEF IInv, TypeOK, Idle
    <2>2. at[r] \notin Idle
      BY DEF Handling, MemorySteps, Idle
    <2>3. CASE at'[r] = at[r] /\ tries'[r] = tries[r]
      <3>1. Left(r)' = Left(r)
        BY <2>3 DEF Left
      <3> QED BY <2>1, <3>1
    <2>4. CASE at'[r] \in Idle
      <3>1. Left(r)' = 0
        BY <2>4 DEF Left, Idle
      <3> QED BY <2>1, <3>1
    <2>5. ASSUME NEW q \in Roles, Work(q)
          PROVE  Left(r)' <= Left(r)
      <3>1. CASE q = r
        <4>1. Left(r)' < Left(r)
          BY <1>1, <2>5, <3>1, WorkUsesUp
        <4>2. IInv'
          BY <1>1, NextOK
        <4>3. Left(r)' \in Int
          <5>1. tries'[r] \in Int
            BY <4>2 DEF IInv, TypeOK
          <5> QED BY <5>1 DEF Left
        <4> QED BY <2>1, <4>1, <4>3
      <3>2. CASE q # r
        BY <1>1, <2>3, <2>5, <3>2, WorkMoves
      <3> QED BY <3>1, <3>2
    <2>6. ASSUME NEW q \in Roles, Starting(q)
          PROVE  at'[r] = at[r] /\ tries'[r] = tries[r]
      <3>1. at[q] \in Idle
        BY <2>6 DEF Starting, Start, StartMemory, Step, Idle
      <3> QED BY <2>1, <2>2, <2>6, <3>1 DEF Starting, Start, StartMemory, Step
    <2>7. ASSUME NEW q \in Roles, Poll(q)
          PROVE  at'[r] = at[r] /\ tries'[r] = tries[r]
      <3>1. CASE \E m \in Messages : ReceiveLost(q, m)
        BY <3>1 DEF ReceiveLost, agent
      <3>2. ASSUME ReceiveRaises(q) \/ \E m \in Messages : Receive(q, m)
            PROVE  at'[r] = at[r] /\ tries'[r] = tries[r]
        <4>1. at[q] = "recv" /\ q # r
          BY <2>2, <3>2 DEF ReceiveRaises, Receive, Idle
        <4> QED BY <2>1, <3>2, <4>1 DEF ReceiveRaises, Receive, StartSend, Enter
      <3> QED BY <2>7, <3>1, <3>2 DEF Poll
    <2>8. ASSUME NEW q \in Roles, Stopping(q)
          PROVE  (at'[r] = at[r] /\ tries'[r] = tries[r]) \/ at'[r] \in Idle
      <3>1. CASE \E got \in BOOLEAN : StopCancel(q, got)
        <4>1. PICK l \in Idle : Leave(q, l)
          BY <3>1 DEF StopCancel, Idle
        <4> QED BY <2>1, <4>1 DEF Leave
      <3> QED BY <2>8, <3>1 DEF Stopping, StopIdle, StopLog
    <2>9. CASE Environment
      <3>1. UNCHANGED <<at, tries>>
        BY <2>9 DEF Environment, StopCalled, PingSwarm, SignalArrives, agent
      <3> QED BY <2>3, <3>1
    <2> QED BY <1>1, <2>3, <2>4, <2>5, <2>6, <2>7, <2>8, <2>9 DEF Next
  <1> QED BY <1>1, Inductive, PTL DEF Spec, HandlersGoOn

-----------------------------------------------------------------------------
(* stop() goes on.                                                         *)

\* The awaits that stop() still has ahead of it.
StopLeft(r) ==
  CASE stop[r] = "idle"   -> 3
    [] stop[r] = "log"    -> 2
    [] stop[r] = "cancel" -> 1
    [] OTHER              -> 0

\* Each step of stop() brings it nearer to its end, and once it was called no
\* step of the dispatch task, of start() or of another agent sets it back.
StopsGoOn ==
  [][\A r \in Roles : /\ Stopping(r) => StopLeft(r)' < StopLeft(r)
                      /\ stop[r] # "no" => stop'[r] # "no" /\ StopLeft(r)' <= StopLeft(r)]_vars

\* stop() takes at most three steps: a memory that fails skips one, and the
\* cancelled dispatch task is not waited for.  With the fairness of FairSpec,
\* that is why StopReturns holds.
THEOREM StopsSafe == Spec => StopsGoOn
  <1>1. ASSUME IInv, Next
        PROVE  \A r \in Roles :
                 /\ Stopping(r) => StopLeft(r)' < StopLeft(r)
                 /\ stop[r] # "no" => stop'[r] # "no" /\ StopLeft(r)' <= StopLeft(r)
    <2> TAKE r \in Roles
    <2>0. stop \in [Roles -> {"no", "idle", "log", "cancel", "closed"}]
      BY <1>1 DEF IInv, TypeOK
    <2>1. ASSUME NEW q \in Roles, Stopping(q)
          PROVE  \/ stop[q] = "idle" /\ stop' = [stop EXCEPT ![q] = "log"]
                 \/ stop[q] \in {"idle", "log"} /\ stop' = [stop EXCEPT ![q] = "cancel"]
                 \/ stop[q] = "cancel" /\ stop' = [stop EXCEPT ![q] = "closed"]
      BY <2>1 DEF Stopping, StopIdle, StopLog, StopCancel
    <2>2. Stopping(r) => stop[r] \in {"idle", "log", "cancel"} /\ StopLeft(r)' < StopLeft(r)
                         /\ stop'[r] # "no"
      BY <2>0, <2>1 DEF StopLeft
    <2>3. StopLeft(r) \in 0 .. 3
      BY DEF StopLeft
    <2>4. CASE stop'[r] = stop[r]
      BY <2>2, <2>3, <2>4 DEF StopLeft
    <2>5. CASE \E q \in Roles : Starting(q) \/ Poll(q)
      <3>1. UNCHANGED stop
        BY <2>5 DEF Starting, Start, StartMemory, Poll, Receive, ReceiveLost, ReceiveRaises, agent
      <3> QED BY <2>4, <3>1
    <2>6. ASSUME NEW q \in Roles, Work(q)
          PROVE  UNCHANGED stop
      <3>1. CASE RiskStep
        BY <3>1 DEF RiskStep, Deciding, Score, ScoreFails, ScoreRaises, LogDecision, Decided
      <3>2. CASE ExecutorStep
        BY <3>2 DEF ExecutorStep, Holding, LogHold, Executing, SwapDone, Settle, LogSettle
      <3> QED BY <2>6, <3>1, <3>2
              DEF Work, MemoryFails, SendDone, SendTimesOut, SendRaises, Sending
    <2>7. ASSUME NEW q \in Roles, Stopping(q)
          PROVE  q = r \/ stop'[r] = stop[r]
      BY <2>0, <2>1, <2>7
    <2>8. CASE Stopping(r)
      <3>1. StopLeft(r)' \in Int
        BY DEF StopLeft
      <3> QED BY <2>2, <2>3, <2>8, <3>1
    <2>9. CASE Environment
      <3>1. CASE \E q \in Roles : StopCalled(q)
        <4>1. stop[r] # "no" => stop'[r] = stop[r]
          BY <2>0, <3>1 DEF StopCalled
        <4>2. CASE stop[r] = "no"
          BY <2>2, <4>2
        <4> QED BY <2>4, <4>1, <4>2
      <3> QED BY <2>4, <2>9, <3>1 DEF Environment, PingSwarm, SignalArrives, agent
    <2>10. CASE \E q \in Roles : Work(q)
      BY <2>4, <2>6, <2>10
    <2>11. CASE \E q \in Roles : Stopping(q)
      BY <2>4, <2>7, <2>8, <2>11
    <2> QED BY <1>1, <2>5, <2>9, <2>10, <2>11 DEF Next
  <1> QED BY <1>1, Inductive, PTL DEF Spec, StopsGoOn

-----------------------------------------------------------------------------
(* Without faults, no signal is lost.                                      *)

\* A swap for s returned, or the researcher was told that it was held.
Over(s) == settled[s] # {} \/ Report(s, "failure") \in heard

\* A message that goes back to s is in a mailbox that its agent still reads.
Mailed(s) ==
  \/ mail["risk"][Signal(s)] > 0
  \/ \E a \in Actions : mail["executor"][Decision(s, a)] > 0
  \/ mail["researcher"][Report(s, "failure")] > 0

\* The risk agent decides on s, or sends its decision.
RiskHas(s) ==
  \/ at["risk"] \in DecisionSteps /\ cur["risk"] = s
  \/ at["risk"] = "send" /\ \E a \in Actions : out["risk"] = Decision(s, a)

\* The executor holds or swaps for s, or sends the report of a hold.
ExecutorHas(s) ==
  \/ at["executor"] \in {"holding", "logHold", "executing", "swap"} /\ cur["executor"] = s
  \/ at["executor"] = "send" /\ out["executor"] = Report(s, "failure")

Tracked(s) == Over(s) \/ Mailed(s) \/ RiskHas(s) \/ ExecutorHas(s)

\* Nothing goes wrong but that an agent may not start.
Faultless == faults \subseteq {"start"}

\* Every signal that was handed to the risk agent's node is over, in a mailbox
\* or in the hands of an agent that moves it on: no step between two awaits, no
\* ping and no second signal makes one disappear.
NoSignalLost == Faultless => \A s \in announced : Tracked(s)

\* An agent past its start is running, and what the risk agent is about to
\* send is about the signal it works for.
Carried ==
  /\ \A r \in Roles : stop[r] = "no" /\ (at[r] \notin {"off", "failed"} => running[r])
  /\ at["risk"] \in {"logDecision", "decided"} =>
       \E a \in Actions : out["risk"] = Decision(cur["risk"], a)

\* What is over stays over.
LEMMA OverStays ==
  ASSUME IInv, [Next]_vars, NEW s \in Signals, Over(s)
  PROVE  Over(s)'
  <1>1. heard \subseteq heard'
    <2>1. CASE UNCHANGED vars
      BY <2>1 DEF vars
    <2>2. ASSUME NEW r \in Roles, Starting(r) \/ Stopping(r)
          PROVE  UNCHANGED heard
      BY <2>2 DEF Starting, Start, StartMemory, Stopping, StopIdle, StopLog, StopCancel, network
    <2>3. ASSUME NEW r \in Roles, Poll(r)
          PROVE  heard \subseteq heard'
      BY <2>3 DEF Poll, Receive, ReceiveLost, ReceiveRaises, network
    <2>4. ASSUME NEW r \in Roles, Work(r)
          PROVE  UNCHANGED heard
      <3>1. CASE RiskStep
        BY <3>1 DEF RiskStep, Deciding, Score, ScoreFails, ScoreRaises, LogDecision, Decided,
                    network
      <3>2. CASE ExecutorStep
        BY <3>2 DEF ExecutorStep, Holding, LogHold, Executing, SwapDone, Settle, LogSettle,
                    network
      <3>3. CASE \E wrote \in BOOLEAN : MemoryFails(r, wrote)
        BY <3>3 DEF MemoryFails, network
      <3> QED
        BY <2>4, <3>1, <3>2, <3>3 DEF Work, SendDone, SendTimesOut, SendRaises, Sending
    <2>5. CASE Environment
      BY <2>5 DEF Environment, StopCalled, PingSwarm, SignalArrives, network
    <2> QED BY <2>1, <2>2, <2>3, <2>4, <2>5 DEF Next
  <1>2. settled[s] # {} => settled'[s] # {}
    <2>1. settled \in [Signals -> SUBSET {"landed", "other"}]
      BY InvariantParts DEF RestOK
    <2>2. UNCHANGED settled \/ \E o \in SwapOutcomes : SwapDone(o)
      BY HistoryEffect
    <2>3. CASE \E o \in SwapOutcomes : SwapDone(o)
      <3>1. PICK x : settled' = [settled EXCEPT ![cur["executor"]] = @ \cup {x}]
        BY <2>3 DEF SwapDone
      <3> QED BY <2>1, <3>1
    <2> QED BY <2>2, <2>3
  <1> QED BY <1>1, <1>2 DEF Over

\* Mailboxes that only grow keep what they have.
LEMMA MailedStays ==
  ASSUME NEW s \in Signals, Mailed(s), mail \in [Roles -> [Messages -> Nat]],
         mail' \in [Roles -> [Messages -> Nat]],
         \A q \in Roles, k \in Messages : mail'[q][k] >= mail[q][k]
  PROVE  Mailed(s)'
  <1>1. /\ "risk" \in Roles /\ "executor" \in Roles /\ "researcher" \in Roles
        /\ Signal(s) \in Messages /\ Report(s, "failure") \in Messages
        /\ \A a \in Actions : Decision(s, a) \in Messages
    BY MessageFacts DEF Roles, Verdicts
  <1>2. \A q \in Roles, k \in Messages : mail[q][k] > 0 => mail'[q][k] > 0
    OBVIOUS
  <1> QED BY <1>1, <1>2 DEF Mailed

\* The agents other than r keep what they have.
LEMMA OthersHave ==
  ASSUME NEW s \in Signals, NEW r \in Roles,
         \A q \in Roles : q # r => at'[q] = at[q] /\ cur'[q] = cur[q] /\ out'[q] = out[q]
  PROVE  /\ r # "risk" => (RiskHas(s) => RiskHas(s)')
         /\ r # "executor" => (ExecutorHas(s) => ExecutorHas(s)')
  BY DEF RiskHas, ExecutorHas, Roles

\* A step of the risk agent's handler.
LEMMA RiskTracks ==
  ASSUME IInv, Carried, Faultless, RiskStep, UNCHANGED faults, NEW s \in Signals, Tracked(s),
         ~Over(s)
  PROVE  Tracked(s)'
  <1>0. HandlerOK /\ "risk" \in Roles /\ "executor" \in Roles
    BY InvariantParts DEF Roles
  <1>1. \A q \in Roles : q # "risk" => at'[q] = at[q] /\ cur'[q] = cur[q] /\ out'[q] = out[q]
    BY <1>0 DEF RiskStep, Deciding, Score, ScoreFails, ScoreRaises, LogDecision, Decided, Step,
                StartSend, Leave, HandlerOK
  <1>2. CASE Mailed(s)
    <2>1. UNCHANGED mail
      BY DEF RiskStep, Deciding, Score, ScoreFails, ScoreRaises, LogDecision, Decided, network
    <2> QED BY <1>2, <2>1 DEF Mailed, Tracked
  <1>3. CASE ExecutorHas(s)
    BY <1>0, <1>1, <1>3, OthersHave DEF Tracked
  <1>4. CASE RiskHas(s)
    <2>1. "model" \notin faults
      BY DEF Faultless
    <2>2. CASE Deciding \/ LogDecision \/ \E a \in Answers : Score(a)
      <3>1. at'["risk"] \in DecisionSteps /\ cur'["risk"] = cur["risk"] /\ at["risk"] # "send"
        BY <1>0, <2>2 DEF Deciding, LogDecision, Score, Step, HandlerOK, DecisionSteps
      <3> QED BY <1>4, <3>1 DEF RiskHas, Tracked
    <2>3. CASE Decided
      <3>1. /\ at["risk"] = "decided" /\ at'["risk"] = "send" /\ out'["risk"] = out["risk"]
            /\ cur["risk"] = s
        BY <1>0, <1>4, <2>3 DEF Decided, StartSend, HandlerOK, RiskHas
      <3>2. \E a \in Actions : out["risk"] = Decision(s, a)
        BY <3>1 DEF Carried
      <3> QED BY <3>1, <3>2 DEF RiskHas, Tracked
    <2> QED BY <2>1, <2>2, <2>3 DEF RiskStep, ScoreFails, ScoreRaises
  <1> QED BY <1>2, <1>3, <1>4 DEF Tracked

\* A step of the executor's handler.
LEMMA ExecutorTracks ==
  ASSUME IInv, ExecutorStep, NEW s \in Signals, Tracked(s), ~Over(s)
  PROVE  Tracked(s)'
  <1>0. /\ HandlerOK /\ "risk" \in Roles /\ "executor" \in Roles
        /\ settled \in [Signals -> SUBSET {"landed", "other"}]
    BY InvariantParts DEF Roles, RestOK
  <1>1. \A q \in Roles : q # "executor" => at'[q] = at[q] /\ cur'[q] = cur[q] /\ out'[q] = out[q]
    BY <1>0 DEF ExecutorStep, Holding, LogHold, Executing, SwapDone, Settle, LogSettle, Step,
                StartSend, Leave, HandlerOK
  <1>2. CASE Mailed(s)
    <2>1. UNCHANGED mail
      BY DEF ExecutorStep, Holding, LogHold, Executing, SwapDone, Settle, LogSettle, network
    <2> QED BY <1>2, <2>1 DEF Mailed, Tracked
  <1>3. CASE RiskHas(s)
    BY <1>0, <1>1, <1>3, OthersHave DEF Tracked
  <1>4. CASE ExecutorHas(s)
    <2>1. CASE Holding \/ Executing
      <3>1. /\ at["executor"] # "send" /\ at'["executor"] \in {"logHold", "swap"}
            /\ cur'["executor"] = cur["executor"]
        BY <1>0, <2>1 DEF Holding, Executing, Step, HandlerOK
      <3> QED BY <1>4, <3>1 DEF ExecutorHas, Tracked
    <2>2. CASE LogHold
      <3>1. /\ at["executor"] = "logHold" /\ at'["executor"] = "send"
            /\ out'["executor"] = Report(cur["executor"], "failure")
        BY <1>0, <2>2 DEF LogHold, StartSend, HandlerOK
      <3> QED BY <1>4, <3>1 DEF ExecutorHas, Tracked
    <2>3. CASE \E o \in SwapOutcomes : SwapDone(o)
      <3>1. cur["executor"] = s
        BY <1>4, <2>3 DEF SwapDone, Step, ExecutorHas
      <3>2. PICK x : settled' = [settled EXCEPT ![s] = @ \cup {x}]
        BY <2>3, <3>1 DEF SwapDone
      <3>3. settled'[s] # {}
        BY <1>0, <3>2
      <3> QED BY <3>3 DEF Over, Tracked
    <2>4. CASE Settle \/ LogSettle
      BY <1>4, <2>4 DEF Settle, LogSettle, Step, ExecutorHas
    <2> QED BY <2>1, <2>2, <2>3, <2>4 DEF ExecutorStep
  <1> QED BY <1>2, <1>3, <1>4 DEF Tracked

\* A send that succeeds hands over what the agent has to the next mailbox.
LEMMA SendTracks ==
  ASSUME IInv, NEW r \in Roles, SendDone(r), NEW s \in Signals, Tracked(s), ~Over(s)
  PROVE  Tracked(s)'
  <1>0. /\ HandlerOK /\ mail \in [Roles -> [Messages -> Nat]]
        /\ "risk" \in Roles /\ "executor" \in Roles /\ "researcher" \in Roles
    BY InvariantParts DEF RestOK, Roles
  <1>1. /\ at[r] = "send" /\ mail' = Put(Dest(out[r]), out[r], 1)
        /\ \A q \in Roles : q # r => at'[q] = at[q] /\ cur'[q] = cur[q] /\ out'[q] = out[q]
    BY <1>0 DEF SendDone, Sending, Deliver, Leave, HandlerOK
  <1>2. out[r] \in Messages /\ Dest(out[r]) \in Roles
    BY <1>0, Sendable, DestFacts
  <1>3. mail[Dest(out[r])][out[r]] \in Nat /\ mail[Dest(out[r])][out[r]] + 1 >= 0
    BY <1>0, <1>2
  <1>4. /\ mail' \in [Roles -> [Messages -> Nat]]
        /\ mail'[Dest(out[r])][out[r]] = mail[Dest(out[r])][out[r]] + 1
        /\ \A q \in Roles, k \in Messages :
             q # Dest(out[r]) \/ k # out[r] => mail'[q][k] = mail[q][k]
    BY <1>0, <1>1, <1>2, <1>3, PutEffect
  <1>5. \A q \in Roles, k \in Messages : mail'[q][k] >= mail[q][k]
    <2> SUFFICES ASSUME NEW q \in Roles, NEW k \in Messages
                 PROVE  mail'[q][k] >= mail[q][k]
      OBVIOUS
    <2>1. mail[q][k] \in Nat
      BY <1>0
    <2> QED BY <1>3, <1>4, <2>1
  <1>6. mail'[Dest(out[r])][out[r]] > 0
    BY <1>3, <1>4
  <1>7. CASE Mailed(s)
    BY <1>0, <1>4, <1>5, <1>7, MailedStays DEF Tracked
  <1>8. CASE RiskHas(s)
    <2>1. CASE r = "risk"
      <3>1. PICK a \in Actions : out["risk"] = Decision(s, a)
        BY <1>1, <1>8, <2>1 DEF RiskHas, DecisionSteps
      <3>2. Dest(out["risk"]) = "executor"
        BY <3>1, MessageFacts, DestFacts
      <3>3. mail'["executor"][Decision(s, a)] > 0
        BY <1>6, <2>1, <3>1, <3>2
      <3> QED BY <3>3 DEF Mailed, Tracked
    <2> QED BY <1>1, <1>8, <2>1, OthersHave DEF Tracked
  <1>9. CASE ExecutorHas(s)
    <2>1. CASE r = "executor"
      <3>1. out["executor"] = Report(s, "failure")
        BY <1>1, <1>9, <2>1 DEF ExecutorHas
      <3>2. Dest(out["executor"]) = "researcher"
        BY <3>1, MessageFacts, DestFacts DEF Verdicts
      <3>3. mail'["researcher"][Report(s, "failure")] > 0
        BY <1>6, <2>1, <3>1, <3>2
      <3> QED BY <3>3 DEF Mailed, Tracked
    <2> QED BY <1>1, <1>9, <2>1, OthersHave DEF Tracked
  <1> QED BY <1>7, <1>8, <1>9 DEF Tracked

\* A message that is taken from its mailbox is in the hands of its handler.
LEMMA ReceiveTracks ==
  ASSUME IInv, Carried, NEW r \in Roles, NEW m \in Messages, Receive(r, m),
         NEW s \in Signals, Tracked(s), ~Over(s)
  PROVE  Tracked(s)'
  <1>0. /\ HandlerOK /\ mail \in [Roles -> [Messages -> Nat]]
        /\ "risk" \in Roles /\ "executor" \in Roles /\ "researcher" \in Roles
    BY InvariantParts DEF RestOK, Roles
  <1>1. /\ at[r] = "recv" /\ running[r] /\ mail[r][m] > 0 /\ mail' = Put(r, m, -1)
        /\ \A q \in Roles : q # r => at'[q] = at[q] /\ cur'[q] = cur[q] /\ out'[q] = out[q]
    BY <1>0 DEF Receive, Take, StartSend, Enter, HandlerOK, Carried
  <1>2. mail[r][m] \in Nat /\ mail[r][m] + (-1) >= 0
    BY <1>0, <1>1
  <1>3. \A q \in Roles, k \in Messages :
             q # r \/ k # m => mail'[q][k] = mail[q][k]
    BY <1>0, <1>1, <1>2, PutEffect
  <1>4. CASE RiskHas(s)
    <2>1. r # "risk"
      BY <1>1, <1>4 DEF RiskHas, DecisionSteps
    <2> QED BY <1>1, <1>4, <2>1, OthersHave DEF Tracked
  <1>5. CASE ExecutorHas(s)
    <2>1. r # "executor"
      BY <1>1, <1>5 DEF ExecutorHas
    <2> QED BY <1>1, <1>5, <2>1, OthersHave DEF Tracked
  <1>6. /\ Signal(s) \in Messages /\ Signal(s).type = "signal" /\ Signal(s).sig = s
        /\ Report(s, "failure") \in Messages /\ Report(s, "failure").type = "result"
        /\ \A a \in Actions : /\ Decision(s, a) \in Messages
                              /\ Decision(s, a).type = "decision"
                              /\ Decision(s, a).sig = s
                              /\ Decision(s, a).body = a
    BY MessageFacts DEF Verdicts
  <1>7. CASE mail["risk"][Signal(s)] > 0
    <2>1. CASE r = "risk" /\ m = Signal(s)
      <3>1. Handler(r, m) = "deciding"
        BY <1>6, <2>1 DEF Handler
      <3>2. at'["risk"] = "deciding" /\ cur'["risk"] = s
        BY <1>0, <1>1, <1>6, <2>1, <3>1 DEF Receive, Enter, HandlerOK
      <3> QED BY <3>2 DEF RiskHas, DecisionSteps, Tracked
    <2>2. CASE ~(r = "risk" /\ m = Signal(s))
      <3>1. mail'["risk"][Signal(s)] > 0
        BY <1>0, <1>3, <1>6, <1>7, <2>2
      <3> QED BY <3>1 DEF Mailed, Tracked
    <2> QED BY <2>1, <2>2
  <1>8. ASSUME NEW a \in Actions, mail["executor"][Decision(s, a)] > 0
        PROVE  Tracked(s)'
    <2>1. CASE r = "executor" /\ m = Decision(s, a)
      <3>1. Handler(r, m) \in {"holding", "executing"}
        BY <1>6, <2>1 DEF Handler
      <3>2. at'["executor"] \in {"holding", "executing"} /\ cur'["executor"] = s
        BY <1>0, <1>1, <1>6, <2>1, <3>1 DEF Receive, Enter, HandlerOK
      <3> QED BY <3>2 DEF ExecutorHas, Tracked
    <2>2. CASE ~(r = "executor" /\ m = Decision(s, a))
      <3>1. mail'["executor"][Decision(s, a)] > 0
        BY <1>0, <1>3, <1>6, <1>8, <2>2
      <3> QED BY <3>1 DEF Mailed, Tracked
    <2> QED BY <2>1, <2>2
  <1>9. CASE mail["researcher"][Report(s, "failure")] > 0
    <2>1. CASE r = "researcher" /\ m = Report(s, "failure")
      <3>1. Report(s, "failure") \in heard'
        BY <1>1, <1>6, <2>1 DEF Receive
      <3> QED BY <3>1 DEF Over, Tracked
    <2>2. CASE ~(r = "researcher" /\ m = Report(s, "failure"))
      <3>1. mail'["researcher"][Report(s, "failure")] > 0
        BY <1>0, <1>3, <1>6, <1>9, <2>2
      <3> QED BY <3>1 DEF Mailed, Tracked
    <2> QED BY <2>1, <2>2
  <1> QED BY <1>4, <1>5, <1>7, <1>8, <1>9 DEF Mailed, Tracked

\* A new signal is in the risk agent's mailbox, and takes no other's place; so
\* is a ping.
LEMMA ArrivalTracks ==
  ASSUME IInv, Carried, Faultless, Environment, NEW s \in announced',
         s \in announced => Tracked(s) /\ ~Over(s)
  PROVE  Tracked(s)'
  <1>0. /\ HandlerOK /\ mail \in [Roles -> [Messages -> Nat]] /\ announced \subseteq Signals
        /\ "risk" \in Roles
    BY InvariantParts DEF RestOK, Roles
  <1>1. "stop" \notin faults /\ "send" \notin faults
    BY DEF Faultless
  <1>2. PICK r \in Roles, m \in Messages, u \in Signals :
          /\ mail' = Put(r, m, 1) /\ UNCHANGED agent
          /\ \/ UNCHANGED announced
             \/ r = "risk" /\ m = Signal(u) /\ announced' = announced \cup {u}
    <2>1. CASE \E r \in Roles, n \in 0 .. MaxSends : PingSwarm(r, n)
      <3>1. PICK r \in Roles : mail' = Put(r, Ping, 1) /\ UNCHANGED <<agent, announced>>
        BY <1>1, <2>1 DEF PingSwarm
      <3>2. s \in Signals
        BY <1>0, <3>1
      <3> QED BY <3>1, <3>2, MessageFacts
    <2>2. CASE \E u \in Signals, n \in 0 .. MaxSends : SignalArrives(u, n)
      <3>1. PICK u \in Signals : /\ mail' = Put("risk", Signal(u), 1) /\ UNCHANGED agent
                                 /\ announced' = announced \cup {u}
        BY <1>1, <2>2 DEF SignalArrives
      <3> QED BY <1>0, <3>1, MessageFacts
    <2> QED BY <1>1, <2>1, <2>2 DEF Environment, StopCalled
  <1>3. mail[r][m] \in Nat
    BY <1>0
  <1>4. /\ mail' \in [Roles -> [Messages -> Nat]] /\ mail'[r][m] = mail[r][m] + 1
        /\ \A q \in Roles, k \in Messages : q # r \/ k # m => mail'[q][k] = mail[q][k]
    BY <1>0, <1>2, <1>3, PutEffect
  <1>5. CASE s \in announced
    <2>1. \A q \in Roles, k \in Messages : mail'[q][k] >= mail[q][k]
      <3> SUFFICES ASSUME NEW q \in Roles, NEW k \in Messages
                   PROVE  mail'[q][k] >= mail[q][k]
        OBVIOUS
      <3>1. mail[q][k] \in Nat
        BY <1>0
      <3> QED BY <1>3, <1>4, <3>1
    <2>2. CASE Mailed(s)
      BY <1>0, <1>4, <1>5, <2>1, <2>2, MailedStays DEF Tracked
    <2>3. CASE RiskHas(s) \/ ExecutorHas(s)
      BY <1>2, <2>3 DEF RiskHas, ExecutorHas, Tracked, agent
    <2> QED BY <1>5, <2>2, <2>3 DEF Tracked
  <1>6. CASE s \notin announced
    <2>1. r = "risk" /\ m = Signal(s)
      BY <1>2, <1>6
    <2>2. mail'["risk"][Signal(s)] > 0
      BY <1>3, <1>4, <2>1
    <2> QED BY <2>2 DEF Mailed, Tracked
  <1> QED BY <1>5, <1>6

\* Carried holds from one state to the next.
LEMMA CarriedStep ==
  ASSUME IInv, Carried, Faultless, [Next]_vars
  PROVE  Carried'
  <1>0. /\ HandlerOK /\ "risk" \in Roles /\ "executor" \in Roles
        /\ stop \in [Roles -> {"no", "idle", "log", "cancel", "closed"}]
        /\ running \in [Roles -> BOOLEAN]
        /\ \A f \in {"memory", "model", "stop", "recv", "send"} : f \notin faults
    BY InvariantParts DEF RestOK, Roles, Faultless
  <1>1. CASE UNCHANGED vars
    BY <1>1 DEF vars, Carried
  <1>2. ASSUME NEW r \in Roles, Starting(r)
        PROVE  Carried'
    <2>1. at[r] \in {"off", "start"} /\ at'[r] \notin DecisionSteps
      BY <1>0, <1>2 DEF Starting, Start, StartMemory, Step, HandlerOK, DecisionSteps
    <2>2. \A q \in Roles : q # r => at'[q] = at[q] /\ running'[q] = running[q]
      BY <1>0, <1>2 DEF Starting, Start, StartMemory, Step, HandlerOK
    <2>3. UNCHANGED <<stop, cur, out>>
      BY <1>2 DEF Starting, Start, StartMemory
    <2>4. at'[r] \notin {"off", "failed"} => running'[r]
      <3>1. CASE \E ok \in BOOLEAN : Start(r, ok)
        BY <1>0, <3>1 DEF Start, Step, HandlerOK
      <3>2. CASE \E ok, wrote \in BOOLEAN : StartMemory(r, ok, wrote)
        BY <1>0, <3>2 DEF StartMemory, Step, HandlerOK, Carried
      <3> QED BY <1>2, <3>1, <3>2 DEF Starting
    <2> QED BY <1>0, <2>1, <2>2, <2>3, <2>4 DEF Carried, DecisionSteps
  <1>3. ASSUME NEW r \in Roles, Poll(r)
        PROVE  Carried'
    <2>1. PICK m \in Messages : Receive(r, m)
      BY <1>0, <1>3 DEF Poll, ReceiveLost, ReceiveRaises, Carried
    <2>2. /\ at[r] = "recv" /\ at'[r] \notin {"logDecision", "decided"}
          /\ UNCHANGED <<stop, running>>
          /\ \A q \in Roles : q # r => at'[q] = at[q] /\ cur'[q] = cur[q] /\ out'[q] = out[q]
      BY <1>0, <2>1 DEF Receive, StartSend, Enter, Handler, HandlerOK
    <2> QED BY <1>0, <2>2 DEF Carried
  <1>4. ASSUME NEW r \in Roles, Work(r)
        PROVE  Carried'
    <2>1. /\ at[r] \in Handling
          /\ \A q \in Roles : q # r => at'[q] = at[q]
      BY <1>4, WorkMoves DEF Handling, MemorySteps
    <2>2. UNCHANGED <<stop, running>>
      <3>1. CASE RiskStep
        BY <3>1 DEF RiskStep, Deciding, Score, ScoreFails, ScoreRaises, LogDecision, Decided
      <3>2. CASE ExecutorStep
        BY <3>2 DEF ExecutorStep, Holding, LogHold, Executing, SwapDone, Settle, LogSettle
      <3> QED BY <1>0, <1>4, <3>1, <3>2
              DEF Work, MemoryFails, SendDone, SendTimesOut, SendRaises, Sending
    <2>3. \A q \in Roles : stop'[q] = "no" /\ (at'[q] \notin {"off", "failed"} => running'[q])
      BY <2>1, <2>2 DEF Carried, Handling, MemorySteps
    <2>4. at'["risk"] \in {"logDecision", "decided"} =>
            \E a \in Actions : out'["risk"] = Decision(cur'["risk"], a)
      <3>1. CASE r = "risk" /\ RiskStep
        <4>1. ASSUME NEW a \in Answers, Score(a)
              PROVE  \E b \in Actions : out'["risk"] = Decision(cur'["risk"], b)
          <5>1. Scored(a) \in Actions
            BY <4>1 DEF Scored, Answers, Actions
          <5> QED BY <1>0, <4>1, <5>1 DEF Score, HandlerOK
        <4>2. CASE Deciding \/ Decided
          <5>1. at'["risk"] \in {"score", "send"}
            BY <1>0, <4>2 DEF Deciding, Decided, Step, StartSend, HandlerOK
          <5> QED BY <5>1
        <4>3. CASE LogDecision
          BY <4>3 DEF LogDecision, Step, Carried
        <4> QED BY <1>0, <3>1, <4>1, <4>2, <4>3 DEF RiskStep, ScoreFails, ScoreRaises
      <3>2. CASE r = "executor" /\ ExecutorStep
        <4>1. at'["risk"] = at["risk"] /\ cur'["risk"] = cur["risk"] /\ out'["risk"] = out["risk"]
          BY <1>0, <3>2 DEF ExecutorStep, Holding, LogHold, Executing, SwapDone, Settle,
                LogSettle, Step, StartSend, Leave, HandlerOK
        <4> QED BY <4>1 DEF Carried
      <3>3. CASE SendDone(r)
        <4>1. /\ at'[r] = "recv"
              /\ \A q \in Roles : q # r => at'[q] = at[q] /\ cur'[q] = cur[q] /\ out'[q] = out[q]
          BY <1>0, <3>3 DEF SendDone, Leave, HandlerOK
        <4> QED BY <1>0, <4>1 DEF Carried
      <3> QED BY <1>0, <1>4, <3>1, <3>2, <3>3 DEF Work, MemoryFails, SendTimesOut, SendRaises
    <2> QED BY <2>3, <2>4 DEF Carried
  <1>5. ASSUME NEW r \in Roles, Stopping(r)
        PROVE  FALSE
    BY <1>5 DEF Stopping, StopIdle, StopLog, StopCancel, Carried
  <1>6. CASE Environment
    BY <1>0, <1>6 DEF Environment, StopCalled, PingSwarm, SignalArrives, agent, Carried
  <1> QED BY <1>1, <1>2, <1>3, <1>4, <1>5, <1>6 DEF Next

\* Only the environment announces a signal, and nothing changes what may fail.
LEMMA AnnouncedKept ==
  ASSUME [Next]_vars
  PROVE  UNCHANGED faults /\ (UNCHANGED announced \/ Environment)
  <1>1. CASE UNCHANGED vars
    BY <1>1 DEF vars
  <1>2. ASSUME NEW r \in Roles, Starting(r) \/ Stopping(r) \/ Poll(r)
        PROVE  UNCHANGED <<announced, faults>>
    BY <1>2 DEF Starting, Start, StartMemory, Stopping, StopIdle, StopLog, StopCancel,
                Poll, Receive, ReceiveLost, ReceiveRaises, network
  <1>3. ASSUME NEW r \in Roles, Work(r)
        PROVE  UNCHANGED <<announced, faults>>
    <2>1. CASE RiskStep
      BY <1>3, <2>1 DEF Work, RiskStep, Deciding, Score, ScoreFails, ScoreRaises, LogDecision,
                        Decided, network
    <2>2. CASE ExecutorStep
      BY <1>3, <2>2 DEF Work, ExecutorStep, Holding, LogHold, Executing, SwapDone, Settle,
                        LogSettle, network
    <2> QED BY <1>3, <2>1, <2>2
            DEF Work, MemoryFails, SendDone, SendTimesOut, SendRaises, Sending, network
  <1>4. CASE Environment
    BY <1>4 DEF Environment
  <1> QED BY <1>1, <1>2, <1>3, <1>4 DEF Next

\* Every step keeps track of every signal.
LEMMA TrackedStep ==
  ASSUME IInv, Carried, Faultless, [Next]_vars, NEW s \in announced',
         s \in announced => Tracked(s)
  PROVE  Tracked(s)'
  <1>0. /\ HandlerOK /\ announced \subseteq Signals
        /\ \A f \in {"memory", "model", "stop", "recv", "send"} : f \notin faults
    BY InvariantParts DEF RestOK, Faultless
  <1>1. CASE s \in announced /\ Over(s)
    BY <1>0, <1>1, OverStays DEF Tracked
  <1>2. CASE Environment /\ ~(s \in announced /\ Over(s))
    BY <1>2, ArrivalTracks
  <1>3. CASE s \in announced /\ ~Over(s) /\ ~Environment
    <2>0. s \in Signals /\ Tracked(s) /\ ~Over(s)
      BY <1>0, <1>3
    <2>1. CASE UNCHANGED vars
      BY <2>0, <2>1 DEF vars, Tracked, Over, Mailed, RiskHas, ExecutorHas
    <2>2. ASSUME NEW r \in Roles, Starting(r)
          PROVE  Tracked(s)'
      <3>1. at[r] \in {"off", "start"} /\ UNCHANGED mail
        BY <2>2 DEF Starting, Start, StartMemory, Step, network
      <3>2. \A q \in Roles : q # r => at'[q] = at[q] /\ cur'[q] = cur[q] /\ out'[q] = out[q]
        BY <1>0, <2>2 DEF Starting, Start, StartMemory, Step, HandlerOK
      <3>3. CASE Mailed(s)
        BY <3>1, <3>3 DEF Mailed, Tracked
      <3>4. CASE RiskHas(s)
        <4>1. r # "risk"
          BY <3>1, <3>4 DEF RiskHas, DecisionSteps
        <4> QED BY <2>0, <3>2, <3>4, <4>1, OthersHave DEF Tracked
      <3>5. CASE ExecutorHas(s)
        <4>1. r # "executor"
          BY <3>1, <3>5 DEF ExecutorHas
        <4> QED BY <2>0, <3>2, <3>5, <4>1, OthersHave DEF Tracked
      <3> QED BY <2>0, <3>3, <3>4, <3>5 DEF Tracked
    <2>3. ASSUME NEW r \in Roles, Poll(r)
          PROVE  Tracked(s)'
      <3>1. PICK m \in Messages : Receive(r, m)
        BY <1>0, <2>3 DEF Poll, ReceiveLost, ReceiveRaises, Carried
      <3> QED BY <2>0, <3>1, ReceiveTracks
    <2>4. ASSUME NEW r \in Roles, Work(r)
          PROVE  Tracked(s)'
      <3>1. UNCHANGED faults
        BY AnnouncedKept
      <3> QED BY <1>0, <2>0, <2>4, <3>1, RiskTracks, ExecutorTracks, SendTracks
              DEF Work, MemoryFails, SendTimesOut, SendRaises
    <2>5. ASSUME NEW r \in Roles, Stopping(r)
          PROVE  FALSE
      BY <2>5 DEF Stopping, StopIdle, StopLog, StopCancel, Carried
    <2> QED BY <1>3, <2>1, <2>2, <2>3, <2>4, <2>5 DEF Next
  <1> QED BY <1>1, <1>2, <1>3, AnnouncedKept

\* Where nothing fails but a start, every signal handed to the risk agent's
\* node is over or on its way, in every state: it sits in a mailbox, or the
\* handler that took it out has not yet put the next message into one.  This
\* is the part of SignalsSettle that needs no fairness.
THEOREM SignalsKept == Spec => []NoSignalLost
  <1> DEFINE Kept == Faultless => Carried /\ \A s \in announced : Tracked(s)
  <1>1. Init => Kept
    BY DEF Init, Carried, Roles
  <1>2. IInv /\ Kept /\ [Next]_vars => Kept'
    <2> SUFFICES ASSUME IInv, Kept, [Next]_vars, Faultless'
                 PROVE  Carried' /\ \A s \in announced' : Tracked(s)'
      OBVIOUS
    <2>1. Faultless
      BY AnnouncedKept DEF Faultless
    <2>2. Carried /\ \A s \in announced : Tracked(s)
      BY <2>1
    <2> QED BY <2>1, <2>2, CarriedStep, TrackedStep
  <1>3. Kept => NoSignalLost
    BY DEF NoSignalLost
  <1> HIDE DEF Kept
  <1> QED BY <1>1, <1>2, <1>3, Inductive, PTL DEF Spec
=============================================================================
