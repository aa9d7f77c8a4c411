----------------------------- MODULE TradeCycle -----------------------------
(***************************************************************************)
(* The trade cycles of the dashboard (dashboard/server.py).  Every POST to *)
(* /api/signal starts a task that runs researcher, risk and executor in    *)
(* one process; the tasks share nothing but the state file                 *)
(* logs/swarmfi-state.json, which each of them reads, changes and writes   *)
(* back without an await in between, at every step and at its end.         *)
(*                                                                         *)
(* An action is what a cycle does up to the first await after a write of   *)
(* the file; the memory, ENS and AXL calls between two writes do not touch *)
(* the file and appear only where they raise.  An absent or unreadable     *)
(* file reads as an empty view.                                            *)
(***************************************************************************)
EXTENDS Integers, Sequences, SwapContract

CONSTANTS Cycles,      \* tasks of _run_trade_cycle
          None,
          MaxResults,  \* 20: the results the file keeps
          MaxDemo,     \* bound on the cycles of one demo
          MaxReplaced  \* bound on the writes of others and on crashes

ASSUME CyclesAssumption   == None \notin Cycles
ASSUME ResultsAssumption  == MaxResults \in Nat \ {0}
ASSUME DemoAssumption     == MaxDemo \in Nat /\ MaxDemo > MaxResults
ASSUME ReplacedAssumption == MaxReplaced \in Nat

VARIABLES
  pc,        \* the stage in which a cycle is suspended
  num,       \* result_view["cycle"]
  action,    \* result_view["action"]
  outcome,   \* result_view["tx"] and ["error"]
  snap,      \* snapshot_root and snapshot_tx of the cycle
  file,      \* the state file
  replaced,
  \* History.
  log,       \* the results written since the file was last replaced
  began,     \* how many there were when a cycle began; -1: another file
  missed     \* the cycles whose last write was lost

local == <<pc, num, action, outcome, snap>>
vars  == <<pc, num, action, outcome, snap, file, replaced, log, began, missed>>

NoSnap == [root |-> None, tx |-> None]
NoFile == [cycles |-> 0, results |-> <<>>, progress |-> None, snap |-> NoSnap]

Stages  == {"scanning", "deciding", "decided", "executing", "committing"}
\* "settling": the swap returned; "closing": the flush is over.
Running == Stages \cup {"settling", "closing"}
Stopped == {"done", "failed", "killed"}

Goto(c, l) == pc' = [pc EXCEPT ![c] = l]

-----------------------------------------------------------------------------
(* The state file.                                                         *)

\* Another file takes the place of this one.
Replace(f, results) ==
  /\ replaced < MaxReplaced
  /\ replaced' = replaced + 1
  /\ file' = f
  /\ log' = results
  /\ began' = [c \in Cycles |-> -1]

\* A failing write is swallowed and cycle c goes on: the file stays as it was,
\* or is left truncated.
Lost(c, starts) ==
  /\ missed' = missed \cup {c}
  /\ \/ /\ replaced < MaxReplaced /\ replaced' = replaced + 1
        /\ began' = starts
        /\ UNCHANGED <<file, log>>
     \/ Replace(NoFile, <<>>)

\* Cycle c writes f, with which the file has the given results.
Write(c, f, results, starts) ==
  \/ /\ file' = f /\ log' = results /\ began' = starts
     /\ missed' = missed \ {c}
     /\ UNCHANGED replaced
  \/ Lost(c, starts)

\* _publish_partial: everything else in the file is kept.
PublishPartial(c, stage, starts) ==
  Write(c, [file EXCEPT !.progress = [id |-> c, stage |-> stage]], log, starts)

\* results[-20:]
Recent(s) ==
  IF Len(s) > MaxResults THEN SubSeq(s, Len(s) - MaxResults + 1, Len(s)) ELSE s

ResultOf(c) ==
  [id |-> c, num |-> num[c], action |-> action[c], outcome |-> outcome[c],
   root |-> snap[c].root, began |-> began[c]]

Or(x, y) == IF x # None THEN x ELSE y

\* Mutant: the result goes where the cycle saw the end of the list when it began.
PublishedStale(c) ==
  LET kept    == SubSeq(file.results, 1, IF num[c] - 1 < Len(file.results)
                                           THEN num[c] - 1 ELSE Len(file.results))
      results == Append(kept, ResultOf(c))
  IN  [cycles   |-> Len(results),
       results  |-> Recent(results),
       progress |-> None,
       snap     |-> [root |-> Or(snap[c].root, file.snap.root),
                     tx   |-> Or(snap[c].tx, file.snap.tx)]]

\* Mutant: cycles counts the results before this one.
PublishedCounted(c) ==
  LET results == Append(file.results, ResultOf(c))
  IN  [cycles   |-> Len(file.results),
       results  |-> Recent(results),
       progress |-> None,
       snap     |-> [root |-> Or(snap[c].root, file.snap.root),
                     tx   |-> Or(snap[c].tx, file.snap.tx)]]

\* Mutant: a cycle without a snapshot wipes the one shown.
PublishedWiped(c) ==
  LET results == Append(file.results, ResultOf(c))
  IN  [cycles |-> Len(results), results |-> Recent(results), progress |-> None,
       snap |-> snap[c]]

\* Mutant: the stage of the cycle stays in the file.
PublishedBusy(c) ==
  LET results == Append(file.results, ResultOf(c))
  IN  [cycles |-> Len(results), results |-> Recent(results), progress |-> file.progress,
       snap |-> [root |-> Or(snap[c].root, file.snap.root),
                 tx   |-> Or(snap[c].tx, file.snap.tx)]]

\* _publish_state_view.
Published(c) ==
  LET results == Append(file.results, ResultOf(c))
  IN  [cycles   |-> Len(results),
       results  |-> Recent(results),
       progress |-> None,
       snap     |-> [root |-> Or(snap[c].root, file.snap.root),
                     tx   |-> Or(snap[c].tx, file.snap.tx)]]

-----------------------------------------------------------------------------
(* _run_trade_cycle.                                                       *)

\* inject_signal creates the task; it takes its number and shows its first stage.
Begin(c) ==
  /\ pc[c] = "new"
  /\ Goto(c, "scanning")
  /\ num' = [num EXCEPT ![c] = file.cycles + 1]
  /\ PublishPartial(c, "scanning", [began EXCEPT ![c] = Len(log)])
  /\ UNCHANGED <<action, outcome, snap>>

\* The signal is recorded and announced; the risk agent is next.
Scanned(c) ==
  /\ pc[c] = "scanning"
  /\ Goto(c, "deciding")
  /\ PublishPartial(c, "deciding", began)
  /\ UNCHANGED <<num, action, outcome, snap>>

\* RiskScorer.score answers with a decision, which is recorded.
Scored(c, a) ==
  /\ pc[c] = "deciding"
  /\ Goto(c, "decided")
  /\ action' = [action EXCEPT ![c] = a]
  /\ PublishPartial(c, "decided", began)
  /\ UNCHANGED <<num, outcome, snap>>

\* The decision is announced; a trade is begun.
Execute(c) ==
  /\ pc[c] = "decided"
  /\ action[c] # "hold"
  /\ Goto(c, "executing")
  /\ PublishPartial(c, "executing", began)
  /\ UNCHANGED <<num, action, outcome, snap>>

\* What result_view keeps of a SwapResult.
Recorded(o) ==
  IF o.status \in {"CONFIRMED", "SUBMITTED"} THEN (IF o.tx THEN "tx" ELSE "none")
                                             ELSE "error"

Swapped(c, o) ==
  /\ pc[c] = "executing"
  /\ Goto(c, "settling")
  /\ outcome' = [outcome EXCEPT ![c] = Recorded(o)]
  /\ UNCHANGED <<num, action, snap, file, replaced, log, began, missed>>

\* Mutant: a cycle that holds is left where it is.
CommitTradesOnly(c) ==
  /\ pc[c] = "settling"
  /\ Goto(c, "committing")
  /\ PublishPartial(c, "committing", began)
  /\ UNCHANGED <<num, action, outcome, snap>>

\* The outcome, or the hold, is recorded and announced; the flush begins.
Commit(c) ==
  /\ pc[c] = "settling" \/ (pc[c] = "decided" /\ action[c] = "hold")
  /\ Goto(c, "committing")
  /\ PublishPartial(c, "committing", began)
  /\ UNCHANGED <<num, action, outcome, snap>>

\* flush returns the root; a sidecar that ran out of its time budget computes
\* the root itself and has no tx hash.
Flushed(c, tx) ==
  /\ pc[c] = "committing"
  /\ Goto(c, "closing")
  /\ snap' = [snap EXCEPT ![c] = [root |-> c, tx |-> IF tx THEN c ELSE None]]
  /\ UNCHANGED <<num, action, outcome, file, replaced, log, began, missed>>

\* The flush raises, wait_for gives up on it, or the client has nothing to
\* flush: no snapshot for this cycle.
FlushFails(c) ==
  /\ pc[c] = "committing"
  /\ Goto(c, "closing")
  /\ UNCHANGED <<num, action, outcome, snap, file, replaced, log, began, missed>>

\* The clients are closed and the result is published.
Publish(c) ==
  /\ pc[c] = "closing"
  /\ Goto(c, "done")
  /\ Write(c, Published(c), Append(log, ResultOf(c)), began)
  /\ UNCHANGED <<num, action, outcome, snap>>

\* A memory call raises, or the scorer does on an answer out of range: the
\* task logs it and ends, and the file stays as it is.
Raises(c) ==
  /\ pc[c] \in {"scanning", "deciding", "decided", "executing", "settling"}
  /\ Goto(c, "failed")
  /\ UNCHANGED <<num, action, outcome, snap, file, replaced, log, began, missed>>

-----------------------------------------------------------------------------
(* Around the cycles.                                                      *)

\* What the flush of the demo may leave it with: nothing, or a root with or
\* without its tx.
DemoSnaps == {NoSnap, [root |-> "demo", tx |-> None], [root |-> "demo", tx |-> "demo"]}

\* The demo, a process of its own, writes the view of its n cycles over
\* whatever is in the file.
DemoPublishes(n, s) ==
  LET results == [i \in 1 .. n |-> [id |-> None, num |-> i, action |-> "hold",
                                    outcome |-> "none", began |-> i - 1,
                                    root |-> None]]
  IN  /\ Replace([cycles |-> n, results |-> Recent(results), progress |-> None,
                  snap |-> s], results)
      /\ UNCHANGED <<local, missed>>

\* The file is removed, or a cycle fails to read it: what that cycle writes is
\* based on an empty view.
Unreadable ==
  /\ Replace(NoFile, <<>>)
  /\ UNCHANGED <<local, missed>>

\* The dashboard is killed, with its cycles.  write_text truncates the file
\* before it writes: if a cycle was writing, nothing that parses is left.
Crash(torn) ==
  /\ torn => \E c \in Cycles : pc[c] \in Running
  /\ IF torn THEN Replace(NoFile, <<>>)
             ELSE /\ replaced < MaxReplaced
                  /\ replaced' = replaced + 1
                  /\ UNCHANGED <<file, log, began>>
  /\ pc' = [c \in Cycles |-> IF pc[c] \in Running THEN "killed" ELSE pc[c]]
  /\ UNCHANGED <<num, action, outcome, snap, missed>>

-----------------------------------------------------------------------------

Init ==
  /\ pc        = [c \in Cycles |-> "new"]
  /\ num       = [c \in Cycles |-> 0]
  /\ action    = [c \in Cycles |-> "none"]
  /\ outcome   = [c \in Cycles |-> "none"]
  /\ snap      = [c \in Cycles |-> NoSnap]
  /\ file      = NoFile
  /\ replaced  = 0
  /\ log       = <<>>
  /\ began     = [c \in Cycles |-> -1]
  /\ missed    = {}

Step(c) ==
  \/ Scanned(c)
  \/ \E a \in {"trade", "hold"} : Scored(c, a)
  \/ Execute(c)
  \/ \E o \in SwapOutcomes : Swapped(c, o)
  \/ Commit(c)
  \/ \E tx \in BOOLEAN : Flushed(c, tx)
  \/ FlushFails(c)
  \/ Publish(c)

Environment ==
  \/ \E n \in 1 .. MaxDemo, s \in DemoSnaps : DemoPublishes(n, s)
  \/ Unreadable
  \/ \E torn \in BOOLEAN : Crash(torn)

Ended == \A c \in Cycles : pc[c] \in Stopped

Next ==
  \/ \E c \in Cycles : Begin(c) \/ Step(c) \/ Raises(c)
  \/ Environment
  \/ Ended /\ UNCHANGED vars

Spec == Init /\ [][Next]_vars

\* The event loop resumes a suspended task, requests have timeouts,
\* execute_swap returns (KeeperHubExecutor, SwapReturns) and wait_for bounds
\* the flush.  Nothing need ever raise.
FairSpec == Spec /\ \A c \in Cycles : WF_vars(Step(c))

-----------------------------------------------------------------------------
(* What the dashboard shows: _get_zg_state.                                *)

Stage == IF file.progress = None THEN "none" ELSE file.progress.stage

Shown ==
  [researcher |-> IF Stage = "scanning" THEN "SCANNING" ELSE "IDLE",
   risk       |-> IF Stage \in {"deciding", "decided"} THEN "DECIDING" ELSE "IDLE",
   executor   |-> IF Stage \in {"executing", "committing"} THEN "EXECUTING" ELSE "IDLE"]

-----------------------------------------------------------------------------
(* Properties.                                                             *)

Result == [id : Cycles \cup {None}, num : Nat, action : {"none", "trade", "hold"},
           outcome : {"none", "tx", "error"}, root : Cycles \cup {None},
           began : Int]
Progress == [id : Cycles, stage : Stages]

\* The shape of the state file, of the cycles under way and of the history;
\* the list in the file is never longer than the limit.
TypeOK ==
  /\ pc        \in [Cycles -> Running \cup Stopped \cup {"new"}]
  /\ num       \in [Cycles -> 0 .. MaxDemo + 1]
  /\ action    \in [Cycles -> {"none", "trade", "hold"}]
  /\ outcome   \in [Cycles -> {"none", "tx", "error"}]
  /\ \A c \in Cycles : snap[c].root \in {None, c} /\ snap[c].tx \in {None, snap[c].root}
  /\ file.cycles \in 0 .. MaxDemo
  /\ file.results \in Seq(Result) /\ Len(file.results) <= MaxResults
  /\ file.progress \in Progress \cup {None}
  /\ replaced  \in 0 .. MaxReplaced
  /\ log       \in Seq(Result)
  /\ began     \in [Cycles -> Int]
  /\ missed    \in SUBSET Cycles

\* However cycles overlap and whichever writes are lost, the file has the
\* last MaxResults of the results that were written to it, each once and in the
\* order in which their cycles finished.
RecentResults == file.results = Recent(log)

\* A cycle that began after another one was published has a higher number,
\* as long as the list is not full: a full list has every later cycle share
\* one number, and overlapping cycles may share theirs.
NumbersFollow ==
  \A i, j \in DOMAIN log :
    i < j /\ log[i].began >= 0 /\ log[j].began >= i
      => log[j].num > log[i].num \/ log[j].num = MaxResults + 2

\* An agent that the dashboard shows busy is busy with the cycle that the
\* file names, or that cycle died while it was, or its last write was lost: no
\* other cycle can leave a finished one on display.
BusyIsReal ==
  file.progress # None =>
    LET c == file.progress.id
    IN  \/ pc[c] \in {"failed", "killed"} \/ c \in missed
        \/ /\ Shown.researcher = "SCANNING" => pc[c] = "scanning"
           /\ Shown.risk = "DECIDING"       => pc[c] \in {"deciding", "decided"}
           /\ Shown.executor = "EXECUTING"  =>
                pc[c] \in {"executing", "settling", "committing", "closing"}

\* The snapshot root shown is the one of the last result that has one,
\* although cycles finish in another order than they flush and some flushes
\* fail.
SnapshotIsLatest ==
  LET rooted == {i \in DOMAIN log : log[i].root # None}
  IN  \A i \in rooted :
        (\A j \in rooted : j <= i) => file.snap.root = log[i].root

\* Every cycle comes to an end, held or traded, however it is scheduled.
CyclesEnd == \A c \in Cycles : pc[c] # "new" ~> pc[c] \in Stopped
=============================================================================
