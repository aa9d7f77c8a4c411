-------------------------- MODULE TradeCycleProofs --------------------------
(***************************************************************************)
(* Proofs about TradeCycle, for any set of cycles, any limit on the list   *)
(* of results and any number of crashes and of writes by the demo.         *)
(***************************************************************************)
EXTENDS TradeCycle, SequenceTheorems, TLAPS

-----------------------------------------------------------------------------
(* The inductive invariant.                                                *)

Snap == [root : Cycles \cup {None, "demo"}, tx : Cycles \cup {None, "demo"}]

\* The file is a record of these fields, and so is the snapshot of a cycle.
FileOK ==
  /\ file \in [cycles : 0 .. MaxDemo, results : Seq(Result),
               progress : Progress \cup {None}, snap : Snap]
  /\ snap \in [Cycles -> [root : Cycles \cup {None}, tx : Cycles \cup {None}]]

IInv == TypeOK /\ FileOK /\ RecentResults /\ BusyIsReal

-----------------------------------------------------------------------------
(* Facts about results[-20:].                                              *)

\* The cut list has at most MaxResults elements, the last ones of the list.
LEMMA RecentProperties ==
  ASSUME NEW S, NEW s \in Seq(S)
  PROVE  /\ Recent(s) \in Seq(S)
         /\ Len(Recent(s)) = IF Len(s) > MaxResults THEN MaxResults ELSE Len(s)
         /\ \A i \in 1 .. Len(Recent(s)) :
              Recent(s)[i] = s[Len(s) - Len(Recent(s)) + i]
<1> USE ResultsAssumption
<1>1. Len(s) \in Nat /\ \A i \in 1 .. Len(s) : s[i] \in S
  OBVIOUS
<1>2. CASE Len(s) > MaxResults
  <2> DEFINE m == Len(s) - MaxResults + 1
             n == Len(s)
             t == SubSeq(s, m, n)
  <2>1. m \in Int /\ n \in Int /\ m <= n /\ n - m + 1 = MaxResults
        /\ \A i \in m .. n : s[i] \in S
    BY <1>1, <1>2
  <2>2. t \in Seq(S) /\ Len(t) = MaxResults
        /\ \A i \in 1 .. MaxResults : t[i] = s[m + i - 1]
    <3> HIDE DEF m, n
    <3> QED
      BY <2>1, SubSeqProperties
  <2>3. \A i \in 1 .. MaxResults : m + i - 1 = Len(s) - MaxResults + i
    BY <1>1
  <2>4. Recent(s) = t
    BY <1>2 DEF Recent
  <2> HIDE DEF t, m, n
  <2> QED
    BY <1>2, <2>2, <2>3, <2>4
<1>3. CASE ~ (Len(s) > MaxResults)
  <2>1. Recent(s) = s
    BY <1>3 DEF Recent
  <2>2. \A i \in 1 .. Len(s) : Len(s) - Len(s) + i = i
    BY <1>1
  <2> QED
    BY <1>1, <1>3, <2>1, <2>2
<1> QED
  BY <1>2, <1>3

\* What _publish_state_view writes, the cut of the cut list and one result
\* more, is the cut of the full list and that result: nothing needed later is
\* lost by cutting.
LEMMA RecentAppend ==
  ASSUME NEW S, NEW s \in Seq(S), NEW x \in S
  PROVE  Recent(Append(Recent(s), x)) = Recent(Append(s, x))
<1> USE ResultsAssumption
<1> DEFINE r == Recent(s)
           a == Append(r, x)
           b == Append(s, x)
<1>1. /\ r \in Seq(S) /\ Len(s) \in Nat /\ Len(r) \in Nat
      /\ Len(r) = IF Len(s) > MaxResults THEN MaxResults ELSE Len(s)
      /\ \A i \in 1 .. Len(r) : r[i] = s[Len(s) - Len(r) + i]
  BY RecentProperties
<1> HIDE DEF r
<1>2. /\ a \in Seq(S) /\ Len(a) = Len(r) + 1 /\ a[Len(r) + 1] = x
      /\ \A i \in 1 .. Len(r) : a[i] = r[i]
  BY <1>1
<1>3. /\ b \in Seq(S) /\ Len(b) = Len(s) + 1 /\ b[Len(s) + 1] = x
      /\ \A i \in 1 .. Len(s) : b[i] = s[i]
  OBVIOUS
<1> HIDE DEF a, b
<1>0. /\ Len(a) = Len(r) + 1 /\ Len(b) = Len(s) + 1 /\ Len(r) <= Len(s)
      /\ Len(r) \in Nat /\ Len(s) \in Nat /\ Len(a) \in Nat /\ Len(b) \in Nat
  BY <1>1, <1>2, <1>3
<1>4. ASSUME NEW j \in 1 .. Len(a)
      PROVE  a[j] = b[Len(b) - Len(a) + j]
  <2>1. CASE j = Len(r) + 1
    <3>1. Len(b) - Len(a) + j = Len(s) + 1
      BY <1>0, <2>1
    <3> QED
      BY <1>2, <1>3, <2>1, <3>1
  <2>2. CASE j \in 1 .. Len(r)
    <3> DEFINE k == Len(s) - Len(r) + j
    <3>1. Len(b) - Len(a) + j = k /\ k \in 1 .. Len(s)
      BY <1>0, <2>2
    <3>2. a[j] = s[k] /\ b[k] = s[k]
      BY <1>1, <1>2, <1>3, <2>2, <3>1
    <3> QED
      BY <3>1, <3>2
  <2> QED
    BY <1>0, <2>1, <2>2
<1> DEFINE u == Recent(a)
           v == Recent(b)
<1>5. /\ u \in Seq(S)
      /\ Len(u) = IF Len(a) > MaxResults THEN MaxResults ELSE Len(a)
      /\ \A i \in 1 .. Len(u) : u[i] = a[Len(a) - Len(u) + i]
  BY <1>2, RecentProperties
<1>6. /\ v \in Seq(S)
      /\ Len(v) = IF Len(b) > MaxResults THEN MaxResults ELSE Len(b)
      /\ \A i \in 1 .. Len(v) : v[i] = b[Len(b) - Len(v) + i]
  BY <1>3, RecentProperties
<1> HIDE DEF u, v
<1>7. Len(u) = Len(v) /\ Len(u) <= Len(a) /\ Len(a) \in Nat /\ Len(u) \in Nat
  BY <1>1, <1>2, <1>3, <1>5, <1>6
<1>8. ASSUME NEW i \in 1 .. Len(u)
      PROVE  u[i] = v[i]
  <2> DEFINE j == Len(a) - Len(u) + i
  <2>1. j \in 1 .. Len(a) /\ Len(b) - Len(a) + j = Len(b) - Len(v) + i
    BY <1>0, <1>7
  <2> HIDE DEF j
  <2>2. u[i] = a[j] /\ v[i] = b[Len(b) - Len(v) + i]
    BY <1>5, <1>6, <1>7 DEF j
  <2> QED
    BY <1>4, <2>1, <2>2
<1> QED
  <2>1. u = v
    BY <1>5, <1>6, <1>7, <1>8, SeqEqual
  <2> QED
    BY <2>1 DEF u, v, a, b, r

-----------------------------------------------------------------------------
(* Induction.                                                              *)

\* The invariant holds of an absent file and cycles that have not begun.
LEMMA InitInv == Init => IInv
<1> SUFFICES ASSUME Init PROVE IInv
  OBVIOUS
<1> USE CyclesAssumption, ResultsAssumption, DemoAssumption, ReplacedAssumption
       DEF Init, NoFile, NoSnap
<1>1. TypeOK
  BY DEF TypeOK, Running, Stages
<1>2. FileOK
  BY DEF FileOK, Snap
<1>3. RecentResults
  <2>1. ~ (Len(<<>>) > MaxResults)
    OBVIOUS
  <2> QED
    BY <2>1 DEF RecentResults, Recent
<1>4. BusyIsReal
  BY DEF BusyIsReal
<1> QED
  BY <1>1, <1>2, <1>3, <1>4 DEF IInv

\* What a lost write leaves behind.
LEMMA LostFacts ==
  ASSUME IInv, NEW c \in Cycles, NEW b \in [Cycles -> Int], Lost(c, b)
  PROVE  /\ began' \in [Cycles -> Int] /\ replaced' \in 0 .. MaxReplaced
         /\ missed' = missed \cup {c}
         /\ \/ UNCHANGED <<file, log>> /\ began' = b
            \/ file' = NoFile /\ log' = <<>> /\ began' = [d \in Cycles |-> -1]
<1>1. replaced' \in 0 .. MaxReplaced
  BY ReplacedAssumption DEF Lost, Replace, IInv, TypeOK
<1>2. \/ UNCHANGED <<file, log>> /\ began' = b
      \/ file' = NoFile /\ log' = <<>> /\ began' = [d \in Cycles |-> -1]
  BY DEF Lost, Replace
<1>3. began' \in [Cycles -> Int]
  BY <1>2
<1> QED
  BY <1>1, <1>2, <1>3 DEF Lost

\* A cycle goes on and its write is lost: the file stays as it is, or nothing
\* is left of it.
LEMMA LostWrite ==
  ASSUME IInv, NEW c \in Cycles, NEW l \in Running \cup Stopped, Goto(c, l),
         num' \in [Cycles -> 0 .. MaxDemo + 1],
         action' \in [Cycles -> {"none", "trade", "hold"}],
         began' \in [Cycles -> Int],
         replaced' \in 0 .. MaxReplaced,
         missed' = missed \cup {c},
         UNCHANGED <<outcome, snap>>,
         UNCHANGED <<file, log>> \/ (file' = NoFile /\ log' = <<>>)
  PROVE  IInv'
<1> USE ResultsAssumption, DemoAssumption DEF IInv, Goto
<1>1. /\ pc' \in [Cycles -> Running \cup Stopped \cup {"new"}]
      /\ missed' \in SUBSET Cycles
  BY DEF TypeOK
<1>2. CASE UNCHANGED <<file, log>>
  <2>1. FileOK' /\ RecentResults'
    BY <1>2 DEF FileOK, RecentResults, Recent
  <2>2. TypeOK'
    BY <1>1, <1>2 DEF TypeOK
  <2>3. BusyIsReal'
    <3> SUFFICES ASSUME file.progress # None
                 PROVE  BusyIsReal'
      BY <1>2 DEF BusyIsReal
    <3> DEFINE d == file.progress.id
    <3>1. d \in Cycles /\ file'.progress.id = d
      BY <1>2 DEF TypeOK, Progress
    <3>2. d = c => d \in missed'
      OBVIOUS
    <3>3. d # c => pc'[d] = pc[d]
      BY <3>1 DEF TypeOK
    <3>4. Shown' = Shown
      BY <1>2 DEF Shown, Stage
    <3> QED
      BY <1>2, <3>1, <3>2, <3>3, <3>4 DEF BusyIsReal
  <2> QED
    BY <2>1, <2>2, <2>3
<1>3. CASE file' = NoFile /\ log' = <<>>
  <2>1. FileOK'
    BY <1>3 DEF FileOK, NoFile, NoSnap, Snap
  <2>2. TypeOK'
    BY <1>1, <1>3 DEF TypeOK, NoFile
  <2>3. RecentResults'
    <3>1. ~ (Len(<<>>) > MaxResults)
      OBVIOUS
    <3> QED
      BY <1>3, <3>1 DEF RecentResults, Recent, NoFile
  <2>4. BusyIsReal'
    BY <1>3 DEF BusyIsReal, NoFile
  <2> QED
    BY <2>1, <2>2, <2>3, <2>4
<1> QED
  BY <1>2, <1>3

\* A cycle shows a stage: the rest of the file is kept, and the stage shown is
\* that of the cycle named.
LEMMA PartialStep ==
  ASSUME IInv, NEW c \in Cycles, NEW l \in Stages, NEW b \in [Cycles -> Int],
         Goto(c, l), PublishPartial(c, l, b),
         num' \in [Cycles -> 0 .. MaxDemo + 1],
         action' \in [Cycles -> {"none", "trade", "hold"}],
         UNCHANGED <<outcome, snap>>
  PROVE  IInv'
<1> USE DEF IInv, Goto
<1>0. CASE /\ file' = [file EXCEPT !.progress = [id |-> c, stage |-> l]]
           /\ log' = log /\ began' = b /\ missed' = missed \ {c} /\ UNCHANGED replaced
  <2> USE <1>0
  <2>1. FileOK'
    BY DEF FileOK, Progress
  <2>2. file'.progress = [id |-> c, stage |-> l] /\ file'.results = file.results
        /\ file'.cycles = file.cycles
    BY DEF FileOK
  <2>3. TypeOK'
    <3>1. [id |-> c, stage |-> l] \in Progress
      BY DEF Progress
    <3>2. pc' \in [Cycles -> Running \cup Stopped \cup {"new"}]
      BY DEF TypeOK, Running
    <3> QED
      BY <2>2, <3>1, <3>2 DEF TypeOK
  <2>4. RecentResults'
    BY <2>2 DEF RecentResults, Recent
  <2>5. BusyIsReal'
    <3>1. pc'[c] = l
      BY DEF TypeOK
    <3>2. file'.progress.id = c /\ file'.progress.stage = l
      BY <2>2
    <3> QED
      BY <3>1, <3>2 DEF BusyIsReal, Shown, Stage, Stages
  <2> QED
    BY <2>1, <2>3, <2>4, <2>5
<1>1. CASE Lost(c, b)
  <2>1. /\ began' \in [Cycles -> Int] /\ replaced' \in 0 .. MaxReplaced
        /\ missed' = missed \cup {c}
        /\ UNCHANGED <<file, log>> \/ (file' = NoFile /\ log' = <<>>)
    BY <1>1, LostFacts
  <2> QED
    BY <2>1, LostWrite DEF Running
<1> QED
  BY <1>0, <1>1 DEF PublishPartial, Write

\* A cycle goes on without touching the file, still showing the stage it is in
\* or dead.
LEMMA QuietStep ==
  ASSUME IInv, NEW c \in Cycles, NEW l \in Running \cup Stopped, Goto(c, l),
         \/ l = "failed"
         \/ pc[c] = "executing" /\ l = "settling"
         \/ pc[c] = "committing" /\ l = "closing",
         outcome' \in [Cycles -> {"none", "tx", "error"}],
         snap' \in [Cycles -> [root : Cycles \cup {None}, tx : Cycles \cup {None}]],
         \A d \in Cycles : snap'[d].root \in {None, d}
                           /\ snap'[d].tx \in {None, snap'[d].root},
         UNCHANGED <<num, action, file, replaced, log, began, missed>>
  PROVE  IInv'
<1> USE DEF IInv, Goto
<1>1. FileOK'
  BY DEF FileOK
<1>2. TypeOK'
  BY DEF TypeOK
<1>3. RecentResults'
  BY DEF RecentResults, Recent
<1>4. BusyIsReal'
  <2> SUFFICES ASSUME file.progress # None
               PROVE  BusyIsReal'
    BY DEF BusyIsReal
  <2> DEFINE d == file.progress.id
  <2>1. d \in Cycles
    BY DEF TypeOK, Progress
  <2>2. Shown' = Shown
    BY DEF Shown, Stage
  <2>3. CASE d = c
    <3>1. pc'[d] = l
      BY <2>1, <2>3 DEF TypeOK
    <3> QED
      BY <2>2, <2>3, <3>1 DEF BusyIsReal, Shown
  <2>4. CASE d # c
    <3>1. pc'[d] = pc[d]
      BY <2>1, <2>4 DEF TypeOK
    <3> QED
      BY <2>2, <3>1 DEF BusyIsReal
  <2> QED
    BY <2>3, <2>4
<1> QED
  BY <1>1, <1>2, <1>3, <1>4

\* The result of a cycle reaches the file.
Written(c) ==
  /\ file' = Published(c)
  /\ log' = Append(log, ResultOf(c))
  /\ missed' = missed \ {c}
  /\ UNCHANGED <<replaced, began>>

\* The result of a cycle reaches the file, or the write is lost.
LEMMA PublishCases ==
  ASSUME NEW c \in Cycles, Publish(c)
  PROVE  Written(c) \/ Lost(c, began)
BY DEF Publish, Write, Written

\* The result of a cycle is added to those of the file.
LEMMA WrittenStep ==
  ASSUME IInv, NEW c \in Cycles, Publish(c), Written(c)
  PROVE  IInv'
<1> USE ResultsAssumption, DemoAssumption DEF IInv, Written
<1> DEFINE x == ResultOf(c)
           r == Append(file.results, x)
<1>1. x \in Result
  BY DEF ResultOf, Result, TypeOK, FileOK
<1>2. /\ file.results \in Seq(Result) /\ log \in Seq(Result)
      /\ Len(file.results) \in Nat /\ Len(file.results) <= MaxResults
  BY DEF TypeOK
<1> HIDE DEF x
<1>3. /\ r \in Seq(Result) /\ Len(r) = Len(file.results) + 1
      /\ Len(r) \in 0 .. MaxDemo
  BY <1>1, <1>2
<1>4. Recent(r) \in Seq(Result) /\ Len(Recent(r)) <= MaxResults
  <2> HIDE DEF r
  <2>1. Len(r) \in Nat
    BY <1>3
  <2> QED
    BY <1>3, <2>1, RecentProperties
<1>5. /\ file'.cycles = Len(r) /\ file'.results = Recent(r)
      /\ file'.progress = None /\ log' = Append(log, x)
      /\ missed' \in SUBSET Cycles /\ UNCHANGED <<num, action, outcome, snap, replaced, began>>
  BY DEF Published, x, TypeOK, Publish
<1>6. FileOK'
  <2>1. [root |-> Or(snap[c].root, file.snap.root),
         tx   |-> Or(snap[c].tx, file.snap.tx)] \in Snap
    BY DEF Or, Snap, FileOK
  <2>2. file' = [cycles |-> Len(r), results |-> Recent(r), progress |-> None,
                 snap |-> [root |-> Or(snap[c].root, file.snap.root),
                           tx   |-> Or(snap[c].tx, file.snap.tx)]]
    BY DEF Published, x
  <2> HIDE DEF r
  <2> QED
    BY <1>3, <1>4, <1>5, <2>1, <2>2 DEF FileOK
<1>7. TypeOK'
  <2>1. log' \in Seq(Result)
    BY <1>1, <1>2, <1>5
  <2>2. pc' \in [Cycles -> Running \cup Stopped \cup {"new"}]
    BY DEF TypeOK, Stopped, Publish, Goto
  <2> HIDE DEF r
  <2> QED
    BY <1>3, <1>4, <1>5, <2>1, <2>2 DEF TypeOK
<1>8. RecentResults'
  <2>1. Recent(Append(Recent(log), x)) = Recent(Append(log, x))
    BY <1>1, <1>2, RecentAppend
  <2>2. file'.results = Recent(log')
    BY <1>5, <2>1 DEF RecentResults
  <2> QED
    BY <2>2 DEF RecentResults, Recent
<1>9. BusyIsReal'
  BY <1>5 DEF BusyIsReal
<1> QED
  BY <1>6, <1>7, <1>8, <1>9

\* A cycle publishes its result, or its write is lost and it ends all the same.
LEMMA PublishStep ==
  ASSUME IInv, NEW c \in Cycles, Publish(c)
  PROVE  IInv'
<1>1. CASE Written(c)
  BY <1>1, WrittenStep
<1>2. CASE Lost(c, began)
  <2>1. began \in [Cycles -> Int]
    BY DEF IInv, TypeOK
  <2>2. /\ began' \in [Cycles -> Int] /\ replaced' \in 0 .. MaxReplaced
        /\ missed' = missed \cup {c}
        /\ UNCHANGED <<file, log>> \/ (file' = NoFile /\ log' = <<>>)
    BY <1>2, <2>1, LostFacts
  <2> QED
    BY <2>2, LostWrite DEF Publish, Stopped, IInv, TypeOK
<1> QED
  BY <1>1, <1>2, PublishCases

\* The demo puts its own results, cut in the same way, in the place of the file.
LEMMA DemoStep ==
  ASSUME IInv, NEW n \in 1 .. MaxDemo, NEW s \in DemoSnaps, DemoPublishes(n, s)
  PROVE  IInv'
<1> USE ResultsAssumption, DemoAssumption, ReplacedAssumption
       DEF IInv, DemoPublishes, Replace, local
<1> DEFINE r == [i \in 1 .. n |-> [id |-> None, num |-> i, action |-> "hold",
                                   outcome |-> "none", began |-> i - 1,
                                   root |-> None]]
<1>1. r \in Seq(Result) /\ Len(r) = n
  <2>1. r \in [1 .. n -> Result]
    BY DEF Result
  <2> HIDE DEF r
  <2> QED
    BY <2>1
<1>2. /\ file' = [cycles |-> n, results |-> Recent(r), progress |-> None, snap |-> s]
      /\ log' = r
  OBVIOUS
<1> HIDE DEF r
<1>3. Recent(r) \in Seq(Result) /\ Len(Recent(r)) <= MaxResults
  BY <1>1, RecentProperties
<1>4. FileOK'
  <2>1. s \in Snap
    BY DEF DemoSnaps, NoSnap, Snap
  <2> QED
    BY <1>2, <1>3, <2>1 DEF FileOK
<1>5. TypeOK'
  BY <1>1, <1>2, <1>3 DEF TypeOK
<1>6. RecentResults'
  BY <1>2 DEF RecentResults, Recent
<1>7. BusyIsReal'
  BY <1>2 DEF BusyIsReal
<1> QED
  BY <1>4, <1>5, <1>6, <1>7

\* The file reads as empty.
LEMMA UnreadableStep ==
  ASSUME IInv, Unreadable
  PROVE  IInv'
<1> USE ResultsAssumption, DemoAssumption, ReplacedAssumption DEF IInv, Unreadable, local
<1>1. file' = NoFile /\ log' = <<>> /\ began' = [c \in Cycles |-> -1]
      /\ replaced' \in 0 .. MaxReplaced
  BY DEF Replace, TypeOK
<1>2. FileOK'
  BY <1>1 DEF FileOK, NoFile, NoSnap, Snap
<1>3. TypeOK'
  BY <1>1 DEF TypeOK, NoFile
<1>4. RecentResults'
  <2>1. ~ (Len(<<>>) > MaxResults)
    OBVIOUS
  <2> QED
    BY <1>1, <2>1 DEF RecentResults, Recent, NoFile
<1>5. BusyIsReal'
  BY <1>1 DEF BusyIsReal, NoFile
<1> QED
  BY <1>2, <1>3, <1>4, <1>5

\* A crash kills the cycles that run; the file is whole, or gone.
LEMMA CrashStep ==
  ASSUME IInv, NEW torn \in BOOLEAN, Crash(torn)
  PROVE  IInv'
<1> USE ResultsAssumption, DemoAssumption, ReplacedAssumption DEF IInv, Crash
<1>1. pc' \in [Cycles -> Running \cup Stopped \cup {"new"}]
  BY DEF TypeOK, Stopped
<1>2. CASE torn
  <2>1. file' = NoFile /\ log' = <<>> /\ began' = [c \in Cycles |-> -1]
        /\ replaced' \in 0 .. MaxReplaced
    BY <1>2 DEF Replace, TypeOK
  <2>2. FileOK'
    BY <2>1 DEF FileOK, NoFile, NoSnap, Snap
  <2>3. TypeOK'
    BY <1>1, <2>1 DEF TypeOK, NoFile
  <2>4. RecentResults'
    <3>1. ~ (Len(<<>>) > MaxResults)
      OBVIOUS
    <3> QED
      BY <2>1, <3>1 DEF RecentResults, Recent, NoFile
  <2>5. BusyIsReal'
    BY <2>1 DEF BusyIsReal, NoFile
  <2> QED
    BY <2>2, <2>3, <2>4, <2>5
<1>3. CASE ~ torn
  <2>1. UNCHANGED <<file, log, began>> /\ replaced' \in 0 .. MaxReplaced
    BY <1>3 DEF TypeOK
  <2>2. FileOK' /\ RecentResults'
    BY <2>1 DEF FileOK, RecentResults, Recent
  <2>3. TypeOK'
    BY <1>1, <2>1 DEF TypeOK
  <2>4. BusyIsReal'
    <3> SUFFICES ASSUME file.progress # None
                 PROVE  BusyIsReal'
      BY <2>1 DEF BusyIsReal
    <3>1. file.progress.id \in Cycles
      BY DEF TypeOK, Progress
    <3>2. pc'[file.progress.id] \in {"killed", pc[file.progress.id]}
      BY <3>1
    <3>3. Shown' = Shown
      BY <2>1 DEF Shown, Stage
    <3> QED
      BY <2>1, <3>2, <3>3 DEF BusyIsReal
  <2> QED
    BY <2>2, <2>3, <2>4
<1> QED
  BY <1>2, <1>3

\* Every step of the dashboard, of the demo and of a crash keeps the invariant.
LEMMA NextInv == IInv /\ [Next]_vars => IInv'
<1> SUFFICES ASSUME IInv, [Next]_vars
             PROVE  IInv'
  OBVIOUS
<1>1. ASSUME NEW c \in Cycles, Begin(c)
      PROVE  IInv'
  <2>1. /\ num' \in [Cycles -> 0 .. MaxDemo + 1]
        /\ [began EXCEPT ![c] = Len(log)] \in [Cycles -> Int]
        /\ action' \in [Cycles -> {"none", "trade", "hold"}]
    <3>1. file.cycles + 1 \in 0 .. MaxDemo + 1 /\ Len(log) \in Int
      BY DemoAssumption DEF IInv, TypeOK
    <3> QED
      BY <1>1, <3>1 DEF Begin, IInv, TypeOK
  <2> QED
    BY <1>1, <2>1, PartialStep DEF Begin, Stages
<1>2. ASSUME NEW c \in Cycles, Scanned(c)
      PROVE  IInv'
  BY <1>2, PartialStep DEF Scanned, Stages, IInv, TypeOK
<1>3. ASSUME NEW c \in Cycles, NEW a \in {"trade", "hold"}, Scored(c, a)
      PROVE  IInv'
  BY <1>3, PartialStep DEF Scored, Stages, IInv, TypeOK
<1>4. ASSUME NEW c \in Cycles, Execute(c)
      PROVE  IInv'
  BY <1>4, PartialStep DEF Execute, Stages, IInv, TypeOK
<1>5. ASSUME NEW c \in Cycles, Commit(c)
      PROVE  IInv'
  BY <1>5, PartialStep DEF Commit, Stages, IInv, TypeOK
<1>6. ASSUME NEW c \in Cycles, NEW o \in SwapOutcomes, Swapped(c, o)
      PROVE  IInv'
  <2>1. outcome' \in [Cycles -> {"none", "tx", "error"}]
    BY <1>6 DEF Swapped, Recorded, IInv, TypeOK
  <2> QED
    BY <1>6, <2>1, QuietStep DEF Swapped, Running, IInv, TypeOK, FileOK
<1>7. ASSUME NEW c \in Cycles, NEW tx \in BOOLEAN, Flushed(c, tx)
      PROVE  IInv'
  <2> DEFINE s == [root |-> c, tx |-> IF tx THEN c ELSE None]
  <2>1. s \in [root : Cycles \cup {None}, tx : Cycles \cup {None}]
        /\ s.root = c /\ s.tx \in {None, c}
    OBVIOUS
  <2>2. snap' = [snap EXCEPT ![c] = s]
    BY <1>7 DEF Flushed
  <2> HIDE DEF s
  <2>3. snap' \in [Cycles -> [root : Cycles \cup {None}, tx : Cycles \cup {None}]]
    BY <2>1, <2>2 DEF IInv, FileOK
  <2>4. ASSUME NEW d \in Cycles
        PROVE  snap'[d].root \in {None, d} /\ snap'[d].tx \in {None, snap'[d].root}
    <3>1. snap'[d] = IF d = c THEN s ELSE snap[d]
      BY <2>2 DEF IInv, FileOK
    <3> QED
      BY <2>1, <3>1 DEF IInv, TypeOK
  <2> QED
    BY <1>7, <2>3, <2>4, QuietStep DEF Flushed, Running, IInv, TypeOK
<1>8. ASSUME NEW c \in Cycles, FlushFails(c)
      PROVE  IInv'
  BY <1>8, QuietStep DEF FlushFails, Running, IInv, TypeOK, FileOK
<1>9. ASSUME NEW c \in Cycles, Raises(c)
      PROVE  IInv'
  BY <1>9, QuietStep DEF Raises, Stopped, IInv, TypeOK, FileOK
<1>10. CASE UNCHANGED vars
  BY <1>10 DEF vars, IInv, TypeOK, FileOK, RecentResults, Recent, BusyIsReal,
               Shown, Stage
<1> QED
  BY <1>1, <1>2, <1>3, <1>4, <1>5, <1>6, <1>7, <1>8, <1>9, <1>10,
     PublishStep, DemoStep, UnreadableStep, CrashStep DEF Next, Step, Environment, Ended

\* The state file and the cycles keep their types, and the list of results its
\* limit, for any number of cycles.
THEOREM TypeCorrect == Spec => []TypeOK
<1>1. IInv => TypeOK
  BY DEF IInv
<1> QED
  BY InitInv, NextInv, <1>1, PTL DEF Spec

\* However many cycles overlap, _publish_state_view loses no result that the
\* limit leaves room for, and keeps them in the order in which cycles ended.
THEOREM ResultsSafe == Spec => []RecentResults
<1>1. IInv => RecentResults
  BY DEF IInv
<1> QED
  BY InitInv, NextInv, <1>1, PTL DEF Spec

\* An agent that _get_zg_state shows busy is busy with the cycle named, or
\* that cycle died.
THEOREM BusySafe == Spec => []BusyIsReal
<1>1. IInv => BusyIsReal
  BY DEF IInv
<1> QED
  BY InitInv, NextInv, <1>1, PTL DEF Spec

-----------------------------------------------------------------------------
(* The snapshot shown.                                                     *)

\* What a step that shows a stage does to the rest of the file: nothing, unless
\* its write leaves nothing of it.
LEMMA PartialCases ==
  ASSUME IInv, NEW c \in Cycles, NEW l, NEW b, PublishPartial(c, l, b)
  PROVE  \/ /\ log' = log /\ began' = b
            /\ file'.snap = file.snap /\ file'.cycles = file.cycles
         \/ file' = NoFile /\ log' = <<>> /\ began' = [d \in Cycles |-> -1]
BY DEF PublishPartial, Write, Lost, Replace, IInv, FileOK

\* A step that changes neither the results nor the snapshot of the file.
LEMMA SnapshotKept ==
  ASSUME SnapshotIsLatest, log' = log, file'.snap = file.snap
  PROVE  SnapshotIsLatest'
BY DEF SnapshotIsLatest

\* Without results there is nothing to show.
LEMMA SnapshotGone ==
  ASSUME log' = <<>>
  PROVE  SnapshotIsLatest'
BY DEF SnapshotIsLatest

\* A result without a root leaves the snapshot alone; one with a root brings it.
LEMMA SnapshotWritten ==
  ASSUME IInv, SnapshotIsLatest, NEW c \in Cycles, Written(c)
  PROVE  SnapshotIsLatest'
<1> DEFINE x == ResultOf(c)
<1>1. /\ x \in Result /\ log \in Seq(Result) /\ Len(log) \in Nat
      /\ x.root = snap[c].root
  BY DEF ResultOf, Result, IInv, TypeOK, FileOK
<1>2. /\ log' = Append(log, x)
      /\ file'.snap.root = Or(snap[c].root, file.snap.root)
  BY DEF Written, Published
<1> HIDE DEF x
<1>3. /\ DOMAIN log = 1 .. Len(log) /\ DOMAIN log' = 1 .. Len(log) + 1
      /\ \A i \in DOMAIN log : log'[i] = log[i]
      /\ log'[Len(log) + 1] = x
  BY <1>1, <1>2
<1> SUFFICES ASSUME NEW i \in DOMAIN log', log'[i].root # None,
                    \A j \in DOMAIN log' : log'[j].root # None => j <= i
             PROVE  file'.snap.root = log'[i].root
  BY DEF SnapshotIsLatest
<1>4. CASE snap[c].root # None
  <2>1. Len(log) + 1 \in DOMAIN log' /\ log'[Len(log) + 1].root # None
    BY <1>1, <1>3, <1>4
  <2>2. i = Len(log) + 1
    BY <1>1, <1>3, <2>1
  <2> QED
    BY <1>1, <1>2, <1>3, <1>4, <2>2 DEF Or
<1>5. CASE snap[c].root = None
  <2>1. i \in DOMAIN log
    BY <1>1, <1>3, <1>5
  <2>2. \A j \in DOMAIN log : log[j].root # None => j <= i
    BY <1>1, <1>3
  <2>3. file.snap.root = log[i].root
    BY <1>3, <2>1, <2>2 DEF SnapshotIsLatest
  <2> QED
    BY <1>2, <1>3, <1>5, <2>1, <2>3 DEF Or
<1> QED
  BY <1>4, <1>5

\* A result is published, or its write is lost.
LEMMA SnapshotPublish ==
  ASSUME IInv, SnapshotIsLatest, NEW c \in Cycles, Publish(c)
  PROVE  SnapshotIsLatest'
<1>1. CASE Written(c)
  BY <1>1, SnapshotWritten
<1>2. CASE Lost(c, began)
  <2>1. UNCHANGED <<file, log>> \/ log' = <<>>
    BY <1>2 DEF Lost, Replace
  <2> QED
    BY <2>1, SnapshotKept, SnapshotGone
<1> QED
  BY <1>1, <1>2, PublishCases

\* The results of the demo carry no root: the snapshot it wrote is compared
\* with nothing until a cycle is published.
LEMMA SnapshotDemo ==
  ASSUME IInv, NEW n \in 1 .. MaxDemo, NEW s \in DemoSnaps, DemoPublishes(n, s)
  PROVE  SnapshotIsLatest'
<1>1. DOMAIN log' = 1 .. n /\ \A i \in 1 .. n : log'[i].root = None
  BY DEF DemoPublishes, Replace
<1> QED
  BY <1>1 DEF SnapshotIsLatest

\* The root shown is that of the last result that has one, however cycles
\* overlap and whichever flushes fail.
THEOREM SnapshotSafe == Spec => []SnapshotIsLatest
<1>1. Init => SnapshotIsLatest
  BY DEF Init, SnapshotIsLatest
<1>2. IInv /\ SnapshotIsLatest /\ [Next]_vars => SnapshotIsLatest'
  <2> SUFFICES ASSUME IInv, SnapshotIsLatest, [Next]_vars
               PROVE  SnapshotIsLatest'
    OBVIOUS
  <2>1. ASSUME NEW c \in Cycles,
               \/ Begin(c) \/ Scanned(c) \/ Execute(c) \/ Commit(c)
               \/ \E a \in {"trade", "hold"} : Scored(c, a)
        PROVE  SnapshotIsLatest'
    <3>1. \E l, b : PublishPartial(c, l, b)
      BY <2>1 DEF Begin, Scanned, Execute, Commit, Scored
    <3>2. (log' = log /\ file'.snap = file.snap) \/ log' = <<>>
      BY <3>1, PartialCases
    <3> QED
      BY <3>2, SnapshotKept, SnapshotGone
  <2>2. ASSUME NEW c \in Cycles,
               \/ FlushFails(c) \/ Raises(c)
               \/ \E o \in SwapOutcomes : Swapped(c, o)
               \/ \E tx \in BOOLEAN : Flushed(c, tx)
        PROVE  SnapshotIsLatest'
    BY <2>2, SnapshotKept DEF FlushFails, Raises, Swapped, Flushed
  <2>3. ASSUME NEW torn \in BOOLEAN, Crash(torn)
        PROVE  SnapshotIsLatest'
    <3>1. CASE torn
      BY <2>3, <3>1, SnapshotGone DEF Crash, Replace
    <3>2. CASE ~ torn
      BY <2>3, <3>2, SnapshotKept DEF Crash
    <3> QED
      BY <3>1, <3>2
  <2>4. CASE UNCHANGED vars
    BY <2>4, SnapshotKept DEF vars
  <2>5. CASE Unreadable
    BY <2>5, SnapshotGone DEF Unreadable, Replace
  <2> QED
    BY <2>1, <2>2, <2>3, <2>4, <2>5, SnapshotPublish, SnapshotDemo
       DEF Next, Step, Environment, Ended
<1> QED
  BY InitInv, NextInv, <1>1, <1>2, PTL DEF Spec

-----------------------------------------------------------------------------
(* The numbers of the cycles.                                              *)

\* The number of a cycle that began when the file had b results is the next
\* one, unless the list was full: then it may be the one all later cycles share.
Numbered(n, b) == n = b + 1 \/ (b > MaxResults /\ n = MaxResults + 2)

\* What the file counts, what the cycles under way took from it and what the
\* results show.
CountOK ==
  file.cycles = Len(log) \/ (Len(log) > MaxResults /\ file.cycles = MaxResults + 1)
TakenOK ==
  \A c \in Cycles :
    began[c] <= Len(log) /\ (began[c] >= 0 => Numbered(num[c], began[c]))
ShownOK ==
  \A i \in DOMAIN log :
    log[i].began < i /\ (log[i].began >= 0 => Numbered(log[i].num, log[i].began))
NumbersOK == CountOK /\ TakenOK /\ ShownOK

\* A result that follows another one has a higher number, or the shared one.
LEMMA NumbersCompare ==
  ASSUME IInv, NumbersOK
  PROVE  NumbersFollow
<1> SUFFICES ASSUME NEW i \in DOMAIN log, NEW j \in DOMAIN log, i < j,
                    log[i].began >= 0, log[j].began >= i
             PROVE  log[j].num > log[i].num \/ log[j].num = MaxResults + 2
  BY DEF NumbersFollow
<1>1. log \in Seq(Result) /\ MaxResults \in Nat
  BY ResultsAssumption DEF IInv, TypeOK
<1>2. i \in Nat /\ j \in Nat /\ log[i] \in Result /\ log[j] \in Result
  BY <1>1
<1>3. /\ log[i].began \in Int /\ log[j].began \in Int
      /\ log[i].num \in Int /\ log[j].num \in Int
  BY <1>2 DEF Result
<1>4. log[i].began < i /\ Numbered(log[i].num, log[i].began)
  BY DEF NumbersOK, ShownOK
<1>5. Numbered(log[j].num, log[j].began)
  BY <1>2, <1>3 DEF NumbersOK, ShownOK
<1> QED
  BY <1>1, <1>2, <1>3, <1>4, <1>5 DEF Numbered

\* A step that leaves the numbers alone.
LEMMA NumbersKept ==
  ASSUME NumbersOK, file'.cycles = file.cycles, UNCHANGED <<num, log, began>>
  PROVE  NumbersOK'
BY DEF NumbersOK, CountOK, TakenOK, ShownOK

\* No result and no cycle under way that counts: nothing to compare.
LEMMA NumbersFresh ==
  ASSUME file = NoFile, log = <<>>, began = [c \in Cycles |-> -1]
  PROVE  NumbersOK
<1>1. CountOK
  BY DEF CountOK, NoFile
<1>2. TakenOK
  BY DEF TakenOK
<1>3. ShownOK
  BY DEF ShownOK
<1> QED BY <1>1, <1>2, <1>3 DEF NumbersOK

\* Nothing is left of the file: the same, after a step.
LEMMA NumbersLost ==
  ASSUME file' = NoFile, log' = <<>>, began' = [c \in Cycles |-> -1]
  PROVE  NumbersOK'
<1>1. CountOK'
  BY DEF CountOK, NoFile
<1>2. TakenOK'
  BY DEF TakenOK
<1>3. ShownOK'
  BY DEF ShownOK
<1> QED BY <1>1, <1>2, <1>3 DEF NumbersOK

\* A cycle begins: it takes the number after the count.
LEMMA NumbersBegin ==
  ASSUME IInv, NumbersOK, NEW c \in Cycles, Begin(c)
  PROVE  NumbersOK'
<1> SUFFICES ASSUME log' = log, file'.cycles = file.cycles,
                    began' = [began EXCEPT ![c] = Len(log)]
             PROVE  NumbersOK'
  BY PartialCases, NumbersLost DEF Begin
<1>1. /\ num' = [num EXCEPT ![c] = file.cycles + 1]
      /\ began' = [began EXCEPT ![c] = Len(log)]
      /\ log' = log /\ file'.cycles = file.cycles
  BY DEF Begin
<1>2. /\ num \in [Cycles -> 0 .. MaxDemo + 1] /\ began \in [Cycles -> Int]
      /\ Len(log) \in Nat /\ file.cycles \in Int /\ MaxResults \in Nat
  BY ResultsAssumption DEF IInv, TypeOK
<1>3. CountOK' /\ ShownOK'
  BY <1>1 DEF NumbersOK, CountOK, ShownOK
<1>4. Numbered(file.cycles + 1, Len(log))
  BY <1>2 DEF NumbersOK, CountOK, Numbered
<1>5. TakenOK'
  <2> SUFFICES ASSUME NEW d \in Cycles
               PROVE  /\ began'[d] <= Len(log)
                      /\ began'[d] >= 0 => Numbered(num'[d], began'[d])
    BY <1>1 DEF TakenOK, Numbered
  <2>1. CASE d = c
    <3>1. num'[d] = file.cycles + 1 /\ began'[d] = Len(log)
      BY <1>1, <1>2, <2>1
    <3> QED BY <1>2, <1>4, <3>1
  <2>2. CASE d # c
    <3>1. num'[d] = num[d] /\ began'[d] = began[d]
      BY <1>1, <1>2, <2>2
    <3> QED BY <3>1 DEF NumbersOK, TakenOK
  <2> QED BY <2>1, <2>2
<1> QED BY <1>3, <1>5 DEF NumbersOK

\* A result is published: the file counts what it keeps and one more.
LEMMA NumbersWritten ==
  ASSUME IInv, NumbersOK, NEW c \in Cycles, Publish(c), Written(c)
  PROVE  NumbersOK'
<1> DEFINE x == ResultOf(c)
<1>0. /\ log \in Seq(Result) /\ Len(log) \in Nat /\ MaxResults \in Nat \ {0}
      /\ began \in [Cycles -> Int] /\ began[c] \in Int
      /\ file.results \in Seq(Result) /\ Len(file.results) \in Nat
  BY ResultsAssumption DEF IInv, TypeOK
<1>1. x \in Result /\ x.num = num[c] /\ x.began = began[c]
  BY DEF ResultOf, Result, IInv, TypeOK, FileOK
<1>2. /\ log' = Append(log, x) /\ file'.cycles = Len(Append(file.results, x))
      /\ UNCHANGED <<num, began>>
  BY DEF Publish, Written, Published
<1> HIDE DEF x
<1>3. /\ DOMAIN log = 1 .. Len(log) /\ DOMAIN log' = 1 .. Len(log) + 1
      /\ Len(log') = Len(log) + 1
      /\ \A i \in DOMAIN log : log'[i] = log[i]
      /\ log'[Len(log) + 1] = x
  BY <1>0, <1>1, <1>2
<1>4. CountOK'
  <2>1. Len(file.results) = IF Len(log) > MaxResults THEN MaxResults ELSE Len(log)
    BY <1>0 DEF IInv, RecentResults, Recent
  <2>2. file'.cycles = Len(file.results) + 1
    BY <1>0, <1>1, <1>2
  <2> QED BY <1>0, <1>3, <2>1, <2>2 DEF CountOK
<1>5. TakenOK'
  <2> SUFFICES ASSUME NEW d \in Cycles
               PROVE  /\ began[d] <= Len(log) + 1
                      /\ began[d] >= 0 => Numbered(num[d], began[d])
    BY <1>2, <1>3 DEF TakenOK, Numbered
  <2>1. began[d] \in Int
    BY <1>0
  <2> QED BY <1>0, <2>1 DEF NumbersOK, TakenOK
<1>6. ShownOK'
  <2> SUFFICES ASSUME NEW i \in DOMAIN log'
               PROVE  /\ log'[i].began < i
                      /\ log'[i].began >= 0 => Numbered(log'[i].num, log'[i].began)
    BY DEF ShownOK, Numbered
  <2>1. CASE i \in DOMAIN log
    BY <1>3, <2>1 DEF NumbersOK, ShownOK
  <2>2. CASE i = Len(log) + 1
    BY <1>0, <1>1, <1>3, <2>2 DEF NumbersOK, TakenOK
  <2> QED BY <1>0, <1>3, <2>1, <2>2
<1> QED BY <1>4, <1>5, <1>6 DEF NumbersOK

\* A result is published, or its write is lost.
LEMMA NumbersPublish ==
  ASSUME IInv, NumbersOK, NEW c \in Cycles, Publish(c)
  PROVE  NumbersOK'
<1>1. CASE Written(c)
  BY <1>1, NumbersWritten
<1>2. CASE Lost(c, began)
  <2>1. \/ UNCHANGED <<file, log, began>>
        \/ file' = NoFile /\ log' = <<>> /\ began' = [d \in Cycles |-> -1]
    BY <1>2 DEF Lost, Replace
  <2>2. num' = num
    BY DEF Publish
  <2> QED
    BY <2>1, <2>2, NumbersKept, NumbersLost
<1> QED
  BY <1>1, <1>2, PublishCases

\* The demo numbers its cycles from one and counts them all.
LEMMA NumbersDemo ==
  ASSUME IInv, NEW n \in 1 .. MaxDemo, NEW s \in DemoSnaps, DemoPublishes(n, s)
  PROVE  NumbersOK'
<1> DEFINE r == [i \in 1 .. n |-> [id |-> None, num |-> i, action |-> "hold",
                                   outcome |-> "none", began |-> i - 1,
                                   root |-> None]]
<1>0. n \in Nat
  BY DemoAssumption
<1>1. log' = r /\ file'.cycles = n /\ began' = [c \in Cycles |-> -1]
  BY DEF DemoPublishes, Replace
<1>2. /\ \A i \in 1 .. n : r[i].num = i /\ r[i].began = i - 1
      /\ DOMAIN r = 1 .. n
  OBVIOUS
<1>3. Len(r) = n
  BY <1>0, <1>2, LenProperties
<1> HIDE DEF r
<1>4. CountOK'
  BY <1>1, <1>3 DEF CountOK
<1>5. TakenOK'
  BY <1>0, <1>1, <1>3 DEF TakenOK
<1>6. ShownOK'
  BY <1>0, <1>1, <1>2 DEF ShownOK, Numbered
<1> QED BY <1>4, <1>5, <1>6 DEF NumbersOK

\* However cycles overlap, a cycle that began after another one was published
\* has a higher number, up to the number that _run_trade_cycle gives to all
\* cycles once the list of results is full.
THEOREM NumbersSafe == Spec => []NumbersFollow
<1>1. Init => NumbersOK
  BY NumbersFresh DEF Init
<1>2. IInv /\ NumbersOK /\ [Next]_vars => NumbersOK'
  <2> SUFFICES ASSUME IInv, NumbersOK, [Next]_vars
               PROVE  NumbersOK'
    OBVIOUS
  <2>1. ASSUME NEW c \in Cycles,
               \/ Scanned(c) \/ Execute(c) \/ Commit(c)
               \/ \E a \in {"trade", "hold"} : Scored(c, a)
        PROVE  NumbersOK'
    <3>1. num' = num /\ \E l : PublishPartial(c, l, began)
      BY <2>1 DEF Scanned, Execute, Commit, Scored
    <3>2. \/ file'.cycles = file.cycles /\ UNCHANGED <<num, log, began>>
          \/ file' = NoFile /\ log' = <<>> /\ began' = [d \in Cycles |-> -1]
      BY <3>1, PartialCases
    <3> QED BY <3>2, NumbersKept, NumbersLost
  <2>2. ASSUME NEW c \in Cycles,
               \/ FlushFails(c) \/ Raises(c)
               \/ \E o \in SwapOutcomes : Swapped(c, o)
               \/ \E tx \in BOOLEAN : Flushed(c, tx)
        PROVE  NumbersOK'
    BY <2>2, NumbersKept DEF FlushFails, Raises, Swapped, Flushed
  <2>3. ASSUME NEW torn \in BOOLEAN, Crash(torn)
        PROVE  NumbersOK'
    <3>1. CASE torn
      BY <2>3, <3>1, NumbersLost DEF Crash, Replace
    <3>2. CASE ~ torn
      BY <2>3, <3>2, NumbersKept DEF Crash
    <3> QED BY <3>1, <3>2
  <2>4. CASE UNCHANGED vars
    BY <2>4, NumbersKept DEF vars
  <2>5. CASE Unreadable
    BY <2>5, NumbersLost DEF Unreadable, Replace
  <2> QED
    BY <2>1, <2>2, <2>3, <2>4, <2>5, NumbersBegin, NumbersPublish, NumbersDemo
       DEF Next, Step, Environment, Ended
<1> QED
  BY InitInv, NextInv, <1>1, <1>2, NumbersCompare, PTL DEF Spec

-----------------------------------------------------------------------------
(* How long a cycle can go on.                                             *)

\* The stages a cycle can still go through.
Left(c) ==
  CASE pc[c] = "new"        -> 8
    [] pc[c] = "scanning"   -> 7
    [] pc[c] = "deciding"   -> 6
    [] pc[c] = "decided"    -> 5
    [] pc[c] = "executing"  -> 4
    [] pc[c] = "settling"   -> 3
    [] pc[c] = "committing" -> 2
    [] pc[c] = "closing"    -> 1
    [] OTHER                -> 0

\* A cycle only goes forward: its own steps and its exceptions leave it fewer
\* stages, a crash none, and neither another cycle nor the demo moves it or
\* starts it again.
OnlyForward ==
  [][\A c \in Cycles :
       /\ Begin(c) \/ Step(c) \/ Raises(c) => Left(c)' < Left(c)
       /\ pc'[c] # pc[c] => Left(c)' < Left(c)
       /\ pc[c] \in Stopped => pc'[c] = pc[c]]_vars

\* A step of a cycle moves it to a later stage, and no other cycle.
LEMMA MovesOne ==
  ASSUME IInv, NEW c \in Cycles, Begin(c) \/ Step(c) \/ Raises(c)
  PROVE  Left(c)' < Left(c) /\ \A d \in Cycles \ {c} : pc'[d] = pc[d]
<1>1. PICK l : pc' = [pc EXCEPT ![c] = l]
  BY DEF Begin, Step, Raises, Scanned, Scored, Execute, Swapped, Commit, Flushed, FlushFails,
         Publish, Goto
<1>2. pc'[c] = l /\ \A d \in Cycles \ {c} : pc'[d] = pc[d]
  BY <1>1 DEF IInv, TypeOK
<1>3. CASE Begin(c)
  BY <1>2, <1>3 DEF Begin, Goto, Left, IInv, TypeOK
<1>4. CASE Scanned(c) \/ \E a \in {"trade", "hold"} : Scored(c, a)
  BY <1>2, <1>4 DEF Scanned, Scored, Goto, Left, IInv, TypeOK
<1>5. CASE Execute(c) \/ \E o \in SwapOutcomes : Swapped(c, o)
  BY <1>2, <1>5 DEF Execute, Swapped, Goto, Left, IInv, TypeOK
<1>6. CASE Commit(c)
  BY <1>2, <1>6 DEF Commit, Goto, Left, IInv, TypeOK
<1>7. CASE FlushFails(c) \/ Publish(c) \/ \E tx \in BOOLEAN : Flushed(c, tx)
  BY <1>2, <1>7 DEF FlushFails, Flushed, Publish, Goto, Left, IInv, TypeOK
<1>8. CASE Raises(c)
  <2>1. /\ pc[c] \in {"scanning", "deciding", "decided", "executing", "settling"}
        /\ pc'[c] = "failed"
    BY <1>8 DEF Raises, Goto, IInv, TypeOK
  <2> QED BY <1>2, <2>1 DEF Left
<1> QED
  BY <1>3, <1>4, <1>5, <1>6, <1>7, <1>8 DEF Step

\* A trade cycle takes at most eight steps, whatever the scorer, the swap, the
\* flush and the other cycles do, and one that ended, failed or was killed is
\* not taken up again.  With the fairness of FairSpec, that is why CyclesEnd
\* holds.
THEOREM ForwardSafe == Spec => OnlyForward
<1>1. ASSUME IInv, Next
      PROVE  \A c \in Cycles :
               /\ Begin(c) \/ Step(c) \/ Raises(c) => Left(c)' < Left(c)
               /\ pc'[c] # pc[c] => Left(c)' < Left(c)
               /\ pc[c] \in Stopped => pc'[c] = pc[c]
  <2> SUFFICES ASSUME NEW c \in Cycles
               PROVE  pc'[c] = pc[c] \/ (Left(c)' < Left(c) /\ pc[c] \notin Stopped)
    BY <1>1, MovesOne
  <2>1. CASE pc'[c] = pc[c]
    BY <2>1
  <2>2. ASSUME NEW d \in Cycles, Begin(d) \/ Step(d) \/ Raises(d), pc'[c] # pc[c]
        PROVE  Left(c)' < Left(c) /\ pc[c] \notin Stopped
    <3>1. d = c
      BY <1>1, <2>2, MovesOne
    <3>2. Left(c)' < Left(c)
      BY <1>1, <2>2, <3>1, MovesOne
    <3>3. pc[c] \notin Stopped
      BY <2>2, <3>1 DEF Begin, Step, Raises, Scanned, Scored, Execute, Swapped, Commit,
                        Flushed, FlushFails, Publish, Stopped
    <3> QED BY <3>2, <3>3
  <2>3. CASE Environment /\ pc'[c] # pc[c]
    <3>1. pc[c] \in Running /\ pc'[c] = "killed"
      BY <2>3 DEF Environment, DemoPublishes, Unreadable, Crash, local
    <3> QED BY <3>1 DEF Left, Running, Stages, Stopped
  <2>4. CASE UNCHANGED vars
    BY <2>4 DEF vars
  <2> QED BY <1>1, <2>1, <2>2, <2>3, <2>4 DEF Next
<1>2. Spec => []IInv
  BY InitInv, NextInv, PTL DEF Spec
<1> QED
  BY <1>1, <1>2, PTL DEF Spec, OnlyForward
=============================================================================
