----------------------------- MODULE SessionLog -----------------------------
(***************************************************************************)
(* What the history log of core/storage/log.py promises while one process  *)
(* runs: an entry that was acknowledged stays where it is, and so does     *)
(* everything before it, whatever appends come later, overlap each other,  *)
(* fail or are cancelled.  The tail behind the last acknowledged entry is  *)
(* not promised anything.  The log does not outlive the process: nothing   *)
(* hands the last manifest root to the next one.                           *)
(***************************************************************************)
EXTENDS Sequences, Functions

CONSTANT Entries

VARIABLES log,     \* the entries a reader of this process finds
          acked    \* the entries whose append returned and overlapped no other

Init == log = <<>> /\ acked = {}

\* Another log may take the log's place: one without duplicates that agrees
\* with it up to the last acknowledged entry.
Kept ==
  /\ IsInjective(log')
  /\ \A i \in DOMAIN log :
       log[i] \in acked => \A j \in 1 .. i : j \in DOMAIN log' /\ log'[j] = log[j]

Write == Kept /\ acked' = acked

Append1(e) == Kept /\ e \in Range(log') /\ acked' = acked \cup {e}

Restart == log' = <<>> /\ acked' = {}

Next == Write \/ (\E e \in Entries : Append1(e)) \/ Restart

Spec == Init /\ [][Next]_<<log, acked>>
=============================================================================
