------------------------- MODULE CycleAnnouncements -------------------------
(***************************************************************************)
(* What the trade cycles of the dashboard tell the outside while they run: *)
(* ENS text records and AXL messages, written between the steps that       *)
(* TradeCycle models, beside readers of the profiles.  All cycles of a     *)
(* process share one identity and one bus.  (The cycle of the demo makes   *)
(* the same calls in its own process.)                                     *)
(*                                                                         *)
(* update_text awaits nothing, so the records of a step and the call of    *)
(* the bus that follows are one action.  Key 1 stands for the records that *)
(* each step of an agent writes (role, status; last and tx are alike, but  *)
(* the executor leaves them alone without a hash), key 2 for the snapshot. *)
(***************************************************************************)
EXTENDS EnsIdentity, AxlBus

CONSTANTS Researcher, Risk, Executor

ASSUME RolesAssumption == Roles = {Researcher, Risk, Executor} /\ Writers = Senders /\ NKeys = 2

VARIABLE pc   \* where each cycle stands

vars == <<ensVars, busVars, pc>>

Move(c, from, to) ==
  /\ pc[c] = from
  /\ bus[c] = "idle"
  /\ pc' = [pc EXCEPT ![c] = to]

\* The researcher's records, and its signal to the risk agent.
AnnounceSignal(c) ==
  /\ Move(c, "scanned", "score")
  /\ UpdateText({<<Researcher, 1>>}, c)
  /\ Send(c, 1)

\* The decision is there: the risk agent's records, and the decision to the
\* executor, a hold as well.
AnnounceDecision(c, action) ==
  /\ Move(c, "score", action)
  /\ UpdateText({<<Risk, 1>>}, c)
  /\ Send(c, 2)

\* The swap returned: the executor's records, and its result to the
\* researcher, whatever it is.
AnnounceResult(c) ==
  /\ Move(c, "trade", "commit")
  /\ UpdateText({<<Executor, 1>>}, c)
  /\ Send(c, 3)

\* The flush, after a hold or a trade: a snapshot is written to all records.
Commit(c, root) ==
  /\ \/ Move(c, "hold", "done")
     \/ Move(c, "commit", "done")
  /\ \/ root /\ UpdateText({<<r, 2>> : r \in Roles}, c)
     \/ ~root /\ UNCHANGED ensVars
  /\ UNCHANGED busVars

\* An exception between two announcements ends the cycle, with the role and the
\* status written already when float() raises on the price, the score or the
\* confidence.  Behind the last announcement nothing raises, a failing flush is
\* caught.
Raises(c) ==
  /\ pc[c] \in {"scanned", "score", "hold", "trade"}
  /\ Move(c, pc[c], "done")
  /\ \/ UNCHANGED ensVars
     \/ pc[c] = "scanned" /\ UpdateText({<<Researcher, 1>>}, c)
     \/ pc[c] = "score" /\ UpdateText({<<Risk, 1>>}, c)
  /\ UNCHANGED busVars

Init ==
  /\ EnsInit
  /\ BusInit
  /\ pc = [c \in Senders |-> "scanned"]

Cycle(c) ==
  \/ AnnounceSignal(c)
  \/ \E action \in {"hold", "trade"} : AnnounceDecision(c, action)
  \/ AnnounceResult(c)
  \/ \E root \in BOOLEAN : Commit(c, root)
  \/ Raises(c)

Next ==
  \/ \E c \in Senders : Cycle(c)
  \/ EnsNext /\ UNCHANGED <<busVars, pc>>
  \/ BusNext /\ UNCHANGED <<ensVars, pc>>

Spec == Init /\ [][Next]_vars

FairSpec == Spec /\ EnsFairness /\ BusFairness

-----------------------------------------------------------------------------
(* Properties.                                                             *)

TypeOK ==
  /\ text   \in [Records -> Values]
  /\ resolved \subseteq Roles
  /\ fetch  \in [Readers -> Fetches \cup {NoFetch}]
  /\ latest \in [Records -> Writers \cup {None}]
  /\ raced  \subseteq Records
  /\ registry \in BOOLEAN
  /\ lock   \in Seq(Senders)
  /\ bus    \in [Senders -> {"idle", "waiting", "bootstrapping", "posting"}]
  /\ kind   \in [Senders -> 1 .. Len(Kinds)]
  /\ tries  \in [Senders -> 0 .. MaxAttempts - 1]
  /\ made   \in Nat
  /\ pc     \in [Senders -> {"scanned", "score", "hold", "trade", "commit", "done"}]

\* update_text: readers see the last update of a record, unless the chain has
\* a value for it and a fetch of the record was under way when the update was
\* made.  A record without an update is the chain's or empty.
CacheIsCurrent ==
  \A p \in Records :
    \/ text[p] = latest[p]
    \/ text[p] = "chain" /\ p \in OnChain /\ (latest[p] = None \/ p \in raced)

\* _get_registry: the registry is bootstrapped once per process, by one sender
\* at a time, and once it is there nobody bootstraps any more.
OneRegistry ==
  /\ made <= 1
  /\ \A c, d \in Senders : bus[c] = "bootstrapping" /\ bus[d] = "bootstrapping" => c = d
  /\ registry => \A c \in Senders : bus[c] # "bootstrapping"

\* recent_events: the list has the last sends that returned, in the order in
\* which they did, the messages of a cycle in the order of its steps.
EventsFollowSends ==
  /\ Len(events) = IF sent < EventsMax THEN sent ELSE EventsMax
  /\ \A i \in 1 .. Len(events) : events[i].n = sent - Len(events) + i
  /\ \A i, j \in 1 .. Len(events) :
       i < j /\ events[i].sender = events[j].sender => events[i].kind < events[j].kind

\* AXL availability must not block the cycle: every _send returns, whoever
\* holds the lock and whatever the nodes do.
AnnouncementsReturn == \A c \in Senders : bus[c] # "idle" ~> bus[c] = "idle"

\* Every read of a profile returns, although requests fail.
ProfilesReturn == \A x \in Readers : fetch[x] # NoFetch ~> fetch[x] = NoFetch
=============================================================================
