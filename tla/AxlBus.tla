------------------------------- MODULE AxlBus -------------------------------
(***************************************************************************)
(* The AXL bus of a process (core/axl_bus.py): _send, with the registry    *)
(* that its first user bootstraps under a lock and all later ones share,   *)
(* and the list of recent events.                                          *)
(*                                                                         *)
(* A sender is a trade cycle, which awaits one _send at a time.  An action *)
(* is what it does between two awaits; asyncio.Lock serves its waiters in  *)
(* order and a free lock is taken without an await.                        *)
(***************************************************************************)
EXTENDS Integers, Sequences

CONSTANTS Senders,
          MaxAttempts,  \* stop_after_attempt of AXLClient
          EventsMax     \* _AXL_EVENTS_MAX

ASSUME AttemptsAssumption == MaxAttempts \in Nat \ {0}
ASSUME EventsAssumption   == EventsMax \in Nat \ {0}

VARIABLES
  registry,   \* _registry is set
  lock,       \* _registry_lock: its holder and then its waiters
  bus,        \* where each sender stands in _send
  kind,       \* the message type it sends
  tries,      \* attempts that timed out
  events,     \* _axl_events; n, the number of the send, is history
  \* History.
  made,       \* the number of registries that were bootstrapped
  sent        \* the number of sends that returned

busVars == <<registry, lock, bus, kind, tries, events, made, sent>>

Kinds == <<"MARKET_SIGNAL", "TRADE_DECISION", "EXECUTION_RESULT">>

Goto(c, l) == bus' = [bus EXCEPT ![c] = l]

\* Mutant: the list keeps its first events.
RecentFirst(s) == IF Len(s) > EventsMax THEN SubSeq(s, 1, EventsMax) ELSE s

\* del _axl_events[:-_AXL_EVENTS_MAX]
Recent(s) == IF Len(s) > EventsMax THEN SubSeq(s, Len(s) - EventsMax + 1, Len(s)) ELSE s

\* _send is called with the k-th message type: through the registry to the
\* POST, into the bootstrap, or into the queue for the lock.
Send(c, k) ==
  /\ bus[c] = "idle"
  /\ kind' = [kind EXCEPT ![c] = k]
  /\ \/ /\ lock # <<>>
        /\ lock' = Append(lock, c)
        /\ Goto(c, "waiting")
     \/ /\ lock = <<>> /\ registry
        /\ Goto(c, "posting")
        /\ UNCHANGED lock
     \/ /\ lock = <<>> /\ ~registry
        /\ lock' = <<c>>
        /\ Goto(c, "bootstrapping")
  /\ UNCHANGED <<registry, tries, events, made, sent>>

\* Mutant: the registry is not looked at again under the lock.
AcquireUnchecked(c) ==
  /\ bus[c] = "waiting"
  /\ c = Head(lock)
  /\ Goto(c, "bootstrapping")
  /\ UNCHANGED <<registry, lock, kind, tries, events, made, sent>>

\* A waiter gets the lock: the one before it may have made the registry.
Acquire(c) ==
  /\ bus[c] = "waiting"
  /\ c = Head(lock)
  /\ \/ registry /\ lock' = Tail(lock) /\ Goto(c, "posting")
     \/ ~registry /\ Goto(c, "bootstrapping") /\ UNCHANGED lock
  /\ UNCHANGED <<registry, kind, tries, events, made, sent>>

\* All nodes answered GET /topology with their keys.
Bootstrap(c) ==
  /\ bus[c] = "bootstrapping"
  /\ registry' = TRUE
  /\ made' = made + 1
  /\ lock' = Tail(lock)
  /\ Goto(c, "posting")
  /\ UNCHANGED <<kind, tries, events, sent>>

\* Mutant: a failing bootstrap keeps the lock.
BootstrapFailsLocked(c) ==
  /\ bus[c] = "bootstrapping"
  /\ Goto(c, "idle")
  /\ UNCHANGED <<registry, lock, kind, tries, events, made, sent>>

\* A node is down or its answer has no key: nothing is sent, and the next
\* sender tries again.  With an empty key for the researcher the registry is
\* set before the log line raises, and stays: nobody tries again.
BootstrapFails(c) ==
  /\ bus[c] = "bootstrapping"
  /\ \/ UNCHANGED <<registry, made>>
     \/ registry' = TRUE /\ made' = made + 1
  /\ lock' = Tail(lock)
  /\ Goto(c, "idle")
  /\ UNCHANGED <<kind, tries, events, sent>>

\* The POST answers 200: the event is kept.
SendDone(c) ==
  /\ bus[c] = "posting"
  /\ sent' = sent + 1
  /\ events' = Recent(Append(events, [sender |-> c, kind |-> kind[c], n |-> sent']))
  /\ tries' = [tries EXCEPT ![c] = 0]
  /\ Goto(c, "idle")
  /\ UNCHANGED <<registry, lock, kind, made>>

\* No connection or no answer, also from a node that has taken the message:
\* the next attempt, or the end of it, without an event.
SendTimesOut(c) ==
  /\ bus[c] = "posting"
  /\ IF tries[c] + 1 < MaxAttempts
       THEN tries' = [tries EXCEPT ![c] = @ + 1] /\ UNCHANGED bus
       ELSE tries' = [tries EXCEPT ![c] = 0] /\ Goto(c, "idle")
  /\ UNCHANGED <<registry, lock, kind, events, made, sent>>

\* The registry has an empty key for one of the two ends, or the node answers
\* with an error, which is not retried.
SendFails(c) ==
  /\ bus[c] = "posting"
  /\ tries' = [tries EXCEPT ![c] = 0]
  /\ Goto(c, "idle")
  /\ UNCHANGED <<registry, lock, kind, events, made, sent>>

BusInit ==
  /\ registry  = FALSE
  /\ lock      = <<>>
  /\ bus       = [c \in Senders |-> "idle"]
  /\ kind      = [c \in Senders |-> 1]
  /\ tries     = [c \in Senders |-> 0]
  /\ events    = <<>>
  /\ made      = 0
  /\ sent      = 0

BusEnds(c) ==
  \/ Acquire(c)
  \/ Bootstrap(c)
  \/ BootstrapFails(c)
  \/ SendDone(c)
  \/ SendTimesOut(c)
  \/ SendFails(c)

BusNext == \E c \in Senders : BusEnds(c)

\* Requests answer or time out, and the loop resumes who gets the lock.
BusFairness == \A c \in Senders : WF_busVars(BusEnds(c))
=============================================================================
