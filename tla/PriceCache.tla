----------------------------- MODULE PriceCache -----------------------------
(***************************************************************************)
(* The price cache of the pair scanner (_fetch_prices in core/scanner.py): *)
(* one dictionary with one time stamp for all of it, refreshed from        *)
(* CoinGecko by one caller at a time.  The callers are the polls of        *)
(* /api/scan and /api/dashboard, the chat and the demo; each asks for all  *)
(* the coins of PAIRS through scan_pairs.                                  *)
(*                                                                         *)
(* An action is what a caller does between two awaits.  A quote, the entry *)
(* of a coin in a body, is modelled by the time at which CoinGecko         *)
(* produced it; an entry without a price ({}) is a quote like any other,   *)
(* and takes the place of a price that is known.  asyncio.Lock             *)
(* serves its waiters in order, so the lock is the queue of the callers    *)
(* that hold it or wait for it, the holder first.                          *)
(***************************************************************************)
EXTENDS Integers, Sequences

CONSTANTS Callers,
          Ids,      \* the coingecko_ids of PAIRS
          TTL,      \* _CACHE_TTL_SECS
          MaxNow    \* bound on the clock

ASSUME IdsAssumption  == Ids # {}
ASSUME TTLAssumption  == TTL \in Nat \ {0}
ASSUME TimeAssumption == MaxNow \in Nat /\ MaxNow >= TTL

VARIABLES
  now,       \* time.time()
  cache,     \* _price_cache
  cacheAt,   \* _price_cache_at
  lock,      \* _price_lock: its holder and then its waiters
  pc,        \* where each caller stands
  stamp,     \* the time a caller took when it had the lock
  reply,     \* the body CoinGecko answered a caller with
  shown,     \* the prices the last call returned
  \* History.
  answered   \* the coins in the answer that set cacheAt

vars == <<now, cache, cacheAt, lock, pc, stamp, reply, shown, answered>>

Absent == -1
Quotes == [Ids -> {Absent} \cup (0 .. MaxNow)]
Empty  == [i \in Ids |-> Absent]

Goto(c, l) == pc' = [pc EXCEPT ![c] = l]

\* The end of a call that holds the lock: prices are what it returns.
Return(c, prices) ==
  /\ shown' = prices
  /\ lock' = Tail(lock)
  /\ Goto(c, "idle")
  /\ stamp' = [stamp EXCEPT ![c] = 0]
  /\ reply' = [reply EXCEPT ![c] = Empty]

\* Serve from the cache?  Fresh, and every requested coin is in it.
Fresh == now - cacheAt < TTL /\ \A i \in Ids : cache[i] # Absent

\* _price_cache.update(body)
Merge(old, body) == [i \in Ids |-> IF body[i] # Absent THEN body[i] ELSE old[i]]

-----------------------------------------------------------------------------

\* A call that finds the cache fresh awaits nothing.
Hit(c) ==
  /\ pc[c] = "idle"
  /\ Fresh
  /\ shown' = cache
  /\ UNCHANGED <<now, cache, cacheAt, lock, pc, stamp, reply, answered>>

\* The free lock is taken without an await: the check under the lock sees
\* what the check before it saw, and the request goes out.
Miss(c) ==
  /\ pc[c] = "idle"
  /\ ~Fresh
  /\ lock' = Append(lock, c)
  /\ IF lock = <<>>
       THEN Goto(c, "fetching") /\ stamp' = [stamp EXCEPT ![c] = now]
       ELSE Goto(c, "waiting") /\ UNCHANGED stamp
  /\ UNCHANGED <<now, cache, cacheAt, reply, shown, answered>>

\* Mutant: the check is not made again under the lock.
AcquireUnchecked(c) ==
  /\ pc[c] = "waiting"
  /\ c = Head(lock)
  /\ Goto(c, "fetching")
  /\ stamp' = [stamp EXCEPT ![c] = now]
  /\ UNCHANGED <<now, cache, cacheAt, lock, reply, shown, answered>>

\* A waiter gets the lock and checks again: the one before it may have
\* refreshed the cache.
Acquire(c) ==
  /\ pc[c] = "waiting"
  /\ c = Head(lock)
  /\ IF Fresh
       THEN Return(c, cache)
       ELSE /\ stamp' = [stamp EXCEPT ![c] = now]
            /\ Goto(c, "fetching")
            /\ UNCHANGED <<lock, reply, shown>>
  /\ UNCHANGED <<now, cache, cacheAt, answered>>

\* CoinGecko produces an answer for the coins S; it is on its way.
Produce(c, S) ==
  /\ pc[c] = "fetching"
  /\ reply' = [reply EXCEPT ![c] = [i \in Ids |-> IF i \in S THEN now ELSE Absent]]
  /\ Goto(c, "answered")
  /\ UNCHANGED <<now, cache, cacheAt, lock, stamp, shown, answered>>

\* Mutant: the stamp is the time at which the answer arrived.
FetchedStampsLate(c) ==
  /\ pc[c] = "answered"
  /\ cache' = Merge(cache, reply[c])
  /\ cacheAt' = now
  /\ answered' = {i \in Ids : reply[c][i] # Absent}
  /\ Return(c, Merge(cache, reply[c]))
  /\ UNCHANGED now

\* Status 200 and a body that is not empty: the cache is updated and stamped
\* with the time before the request; the lock is released.
Fetched(c) ==
  /\ pc[c] = "answered"
  /\ cache' = Merge(cache, reply[c])
  /\ cacheAt' = stamp[c]
  /\ answered' = {i \in Ids : reply[c][i] # Absent}
  /\ Return(c, Merge(cache, reply[c]))
  /\ UNCHANGED now

\* Mutant: without an answer there are no prices.
FetchFailsEmpty(c) ==
  /\ pc[c] \in {"fetching", "answered"}
  /\ Return(c, Empty)
  /\ UNCHANGED <<now, cache, cacheAt, answered>>

\* Mutant: a failure leaves the lock held.
FetchFailsLocked(c) ==
  /\ pc[c] \in {"fetching", "answered"}
  /\ shown' = cache
  /\ Goto(c, "idle")
  /\ UNCHANGED <<now, cache, cacheAt, lock, stamp, reply, answered>>

\* 429, an error, the timeout or an empty body: whatever the cache has is
\* returned, and the stamp stays.
FetchFails(c) ==
  /\ pc[c] \in {"fetching", "answered"}
  /\ Return(c, cache)
  /\ UNCHANGED <<now, cache, cacheAt, answered>>

Tick ==
  /\ now < MaxNow
  /\ now' = now + 1
  /\ UNCHANGED <<cache, cacheAt, lock, pc, stamp, reply, shown, answered>>

-----------------------------------------------------------------------------

\* _price_cache_at is 0, the clock is far ahead.
Init ==
  /\ now      = TTL
  /\ cache    = Empty
  /\ cacheAt  = 0
  /\ lock     = <<>>
  /\ pc       = [c \in Callers |-> "idle"]
  /\ stamp    = [c \in Callers |-> 0]
  /\ reply    = [c \in Callers |-> Empty]
  /\ shown    = Empty
  /\ answered = {}

Step(c) ==
  \/ Hit(c)
  \/ Miss(c)
  \/ Acquire(c)
  \/ \E S \in SUBSET Ids \ {{}} : Produce(c, S)
  \/ Fetched(c)
  \/ FetchFails(c)

Next == Tick \/ \E c \in Callers : Step(c)

Spec == Init /\ [][Next]_vars

\* The event loop resumes a caller that got the lock; the request of its
\* holder ends with an answer or with the client's timeout of 8 s.
FairSpec ==
  Spec /\ \A c \in Callers : WF_vars(Acquire(c)) /\ WF_vars(Fetched(c) \/ FetchFails(c))

-----------------------------------------------------------------------------
(* Properties.                                                             *)

TypeOK ==
  /\ now      \in TTL .. MaxNow
  /\ cache    \in Quotes
  /\ cacheAt  \in 0 .. MaxNow
  /\ lock     \in Seq(Callers)
  /\ pc       \in [Callers -> {"idle", "waiting", "fetching", "answered"}]
  /\ stamp    \in [Callers -> 0 .. MaxNow]
  /\ reply    \in [Callers -> Quotes]
  /\ shown    \in Quotes
  /\ answered \subseteq Ids

Busy(c) == pc[c] \in {"fetching", "answered"}

\* Callers that miss together share one request: there is never a second one
\* under way, and one only goes out when the cache does not serve: at least a
\* lifetime after the last answer, unless a coin is missing.
SharedFetch ==
  \A c \in Callers : Busy(c) =>
    /\ \A d \in Callers : Busy(d) => d = c
    /\ \/ stamp[c] - cacheAt >= TTL
       \/ \E i \in Ids : cache[i] = Absent

\* What a call returns is never older, coin by coin, than what a call before
\* it returned, and a coin once quoted stays quoted, whatever fails.
PricesNeverGoBack == [][\A i \in Ids : shown'[i] >= shown[i]]_vars

\* While the cache counts as fresh, the coins that its last refresh answered
\* are less than a lifetime old, however long the request took.  (The coins
\* that the refresh left out may be of any age.)
FreshIsRecent == Fresh => \A i \in answered : now - cache[i] < TTL

\* Every call returns, although requests fail and callers queue for the lock.
ScansReturn == \A c \in Callers : pc[c] # "idle" ~> pc[c] = "idle"
=============================================================================
