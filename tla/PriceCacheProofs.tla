-------------------------- MODULE PriceCacheProofs --------------------------
(***************************************************************************)
(* Proofs about PriceCache, for any callers, coins and lifetime.           *)
(*                                                                         *)
(* SharedFetch is not inductive: that a second caller cannot be busy       *)
(* follows from the queue behind the lock (Queued), and that nobody        *)
(* refreshes the cache under a request from there.  PricesNeverGoBack      *)
(* needs that an answer under way is no older than what the cache has      *)
(* (Ordered), which the lock gives as well.                                *)
(***************************************************************************)
EXTENDS PriceCache, TLAPS

USE TTLAssumption, TimeAssumption, IdsAssumption

\* The callers that are not idle are those in the queue of the lock, once
\* each, and only the first of them is past the lock.
Queued ==
  /\ \A i, j \in 1 .. Len(lock) : lock[i] = lock[j] => i = j
  /\ \A c \in Callers : pc[c] # "idle" => \E i \in 1 .. Len(lock) : lock[i] = c
  /\ \A i \in 1 .. Len(lock) : pc[lock[i]] # "idle"
  /\ \A i \in 1 .. Len(lock) : i # 1 => pc[lock[i]] = "waiting"

\* Times are in the past, answers are no older than their request and the
\* cache, and the last prices returned no newer than the cache.
Ordered ==
  /\ cacheAt <= now
  /\ \A i \in Ids : cache[i] <= now /\ shown[i] <= cache[i]
  /\ \A c \in Callers : stamp[c] <= now
  /\ \A c \in Callers, i \in Ids :
       pc[c] = "answered" /\ reply[c][i] # Absent =>
         stamp[c] <= reply[c][i] /\ cache[i] <= reply[c][i] /\ reply[c][i] <= now
  /\ \A i \in answered : cacheAt <= cache[i]

\* A request goes out only when the cache does not serve.
Needed ==
  \A c \in Callers : Busy(c) =>
    stamp[c] - cacheAt >= TTL \/ \E i \in Ids : cache[i] = Absent

IInv == TypeOK /\ Queued /\ Ordered /\ Needed

-----------------------------------------------------------------------------

\* The queue holds one caller past the lock, its head.
LEMMA HeadIsBusy ==
  ASSUME TypeOK, Queued, NEW c \in Callers, Busy(c)
  PROVE  lock # <<>> /\ c = lock[1] /\ c = Head(lock)
  <1>1. PICK i \in 1 .. Len(lock) : lock[i] = c
    BY DEF Queued, Busy
  <1>2. i = 1
    BY <1>1 DEF Queued, Busy
  <1>3. lock # <<>> /\ Head(lock) = lock[1]
    BY <1>1, <1>2 DEF TypeOK
  <1> QED BY <1>1, <1>2, <1>3

\* The coins are a lifetime old at least, or one is missing.
LEMMA StaleCache ==
  ASSUME TypeOK, ~Fresh
  PROVE  now - cacheAt >= TTL \/ \E i \in Ids : cache[i] = Absent
  BY DEF TypeOK, Fresh

\* An element of the tail of a sequence is the next one of the sequence.
LEMMA TailElement ==
  ASSUME NEW S, NEW s \in Seq(S), s # <<>>
  PROVE  /\ Tail(s) \in Seq(S)
         /\ Len(Tail(s)) = Len(s) - 1
         /\ \A i \in 1 .. Len(Tail(s)) : Tail(s)[i] = s[i + 1]
  OBVIOUS

\* What the end of a call does to the queue: the head of it becomes idle.
LEMMA ReturnQueued ==
  ASSUME TypeOK, Queued, NEW c \in Callers, lock # <<>>, c = Head(lock),
         lock' = Tail(lock), pc' = [pc EXCEPT ![c] = "idle"]
  PROVE  Queued' /\ lock' \in Seq(Callers)
  <1>1. /\ lock' \in Seq(Callers)
        /\ Len(lock') = Len(lock) - 1
        /\ \A i \in 1 .. Len(lock') : lock'[i] = lock[i + 1]
    BY TailElement DEF TypeOK
  <1>2. Len(lock) \in Nat /\ Len(lock) >= 1 /\ c = lock[1]
    BY DEF TypeOK
  <1>3. \A i \in 1 .. Len(lock') : i + 1 \in 1 .. Len(lock) /\ i + 1 # 1 /\ lock'[i] # c
    BY <1>1, <1>2 DEF Queued
  <1>4. \A i, j \in 1 .. Len(lock') : lock'[i] = lock'[j] => i = j
    <2> SUFFICES ASSUME NEW i \in 1 .. Len(lock'), NEW j \in 1 .. Len(lock'),
                        lock'[i] = lock'[j]
                 PROVE  i = j
      OBVIOUS
    <2>1. lock[i + 1] = lock[j + 1]
      BY <1>1
    <2>2. i + 1 = j + 1
      BY <2>1, <1>3 DEF Queued
    <2> QED BY <2>2
  <1>5. \A d \in Callers : pc'[d] # "idle" => \E i \in 1 .. Len(lock') : lock'[i] = d
    <2> SUFFICES ASSUME NEW d \in Callers, pc'[d] # "idle"
                 PROVE  \E i \in 1 .. Len(lock') : lock'[i] = d
      OBVIOUS
    <2>1. d # c /\ pc[d] # "idle"
      BY DEF TypeOK
    <2>2. PICK k \in 1 .. Len(lock) : lock[k] = d
      BY <2>1 DEF Queued
    <2>3. k # 1
      BY <2>1, <2>2, <1>2
    <2>4. k - 1 \in 1 .. Len(lock') /\ lock'[k - 1] = lock[k]
      BY <2>3, <1>1, <1>2
    <2> QED BY <2>2, <2>4
  <1>6. \A i \in 1 .. Len(lock') : pc'[lock'[i]] = "waiting"
    <2> SUFFICES ASSUME NEW i \in 1 .. Len(lock')
                 PROVE  pc'[lock'[i]] = "waiting"
      OBVIOUS
    <2>1. lock'[i] \in Callers /\ lock'[i] # c
      BY <1>1, <1>3
    <2>2. pc[lock'[i]] = "waiting"
      BY <1>1, <1>3 DEF Queued
    <2> QED BY <2>1, <2>2 DEF TypeOK
  <1> QED BY <1>1, <1>4, <1>5, <1>6 DEF Queued

\* Quotes are integers.
LEMMA QuotesAreInt ==
  ASSUME TypeOK
  PROVE  /\ now \in Int /\ cacheAt \in Int
         /\ \A i \in Ids : cache[i] \in Int /\ shown[i] \in Int
         /\ \A c \in Callers : stamp[c] \in Int /\ \A i \in Ids : reply[c][i] \in Int
  <1>1. Quotes = [Ids -> {-1} \cup (0 .. MaxNow)]
    BY DEF Quotes, Absent
  <1>2. \A q \in Quotes : \A i \in Ids : q[i] \in Int
    BY <1>1
  <1>3. now \in Int /\ cacheAt \in Int /\ \A c \in Callers : stamp[c] \in Int
    BY DEF TypeOK
  <1>4. cache \in Quotes /\ shown \in Quotes /\ \A c \in Callers : reply[c] \in Quotes
    BY DEF TypeOK
  <1> QED BY <1>2, <1>3, <1>4

\* Order is kept by a step that leaves the cache alone and moves no caller to
\* "answered".
LEMMA KeepsOrder ==
  ASSUME TypeOK, Ordered, UNCHANGED <<now, cache, cacheAt, answered>>,
         shown' = shown \/ shown' = cache,
         \A d \in Callers : stamp'[d] = stamp[d] \/ stamp'[d] = 0 \/ stamp'[d] = now,
         \A d \in Callers : pc'[d] = "answered" =>
           pc[d] = "answered" /\ stamp'[d] = stamp[d] /\ reply'[d] = reply[d]
  PROVE  Ordered'
  <1>1. cacheAt' <= now'
    BY DEF Ordered
  <1>2. \A i \in Ids : cache'[i] <= now' /\ shown'[i] <= cache'[i]
    BY QuotesAreInt DEF Ordered
  <1>3. \A d \in Callers : stamp'[d] <= now'
    BY DEF Ordered, TypeOK
  <1>4. \A d \in Callers, i \in Ids :
          pc'[d] = "answered" /\ reply'[d][i] # Absent =>
            stamp'[d] <= reply'[d][i] /\ cache'[i] <= reply'[d][i] /\ reply'[d][i] <= now'
    BY DEF Ordered
  <1>5. \A i \in answered' : cacheAt' <= cache'[i]
    BY DEF Ordered
  <1> QED BY <1>1, <1>2, <1>3, <1>4, <1>5 DEF Ordered, Absent

-----------------------------------------------------------------------------
(* One lemma per action.                                                   *)

LEMMA HitPreserves ==
  ASSUME IInv, NEW c \in Callers, Hit(c)
  PROVE  IInv'
  <1> USE DEF IInv, Hit
  <1>1. TypeOK'
    BY DEF TypeOK
  <1>2. Queued' /\ Needed'
    BY DEF Queued, Needed, Busy
  <1>3. Ordered'
    BY DEF Ordered, TypeOK, Quotes, Absent
  <1> QED BY <1>1, <1>2, <1>3

LEMMA MissPreserves ==
  ASSUME IInv, NEW c \in Callers, Miss(c)
  PROVE  IInv'
  <1> USE DEF IInv
  <1>1. TypeOK'
    <2>1. lock' \in Seq(Callers)
      BY DEF TypeOK, Miss
    <2>2. /\ pc' \in [Callers -> {"idle", "waiting", "fetching", "answered"}]
          /\ stamp' \in [Callers -> 0 .. MaxNow]
      <3>1. now \in 0 .. MaxNow
        BY DEF TypeOK
      <3> QED BY <3>1 DEF TypeOK, Miss, Goto
    <2> QED BY <2>1, <2>2 DEF TypeOK, Miss
  <1>2. /\ Len(lock') = Len(lock) + 1
        /\ \A i \in 1 .. Len(lock) : lock'[i] = lock[i]
        /\ lock'[Len(lock) + 1] = c
    BY DEF Miss, TypeOK
  <1>3. Len(lock) \in Nat /\ pc' \in [Callers -> {"idle", "waiting", "fetching", "answered"}]
    BY <1>1 DEF TypeOK
  <1>4. \A i \in 1 .. Len(lock) : lock[i] # c
    BY DEF Queued, Miss
  <1>5. pc'[c] \in {"waiting", "fetching"} /\ (lock # <<>> => pc'[c] = "waiting")
    BY DEF Miss, Goto, TypeOK
  <1>6. \A d \in Callers : d # c => pc'[d] = pc[d]
    BY DEF Miss, Goto, TypeOK
  <1>7. Queued'
    <2>1. \A i, j \in 1 .. Len(lock') : lock'[i] = lock'[j] => i = j
      BY <1>2, <1>3, <1>4 DEF Queued
    <2>2. \A d \in Callers : pc'[d] # "idle" => \E i \in 1 .. Len(lock') : lock'[i] = d
      <3> SUFFICES ASSUME NEW d \in Callers, pc'[d] # "idle"
                   PROVE  \E i \in 1 .. Len(lock') : lock'[i] = d
        OBVIOUS
      <3>1. CASE d = c
        BY <3>1, <1>2, <1>3
      <3>2. CASE d # c
        <4>1. PICK k \in 1 .. Len(lock) : lock[k] = d
          BY <3>2, <1>6 DEF Queued
        <4> QED BY <4>1, <1>2, <1>3
      <3> QED BY <3>1, <3>2
    <2>3. \A i \in 1 .. Len(lock') : pc'[lock'[i]] # "idle"
      <3> SUFFICES ASSUME NEW i \in 1 .. Len(lock') PROVE pc'[lock'[i]] # "idle"
        OBVIOUS
      <3>1. CASE i = Len(lock) + 1
        BY <3>1, <1>2, <1>5
      <3>2. CASE i \in 1 .. Len(lock)
        <4>1. lock'[i] = lock[i] /\ lock[i] \in Callers /\ lock[i] # c
          BY <3>2, <1>2, <1>4 DEF TypeOK
        <4> QED BY <4>1, <3>2, <1>6 DEF Queued
      <3> QED BY <3>1, <3>2, <1>2, <1>3
    <2>4. \A i \in 1 .. Len(lock') : i # 1 => pc'[lock'[i]] = "waiting"
      <3> SUFFICES ASSUME NEW i \in 1 .. Len(lock'), i # 1 PROVE pc'[lock'[i]] = "waiting"
        OBVIOUS
      <3>1. CASE i = Len(lock) + 1
        <4>1. lock # <<>>
          BY <3>1
        <4> QED BY <3>1, <4>1, <1>2, <1>5
      <3>2. CASE i \in 1 .. Len(lock)
        <4>1. lock'[i] = lock[i] /\ lock[i] \in Callers /\ lock[i] # c
          BY <3>2, <1>2, <1>4 DEF TypeOK
        <4> QED BY <4>1, <3>2, <1>6 DEF Queued
      <3> QED BY <3>1, <3>2, <1>2, <1>3
    <2> QED BY <2>1, <2>2, <2>3, <2>4 DEF Queued
  <1>8. Ordered'
    <2>1. UNCHANGED <<now, cache, cacheAt, answered, shown, reply>>
      BY DEF Miss
    <2>2. \A d \in Callers : stamp'[d] = stamp[d] \/ stamp'[d] = now
      BY DEF Miss, TypeOK
    <2>3. \A d \in Callers : pc'[d] = "answered" => d # c /\ pc[d] = "answered"
      BY <1>5, <1>6
    <2>4. \A d \in Callers : d # c => stamp'[d] = stamp[d]
      BY DEF Miss, TypeOK
    <2> QED BY <2>1, <2>2, <2>3, <2>4, KeepsOrder
  <1>9. Needed'
    BY StaleCache DEF Needed, Busy, TypeOK, Miss, Goto
  <1> QED BY <1>1, <1>7, <1>8, <1>9

LEMMA AcquirePreserves ==
  ASSUME IInv, NEW c \in Callers, Acquire(c)
  PROVE  IInv'
  <1> USE DEF IInv
  <1>0. lock # <<>> /\ c = lock[1]
    BY DEF Acquire, Queued, TypeOK
  <1>1. CASE Fresh
    <2>1. Return(c, cache) /\ UNCHANGED <<now, cache, cacheAt, answered>>
      BY <1>1 DEF Acquire
    <2>2. Queued' /\ lock' \in Seq(Callers)
      BY <2>1, <1>0, ReturnQueued DEF Return, Goto, Acquire
    <2>3. TypeOK'
      BY <2>1, <2>2 DEF TypeOK, Return, Goto, Quotes, Empty, Absent
    <2>4. Ordered'
      BY <2>1, KeepsOrder DEF TypeOK, Return, Goto
    <2>5. Needed'
      BY <2>1 DEF Needed, Busy, TypeOK, Return, Goto
    <2> QED BY <2>2, <2>3, <2>4, <2>5
  <1>2. CASE ~Fresh
    <2>1. /\ stamp' = [stamp EXCEPT ![c] = now]
          /\ pc' = [pc EXCEPT ![c] = "fetching"]
          /\ UNCHANGED <<lock, reply, shown, now, cache, cacheAt, answered>>
      BY <1>2 DEF Acquire, Goto
    <2>2. TypeOK'
      BY <2>1 DEF TypeOK
    <2>3. Queued'
      BY <2>1, <1>0 DEF Queued, TypeOK
    <2>4. Ordered'
      BY <2>1 DEF Ordered, TypeOK
    <2>5. Needed'
      BY <2>1, <1>2, StaleCache DEF Needed, Busy, TypeOK
    <2> QED BY <2>2, <2>3, <2>4, <2>5
  <1> QED BY <1>1, <1>2

LEMMA ProducePreserves ==
  ASSUME IInv, NEW c \in Callers, NEW S \in SUBSET Ids, Produce(c, S)
  PROVE  IInv'
  <1> USE DEF IInv
  <1>1. TypeOK'
    BY DEF TypeOK, Produce, Goto, Quotes, Absent
  <1>2. Queued'
    <2>1. lock # <<>> /\ c = lock[1]
      BY HeadIsBusy DEF Produce, Busy
    <2> QED BY <2>1 DEF Queued, TypeOK, Produce, Goto
  <1>3. Ordered'
    BY DEF Ordered, TypeOK, Produce, Goto, Quotes, Absent
  <1>4. Needed'
    BY DEF Needed, Busy, TypeOK, Produce, Goto
  <1> QED BY <1>1, <1>2, <1>3, <1>4

\* A refresh only moves coins forward.
LEMMA MergeGrows ==
  ASSUME IInv, NEW c \in Callers, pc[c] = "answered"
  PROVE  /\ Merge(cache, reply[c]) \in Quotes
         /\ \A i \in Ids : /\ cache[i] <= Merge(cache, reply[c])[i]
                           /\ Merge(cache, reply[c])[i] <= now
                           /\ reply[c][i] # Absent =>
                                stamp[c] <= Merge(cache, reply[c])[i]
  <1>1. cache \in Quotes /\ reply[c] \in Quotes
    BY DEF IInv, TypeOK
  <1>2. Merge(cache, reply[c]) \in Quotes
    BY <1>1 DEF Merge, Quotes
  <1>3. ASSUME NEW i \in Ids
        PROVE  /\ cache[i] <= Merge(cache, reply[c])[i]
               /\ Merge(cache, reply[c])[i] <= now
               /\ reply[c][i] # Absent => stamp[c] <= Merge(cache, reply[c])[i]
    <2>1. cache[i] <= now /\ cache[i] \in Int /\ (reply[c][i] # Absent =>
             stamp[c] <= reply[c][i] /\ cache[i] <= reply[c][i] /\ reply[c][i] <= now)
      BY QuotesAreInt DEF IInv, Ordered
    <2>2. Merge(cache, reply[c])[i] = IF reply[c][i] # Absent THEN reply[c][i] ELSE cache[i]
      BY DEF Merge
    <2> QED BY <2>1, <2>2
  <1> QED BY <1>2, <1>3

LEMMA FetchedPreserves ==
  ASSUME IInv, NEW c \in Callers, Fetched(c)
  PROVE  IInv'
  <1> USE DEF IInv
  <1> DEFINE new == Merge(cache, reply[c])
  <1>1. /\ Return(c, new) /\ cache' = new /\ cacheAt' = stamp[c] /\ now' = now
        /\ answered' = {i \in Ids : reply[c][i] # Absent} /\ pc[c] = "answered"
    BY DEF Fetched
  <1>2. new \in Quotes /\ \A i \in Ids : /\ cache[i] <= new[i] /\ new[i] <= now
                                         /\ reply[c][i] # Absent => stamp[c] <= new[i]
    BY <1>1, MergeGrows
  <1> HIDE DEF new
  <1>3. lock # <<>> /\ c = Head(lock) /\ \A d \in Callers : d # c => ~Busy(d)
    BY <1>1, HeadIsBusy DEF Busy
  <1>4. Queued' /\ lock' \in Seq(Callers)
    BY <1>1, <1>3, ReturnQueued DEF Return, Goto
  <1>5. TypeOK'
    BY <1>1, <1>2, <1>4 DEF TypeOK, Return, Goto, Quotes, Empty, Absent
  <1>6. \A d \in Callers : pc'[d] \in {"idle", "waiting"}
    BY <1>1, <1>3, <1>5 DEF Return, Goto, TypeOK, Busy
  <1>7. Ordered'
    <2>1. shown' = new /\ cache' = new /\ now' = now /\ cacheAt' = stamp[c]
      BY <1>1 DEF Return
    <2>2. cacheAt' <= now'
      BY <2>1 DEF Ordered
    <2>3. \A i \in Ids : cache'[i] <= now' /\ shown'[i] <= cache'[i]
      <3>1. \A i \in Ids : new[i] \in Int
        BY <1>2 DEF Quotes, Absent
      <3> QED BY <3>1, <2>1, <1>2
    <2>4. \A d \in Callers : stamp'[d] <= now'
      BY <1>1, <2>1 DEF Return, TypeOK, Ordered
    <2>5. \A i \in answered' : cacheAt' <= cache'[i]
      BY <1>1, <2>1, <1>2
    <2> QED BY <2>2, <2>3, <2>4, <2>5, <1>6 DEF Ordered
  <1>8. Needed'
    BY <1>6 DEF Needed, Busy
  <1> QED BY <1>4, <1>5, <1>7, <1>8

LEMMA FetchFailsPreserves ==
  ASSUME IInv, NEW c \in Callers, FetchFails(c)
  PROVE  IInv'
  <1> USE DEF IInv
  <1>1. Return(c, cache) /\ UNCHANGED <<now, cache, cacheAt, answered>> /\ Busy(c)
    BY DEF FetchFails, Busy
  <1>2. lock # <<>> /\ c = Head(lock)
    BY <1>1, HeadIsBusy
  <1>3. Queued' /\ lock' \in Seq(Callers)
    BY <1>1, <1>2, ReturnQueued DEF Return, Goto
  <1>4. TypeOK'
    BY <1>1, <1>3 DEF TypeOK, Return, Goto, Quotes, Empty, Absent
  <1>5. Ordered'
    BY <1>1, KeepsOrder DEF TypeOK, Return, Goto
  <1>6. Needed'
    BY <1>1 DEF Needed, Busy, TypeOK, Return, Goto
  <1> QED BY <1>3, <1>4, <1>5, <1>6

LEMMA TickPreserves ==
  ASSUME IInv, Tick
  PROVE  IInv'
  <1> USE DEF IInv, Tick
  <1>1. TypeOK'
    BY DEF TypeOK
  <1>2. Queued' /\ Needed'
    BY DEF Queued, Needed, Busy
  <1>3. Ordered'
    BY DEF Ordered, TypeOK, Quotes, Absent
  <1> QED BY <1>1, <1>2, <1>3

-----------------------------------------------------------------------------

LEMMA InitIInv == Init => IInv
  BY DEF Init, IInv, TypeOK, Queued, Ordered, Needed, Busy, Quotes, Empty, Absent

LEMMA NextIInv == IInv /\ [Next]_vars => IInv'
  <1> SUFFICES ASSUME IInv, [Next]_vars PROVE IInv'
    OBVIOUS
  <1>1. CASE Tick
    BY <1>1, TickPreserves
  <1>2. ASSUME NEW c \in Callers, Step(c) PROVE IInv'
    BY <1>2, HitPreserves, MissPreserves, AcquirePreserves, ProducePreserves,
       FetchedPreserves, FetchFailsPreserves DEF Step
  <1>3. CASE UNCHANGED vars
    BY <1>3 DEF vars, IInv, TypeOK, Queued, Ordered, Needed, Busy
  <1> QED BY <1>1, <1>2, <1>3 DEF Next

\* The inductive invariant of the price cache.
THEOREM CacheInvariant == Spec => []IInv
  BY InitIInv, NextIInv, PTL DEF Spec

\* The cache, the lock and the callers keep their types, for any callers,
\* coins and lifetime.
THEOREM TypeCorrect == Spec => []TypeOK
  <1>1. IInv => TypeOK
    BY DEF IInv
  <1> QED BY <1>1, CacheInvariant, PTL

\* _fetch_prices: there is never a second request to CoinGecko under way, and
\* one only goes out when the cache does not serve.
THEOREM SharedFetchSafe == Spec => []SharedFetch
  <1>1. IInv => SharedFetch
    <2> SUFFICES ASSUME IInv, NEW c \in Callers, Busy(c)
                 PROVE  /\ \A d \in Callers : Busy(d) => d = c
                        /\ stamp[c] - cacheAt >= TTL \/ \E i \in Ids : cache[i] = Absent
      BY DEF SharedFetch
    <2>1. \A d \in Callers : Busy(d) => d = c
      BY HeadIsBusy DEF IInv
    <2> QED BY <2>1 DEF IInv, Needed
  <1> QED BY <1>1, CacheInvariant, PTL

\* _price_cache_at: a coin that the last refresh answered is less than a
\* lifetime old while the cache counts as fresh.
THEOREM FreshSafe == Spec => []FreshIsRecent
  <1>1. IInv => FreshIsRecent
    BY DEF IInv, FreshIsRecent, Fresh, Ordered, TypeOK, Quotes, Absent
  <1> QED BY <1>1, CacheInvariant, PTL

\* The prices that calls return, the fallback after a failure included, are
\* never older than those returned before.
THEOREM NeverBackSafe == Spec => PricesNeverGoBack
  <1>1. IInv /\ [Next]_vars => [\A i \in Ids : shown'[i] >= shown[i]]_vars
    <2> SUFFICES ASSUME IInv, Next PROVE \A i \in Ids : shown'[i] >= shown[i]
      OBVIOUS
    <2> USE DEF IInv
    <2>1. \A i \in Ids : shown[i] <= cache[i] /\ shown[i] \in Int /\ cache[i] \in Int
      BY DEF Ordered, TypeOK, Quotes, Absent
    <2>2. CASE Tick
      BY <2>1, <2>2 DEF Tick
    <2>3. ASSUME NEW c \in Callers, Hit(c) \/ FetchFails(c)
          PROVE  \A i \in Ids : shown'[i] >= shown[i]
      BY <2>1, <2>3 DEF Hit, FetchFails, Return
    <2>4. ASSUME NEW c \in Callers, Miss(c) \/ \E S \in SUBSET Ids : Produce(c, S)
          PROVE  \A i \in Ids : shown'[i] >= shown[i]
      BY <2>1, <2>4 DEF Miss, Produce
    <2>5. ASSUME NEW c \in Callers, Acquire(c)
          PROVE  \A i \in Ids : shown'[i] >= shown[i]
      BY <2>1, <2>5 DEF Acquire, Return
    <2>6. ASSUME NEW c \in Callers, Fetched(c)
          PROVE  \A i \in Ids : shown'[i] >= shown[i]
      <3>1. /\ shown' = Merge(cache, reply[c]) /\ Merge(cache, reply[c]) \in Quotes
            /\ \A i \in Ids : cache[i] <= Merge(cache, reply[c])[i]
        BY <2>6, MergeGrows DEF Fetched, Return
      <3>2. shown' \in Quotes /\ \A i \in Ids : cache[i] <= shown'[i]
        BY <3>1
      <3> QED BY <3>2, <2>1 DEF Quotes, Absent
    <2> QED BY <2>2, <2>3, <2>4, <2>5, <2>6 DEF Next, Step
  <1> QED BY <1>1, CacheInvariant, PTL DEF Spec, PricesNeverGoBack

-----------------------------------------------------------------------------
(* How long a call can go on.                                              *)

\* The place of a caller in the queue of the lock.
Place(c) == CHOOSE i \in 1 .. Len(lock) : lock[i] = c

\* How far the first in the queue has come: the check, the request, the answer.
Phase(c) == CASE pc[c] = "fetching" -> 1 [] pc[c] = "answered" -> 2 [] OTHER -> 0

\* What a call can still wait for: three steps of everyone up to its own place,
\* but for those that the first in the queue has taken.
Ahead(c) == IF pc[c] = "idle" THEN 0 ELSE 3 * Place(c) - Phase(lock[1])

\* A step of a caller that is not idle.
Moves(d) ==
  \/ Acquire(d)
  \/ \E S \in SUBSET Ids \ {{}} : Produce(d, S)
  \/ Fetched(d)
  \/ FetchFails(d)

\* A step of whoever holds the lock, a failing request included, brings every
\* waiting call nearer to its end, and nothing takes one further away: not
\* those that come later, and not the cache that becomes stale again.
CallsGoOn ==
  [][\A c \in Callers : pc[c] # "idle" =>
       /\ (\E d \in Callers : Moves(d)) => Ahead(c)' < Ahead(c)
       /\ Ahead(c)' <= Ahead(c)]_vars

\* A caller is in the queue at one place only, and all that are not idle are.
AheadTable ==
  \A i \in 1 .. Len(lock) : Place(lock[i]) = i /\ Ahead(lock[i]) = 3 * i - Phase(lock[1])

LEMMA AheadIs == TypeOK /\ Queued => AheadTable
  <1> SUFFICES ASSUME TypeOK, Queued, NEW i \in 1 .. Len(lock)
               PROVE  Place(lock[i]) = i /\ Ahead(lock[i]) = 3 * i - Phase(lock[1])
    BY DEF AheadTable
  <1>1. Place(lock[i]) \in 1 .. Len(lock) /\ lock[Place(lock[i])] = lock[i]
    BY DEF Place
  <1>2. Place(lock[i]) = i
    BY <1>1 DEF Queued
  <1> QED BY <1>2 DEF Ahead, Queued

\* Only the first in the queue moves, and it becomes idle or enters its next
\* phase.
LEMMA HeadMoves ==
  ASSUME IInv, NEW d \in Callers, Moves(d)
  PROVE  /\ lock # <<>> /\ d = Head(lock) /\ d = lock[1]
         /\ \/ lock' = Tail(lock) /\ pc' = [pc EXCEPT ![d] = "idle"]
            \/ /\ lock' = lock
               /\ \/ pc[d] = "waiting" /\ pc' = [pc EXCEPT ![d] = "fetching"]
                  \/ pc[d] = "fetching" /\ pc' = [pc EXCEPT ![d] = "answered"]
  <1> USE DEF IInv
  <1>1. CASE Acquire(d)
    <2>1. PICK i \in 1 .. Len(lock) : lock[i] = d
      BY <1>1 DEF Acquire, Queued
    <2>2. lock # <<>> /\ d = Head(lock) /\ d = lock[1]
      BY <1>1, <2>1 DEF Acquire, TypeOK
    <2>3. \/ lock' = Tail(lock) /\ pc' = [pc EXCEPT ![d] = "idle"]
          \/ lock' = lock /\ pc[d] = "waiting" /\ pc' = [pc EXCEPT ![d] = "fetching"]
      BY <1>1 DEF Acquire, Return, Goto
    <2> QED BY <2>2, <2>3
  <1>2. CASE \E S \in SUBSET Ids \ {{}} : Produce(d, S)
    <2>1. pc[d] = "fetching" /\ lock' = lock /\ pc' = [pc EXCEPT ![d] = "answered"]
      BY <1>2 DEF Produce, Goto
    <2> QED BY <2>1, HeadIsBusy DEF Busy
  <1>3. CASE Fetched(d) \/ FetchFails(d)
    <2>1. /\ pc[d] \in {"fetching", "answered"}
          /\ lock' = Tail(lock) /\ pc' = [pc EXCEPT ![d] = "idle"]
      BY <1>3 DEF Fetched, FetchFails, Return, Goto
    <2> QED BY <2>1, HeadIsBusy DEF Busy
  <1> QED BY <1>1, <1>2, <1>3 DEF Moves

\* A step of the first in the queue brings every call in it nearer to its end.
LEMMA MovesNearer ==
  ASSUME IInv, IInv', NEW d \in Callers, Moves(d), NEW c \in Callers, pc[c] # "idle"
  PROVE  Ahead(c)' < Ahead(c)
  <1> USE DEF IInv
  <1>1. /\ lock # <<>> /\ d = Head(lock) /\ d = lock[1]
        /\ \/ lock' = Tail(lock) /\ pc' = [pc EXCEPT ![d] = "idle"]
           \/ /\ lock' = lock
              /\ \/ pc[d] = "waiting" /\ pc' = [pc EXCEPT ![d] = "fetching"]
                 \/ pc[d] = "fetching" /\ pc' = [pc EXCEPT ![d] = "answered"]
    BY HeadMoves
  <1>2. PICK i \in 1 .. Len(lock) : lock[i] = c
    BY DEF Queued
  <1>3. AheadTable /\ AheadTable'
    <2>1. (TypeOK /\ Queued)' => AheadTable'
      BY AheadIs, PTL
    <2> QED BY <2>1, AheadIs
  <1>4. Len(lock) \in Nat /\ i \in Int /\ i >= 1 /\ Len(lock') \in Nat
    BY DEF TypeOK
  <1>5. Ahead(c) = 3 * i - Phase(d)
    BY <1>1, <1>2, <1>3 DEF AheadTable
  <1>6. Phase(d) \in 0 .. 2
    BY DEF Phase
  <1>7. CASE lock' = Tail(lock) /\ pc' = [pc EXCEPT ![d] = "idle"]
    <2>1. CASE c = d
      <3>1. Ahead(c)' = 0
        BY <1>7, <2>1 DEF Ahead, TypeOK
      <3> QED BY <1>4, <1>5, <1>6, <3>1
    <2>2. CASE c # d
      <3>1. /\ Len(lock') = Len(lock) - 1
            /\ \A j \in 1 .. Len(lock') : lock'[j] = lock[j + 1]
        BY <1>1, <1>7, TailElement DEF TypeOK
      <3>2. i >= 2
        BY <1>1, <1>2, <1>4, <2>2
      <3>3. i - 1 \in 1 .. Len(lock') /\ (i - 1) + 1 = i
        BY <1>2, <1>4, <3>1, <3>2
      <3>4. lock'[i - 1] = c
        BY <1>2, <3>1, <3>3
      <3>5. Ahead(c)' = 3 * (i - 1) - Phase(lock[1])'
        BY <1>3, <3>3, <3>4 DEF AheadTable
      <3>6. Phase(lock[1])' \in 0 .. 2
        BY DEF Phase
      <3> QED BY <1>4, <1>5, <1>6, <3>5, <3>6
    <2> QED BY <2>1, <2>2
  <1>8. CASE lock' = lock /\ pc[d] = "waiting" /\ pc' = [pc EXCEPT ![d] = "fetching"]
    <2>1. Phase(d) = 0 /\ Phase(d)' = 1
      BY <1>8 DEF Phase, TypeOK
    <2>2. Ahead(c)' = 3 * i - Phase(d)'
      BY <1>1, <1>2, <1>3, <1>8 DEF AheadTable, Phase
    <2> QED BY <1>4, <1>5, <2>1, <2>2
  <1>9. CASE lock' = lock /\ pc[d] = "fetching" /\ pc' = [pc EXCEPT ![d] = "answered"]
    <2>1. Phase(d) = 1 /\ Phase(d)' = 2
      BY <1>9 DEF Phase, TypeOK
    <2>2. Ahead(c)' = 3 * i - Phase(d)'
      BY <1>1, <1>2, <1>3, <1>9 DEF AheadTable, Phase
    <2> QED BY <1>4, <1>5, <2>1, <2>2
  <1> QED BY <1>1, <1>7, <1>8, <1>9

\* A call that misses goes behind those in the queue.
LEMMA MissKeepsOthers ==
  ASSUME IInv, IInv', NEW d \in Callers, Miss(d), NEW c \in Callers, pc[c] # "idle"
  PROVE  Ahead(c)' = Ahead(c)
  <1> USE DEF IInv
  <1>1. /\ c # d /\ lock' = Append(lock, d) /\ pc[d] = "idle"
        /\ \A b \in Callers : b # d => pc'[b] = pc[b]
    BY DEF Miss, Goto, TypeOK
  <1>2. PICK i \in 1 .. Len(lock) : lock[i] = c
    BY DEF Queued
  <1>3. AheadTable /\ AheadTable'
    <2>1. (TypeOK /\ Queued)' => AheadTable'
      BY AheadIs, PTL
    <2> QED BY <2>1, AheadIs
  <1>4. lock \in Seq(Callers) /\ Len(lock) \in Nat /\ 1 \in 1 .. Len(lock)
    BY <1>2 DEF TypeOK
  <1>5. Len(lock') = Len(lock) + 1 /\ \A j \in 1 .. Len(lock) : lock'[j] = lock[j]
    BY <1>1, <1>4
  <1>6. i \in 1 .. Len(lock') /\ lock'[i] = c /\ lock'[1] = lock[1]
    BY <1>2, <1>4, <1>5
  <1>7. lock[1] # d /\ lock[1] \in Callers
    BY <1>1, <1>4 DEF Queued
  <1>8. Phase(lock[1])' = Phase(lock[1])
    BY <1>1, <1>6, <1>7 DEF Phase
  <1>9. Ahead(c) = 3 * i - Phase(lock[1])
    BY <1>2, <1>3 DEF AheadTable
  <1>10. Ahead(c)' = 3 * i - Phase(lock[1])'
    BY <1>3, <1>6 DEF AheadTable
  <1> QED BY <1>8, <1>9, <1>10

\* A call of _fetch_prices returns after three steps at most of each caller up
\* to its place in the queue: nobody overtakes, and who fails leaves the lock.
\* With the fairness of FairSpec, that is why ScansReturn holds.
THEOREM CallsSafe == Spec => CallsGoOn
  <1>1. ASSUME IInv, IInv', Next
        PROVE  \A c \in Callers : pc[c] # "idle" =>
                 /\ (\E d \in Callers : Moves(d)) => Ahead(c)' < Ahead(c)
                 /\ Ahead(c)' <= Ahead(c)
    <2> SUFFICES ASSUME NEW c \in Callers, pc[c] # "idle"
                 PROVE  /\ (\E d \in Callers : Moves(d)) => Ahead(c)' < Ahead(c)
                        /\ Ahead(c)' <= Ahead(c)
      OBVIOUS
    <2>1. (\E d \in Callers : Moves(d)) => Ahead(c)' < Ahead(c)
      BY <1>1, MovesNearer
    <2>2. Ahead(c) \in Int
      <3>1. PICK i \in 1 .. Len(lock) : lock[i] = c
        BY <1>1 DEF IInv, Queued
      <3>2. Ahead(c) = 3 * i - Phase(lock[1])
        BY <1>1, <3>1, AheadIs DEF AheadTable, IInv
      <3>3. i \in Int /\ Phase(lock[1]) \in Int
        BY <1>1 DEF IInv, TypeOK, Phase
      <3> QED BY <3>2, <3>3
    <2>3. Ahead(c)' \in Int
      <3>1. (TypeOK /\ Queued)' => AheadTable'
        BY AheadIs, PTL
      <3>2. CASE pc'[c] = "idle"
        BY <3>2 DEF Ahead
      <3>3. CASE pc'[c] # "idle"
        <4>1. PICK i \in 1 .. Len(lock') : lock'[i] = c
          BY <1>1, <3>3 DEF IInv, Queued
        <4>2. Ahead(c)' = 3 * i - Phase(lock[1])'
          BY <1>1, <3>1, <4>1 DEF AheadTable, IInv
        <4>3. i \in Int /\ Phase(lock[1])' \in Int
          BY <1>1 DEF IInv, TypeOK, Phase
        <4> QED BY <4>2, <4>3
      <3> QED BY <3>2, <3>3
    <2>4. Ahead(c)' < Ahead(c) \/ Ahead(c)' = Ahead(c)
      <3>1. CASE Tick \/ \E d \in Callers : Hit(d)
        <4>1. UNCHANGED <<pc, lock>>
          BY <3>1 DEF Tick, Hit
        <4> QED BY <4>1 DEF Ahead, Place, Phase
      <3>2. CASE \E d \in Callers : Miss(d)
        BY <1>1, <3>2, MissKeepsOthers
      <3>3. CASE \E d \in Callers : Moves(d)
        BY <2>1, <3>3
      <3> QED BY <1>1, <3>1, <3>2, <3>3 DEF Next, Step, Moves
    <2> QED BY <2>1, <2>2, <2>3, <2>4
  <1> QED BY <1>1, CacheInvariant, PTL DEF Spec, CallsGoOn
=============================================================================
