---------------------- MODULE CycleAnnouncementsProofs ----------------------
(***************************************************************************)
(* Proofs about CycleAnnouncements, for any cycles, readers and limits.    *)
(*                                                                         *)
(* The invariant has a part for the ENS cache (a fetch under way is of a   *)
(* record without an update, or the update knows of it), one for the queue *)
(* behind the registry's lock, and one that ties the events to the step    *)
(* their cycle has reached.                                                *)
(***************************************************************************)
EXTENDS CycleAnnouncements, TLAPS

USE KeysAssumption, RecordsAssumption, ValuesAssumption, RolesAssumption,
    AttemptsAssumption, EventsAssumption

\* A record being fetched has had no update, or the fetch is known to race it.
FetchesRace ==
  \A x \in Readers : fetch[x] \in Records =>
    latest[fetch[x]] = None \/ fetch[x] \in raced

EnsType ==
  /\ text   \in [Records -> Values]
  /\ resolved \subseteq Roles
  /\ fetch  \in [Readers -> Fetches \cup {NoFetch}]
  /\ latest \in [Records -> Writers \cup {None}]
  /\ raced  \subseteq Records

EnsInv == EnsType /\ CacheIsCurrent /\ FetchesRace

BusType ==
  /\ registry \in BOOLEAN
  /\ lock   \in Seq(Senders)
  /\ bus    \in [Senders -> {"idle", "waiting", "bootstrapping", "posting"}]
  /\ kind   \in [Senders -> 1 .. 3]
  /\ tries  \in [Senders -> 0 .. MaxAttempts - 1]
  /\ made   \in Nat
  /\ sent   \in Nat
  /\ events \in Seq([sender : Senders, kind : 1 .. 3, n : Nat])

\* Those that wait for the lock or bootstrap are in its queue, once each, and
\* only the first may bootstrap.
Queued ==
  /\ \A i, j \in 1 .. Len(lock) : lock[i] = lock[j] => i = j
  /\ \A c \in Senders : bus[c] \in {"waiting", "bootstrapping"} =>
       \E i \in 1 .. Len(lock) : lock[i] = c
  /\ \A i \in 1 .. Len(lock) : bus[lock[i]] \in {"waiting", "bootstrapping"}
  /\ \A i \in 1 .. Len(lock) : i # 1 => bus[lock[i]] = "waiting"

\* One registry was made if there is one, and then nobody makes another.
Made ==
  /\ made = IF registry THEN 1 ELSE 0
  /\ registry => \A c \in Senders : bus[c] # "bootstrapping"

BusInv == BusType /\ Queued /\ Made

\* The messages a cycle has sent or tried to send.
Stage(l) == CASE l = "scanned" -> 0 [] l = "score" -> 1
              [] l \in {"hold", "trade"} -> 2 [] OTHER -> 3

\* Events are of steps that the cycle has taken, and not of the one it takes.
EventsAreOld ==
  /\ \A c \in Senders : bus[c] # "idle" => kind[c] = Stage(pc[c])
  /\ \A i \in 1 .. Len(events) :
       LET c == events[i].sender
       IN  /\ events[i].kind <= Stage(pc[c])
           /\ bus[c] # "idle" => events[i].kind < kind[c]

PcType == pc \in [Senders -> {"scanned", "score", "hold", "trade", "commit", "done"}]

IInv == EnsInv /\ BusInv /\ PcType /\ EventsFollowSends /\ EventsAreOld

-----------------------------------------------------------------------------
(* The ENS cache.                                                          *)

\* The next record of a profile to be fetched is one that the cache lacks.
LEMMA NextFetchMisses ==
  ASSUME NEW r \in Roles, NEW k \in 1 .. 3, NEW t \in [Records -> Values]
  PROVE  /\ NextFetch(r, k, t) \in Fetches \cup {NoFetch}
         /\ NextFetch(r, k, t) \in Records => t[NextFetch(r, k, t)] = None
  <1> DEFINE missing == {j \in k .. NKeys : t[<<r, j>>] = None}
  <1>1. CASE missing # {}
    <2>1. missing \subseteq 1 .. 2
      OBVIOUS
    <2>2. \E m \in missing : \A j \in missing : m <= j
      <3>1. CASE 1 \in missing
        <4>1. \A j \in missing : 1 <= j
          BY <2>1
        <4> QED BY <3>1, <4>1
      <3>2. CASE 1 \notin missing
        <4>1. \A j \in missing : j = 2
          BY <2>1, <3>2
        <4>2. PICK m \in missing : TRUE
          BY <1>1
        <4> HIDE DEF missing
        <4>3. \A j \in missing : m <= j
          BY <4>1, <4>2
        <4> QED BY <4>2, <4>3
      <3> QED BY <3>1, <3>2
    <2>3. Min(missing) \in missing
      BY <2>2 DEF Min
    <2>4. NextFetch(r, k, t) = <<r, Min(missing)>>
      BY <1>1 DEF NextFetch
    <2>5. t[<<r, Min(missing)>>] = None /\ Min(missing) \in 1 .. 2
      BY <2>1, <2>3
    <2> HIDE DEF missing
    <2> QED BY <2>4, <2>5 DEF Fetches
  <1>2. CASE missing = {}
    <2>1. NextFetch(r, k, t) \in {<<r, 0>>, NoFetch}
      BY <1>2 DEF NextFetch
    <2>2. <<r, 0>> \notin Records /\ NoFetch \notin Records /\ <<r, 0>> \in Fetches
      BY DEF Records, NoFetch, Fetches
    <2> QED BY <2>1, <2>2
  <1> QED BY <1>1, <1>2

LEMMA UpdatePreserves ==
  ASSUME EnsInv, NEW S \in SUBSET Records, NEW v \in Writers, UpdateText(S, v)
  PROVE  EnsInv'
  <1>1. EnsType'
    BY DEF EnsInv, EnsType, UpdateText, Values
  <1>2. CacheIsCurrent'
    <2> SUFFICES ASSUME NEW p \in Records
                 PROVE  \/ text'[p] = latest'[p]
                        \/ text'[p] = "chain" /\ p \in OnChain /\ (latest'[p] = None \/ p \in raced')
      BY DEF CacheIsCurrent
    <2>1. CASE p \in S
      BY <2>1 DEF UpdateText
    <2>2. CASE p \notin S
      <3>1. text'[p] = text[p] /\ latest'[p] = latest[p] /\ (p \in raced => p \in raced')
        BY <2>2 DEF UpdateText
      <3> QED BY <3>1 DEF EnsInv, CacheIsCurrent
    <2> QED BY <2>1, <2>2
  <1>3. FetchesRace'
    <2> SUFFICES ASSUME NEW x \in Readers, fetch[x] \in Records
                 PROVE  latest'[fetch[x]] = None \/ fetch[x] \in raced'
      BY DEF FetchesRace, UpdateText
    <2>1. CASE fetch[x] \in S
      BY <2>1 DEF UpdateText
    <2>2. CASE fetch[x] \notin S
      <3>1. latest'[fetch[x]] = latest[fetch[x]] /\ (fetch[x] \in raced => fetch[x] \in raced')
        BY <2>2 DEF UpdateText
      <3> QED BY <3>1 DEF EnsInv, FetchesRace
    <2> QED BY <2>1, <2>2
  <1> QED BY <1>1, <1>2, <1>3 DEF EnsInv

\* A reader that goes on fetches what the cache lacks, which has no update.
LEMMA GoesOn ==
  ASSUME EnsType', CacheIsCurrent', FetchesRace, NEW x \in Readers, NEW r \in Roles, NEW k \in 1 .. 3,
         UNCHANGED <<latest, raced>>, fetch \in [Readers -> Fetches \cup {NoFetch}],
         fetch' = [fetch EXCEPT ![x] = NextFetch(r, k, text')]
  PROVE  FetchesRace'
  <1> SUFFICES ASSUME NEW y \in Readers, fetch'[y] \in Records
               PROVE  latest'[fetch'[y]] = None \/ fetch'[y] \in raced'
    BY DEF FetchesRace
  <1>1. CASE y = x
    <2>1. fetch'[x] = NextFetch(r, k, text')
      OBVIOUS
    <2>2. text'[fetch'[x]] = None
      BY <2>1, <1>1, NextFetchMisses DEF EnsType
    <2>3. text'[fetch'[x]] # "chain"
      BY <2>2 DEF None
    <2> QED BY <2>2, <2>3, <1>1 DEF CacheIsCurrent
  <1>2. CASE y # x
    BY <1>2 DEF FetchesRace
  <1> QED BY <1>1, <1>2

LEMMA FetchPair ==
  ASSUME NEW f \in Records
  PROVE  f[1] \in Roles /\ f[2] \in 1 .. 2 /\ f[2] + 1 \in 1 .. 3
  BY DEF Records

LEMMA EnsStepPreserves ==
  ASSUME EnsInv, EnsNext
  PROVE  EnsInv'
  <1> PICK x \in Readers : \/ \E r \in Roles : GetProfile(x, r)
                           \/ ReadEnds(x)
                           \/ ProfileTimesOut(x)
    BY DEF EnsNext
  <1> USE DEF EnsInv
  <1>1. ASSUME NEW r \in Roles, GetProfile(x, r) PROVE EnsInv'
    <2>1. UNCHANGED <<text, resolved, latest, raced>> /\ fetch' = [fetch EXCEPT ![x] = NextFetch(r, 1, text')]
      BY <1>1 DEF GetProfile
    <2>2. NextFetch(r, 1, text') \in Fetches \cup {NoFetch}
      BY <2>1, NextFetchMisses DEF EnsType
    <2>3. EnsType' /\ CacheIsCurrent'
      BY <2>1, <2>2 DEF EnsType, CacheIsCurrent
    <2>4. 1 \in 1 .. 3 /\ fetch \in [Readers -> Fetches \cup {NoFetch}] /\ FetchesRace
      BY DEF EnsType
    <2>5. FetchesRace'
      BY <2>1, <2>3, <2>4, <1>1, GoesOn
    <2> QED BY <2>3, <2>5
  <1>2. ASSUME Fetching(x), GoOn(x), UNCHANGED <<resolved, latest, raced>>,
               text' \in [Records -> Values], CacheIsCurrent'
        PROVE  EnsInv'
    <2>1. fetch[x][1] \in Roles /\ fetch[x][2] + 1 \in 1 .. 3
      BY <1>2, FetchPair DEF Fetching
    <2>2. fetch' = [fetch EXCEPT ![x] = NextFetch(fetch[x][1], fetch[x][2] + 1, text')]
      BY <1>2 DEF GoOn, EnsType
    <2>3. NextFetch(fetch[x][1], fetch[x][2] + 1, text') \in Fetches \cup {NoFetch}
      BY <2>1, <1>2, NextFetchMisses
    <2>4. EnsType'
      BY <1>2, <2>2, <2>3 DEF EnsType
    <2>5. FetchesRace'
      BY <1>2, <2>1, <2>2, <2>4, GoesOn DEF EnsType
    <2> QED BY <1>2, <2>4, <2>5
  <1>3. CASE GetTextRecord(x)
    <2> DEFINE f == fetch[x]
    <2>1. f \in Records /\ text' = [text EXCEPT ![f] = IF f \in OnChain THEN "chain" ELSE text[f]]
      BY <1>3 DEF GetTextRecord, Fetching, EnsType
    <2>2. text' \in [Records -> Values]
      BY <2>1 DEF EnsType, Values
    <2>3. UNCHANGED <<resolved, latest, raced>> /\ GoOn(x) /\ Fetching(x)
      BY <1>3 DEF GetTextRecord
    <2>4. CacheIsCurrent'
      <3> SUFFICES ASSUME NEW p \in Records
                   PROVE  \/ text'[p] = latest[p]
                          \/ text'[p] = "chain" /\ p \in OnChain /\ (latest[p] = None \/ p \in raced)
        BY <2>3 DEF CacheIsCurrent
      <3>1. CASE p = f /\ p \in OnChain
        <4>1. text'[p] = "chain"
          BY <3>1, <2>1 DEF EnsType
        <4>2. latest[p] = None \/ p \in raced
          BY <3>1, <2>1 DEF FetchesRace
        <4> QED BY <4>1, <4>2, <3>1
      <3>2. CASE ~(p = f /\ p \in OnChain)
        <4>1. text'[p] = text[p]
          BY <3>2, <2>1 DEF EnsType
        <4> QED BY <4>1 DEF CacheIsCurrent
      <3> QED BY <3>1, <3>2
    <2> QED BY <2>2, <2>3, <2>4, <1>2
  <1>4. CASE GetTextRecordFails(x)
    <2>1. UNCHANGED <<text, resolved, latest, raced>> /\ GoOn(x) /\ Fetching(x)
      BY <1>4 DEF GetTextRecordFails
    <2>2. text' \in [Records -> Values] /\ CacheIsCurrent'
      BY <2>1 DEF EnsType, CacheIsCurrent
    <2> QED BY <2>1, <2>2, <1>2
  <1>5. CASE ResolveAddress(x) \/ ProfileTimesOut(x)
    <2>1. fetch' = [fetch EXCEPT ![x] = NoFetch] /\ UNCHANGED <<text, latest, raced>>
      BY <1>5 DEF ResolveAddress, ProfileTimesOut
    <2>2. resolved' \subseteq Roles
      <3>1. CASE ResolveAddress(x)
        <4>1. fetch[x][1] \in Roles /\ resolved' = resolved \cup {fetch[x][1]}
          BY <3>1 DEF ResolveAddress
        <4> QED BY <4>1 DEF EnsType
      <3>2. CASE ProfileTimesOut(x)
        BY <3>2 DEF ProfileTimesOut, EnsType
      <3> QED BY <3>1, <3>2, <1>5
    <2>3. EnsType' /\ CacheIsCurrent'
      BY <2>1, <2>2 DEF EnsType, CacheIsCurrent
    <2>4. NoFetch \notin Records
      BY DEF NoFetch, Records
    <2>5. FetchesRace'
      BY <2>1, <2>4 DEF FetchesRace, EnsType
    <2> QED BY <2>3, <2>5
  <1> QED BY <1>1, <1>3, <1>4, <1>5 DEF ReadEnds

-----------------------------------------------------------------------------
(* The registry.                                                           *)

\* The queue holds at most one sender that bootstraps, its head.
LEMMA HeadBootstraps ==
  ASSUME BusType, Queued, NEW c \in Senders, bus[c] = "bootstrapping"
  PROVE  lock # <<>> /\ c = lock[1] /\ c = Head(lock)
  <1>1. PICK i \in 1 .. Len(lock) : lock[i] = c
    BY DEF Queued
  <1>2. i = 1
    BY <1>1 DEF Queued
  <1>3. lock # <<>> /\ Head(lock) = lock[1]
    BY <1>1, <1>2 DEF BusType
  <1> QED BY <1>1, <1>2, <1>3

\* The head leaves the queue.
LEMMA LeavesQueue ==
  ASSUME BusType, Queued, NEW c \in Senders, lock # <<>>, c = Head(lock), lock' = Tail(lock),
         NEW l \in {"idle", "posting"}, bus' = [bus EXCEPT ![c] = l]
  PROVE  Queued' /\ lock' \in Seq(Senders) /\ \A d \in Senders : bus'[d] # "bootstrapping"
  <1>1. /\ lock' \in Seq(Senders)
        /\ Len(lock') = Len(lock) - 1
        /\ \A i \in 1 .. Len(lock') : lock'[i] = lock[i + 1]
    BY DEF BusType
  <1>2. Len(lock) \in Nat /\ Len(lock) >= 1 /\ c = lock[1]
    BY DEF BusType
  <1>3. \A i \in 1 .. Len(lock') : i + 1 \in 1 .. Len(lock) /\ i + 1 # 1 /\ lock'[i] # c
    BY <1>1, <1>2 DEF Queued
  <1>4. \A i, j \in 1 .. Len(lock') : lock'[i] = lock'[j] => i = j
    <2> SUFFICES ASSUME NEW i \in 1 .. Len(lock'), NEW j \in 1 .. Len(lock'),
                        lock'[i] = lock'[j]
                 PROVE  i = j
      OBVIOUS
    <2>1. lock[i + 1] = lock[j + 1]
      BY <1>1
    <2>2. i + 1 = j + 1
      BY <2>1, <1>3 DEF Queued
    <2> QED BY <2>2
  <1>5. \A d \in Senders : bus'[d] \in {"waiting", "bootstrapping"} =>
          d # c /\ bus'[d] = bus[d] /\ \E i \in 1 .. Len(lock') : lock'[i] = d
    <2> SUFFICES ASSUME NEW d \in Senders, bus'[d] \in {"waiting", "bootstrapping"}
                 PROVE  d # c /\ bus'[d] = bus[d] /\ \E i \in 1 .. Len(lock') : lock'[i] = d
      OBVIOUS
    <2>1. d # c /\ bus'[d] = bus[d]
      BY DEF BusType
    <2>2. PICK k \in 1 .. Len(lock) : lock[k] = d
      BY <2>1 DEF Queued
    <2>3. k # 1
      BY <2>1, <2>2, <1>2
    <2>4. k - 1 \in 1 .. Len(lock') /\ lock'[k - 1] = lock[k]
      BY <2>3, <1>1, <1>2
    <2> QED BY <2>1, <2>2, <2>4
  <1>6. \A i \in 1 .. Len(lock') : bus'[lock'[i]] = "waiting"
    <2> SUFFICES ASSUME NEW i \in 1 .. Len(lock')
                 PROVE  bus'[lock'[i]] = "waiting"
      OBVIOUS
    <2>1. lock'[i] \in Senders /\ lock'[i] # c
      BY <1>1, <1>3
    <2>2. bus[lock'[i]] = "waiting"
      BY <1>1, <1>3 DEF Queued
    <2> QED BY <2>1, <2>2 DEF BusType
  <1>7. Queued'
    BY <1>4, <1>5, <1>6 DEF Queued
  <1>8. \A d \in Senders : bus'[d] # "bootstrapping"
    <2> SUFFICES ASSUME NEW d \in Senders, bus'[d] = "bootstrapping" PROVE FALSE
      OBVIOUS
    <2>1. PICK i \in 1 .. Len(lock') : lock'[i] = d
      BY <1>5
    <2> QED BY <2>1, <1>6
  <1> QED BY <1>1, <1>7, <1>8

\* _send is entered.
LEMMA SendPreserves ==
  ASSUME BusInv, NEW c \in Senders, NEW k \in 1 .. 3, Send(c, k)
  PROVE  BusInv'
  <1> USE DEF BusInv
  <1>1. UNCHANGED <<registry, tries, events, made, sent>> /\ bus[c] = "idle"
        /\ kind' = [kind EXCEPT ![c] = k]
    BY DEF Send
  <1>2. kind' \in [Senders -> 1 .. 3]
    BY <1>1 DEF BusType
  <1>3. CASE lock # <<>> /\ lock' = Append(lock, c) /\ Goto(c, "waiting")
    <2>1. bus' = [bus EXCEPT ![c] = "waiting"]
      BY <1>3 DEF Goto
    <2>2. /\ Len(lock') = Len(lock) + 1
          /\ \A i \in 1 .. Len(lock) : lock'[i] = lock[i]
          /\ lock'[Len(lock) + 1] = c
          /\ lock' \in Seq(Senders) /\ Len(lock) \in Nat /\ Len(lock) >= 1
      BY <1>3 DEF BusType
    <2>3. \A i \in 1 .. Len(lock) : lock[i] # c /\ lock[i] \in Senders
      BY <1>1 DEF Queued, BusType
    <2>4. bus'[c] = "waiting" /\ \A d \in Senders : d # c => bus'[d] = bus[d]
      BY <2>1 DEF BusType
    <2>5. Queued'
      <3>1. \A i, j \in 1 .. Len(lock') : lock'[i] = lock'[j] => i = j
        BY <2>2, <2>3 DEF Queued
      <3>2. \A d \in Senders : bus'[d] \in {"waiting", "bootstrapping"} =>
              \E i \in 1 .. Len(lock') : lock'[i] = d
        <4> SUFFICES ASSUME NEW d \in Senders, bus'[d] \in {"waiting", "bootstrapping"}
                     PROVE  \E i \in 1 .. Len(lock') : lock'[i] = d
          OBVIOUS
        <4>1. CASE d = c
          BY <4>1, <2>2
        <4>2. CASE d # c
          <5>1. PICK j \in 1 .. Len(lock) : lock[j] = d
            BY <4>2, <2>4 DEF Queued
          <5> QED BY <5>1, <2>2
        <4> QED BY <4>1, <4>2
      <3>3. \A i \in 1 .. Len(lock) : bus'[lock'[i]] = bus[lock[i]]
        BY <2>2, <2>3, <2>4
      <3>4. \A i \in 1 .. Len(lock') : i \in 1 .. Len(lock) \/ i = Len(lock) + 1
        BY <2>2
      <3>5. \A i \in 1 .. Len(lock') : bus'[lock'[i]] \in {"waiting", "bootstrapping"}
        BY <3>3, <3>4, <2>2, <2>4 DEF Queued
      <3>6. \A i \in 1 .. Len(lock') : i # 1 => bus'[lock'[i]] = "waiting"
        BY <3>3, <3>4, <2>2, <2>4 DEF Queued
      <3> QED BY <3>1, <3>2, <3>5, <3>6 DEF Queued
    <2>6. BusType'
      BY <1>1, <1>2, <2>1, <2>2 DEF BusType
    <2>7. Made'
      BY <1>1, <2>4 DEF Made
    <2> QED BY <2>5, <2>6, <2>7
  <1>4. CASE lock = <<>> /\ registry /\ Goto(c, "posting") /\ UNCHANGED lock
    <2>1. bus' = [bus EXCEPT ![c] = "posting"] /\ UNCHANGED lock /\ lock = <<>>
      BY <1>4 DEF Goto
    <2>2. BusType'
      BY <1>1, <1>2, <2>1 DEF BusType
    <2>3. Queued' /\ Made'
      BY <1>1, <2>1 DEF Queued, Made, BusType
    <2> QED BY <2>2, <2>3
  <1>5. CASE lock = <<>> /\ ~registry /\ lock' = <<c>> /\ Goto(c, "bootstrapping")
    <2>1. bus' = [bus EXCEPT ![c] = "bootstrapping"] /\ lock' = <<c>> /\ lock = <<>>
      BY <1>5 DEF Goto
    <2>2. lock' \in Seq(Senders) /\ Len(lock') = 1 /\ lock'[1] = c
      BY <2>1
    <2>3. BusType'
      BY <1>1, <1>2, <2>1, <2>2 DEF BusType
    <2>4. \A d \in Senders : bus[d] \notin {"waiting", "bootstrapping"}
      BY <2>1 DEF Queued
    <2>5. Queued'
      BY <2>1, <2>2, <2>4 DEF Queued, BusType
    <2>6. Made'
      BY <1>1, <1>5 DEF Made
    <2> QED BY <2>3, <2>5, <2>6
  <1> QED BY <1>3, <1>4, <1>5 DEF Send

\* The end of a _send that holds no lock.
LEMMA EndsPosting ==
  ASSUME BusInv, NEW c \in Senders, bus[c] = "posting", NEW l \in {"idle", "posting"},
         bus' = [bus EXCEPT ![c] = l], UNCHANGED <<registry, lock, made>>
  PROVE  Queued' /\ Made'
  <1>1. \A i \in 1 .. Len(lock) : lock[i] # c /\ lock[i] \in Senders
    BY DEF Queued, BusType, BusInv
  <1> QED BY <1>1 DEF BusInv, Queued, Made, BusType

\* An event is added: the list is one longer, or moves on by one.
LEMMA RecentShape ==
  ASSUME BusType, NEW e \in [sender : Senders, kind : 1 .. 3, n : Nat], Len(events) <= EventsMax,
         events' = Recent(Append(events, e))
  PROVE  /\ events' \in Seq([sender : Senders, kind : 1 .. 3, n : Nat])
         /\ \/ /\ Len(events) < EventsMax /\ Len(events') = Len(events) + 1
               /\ \A i \in 1 .. Len(events) : events'[i] = events[i]
            \/ /\ Len(events) = EventsMax /\ Len(events') = Len(events)
               /\ \A i \in 1 .. Len(events) - 1 : events'[i] = events[i + 1]
         /\ events'[Len(events')] = e
  <1> DEFINE E == [sender : Senders, kind : 1 .. 3, n : Nat]
             s == Append(events, e)
  <1> HIDE DEF E
  <1>0. e \in E /\ events \in Seq(E)
    BY DEF BusType, E
  <1>1. /\ s \in Seq(E) /\ Len(s) = Len(events) + 1 /\ Len(events) \in Nat
        /\ \A i \in 1 .. Len(events) : s[i] = events[i]
        /\ s[Len(events) + 1] = e
    BY <1>0
  <1> HIDE DEF s
  <1>2. events' = IF Len(s) > EventsMax THEN SubSeq(s, Len(s) - EventsMax + 1, Len(s)) ELSE s
    BY DEF Recent, s
  <1>3. CASE Len(events) < EventsMax
    <2>1. events' = s
      BY <1>1, <1>2, <1>3
    <2> QED BY <2>1, <1>1, <1>3 DEF E
  <1>4. CASE Len(events) = EventsMax
    <2>1. events' = SubSeq(s, 2, Len(s)) /\ Len(s) = EventsMax + 1
      BY <1>1, <1>2, <1>4
    <2>2. /\ events' \in Seq(E) /\ Len(events') = EventsMax
          /\ \A i \in 1 .. EventsMax : events'[i] = s[i + 1]
      BY <2>1, <1>1
    <2> QED BY <2>2, <1>1, <1>4 DEF E
  <1> QED BY <1>1, <1>3, <1>4

\* What an event is.
LEMMA EventTyped ==
  ASSUME BusType, NEW i \in 1 .. Len(events)
  PROVE  /\ events[i].sender \in Senders
         /\ events[i].kind \in Int /\ 1 <= events[i].kind /\ events[i].kind <= 3
  <1> DEFINE E == [sender : Senders, kind : 1 .. 3, n : Nat]
  <1>1. events \in Seq(E)
    BY DEF BusType
  <1> HIDE DEF E
  <1>2. events[i] \in E
    BY <1>1
  <1> QED BY <1>2 DEF E

\* A step that adds no event and starts no send.
LEMMA EventsKept ==
  ASSUME EventsFollowSends, EventsAreOld, UNCHANGED <<events, sent, kind, pc>>,
         \A d \in Senders : bus'[d] # "idle" => bus[d] # "idle", BusType
  PROVE  EventsFollowSends' /\ EventsAreOld'
  <1>1. EventsFollowSends'
    BY DEF EventsFollowSends
  <1>2. \A i \in 1 .. Len(events) : events[i].sender \in Senders
    BY EventTyped
  <1>3. \A c \in Senders : bus'[c] # "idle" => kind'[c] = Stage(pc'[c])
    BY DEF EventsAreOld
  <1>4. \A i \in 1 .. Len(events) :
          /\ events[i].kind <= Stage(pc'[events[i].sender])
          /\ bus'[events[i].sender] # "idle" => events[i].kind < kind[events[i].sender]
    BY <1>2 DEF EventsAreOld
  <1> QED BY <1>1, <1>3, <1>4 DEF EventsAreOld

\* The event of a send that returns is later than all events of its cycle.
LEMMA SendDonePreserves ==
  ASSUME IInv, NEW c \in Senders, SendDone(c), UNCHANGED <<ensVars, pc>>
  PROVE  IInv'
  <1> USE DEF IInv, BusInv
  <1> DEFINE e == [sender |-> c, kind |-> kind[c], n |-> sent + 1]
             L == Len(events)
  <1>1. /\ bus[c] = "posting" /\ bus' = [bus EXCEPT ![c] = "idle"]
        /\ sent' = sent + 1 /\ tries' = [tries EXCEPT ![c] = 0]
        /\ UNCHANGED <<registry, lock, kind, made>> /\ events' = Recent(Append(events, e))
    BY DEF SendDone, Goto
  <1>2. e \in [sender : Senders, kind : 1 .. 3, n : Nat] /\ L \in Nat /\ L <= EventsMax
    BY DEF BusType, EventsFollowSends
  <1>3. /\ events' \in Seq([sender : Senders, kind : 1 .. 3, n : Nat])
        /\ \/ /\ L < EventsMax /\ Len(events') = L + 1
              /\ \A i \in 1 .. L : events'[i] = events[i]
           \/ /\ L = EventsMax /\ Len(events') = L
              /\ \A i \in 1 .. L - 1 : events'[i] = events[i + 1]
        /\ events'[Len(events')] = e
    BY <1>1, <1>2, RecentShape
  <1>4. Queued' /\ Made'
    BY <1>1, EndsPosting
  <1>5. BusType'
    BY <1>1, <1>3 DEF BusType
  <1>6. e.sender = c /\ e.kind = kind[c] /\ e.n = sent + 1
    OBVIOUS
  <1> HIDE DEF e
  <1>7. PICK m \in {0, 1} : /\ Len(events') = L + 1 - m
                           /\ \A i \in 1 .. Len(events') - 1 : i + m \in 1 .. L /\ events'[i] = events[i + m]
                           /\ \/ m = 0 /\ L < EventsMax
                              \/ m = 1 /\ L = EventsMax
    <2>1. CASE L < EventsMax /\ Len(events') = L + 1 /\ \A i \in 1 .. L : events'[i] = events[i]
      BY <2>1, <1>2
    <2>2. CASE L = EventsMax /\ Len(events') = L /\ \A i \in 1 .. L - 1 : events'[i] = events[i + 1]
      BY <2>2, <1>2
    <2> QED BY <2>1, <2>2, <1>3
  <1>8. sent \in Nat /\ L = (IF sent < EventsMax THEN sent ELSE EventsMax)
    BY DEF EventsFollowSends, BusType
  <1>9. Len(events') = (IF sent' < EventsMax THEN sent' ELSE EventsMax)
    <2>1. CASE L < EventsMax
      <3>0. L # EventsMax
        BY <2>1, <1>2
      <3>1. Len(events') = L + 1
        BY <3>0, <1>3
      <3>2. L = sent
        BY <2>1, <1>2, <1>8
      <3> QED BY <2>1, <3>1, <3>2, <1>1, <1>2
    <2>2. CASE L = EventsMax
      <3>0. ~ (L < EventsMax)
        BY <2>2
      <3>1. Len(events') = L
        BY <3>0, <1>3
      <3>2. sent >= EventsMax
        BY <2>2, <1>8
      <3> QED BY <2>2, <3>1, <3>2, <1>1, <1>8
    <2> QED BY <2>1, <2>2, <1>2
  <1>10. \A i \in 1 .. Len(events') : events'[i].n = sent' - Len(events') + i
    <2> SUFFICES ASSUME NEW i \in 1 .. Len(events') PROVE events'[i].n = sent' - Len(events') + i
      OBVIOUS
    <2>1. CASE i = Len(events')
      BY <2>1, <1>1, <1>3, <1>6, <1>8
    <2>2. CASE i \in 1 .. Len(events') - 1
      <3>1. events'[i] = events[i + m] /\ i + m \in 1 .. L
        BY <2>2, <1>7
      <3>2. events[i + m].n = sent - L + (i + m)
        BY <3>1 DEF EventsFollowSends
      <3> QED BY <3>1, <3>2, <1>1, <1>2, <1>7, <1>8
    <2> QED BY <2>1, <2>2, <1>2, <1>7
  <1>11. \A i \in 1 .. L : events[i].sender = c => events[i].kind < kind[c]
    BY <1>1 DEF EventsAreOld
  <1>12. ASSUME NEW i \in 1 .. Len(events'), NEW j \in 1 .. Len(events'), i < j,
                events'[i].sender = events'[j].sender
         PROVE  events'[i].kind < events'[j].kind
    <2>1. i \in 1 .. Len(events') - 1
      BY <1>12, <1>2, <1>7
    <2>2. events'[i] = events[i + m] /\ i + m \in 1 .. L
      BY <2>1, <1>7
    <2>3. CASE j = Len(events')
      BY <2>2, <2>3, <1>3, <1>6, <1>11, <1>12
    <2>4. CASE j \in 1 .. Len(events') - 1
      <3>1. events'[j] = events[j + m] /\ j + m \in 1 .. L
        BY <2>4, <1>7
      <3>2. i + m < j + m
        BY <1>12, <1>2, <1>7
      <3>3. events[i + m].sender = events[j + m].sender
        BY <2>2, <3>1, <1>12
      <3>4. events[i + m].kind < events[j + m].kind
        BY <2>2, <3>1, <3>2, <3>3 DEF EventsFollowSends
      <3> QED BY <2>2, <3>1, <3>4
    <2>5. j = Len(events') \/ j \in 1 .. Len(events') - 1
      BY <1>2, <1>7
    <2> QED BY <2>3, <2>4, <2>5
  <1>13. EventsFollowSends'
    BY <1>9, <1>10, <1>12 DEF EventsFollowSends
  <1>14. EventsAreOld'
    <2>1. \A d \in Senders : bus'[d] # "idle" => d # c /\ bus'[d] = bus[d]
      BY <1>1 DEF BusType
    <2>2. \A d \in Senders : bus'[d] # "idle" => kind'[d] = Stage(pc'[d])
      BY <2>1, <1>1 DEF EventsAreOld
    <2>3. ASSUME NEW i \in 1 .. Len(events')
          PROVE  /\ events'[i].kind <= Stage(pc'[events'[i].sender])
                 /\ bus'[events'[i].sender] # "idle" => events'[i].kind < kind'[events'[i].sender]
      <3>1. CASE i = Len(events')
        <4>1. events'[i].sender = c /\ events'[i].kind = kind[c] /\ kind[c] = Stage(pc[c])
          BY <3>1, <1>1, <1>3, <1>6 DEF EventsAreOld
        <4>2. bus'[c] = "idle" /\ kind[c] \in Int
          BY <1>1 DEF BusType
        <4> QED BY <4>1, <4>2
      <3>2. CASE i \in 1 .. Len(events') - 1
        <4>1. events'[i] = events[i + m] /\ i + m \in 1 .. L
          BY <3>2, <1>7
        <4>2. events[i + m].sender \in Senders
          BY <4>1, EventTyped
        <4> QED BY <4>1, <4>2, <2>1, <1>1 DEF EventsAreOld
      <3> QED BY <3>1, <3>2, <1>2, <1>7
    <2> QED BY <2>2, <2>3 DEF EventsAreOld
  <1>15. EnsInv' /\ PcType'
    BY DEF ensVars, EnsInv, EnsType, CacheIsCurrent, FetchesRace, PcType
  <1> QED BY <1>4, <1>5, <1>13, <1>14, <1>15

LEMMA BusStepPreserves ==
  ASSUME IInv, BusNext, UNCHANGED <<ensVars, pc>>
  PROVE  IInv'
  <1> PICK c \in Senders : BusEnds(c)
    BY DEF BusNext
  <1> USE DEF IInv, BusInv
  <1>1. EnsInv' /\ PcType'
    BY DEF ensVars, EnsInv, EnsType, CacheIsCurrent, FetchesRace, PcType
  <1>2. ASSUME BusType', Queued', Made', UNCHANGED <<events, sent, kind>>,
               \A d \in Senders : bus'[d] # "idle" => bus[d] # "idle"
        PROVE  IInv'
    BY <1>1, <1>2, EventsKept
  <1>3. CASE Acquire(c)
    <2>1. UNCHANGED <<registry, kind, tries, events, made, sent>> /\ bus[c] = "waiting" /\ c = Head(lock)
      BY <1>3 DEF Acquire
    <2>2. lock # <<>> /\ c = lock[1]
      BY <2>1 DEF Queued, BusType
    <2>3. CASE registry /\ lock' = Tail(lock) /\ Goto(c, "posting")
      <3>1. bus' = [bus EXCEPT ![c] = "posting"]
        BY <2>3 DEF Goto
      <3>2. Queued' /\ lock' \in Seq(Senders) /\ \A d \in Senders : bus'[d] # "bootstrapping"
        BY <2>1, <2>2, <2>3, <3>1, LeavesQueue
      <3>3. BusType' /\ Made'
        BY <2>1, <3>1, <3>2 DEF BusType, Made
      <3>4. \A d \in Senders : bus'[d] # "idle" => bus[d] # "idle"
        BY <2>1, <3>1 DEF BusType
      <3> QED BY <2>1, <3>2, <3>3, <3>4, <1>2
    <2>4. CASE ~registry /\ Goto(c, "bootstrapping") /\ UNCHANGED lock
      <3>1. bus' = [bus EXCEPT ![c] = "bootstrapping"] /\ UNCHANGED lock
        BY <2>4 DEF Goto
      <3>2. BusType' /\ Made'
        BY <2>1, <2>4, <3>1 DEF BusType, Made
      <3>3. Queued'
        <4>1. \A d \in Senders : d # c => bus'[d] = bus[d]
          BY <3>1 DEF BusType
        <4>2. \A i \in 1 .. Len(lock) : lock[i] \in Senders
          BY DEF BusType
        <4>3. \A i \in 1 .. Len(lock) : i # 1 => lock[i] # c
          <5> SUFFICES ASSUME NEW i \in 1 .. Len(lock), i # 1 PROVE lock[i] # c
            OBVIOUS
          <5>1. 1 \in 1 .. Len(lock)
            BY DEF BusType
          <5> QED BY <5>1, <2>2 DEF Queued
        <4>4. \A i \in 1 .. Len(lock) : i # 1 => bus'[lock[i]] = "waiting"
          BY <4>1, <4>2, <4>3 DEF Queued
        <4>5. bus'[lock[1]] = "bootstrapping"
          BY <2>2, <3>1 DEF BusType
        <4>6. \A i \in 1 .. Len(lock) : bus'[lock[i]] \in {"waiting", "bootstrapping"}
          BY <4>4, <4>5
        <4>7. \A d \in Senders : bus'[d] \in {"waiting", "bootstrapping"} =>
                \E i \in 1 .. Len(lock) : lock[i] = d
          BY <2>1, <4>1 DEF Queued
        <4> QED BY <3>1, <4>4, <4>6, <4>7 DEF Queued
      <3>4. \A d \in Senders : bus'[d] # "idle" => bus[d] # "idle"
        BY <2>1, <3>1 DEF BusType
      <3> QED BY <2>1, <3>2, <3>3, <3>4, <1>2
    <2> QED BY <1>3, <2>3, <2>4 DEF Acquire
  <1>4. CASE Bootstrap(c) \/ BootstrapFails(c)
    <2>1. /\ UNCHANGED <<kind, tries, events, sent>> /\ bus[c] = "bootstrapping" /\ lock' = Tail(lock)
          /\ \/ bus' = [bus EXCEPT ![c] = "posting"] /\ registry' = TRUE /\ made' = made + 1
             \/ /\ bus' = [bus EXCEPT ![c] = "idle"]
                /\ UNCHANGED <<registry, made>> \/ (registry' = TRUE /\ made' = made + 1)
      BY <1>4 DEF Bootstrap, BootstrapFails, Goto
    <2>2. lock # <<>> /\ c = Head(lock)
      BY <2>1, HeadBootstraps
    <2>3. Queued' /\ lock' \in Seq(Senders) /\ \A d \in Senders : bus'[d] # "bootstrapping"
      BY <2>1, <2>2, LeavesQueue
    <2>4. ~registry /\ made = 0
      BY <2>1 DEF Made, BusType
    <2>5. BusType' /\ Made'
      <3>1. bus' \in [Senders -> {"idle", "waiting", "bootstrapping", "posting"}]
        BY <2>1 DEF BusType
      <3>2. registry' \in BOOLEAN /\ made' \in Nat /\ made' = IF registry' THEN 1 ELSE 0
        <4>1. CASE registry' = TRUE /\ made' = made + 1
          BY <4>1, <2>4
        <4>2. CASE UNCHANGED <<registry, made>>
          BY <4>2, <2>4 DEF BusType
        <4> QED BY <4>1, <4>2, <2>1
      <3>3. BusType'
        BY <2>1, <2>3, <3>1, <3>2 DEF BusType
      <3> QED BY <2>3, <3>2, <3>3 DEF Made
    <2>6. \A d \in Senders : bus'[d] # "idle" => bus[d] # "idle"
      BY <2>1 DEF BusType
    <2> QED BY <2>1, <2>3, <2>5, <2>6, <1>2
  <1>5. CASE SendTimesOut(c) \/ SendFails(c)
    <2>1. /\ UNCHANGED <<registry, lock, kind, events, made, sent>> /\ bus[c] = "posting"
          /\ \/ bus' = [bus EXCEPT ![c] = "idle"] /\ tries' = [tries EXCEPT ![c] = 0]
             \/ bus' = bus /\ tries' = [tries EXCEPT ![c] = tries[c] + 1] /\ tries[c] + 1 < MaxAttempts
      BY <1>5 DEF SendTimesOut, SendFails, Goto, BusType
    <2>2. PICK l \in {"idle", "posting"} : bus' = [bus EXCEPT ![c] = l]
      BY <2>1 DEF BusType
    <2>3. Queued' /\ Made'
      BY <2>1, <2>2, EndsPosting
    <2>4. tries' \in [Senders -> 0 .. MaxAttempts - 1]
      <3>1. tries \in [Senders -> 0 .. MaxAttempts - 1] /\ tries[c] \in 0 .. MaxAttempts - 1
        BY DEF BusType
      <3>2. 0 \in 0 .. MaxAttempts - 1
        OBVIOUS
      <3>3. tries[c] + 1 < MaxAttempts => tries[c] + 1 \in 0 .. MaxAttempts - 1
        BY <3>1
      <3>4. PICK t \in 0 .. MaxAttempts - 1 : tries' = [tries EXCEPT ![c] = t]
        BY <2>1, <3>2, <3>3
      <3> QED BY <3>1, <3>4
    <2>5. BusType'
      BY <2>1, <2>2, <2>4 DEF BusType
    <2>6. \A d \in Senders : bus'[d] # "idle" => bus[d] # "idle"
      BY <2>1, <2>2 DEF BusType
    <2> QED BY <2>1, <2>3, <2>5, <2>6, <1>2
  <1>6. CASE SendDone(c)
    BY <1>6, SendDonePreserves
  <1> QED BY <1>3, <1>4, <1>5, <1>6 DEF BusEnds

-----------------------------------------------------------------------------
(* The cycles.                                                             *)

\* The step of a cycle that writes records and calls the bus.
LEMMA AnnouncePreserves ==
  ASSUME IInv, NEW c \in Senders, NEW k \in 1 .. 3, NEW S \in SUBSET Records, NEW l, NEW from,
         Move(c, from, l), UpdateText(S, c), Send(c, k),
         l \in {"scanned", "score", "hold", "trade", "commit", "done"},
         Stage(l) = k, Stage(from) = k - 1
  PROVE  IInv'
  <1> USE DEF IInv
  <1>1. /\ pc[c] = from /\ bus[c] = "idle" /\ pc' = [pc EXCEPT ![c] = l]
        /\ UNCHANGED <<events, sent>> /\ kind' = [kind EXCEPT ![c] = k]
    BY DEF Move, Send
  <1>2. EnsInv'
    BY UpdatePreserves
  <1>3. BusInv'
    BY SendPreserves
  <1>4. PcType'
    BY <1>1 DEF PcType
  <1>5. \A d \in Senders : d # c => bus'[d] = bus[d] /\ kind'[d] = kind[d] /\ pc'[d] = pc[d]
    BY <1>1 DEF Send, Goto, BusInv, BusType, PcType
  <1>6. kind'[c] = k /\ pc'[c] = l
    BY <1>1 DEF BusInv, BusType, PcType
  <1>7. \A d \in Senders : bus'[d] # "idle" => kind'[d] = Stage(pc'[d])
    BY <1>5, <1>6 DEF EventsAreOld
  <1>8. ASSUME NEW i \in 1 .. Len(events)
        PROVE  /\ events[i].kind <= Stage(pc'[events[i].sender])
               /\ bus'[events[i].sender] # "idle" => events[i].kind < kind'[events[i].sender]
    <2>1. events[i].sender \in Senders /\ events[i].kind \in Int
      BY EventTyped DEF BusInv
    <2>2. CASE events[i].sender = c
      <3>1. events[i].kind <= k - 1
        BY <2>2, <1>1 DEF EventsAreOld
      <3> QED BY <3>1, <2>1, <2>2, <1>6
    <2>3. CASE events[i].sender # c
      BY <2>1, <2>3, <1>5 DEF EventsAreOld
    <2> QED BY <2>2, <2>3
  <1>9. EventsAreOld'
    BY <1>1, <1>7, <1>8 DEF EventsAreOld
  <1>10. EventsFollowSends'
    BY <1>1 DEF EventsFollowSends
  <1> QED BY <1>2, <1>3, <1>4, <1>9, <1>10

\* The step of a cycle to its end.
LEMMA EndPreserves ==
  ASSUME IInv, NEW c \in Senders, NEW from, Move(c, from, "done"), EnsInv', UNCHANGED busVars
  PROVE  IInv'
  <1> USE DEF IInv
  <1>1. bus[c] = "idle" /\ pc' = [pc EXCEPT ![c] = "done"] /\ UNCHANGED <<events, sent, kind, bus>>
    BY DEF Move, busVars
  <1>2. BusInv'
    BY DEF busVars, BusInv, BusType, Queued, Made
  <1>3. PcType'
    BY <1>1 DEF PcType
  <1>4. \A d \in Senders : d # c => pc'[d] = pc[d]
    BY <1>1 DEF PcType
  <1>5. pc'[c] = "done" /\ Stage("done") = 3
    BY <1>1 DEF PcType, Stage
  <1>6. \A d \in Senders : bus[d] # "idle" => kind[d] = Stage(pc'[d])
    BY <1>1, <1>4 DEF EventsAreOld
  <1>7. ASSUME NEW i \in 1 .. Len(events)
        PROVE  events[i].kind <= Stage(pc'[events[i].sender])
    <2>1. events[i].sender \in Senders /\ events[i].kind \in Int /\ events[i].kind <= 3
      BY EventTyped DEF BusInv
    <2>2. CASE events[i].sender = c
      BY <2>1, <2>2, <1>5
    <2>3. CASE events[i].sender # c
      BY <2>1, <2>3, <1>4 DEF EventsAreOld
    <2> QED BY <2>2, <2>3
  <1>8. EventsAreOld' /\ EventsFollowSends'
    BY <1>1, <1>6, <1>7 DEF EventsAreOld, EventsFollowSends
  <1> QED BY <1>2, <1>3, <1>8

LEMMA CyclePreserves ==
  ASSUME IInv, NEW c \in Senders, Cycle(c)
  PROVE  IInv'
  <1>1. \A r \in Roles : <<r, 1>> \in Records /\ <<r, 2>> \in Records
    BY DEF Records
  <1>2. /\ Stage("scanned") = 0 /\ Stage("score") = 1 /\ Stage("hold") = 2
        /\ Stage("trade") = 2 /\ Stage("commit") = 3
    BY DEF Stage
  <1>3. CASE AnnounceSignal(c)
    <2>1. {<<Researcher, 1>>} \in SUBSET Records
      BY <1>1
    <2> QED BY <2>1, <1>2, <1>3, AnnouncePreserves DEF AnnounceSignal
  <1>4. ASSUME NEW action \in {"hold", "trade"}, AnnounceDecision(c, action) PROVE IInv'
    <2>1. {<<Risk, 1>>} \in SUBSET Records
      BY <1>1
    <2> QED BY <2>1, <1>2, <1>4, AnnouncePreserves DEF AnnounceDecision
  <1>5. CASE AnnounceResult(c)
    <2>1. {<<Executor, 1>>} \in SUBSET Records
      BY <1>1
    <2> QED BY <2>1, <1>2, <1>5, AnnouncePreserves DEF AnnounceResult
  <1>6. ASSUME NEW root \in BOOLEAN, Commit(c, root) PROVE IInv'
    <2>1. {<<r, 2>> : r \in Roles} \in SUBSET Records
      BY <1>1
    <2>2. EnsInv'
      <3>1. CASE UpdateText({<<r, 2>> : r \in Roles}, c)
        BY <2>1, <3>1, UpdatePreserves DEF IInv
      <3>2. CASE UNCHANGED ensVars
        BY <3>2 DEF ensVars, IInv, EnsInv, EnsType, CacheIsCurrent, FetchesRace
      <3> QED BY <1>6, <3>1, <3>2 DEF Commit
    <2>3. UNCHANGED busVars /\ (Move(c, "hold", "done") \/ Move(c, "commit", "done"))
      BY <1>6 DEF Commit
    <2> QED BY <2>2, <2>3, EndPreserves
  <1>7. CASE Raises(c)
    <2>1. EnsInv'
      <3>1. CASE UNCHANGED ensVars
        BY <3>1 DEF ensVars, IInv, EnsInv, EnsType, CacheIsCurrent, FetchesRace
      <3>2. CASE \E r \in {Researcher, Risk} : UpdateText({<<r, 1>>}, c)
        BY <1>1, <3>2, UpdatePreserves DEF IInv
      <3> QED BY <1>7, <3>1, <3>2 DEF Raises
    <2>2. UNCHANGED busVars /\ Move(c, pc[c], "done")
      BY <1>7 DEF Raises
    <2> QED BY <2>1, <2>2, EndPreserves
  <1> QED BY <1>3, <1>4, <1>5, <1>6, <1>7 DEF Cycle

-----------------------------------------------------------------------------

LEMMA InitIInv == Init => IInv
  <1> SUFFICES ASSUME Init PROVE IInv
    OBVIOUS
  <1> USE DEF Init, EnsInit, BusInit
  <1>1. EnsType
    BY DEF EnsType, Values
  <1>2. CacheIsCurrent
    BY DEF CacheIsCurrent
  <1>3. NoFetch \notin Records
    BY DEF NoFetch, Records
  <1>4. FetchesRace
    BY <1>3 DEF FetchesRace
  <1>5. BusType
    <2>1. 0 \in 0 .. MaxAttempts - 1 /\ 1 \in 1 .. 3
      OBVIOUS
    <2>2. lock \in Seq(Senders)
      OBVIOUS
    <2>3. events \in Seq([sender : Senders, kind : 1 .. 3, n : Nat])
      <3> DEFINE E == [sender : Senders, kind : 1 .. 3, n : Nat]
      <3> HIDE DEF E
      <3>1. events \in Seq(E)
        OBVIOUS
      <3> QED BY <3>1 DEF E
    <2>4. kind \in [Senders -> 1 .. 3] /\ tries \in [Senders -> 0 .. MaxAttempts - 1]
      BY <2>1
    <2>5. bus \in [Senders -> {"idle", "waiting", "bootstrapping", "posting"}]
      OBVIOUS
    <2> QED BY <2>2, <2>3, <2>4, <2>5 DEF BusType
  <1>6. Queued /\ Made
    BY DEF Queued, Made
  <1>7. PcType
    BY DEF PcType
  <1>8. EventsFollowSends /\ EventsAreOld
    BY DEF EventsFollowSends, EventsAreOld
  <1> QED BY <1>1, <1>2, <1>4, <1>5, <1>6, <1>7, <1>8 DEF IInv, EnsInv, BusInv

LEMMA NextIInv == IInv /\ [Next]_vars => IInv'
  <1> SUFFICES ASSUME IInv, [Next]_vars PROVE IInv'
    OBVIOUS
  <1>1. ASSUME NEW c \in Senders, Cycle(c) PROVE IInv'
    BY <1>1, CyclePreserves
  <1>2. ASSUME EnsInv', UNCHANGED <<busVars, pc>> PROVE IInv'
    <2>1. UNCHANGED <<registry, lock, bus, kind, tries, events, made, sent, pc>>
      BY <1>2 DEF busVars
    <2>2. BusType'
      BY <2>1 DEF IInv, BusInv, BusType
    <2>3. Queued' /\ Made'
      BY <2>1 DEF IInv, BusInv, Queued, Made
    <2>4. PcType'
      BY <2>1 DEF IInv, PcType
    <2>5. EventsFollowSends'
      BY <2>1 DEF IInv, EventsFollowSends
    <2>6. EventsAreOld'
      BY <2>1 DEF IInv, EventsAreOld
    <2> QED BY <1>2, <2>2, <2>3, <2>4, <2>5, <2>6 DEF IInv, BusInv
  <1>3. CASE EnsNext /\ UNCHANGED <<busVars, pc>>
    <2>1. EnsInv'
      BY <1>3, EnsStepPreserves DEF IInv
    <2> QED BY <2>1, <1>2, <1>3
  <1>4. CASE BusNext /\ UNCHANGED <<ensVars, pc>>
    BY <1>4, BusStepPreserves
  <1>5. CASE UNCHANGED vars
    <2>1. EnsInv'
      BY <1>5 DEF vars, ensVars, IInv, EnsInv, EnsType, CacheIsCurrent, FetchesRace
    <2> QED BY <2>1, <1>2, <1>5 DEF vars
  <1> QED BY <1>1, <1>3, <1>4, <1>5 DEF Next

\* The inductive invariant of the announcements.
THEOREM AnnounceInvariant == Spec => []IInv
  BY InitIInv, NextIInv, PTL DEF Spec

\* The caches, the queue and the counters keep their types.
THEOREM TypeCorrect == Spec => []TypeOK
  <1>1. IInv => TypeOK
    <2>1. Len(Kinds) = 3
      BY DEF Kinds
    <2> QED BY <2>1 DEF IInv, EnsInv, EnsType, BusInv, BusType, PcType, TypeOK
  <1> QED BY <1>1, AnnounceInvariant, PTL

\* update_text and get_text_record: an update is lost only to a fetch that was
\* under way when it was made, and only to a value that is on the chain.
THEOREM CacheSafe == Spec => []CacheIsCurrent
  <1>1. IInv => CacheIsCurrent
    BY DEF IInv, EnsInv
  <1> QED BY <1>1, AnnounceInvariant, PTL

\* _get_registry: one registry per process, whatever fails and whoever waits.
THEOREM RegistrySafe == Spec => []OneRegistry
  <1>1. IInv => OneRegistry
    <2> SUFFICES ASSUME IInv PROVE OneRegistry
      OBVIOUS
    <2>1. \A c, d \in Senders : bus[c] = "bootstrapping" /\ bus[d] = "bootstrapping" => c = d
      BY HeadBootstraps DEF IInv, BusInv
    <2> QED BY <2>1 DEF IInv, BusInv, Made, OneRegistry
  <1> QED BY <1>1, AnnounceInvariant, PTL

\* recent_events: the list has the last sends in their order.
THEOREM EventsSafe == Spec => []EventsFollowSends
  <1>1. IInv => EventsFollowSends
    BY DEF IInv
  <1> QED BY <1>1, AnnounceInvariant, PTL

-----------------------------------------------------------------------------
(* How long a read of a profile can go on.                                 *)

\* The answers a read can still wait for: the records from the one that it
\* fetches on, and the address.
Unread(x) ==
  CASE fetch[x] = NoFetch -> 0
    [] fetch[x] # NoFetch /\ fetch[x][2] = 0 -> 1
    [] OTHER -> NKeys + 2 - fetch[x][2]

\* An answer, or a failure, leaves a read with fewer to wait for, and nothing
\* leaves it with more: not the writers of the records, and not the other
\* readers.
ReadsGoOn ==
  [][\A x \in Readers :
       /\ ReadEnds(x) => Unread(x)' < Unread(x)
       /\ fetch[x] # NoFetch /\ fetch'[x] # fetch[x] => Unread(x)' < Unread(x)]_vars

\* A read goes on at the key it is at or behind it, or with the address.
LEMMA NextFetchAhead ==
  ASSUME NEW r \in Roles, NEW k \in 1 .. 3, NEW t
  PROVE  \/ NextFetch(r, k, t) \in {NoFetch, <<r, 0>>}
         \/ \E m \in k .. 2 : NextFetch(r, k, t) = <<r, m>>
  <1> DEFINE missing == {j \in k .. NKeys : t[<<r, j>>] = None}
  <1>1. CASE missing # {}
    <2>1. missing \subseteq k .. 2 /\ missing \subseteq 1 .. 2
      OBVIOUS
    <2>2. \E m \in missing : \A j \in missing : m <= j
      <3>1. CASE 1 \in missing
        <4>1. \A j \in missing : 1 <= j
          BY <2>1
        <4> QED BY <3>1, <4>1
      <3>2. CASE 1 \notin missing
        <4>1. \A j \in missing : j = 2
          BY <2>1, <3>2
        <4>2. PICK m \in missing : TRUE
          BY <1>1
        <4> HIDE DEF missing
        <4>3. \A j \in missing : m <= j
          BY <4>1, <4>2
        <4> QED BY <4>2, <4>3
      <3> QED BY <3>1, <3>2
    <2>3. Min(missing) \in missing
      BY <2>2 DEF Min
    <2>4. NextFetch(r, k, t) = <<r, Min(missing)>>
      BY <1>1 DEF NextFetch
    <2> HIDE DEF missing
    <2> QED BY <2>1, <2>3, <2>4
  <1>2. CASE missing = {}
    BY <1>2 DEF NextFetch
  <1> QED BY <1>1, <1>2

\* The answers left for each kind of fetch.
LEMMA UnreadOf ==
  ASSUME NEW x \in Readers, NEW r \in Roles
  PROVE  /\ fetch[x] = NoFetch => Unread(x) = 0
         /\ fetch[x] = <<r, 0>> => Unread(x) = 1
         /\ \A m \in 1 .. 2 : fetch[x] = <<r, m>> => Unread(x) = 4 - m
  <1>1. \A m \in 0 .. 2 : <<r, m>> # NoFetch /\ <<r, m>>[2] = m
    BY DEF NoFetch, None
  <1>2. fetch[x] = NoFetch => Unread(x) = 0
    BY DEF Unread
  <1>3. fetch[x] = <<r, 0>> => Unread(x) = 1
    BY <1>1 DEF Unread
  <1>4. ASSUME NEW m \in 1 .. 2, fetch[x] = <<r, m>>
        PROVE  Unread(x) = 4 - m
    <2>1. fetch[x] # NoFetch /\ fetch[x][2] = m /\ m # 0
      BY <1>1, <1>4
    <2>2. NKeys + 2 - m = 4 - m
      OBVIOUS
    <2> QED BY <2>1, <2>2 DEF Unread
  <1> QED BY <1>2, <1>3, <1>4

UnreadTable ==
  \A x \in Readers, r \in Roles :
    /\ fetch[x] = NoFetch => Unread(x) = 0
    /\ fetch[x] = <<r, 0>> => Unread(x) = 1
    /\ \A m \in 1 .. 2 : fetch[x] = <<r, m>> => Unread(x) = 4 - m

LEMMA UnreadIs == UnreadTable
  BY UnreadOf DEF UnreadTable

\* The answer to a request leaves fewer to come.
LEMMA ReadEndsEarlier ==
  ASSUME EnsInv, NEW x \in Readers, ReadEnds(x)
  PROVE  Unread(x)' < Unread(x)
  <1>1. \A r \in Roles :
          /\ fetch'[x] = NoFetch => Unread(x)' = 0
          /\ fetch'[x] = <<r, 0>> => Unread(x)' = 1
          /\ \A m \in 1 .. 2 : fetch'[x] = <<r, m>> => Unread(x)' = 4 - m
    <2>1. UnreadTable'
      BY UnreadIs, PTL
    <2> QED BY <2>1 DEF UnreadTable
  <1>2. CASE Fetching(x) /\ GoOn(x)
    <2>1. PICK r \in Roles, k \in 1 .. 2 : fetch[x] = <<r, k>>
      BY <1>2 DEF Fetching, Records
    <2>2. fetch'[x] = NextFetch(r, k + 1, text')
      BY <1>2, <2>1 DEF GoOn, EnsInv, EnsType
    <2>3. k + 1 \in 1 .. 3
      OBVIOUS
    <2>4. Unread(x) = 4 - k
      BY <2>1, UnreadIs DEF UnreadTable
    <2>5. \/ fetch'[x] = NoFetch
          \/ fetch'[x] = <<r, 0>>
          \/ \E m \in k + 1 .. 2 : fetch'[x] = <<r, m>>
      BY <2>2, <2>3, NextFetchAhead
    <2>6. CASE fetch'[x] = NoFetch
      BY <1>1, <2>4, <2>6
    <2>7. CASE fetch'[x] = <<r, 0>>
      BY <1>1, <2>4, <2>7
    <2>8. ASSUME NEW m \in k + 1 .. 2, fetch'[x] = <<r, m>>
          PROVE  Unread(x)' < Unread(x)
      <3>1. m \in 1 .. 2 /\ 4 - m < 4 - k
        OBVIOUS
      <3> QED BY <1>1, <2>4, <2>8, <3>1
    <2> QED BY <2>5, <2>6, <2>7, <2>8
  <1>3. CASE ResolveAddress(x)
    <2>1. PICK r \in Roles : fetch[x] = <<r, 0>>
      BY <1>3 DEF ResolveAddress
    <2>2. fetch'[x] = NoFetch
      BY <1>3 DEF ResolveAddress, EnsInv, EnsType
    <2>3. Unread(x) = 1
      BY <2>1, UnreadIs DEF UnreadTable
    <2> QED BY <1>1, <2>2, <2>3
  <1> QED BY <1>2, <1>3 DEF ReadEnds, GetTextRecord, GetTextRecordFails

\* get_profile waits for at most one answer per key and one for the address,
\* whatever the writers do to the cache and the provider to the requests.  With
\* the fairness of FairSpec, that is why ProfilesReturn holds.
THEOREM ReadsSafe == Spec => ReadsGoOn
  <1>1. ASSUME IInv, Next
        PROVE  \A x \in Readers :
                 /\ ReadEnds(x) => Unread(x)' < Unread(x)
                 /\ fetch[x] # NoFetch /\ fetch'[x] # fetch[x] => Unread(x)' < Unread(x)
    <2> SUFFICES ASSUME NEW x \in Readers, fetch[x] # NoFetch, fetch'[x] # fetch[x]
                 PROVE  Unread(x)' < Unread(x)
      BY <1>1, ReadEndsEarlier DEF IInv
    <2>1. ASSUME NEW c \in Senders, Cycle(c) PROVE FALSE
      BY <2>1 DEF Cycle, AnnounceSignal, AnnounceDecision, AnnounceResult, Commit, Raises,
                  UpdateText, ensVars
    <2>2. CASE BusNext /\ UNCHANGED <<ensVars, pc>>
      BY <2>2 DEF ensVars
    <2>3. ASSUME NEW y \in Readers,
                 \/ \E r \in Shown : GetProfile(y, r)
                 \/ ReadEnds(y)
                 \/ ProfileTimesOut(y)
          PROVE  Unread(x)' < Unread(x)
      <3>1. fetch \in [Readers -> Fetches \cup {NoFetch}]
        BY <1>1 DEF IInv, EnsInv, EnsType
      <3>2. y = x
        <4>1. PICK f : fetch' = [fetch EXCEPT ![y] = f]
          BY <2>3 DEF GetProfile, ReadEnds, GetTextRecord, GetTextRecordFails, GoOn,
                      ResolveAddress, ProfileTimesOut
        <4> QED BY <3>1, <4>1
      <3>3. CASE ReadEnds(y)
        BY <1>1, <3>2, <3>3, ReadEndsEarlier DEF IInv
      <3>4. CASE ProfileTimesOut(y)
        <4>1. fetch'[x] = NoFetch
          BY <3>1, <3>2, <3>4 DEF ProfileTimesOut
        <4>2. Unread(x)' = 0
          BY <4>1 DEF Unread
        <4>3. PICK r \in Roles, k \in 0 .. 2 : fetch[x] = <<r, k>>
          BY <3>1 DEF Fetches
        <4>4. Unread(x) \in 1 .. 3
          <5>1. CASE k = 0
            BY <4>3, <5>1, UnreadIs DEF UnreadTable
          <5>2. CASE k # 0
            <6>1. k \in 1 .. 2 /\ 4 - k \in 1 .. 3
              BY <5>2
            <6> QED BY <4>3, <6>1, UnreadIs DEF UnreadTable
          <5> QED BY <5>1, <5>2
        <4> QED BY <4>2, <4>4
      <3>5. CASE \E r \in Shown : GetProfile(y, r)
        BY <3>2, <3>5 DEF GetProfile
      <3> QED BY <2>3, <3>3, <3>4, <3>5
    <2> QED BY <1>1, <2>1, <2>2, <2>3 DEF Next, EnsNext
  <1> QED BY <1>1, AnnounceInvariant, PTL DEF Spec, ReadsGoOn

-----------------------------------------------------------------------------
(* How long a _send can go on.                                             *)

\* The place of a sender in the queue for the registry's lock.
Place(c) == CHOOSE i \in 1 .. Len(lock) : lock[i] = c

\* What a sender can still wait for: the attempts left of a POST; before it the
\* bootstrap; before that every place in the queue, where the first one may
\* have to bootstrap before it leaves.
Ahead(c) ==
  CASE bus[c] = "posting"       -> MaxAttempts - tries[c]
    [] bus[c] = "bootstrapping" -> MaxAttempts + 1
    [] bus[c] = "waiting"       -> MaxAttempts + 2 * Place(c)
                                     + (IF bus[lock[1]] = "bootstrapping" THEN 0 ELSE 1)
    [] OTHER                    -> 0

\* A sender comes nearer to the end of its _send with each step of its own and,
\* while it waits, with each step of the first in the queue; nothing takes it
\* further away, a failing bootstrap included.
SendsGoOn ==
  [][\A c \in Senders : bus[c] # "idle" =>
       /\ BusEnds(c) => Ahead(c)' < Ahead(c)
       /\ bus[c] = "waiting" /\ BusEnds(lock[1]) => Ahead(c)' < Ahead(c)
       /\ Ahead(c)' <= Ahead(c)]_vars

\* A sender is in the queue at one place only.
PlaceTable ==
  \A i \in 1 .. Len(lock) : Place(lock[i]) = i

LEMMA PlaceIs == Queued => PlaceTable
  <1> SUFFICES ASSUME Queued, NEW i \in 1 .. Len(lock) PROVE Place(lock[i]) = i
    BY DEF PlaceTable
  <1>1. Place(lock[i]) \in 1 .. Len(lock) /\ lock[Place(lock[i])] = lock[i]
    BY DEF Place
  <1> QED BY <1>1 DEF Queued

\* The distance of a sender is a number, and zero when it is not in _send.
LEMMA AheadIsNat ==
  ASSUME BusInv, NEW c \in Senders
  PROVE  /\ Ahead(c) \in Nat
         /\ bus[c] = "idle" <=> Ahead(c) = 0
         /\ bus[c] = "posting" => Ahead(c) \in 1 .. MaxAttempts
         /\ bus[c] = "bootstrapping" => Ahead(c) = MaxAttempts + 1
         /\ bus[c] = "waiting" => Ahead(c) >= MaxAttempts + 2
  <1>1. tries[c] \in 0 .. MaxAttempts - 1 /\ MaxAttempts \in Nat /\ MaxAttempts >= 1
        /\ bus[c] \in {"idle", "waiting", "bootstrapping", "posting"}
    BY DEF BusInv, BusType
  <1>2. CASE bus[c] = "waiting"
    <2>1. PICK i \in 1 .. Len(lock) : lock[i] = c
      BY <1>2 DEF BusInv, Queued
    <2>2. Place(c) = i
      BY <2>1, PlaceIs DEF PlaceTable, BusInv
    <2>3. i \in Nat /\ i >= 1
      BY <2>1 DEF BusInv, BusType
    <2>4. Ahead(c) = MaxAttempts + 2 * i + (IF bus[lock[1]] = "bootstrapping" THEN 0 ELSE 1)
      BY <1>2, <2>2 DEF Ahead
    <2> QED BY <1>1, <1>2, <2>3, <2>4
  <1>3. CASE bus[c] # "waiting"
    BY <1>1, <1>3 DEF Ahead
  <1> QED BY <1>2, <1>3

AheadTable ==
  \A c \in Senders : /\ Ahead(c) \in Nat
                     /\ bus[c] = "idle" <=> Ahead(c) = 0
                     /\ bus[c] = "posting" => Ahead(c) \in 1 .. MaxAttempts
                     /\ bus[c] = "bootstrapping" => Ahead(c) = MaxAttempts + 1

LEMMA AheadIs == BusInv => AheadTable
  BY AheadIsNat DEF AheadTable

\* The first in the queue leaves: everyone behind it moves up.
LEMMA MovesUp ==
  ASSUME BusInv, BusInv', NEW h \in Senders, lock # <<>>, h = Head(lock), lock' = Tail(lock),
         NEW l \in {"idle", "posting"}, bus' = [bus EXCEPT ![h] = l],
         NEW c \in Senders, c # h, bus[c] = "waiting"
  PROVE  Ahead(c)' < Ahead(c)
  <1>1. /\ Len(lock') = Len(lock) - 1 /\ Len(lock) \in Nat /\ h = lock[1]
        /\ \A i \in 1 .. Len(lock') : lock'[i] = lock[i + 1]
    BY DEF BusInv, BusType
  <1>2. PICK i \in 1 .. Len(lock) : lock[i] = c
    BY DEF BusInv, Queued
  <1>3. i \in Int /\ i >= 2 /\ i - 1 \in 1 .. Len(lock') /\ lock'[i - 1] = c
    BY <1>1, <1>2
  <1>4. Queued' => PlaceTable'
    BY PlaceIs, PTL
  <1>5. Place(c) = i /\ Place(c)' = i - 1
    BY <1>2, <1>3, <1>4, PlaceIs DEF PlaceTable, BusInv
  <1>6. bus'[c] = "waiting"
    BY DEF BusInv, BusType
  <1>7. Ahead(c) = MaxAttempts + 2 * i + (IF bus[lock[1]] = "bootstrapping" THEN 0 ELSE 1)
    BY <1>5 DEF Ahead
  <1>8. Ahead(c)' = MaxAttempts + 2 * (i - 1) + (IF bus'[lock'[1]] = "bootstrapping" THEN 0 ELSE 1)
    BY <1>5, <1>6 DEF Ahead
  <1> QED BY <1>3, <1>7, <1>8

\* A step that leaves the queue and its first one as they are leaves the
\* distance of those who wait.
LEMMA KeepsPlace ==
  ASSUME BusInv, NEW c \in Senders, bus[c] = "waiting", bus'[c] = "waiting",
         PlaceTable', \A i \in 1 .. Len(lock) : lock'[i] = lock[i], Len(lock') \in Nat,
         Len(lock') >= Len(lock), bus'[lock[1]] = bus[lock[1]]
  PROVE  Ahead(c)' = Ahead(c)
  <1>1. PICK i \in 1 .. Len(lock) : lock[i] = c
    BY DEF BusInv, Queued
  <1>2. Len(lock) \in Nat /\ i \in 1 .. Len(lock') /\ 1 \in 1 .. Len(lock)
    BY <1>1 DEF BusInv, BusType
  <1>3. Place(c) = i /\ Place(c)' = i
    BY <1>1, <1>2, PlaceIs DEF PlaceTable, BusInv
  <1>4. lock'[1] = lock[1]
    BY <1>2
  <1> QED BY <1>3, <1>4 DEF Ahead
\* Who is not in the queue depends on nothing but itself.
LEMMA KeepsAttempts ==
  ASSUME NEW c \in Senders, bus[c] # "waiting", bus'[c] = bus[c], tries'[c] = tries[c]
  PROVE  Ahead(c)' = Ahead(c)
  BY DEF Ahead

\* A step of a sender: it comes nearer, and so do those behind it if it is the
\* first in the queue; the others stay where they are.
LEMMA BusEndsNearer ==
  ASSUME BusInv, BusInv', NEW d \in Senders, BusEnds(d), NEW c \in Senders, bus[c] # "idle"
  PROVE  /\ c = d => Ahead(c)' < Ahead(c)
         /\ bus[c] = "waiting" /\ d = lock[1] => Ahead(c)' < Ahead(c)
         /\ Ahead(c)' <= Ahead(c)
  <1> USE DEF BusInv
  <1>1. /\ Ahead(c) \in Nat
        /\ bus[c] = "posting" => Ahead(c) \in 1 .. MaxAttempts
        /\ bus[c] = "bootstrapping" => Ahead(c) = MaxAttempts + 1
        /\ bus[c] = "waiting" => Ahead(c) >= MaxAttempts + 2
    BY AheadIsNat
  <1>2. /\ Ahead(c)' \in Nat
        /\ bus'[c] = "idle" <=> Ahead(c)' = 0
        /\ bus'[c] = "posting" => Ahead(c)' \in 1 .. MaxAttempts
        /\ bus'[c] = "bootstrapping" => Ahead(c)' = MaxAttempts + 1
    <2>1. BusInv' => AheadTable'
      BY AheadIs, PTL
    <2> QED BY <2>1 DEF AheadTable
  <1>3. Queued' => PlaceTable'
    BY PlaceIs, PTL
  <1>4. /\ bus \in [Senders -> {"idle", "waiting", "bootstrapping", "posting"}]
        /\ tries \in [Senders -> 0 .. MaxAttempts - 1] /\ tries[c] \in 0 .. MaxAttempts - 1
        /\ Len(lock) \in Nat /\ Len(lock') \in Nat
        /\ \A i \in 1 .. Len(lock) : lock[i] \in Senders
    BY DEF BusType
  <1>5. CASE c = d
    <2>1. CASE Acquire(d)
      <3>1. bus[c] = "waiting" /\ bus'[c] \in {"posting", "bootstrapping"}
        BY <1>4, <1>5, <2>1 DEF Acquire, Goto
      <3> QED BY <1>1, <1>2, <1>5, <3>1
    <2>2. CASE Bootstrap(d) \/ BootstrapFails(d)
      <3>1. bus[c] = "bootstrapping" /\ bus'[c] \in {"posting", "idle"}
        BY <1>4, <1>5, <2>2 DEF Bootstrap, BootstrapFails, Goto
      <3> QED BY <1>1, <1>2, <1>5, <3>1
    <2>3. CASE SendDone(d) \/ SendFails(d)
      <3>1. bus[c] = "posting" /\ bus'[c] = "idle"
        BY <1>4, <1>5, <2>3 DEF SendDone, SendFails, Goto
      <3> QED BY <1>1, <1>2, <1>5, <3>1
    <2>4. CASE SendTimesOut(d)
      <3>1. /\ bus[c] = "posting"
            /\ \/ bus'[c] = "idle"
               \/ bus'[c] = "posting" /\ tries'[c] = tries[c] + 1
        BY <1>4, <1>5, <2>4 DEF SendTimesOut, Goto
      <3>2. CASE bus'[c] = "idle"
        BY <1>1, <1>2, <1>5, <3>1, <3>2
      <3>3. CASE bus'[c] = "posting" /\ tries'[c] = tries[c] + 1
        <4>1. Ahead(c) = MaxAttempts - tries[c] /\ Ahead(c)' = MaxAttempts - (tries[c] + 1)
          BY <3>1, <3>3 DEF Ahead
        <4> QED BY <1>4, <1>5, <4>1
      <3> QED BY <3>1, <3>2, <3>3
    <2> QED BY <1>5, <2>1, <2>2, <2>3, <2>4 DEF BusEnds
  <1>6. CASE c # d
    <2>1. bus'[c] = bus[c] /\ tries'[c] = tries[c]
      BY <1>4, <1>6 DEF BusEnds, Acquire, Bootstrap, BootstrapFails, SendDone, SendTimesOut,
                        SendFails, Goto
    <2>2. CASE bus[c] # "waiting"
      BY <1>1, <1>6, <2>1, <2>2, KeepsAttempts
    <2>3. ASSUME bus[c] = "waiting", lock # <<>>, d = Head(lock), lock' = Tail(lock),
                 NEW l \in {"idle", "posting"}, bus' = [bus EXCEPT ![d] = l]
          PROVE  Ahead(c)' < Ahead(c)
      BY <1>6, <2>3, MovesUp
    <2>4. CASE bus[c] = "waiting" /\ Acquire(d)
      <3>1. lock # <<>> /\ d = Head(lock) /\ d = lock[1]
        BY <2>4 DEF Acquire, Queued, BusType
      <3>2. CASE lock' = Tail(lock)
        <4>1. \E l \in {"idle", "posting"} : bus' = [bus EXCEPT ![d] = l]
          BY <1>4, <2>4, <3>1, <3>2 DEF Acquire, Goto
        <4>2. Ahead(c)' < Ahead(c)
          BY <2>3, <2>4, <3>1, <3>2, <4>1
        <4> QED BY <1>1, <1>2, <1>6, <4>2
      <3>3. CASE UNCHANGED lock /\ Goto(d, "bootstrapping")
        <4>1. PICK i \in 1 .. Len(lock) : lock[i] = c
          BY <2>4 DEF Queued
        <4>2. Place(c) = i /\ Place(c)' = i
          BY <1>3, <3>3, <4>1, PlaceIs DEF PlaceTable
        <4>3. bus[lock[1]] # "bootstrapping" /\ bus'[lock'[1]] = "bootstrapping"
          BY <1>4, <2>4, <3>1, <3>3 DEF Acquire, Goto
        <4>4. /\ Ahead(c) = MaxAttempts + 2 * i + 1
              /\ Ahead(c)' = MaxAttempts + 2 * i + 0
          BY <2>1, <2>4, <4>2, <4>3 DEF Ahead
        <4>5. i \in Nat
          BY <1>4, <4>1
        <4> QED BY <1>6, <4>4, <4>5
      <3> QED BY <2>4, <3>2, <3>3 DEF Acquire
    <2>5. CASE bus[c] = "waiting" /\ (Bootstrap(d) \/ BootstrapFails(d))
      <3>1. lock # <<>> /\ d = Head(lock)
        BY <2>5, HeadBootstraps DEF Bootstrap, BootstrapFails
      <3>2. lock' = Tail(lock) /\ \E l \in {"idle", "posting"} : bus' = [bus EXCEPT ![d] = l]
        BY <2>5 DEF Bootstrap, BootstrapFails, Goto
      <3>3. Ahead(c)' < Ahead(c)
        BY <2>3, <2>5, <3>1, <3>2
      <3> QED BY <1>1, <1>2, <1>6, <3>3
    <2>6. CASE bus[c] = "waiting" /\ (SendDone(d) \/ SendTimesOut(d) \/ SendFails(d))
      <3>1. bus[d] = "posting" /\ UNCHANGED lock
        BY <2>6 DEF SendDone, SendTimesOut, SendFails
      <3>2. PICK i \in 1 .. Len(lock) : lock[i] = c
        BY <2>6 DEF Queued
      <3>3. 1 \in 1 .. Len(lock)
        BY <1>4, <3>2
      <3>4. d # lock[1]
        BY <3>1, <3>3 DEF Queued
      <3>5. bus'[lock[1]] = bus[lock[1]]
        BY <1>4, <2>6, <3>3, <3>4 DEF SendDone, SendTimesOut, SendFails, Goto
      <3>6. Ahead(c)' = Ahead(c)
        BY <1>3, <1>4, <2>1, <2>6, <3>1, <3>5, KeepsPlace
      <3> QED BY <1>1, <1>6, <3>4, <3>6
    <2> QED BY <2>2, <2>4, <2>5, <2>6 DEF BusEnds
  <1> QED BY <1>5, <1>6

\* Who enters _send goes behind those in the queue.
LEMMA SendKeepsOthers ==
  ASSUME BusInv, BusInv', NEW d \in Senders, NEW k, Send(d, k), NEW c \in Senders,
         bus[c] # "idle"
  PROVE  Ahead(c)' = Ahead(c)
  <1> USE DEF BusInv
  <1>1. /\ c # d /\ UNCHANGED tries
        /\ \A b \in Senders : b # d => bus'[b] = bus[b]
    BY DEF Send, Goto, BusType
  <1>2. CASE bus[c] # "waiting"
    BY <1>1, <1>2, KeepsAttempts
  <1>3. CASE bus[c] = "waiting"
    <2>1. PICK i \in 1 .. Len(lock) : lock[i] = c
      BY <1>3 DEF Queued
    <2>2. lock \in Seq(Senders) /\ Len(lock) \in Nat /\ 1 \in 1 .. Len(lock)
      BY <2>1 DEF BusType
    <2>3. lock # <<>> /\ lock[1] \in Senders
      BY <2>2
    <2>4. /\ \A j \in 1 .. Len(lock) : lock'[j] = lock[j]
          /\ Len(lock') \in Nat /\ Len(lock') >= Len(lock)
      <3>1. lock' = Append(lock, d)
        BY <2>3 DEF Send
      <3>2. Len(lock') = Len(lock) + 1 /\ \A j \in 1 .. Len(lock) : lock'[j] = lock[j]
        BY <2>2, <3>1
      <3> QED BY <2>2, <3>2
    <2>5. bus'[lock[1]] = bus[lock[1]]
      BY <1>1, <2>2, <2>3 DEF Queued, Send
    <2>6. PlaceTable'
      <3>1. Queued' => PlaceTable'
        BY PlaceIs, PTL
      <3> QED BY <3>1
    <2> QED BY <1>1, <1>3, <2>4, <2>5, <2>6, KeepsPlace
  <1> QED BY <1>2, <1>3

\* Every _send gets out of the queue and to its end by the steps of the first
\* in the queue and its own, at most two for each place and MaxAttempts for its
\* POST: senders that come later never overtake, and a lock is never kept by
\* one that failed.  With the fairness of FairSpec, that is why
\* AnnouncementsReturn holds.
THEOREM SendsSafe == Spec => SendsGoOn
  <1>1. ASSUME IInv, IInv', Next
        PROVE  \A c \in Senders : bus[c] # "idle" =>
                 /\ BusEnds(c) => Ahead(c)' < Ahead(c)
                 /\ bus[c] = "waiting" /\ BusEnds(lock[1]) => Ahead(c)' < Ahead(c)
                 /\ Ahead(c)' <= Ahead(c)
    <2> SUFFICES ASSUME NEW c \in Senders, bus[c] # "idle"
                 PROVE  /\ BusEnds(c) => Ahead(c)' < Ahead(c)
                        /\ bus[c] = "waiting" /\ BusEnds(lock[1]) => Ahead(c)' < Ahead(c)
                        /\ Ahead(c)' <= Ahead(c)
      OBVIOUS
    <2>1. BusInv /\ BusInv' /\ Ahead(c) \in Nat
      BY <1>1, AheadIsNat DEF IInv
    <2>2. BusEnds(c) => Ahead(c)' < Ahead(c)
      BY <2>1, BusEndsNearer
    <2>3. ASSUME bus[c] = "waiting", BusEnds(lock[1])
          PROVE  Ahead(c)' < Ahead(c)
      <3>1. lock[1] \in Senders
        <4>1. PICK i \in 1 .. Len(lock) : lock[i] = c
          BY <2>1, <2>3 DEF BusInv, Queued
        <4> QED BY <2>1, <4>1 DEF BusInv, BusType
      <3> QED BY <2>1, <2>3, <3>1, BusEndsNearer
    <2>4. Ahead(c)' <= Ahead(c)
      <3>1. ASSUME NEW d \in Senders, BusEnds(d) PROVE Ahead(c)' <= Ahead(c)
        BY <2>1, <3>1, BusEndsNearer
      <3>2. ASSUME NEW d \in Senders, NEW k, Send(d, k) PROVE Ahead(c)' <= Ahead(c)
        BY <2>1, <3>2, SendKeepsOthers
      <3>3. CASE UNCHANGED busVars
        <4>1. Ahead(c)' = Ahead(c)
          BY <3>3 DEF busVars, Ahead, Place
        <4> QED BY <2>1, <4>1
      <3>4. ASSUME NEW d \in Senders, Cycle(d) PROVE Ahead(c)' <= Ahead(c)
        BY <3>2, <3>3, <3>4 DEF Cycle, AnnounceSignal, AnnounceDecision, AnnounceResult,
                                Commit, Raises
      <3> QED BY <1>1, <3>1, <3>3, <3>4 DEF Next, BusNext
    <2> QED BY <2>2, <2>3, <2>4
  <1> QED BY <1>1, AnnounceInvariant, PTL DEF Spec, SendsGoOn
=============================================================================
