---------------------------- MODULE EnsIdentity -----------------------------
(***************************************************************************)
(* The agents' ENS identity (core/ens/resolver.py): one live resolver per  *)
(* process with a cache of text records and one of addresses, written by   *)
(* the trade cycles (update_text) and filled by the readers of profiles    *)
(* (get_profile, for /api/agents and /api/dashboard).                      *)
(*                                                                         *)
(* A reader goes through the keys of a profile; a key in the cache costs   *)
(* no await, any other is fetched in a thread.  The mock resolver is the   *)
(* case in which every read hits.                                          *)
(***************************************************************************)
EXTENDS Integers, FiniteSetsExt

CONSTANTS Roles,    \* the names: a role's subdomain
          NKeys,    \* the number of _PROFILE_KEYS
          OnChain,  \* the text records that are set on the chain
          Readers,  \* requests that read profiles
          Polls,    \* those of /api/dashboard, which give up after 1.5 s
          Writers,  \* a value is named after the cycle that wrote it
          Shown     \* the roles whose profiles are read

ASSUME KeysAssumption   == NKeys \in Nat
ASSUME RecordsAssumption == OnChain \subseteq Roles \X (1 .. NKeys) /\ Shown \subseteq Roles
ASSUME PollsAssumption  == Polls \subseteq Readers
ASSUME ValuesAssumption == "none" \notin Writers /\ "chain" \notin Writers /\ "none" \notin Roles

VARIABLES
  text,     \* _text_cache
  resolved, \* the roles in _addr_cache, with an address or with None
  fetch,    \* what a reader fetches: a record, or the address of a role
  \* History.
  latest,   \* the last update of a record
  raced     \* records that were being fetched when that update was made

ensVars == <<text, resolved, fetch, latest, raced>>

None    == "none"
Records == Roles \X (1 .. NKeys)
Values  == Writers \cup {None, "chain"}

\* A fetch for the profile of a role: of a key, or of the address (key 0).
NoFetch == <<None, 0>>
Fetches == Roles \X (0 .. NKeys)

\* What a read of the profile of r fetches next from key k on, for a cache t.
NextFetch(r, k, t) ==
  LET missing == {j \in k .. NKeys : t[<<r, j>>] = None}
  IN  IF missing # {} THEN <<r, Min(missing)>>
      ELSE IF r \notin resolved THEN <<r, 0>> ELSE NoFetch

Fetching(x) == fetch[x] \in Records

\* Mutant: an update does not replace a record that is there.
UpdateTextOnce(S, v) ==
  /\ text' = [p \in Records |-> IF p \in S /\ text[p] = None THEN v ELSE text[p]]
  /\ latest' = [p \in Records |-> IF p \in S THEN v ELSE latest[p]]
  /\ raced' = (raced \ S) \cup {p \in S : \E x \in Readers : fetch[x] = p}
  /\ UNCHANGED <<resolved, fetch>>

\* update_text of the records S, with no await: only the cache is written.
UpdateText(S, v) ==
  /\ text' = [p \in Records |-> IF p \in S THEN v ELSE text[p]]
  /\ latest' = [p \in Records |-> IF p \in S THEN v ELSE latest[p]]
  /\ raced' = (raced \ S) \cup {p \in S : \E x \in Readers : fetch[x] = p}
  /\ UNCHANGED <<resolved, fetch>>

\* get_profile is called.
GetProfile(x, r) ==
  /\ fetch[x] = NoFetch
  /\ fetch' = [fetch EXCEPT ![x] = NextFetch(r, 1, text)]
  /\ UNCHANGED <<text, resolved, latest, raced>>

\* Mutant: the key is read until it is there.
GoOnWhenThere(x) == fetch' = [fetch EXCEPT ![x] = NextFetch(@[1], @[2], text')]

\* The reader x goes on behind the record it fetched.
GoOn(x) == fetch' = [fetch EXCEPT ![x] = NextFetch(@[1], @[2] + 1, text')]

\* The chain's answer arrives: a record that is set goes into the cache,
\* whatever is there by now.
GetTextRecord(x) ==
  /\ Fetching(x)
  /\ text' = [text EXCEPT ![fetch[x]] = IF fetch[x] \in OnChain THEN "chain" ELSE @]
  /\ GoOn(x)
  /\ UNCHANGED <<resolved, latest, raced>>

GetTextRecordFails(x) ==
  /\ Fetching(x)
  /\ UNCHANGED text
  /\ GoOn(x)
  /\ UNCHANGED <<resolved, latest, raced>>

\* The address, or None when there is none or the request failed, is kept for
\* good, over what another reader found in the meantime.
ResolveAddress(x) ==
  /\ fetch[x] \in Roles \X {0}
  /\ resolved' = resolved \cup {fetch[x][1]}
  /\ fetch' = [fetch EXCEPT ![x] = NoFetch]
  /\ UNCHANGED <<text, latest, raced>>

\* wait_for cancels the read of a poll: the thread's answer is dropped.
ProfileTimesOut(x) ==
  /\ x \in Polls
  /\ fetch[x] # NoFetch
  /\ fetch' = [fetch EXCEPT ![x] = NoFetch]
  /\ UNCHANGED <<text, resolved, latest, raced>>

EnsInit ==
  /\ text   = [p \in Records |-> None]
  /\ resolved = {}
  /\ fetch  = [x \in Readers |-> NoFetch]
  /\ latest = [p \in Records |-> None]
  /\ raced  = {}

ReadEnds(x) ==
  \/ GetTextRecord(x)
  \/ GetTextRecordFails(x)
  \/ ResolveAddress(x)

EnsNext ==
  \E x \in Readers :
    \/ \E r \in Shown : GetProfile(x, r)
    \/ ReadEnds(x)
    \/ ProfileTimesOut(x)

\* A thread's request ends: the provider has a timeout of its own.
EnsFairness == \A x \in Readers : WF_ensVars(ReadEnds(x))
=============================================================================
