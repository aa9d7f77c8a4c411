---------------------------- MODULE SwarmStorage ----------------------------
(***************************************************************************)
(* The swarm's memory on 0G Storage: SwarmLog.append (core/storage/log.py) *)
(* and AgentMemory.update_status (agent_memory.py) over one SwarmKV        *)
(* (kv.py) whose manifest maps keys to root hashes of immutable objects.   *)
(*                                                                         *)
(* Every operation is a coroutine; an action is what it does between two   *)
(* awaits of the storage client, on the answer of the first one.  With the *)
(* live client (SWARMFI_BUFFERED=0) an await really suspends and other     *)
(* coroutines of the process run: live.  The in-memory and the buffered    *)
(* client answer without suspending, so that an operation runs to its end: *)
(* ~live.  ZeroGClient.from_env chooses the client once.                   *)
(*                                                                         *)
(* The live client's upload returns the root as soon as the flow           *)
(* transaction is sent, or computes it locally when the upload timed out   *)
(* (zg-sidecar/sidecar.mjs): an object may be missing on 0G although its   *)
(* upload returned, for a while or for good.  Such objects are in late.    *)
(*                                                                         *)
(* A root hash is modelled by the object it is the hash of.  A log entry   *)
(* and an agent state are named by the operation that writes them; an      *)
(* absent key is the empty index, or the swarm state without agents,       *)
(* neither of which the code ever stores.                                  *)
(***************************************************************************)
EXTENDS Integers, Sequences, Functions, SequencesExt

CONSTANTS Appends,      \* calls of log_event
          Updates,      \* calls of update_status
          Roles,
          RoleOf,       \* the agent that makes an update
          None,
          MaxOps,       \* bound on the calls that are made
          MaxLate,      \* bound on the objects missing at one time
          MaxRestarts   \* bound on the restarts of the process

ASSUME OpsAssumption      == Appends \cap Updates = {}
ASSUME RolesAssumption    == RoleOf \in [Updates -> Roles] /\ None \notin Updates
ASSUME BoundsAssumption   == MaxOps \in Nat /\ MaxLate \in Nat /\ MaxRestarts \in Nat

VARIABLES
  pc,        \* where each operation stands
  idx,       \* LogIndex an append read, then the one it writes
  sw,        \* SwarmState an update read, then the one it writes
  snap,      \* manifest an operation is persisting
  manifest,  \* SwarmKV._manifest
  root,      \* SwarmKV._manifest_root
  store,     \* objects on 0G, or in the memory of the client
  late,      \* objects whose upload returned before a storage node had them
  live,      \* does the client's upload suspend its caller?
  restarts,
  apart      \* history: operations of this process that overlapped no other
             \* one of their kind

kv      == <<manifest, root>>
objects == <<store, late>>
world   == <<live, restarts>>
vars    == <<pc, idx, sw, snap, manifest, root, store, late, live, restarts, apart>>

Ops        == Appends \cup Updates
NoAgents   == [r \in Roles |-> None]
NoManifest == [index |-> <<>>, agent |-> NoAgents, swarm |-> NoAgents]

EntryObj(o)    == <<"entry", o>>
IndexObj(i)    == <<"index", i>>
AgentObj(o)    == <<"agent", o>>
SwarmObj(s)    == <<"swarm", s>>
ManifestObj(m) == <<"manifest", m>>

Uploading == {"entry", "index", "indexPersist", "agent", "agentPersist",
              "swarm", "swarmPersist"}
InFlight  == Uploading \cup {"indexLoad", "swarmLoad"}

\* The object an operation is uploading.
Pending(o) ==
  CASE pc[o] = "entry" -> EntryObj(o)
    [] pc[o] = "index" -> IndexObj(idx[o])
    [] pc[o] = "agent" -> AgentObj(o)
    [] pc[o] = "swarm" -> SwarmObj(sw[o])
    [] OTHER           -> ManifestObj(snap[o])

\* No other operation is suspended half way, or that does not matter.
MayRun(o) == live \/ \A p \in Ops \ {o} : pc[p] \notin InFlight

\* The operations that have begun.
Begun == {o \in Ops : pc[o] # "idle"}

Goto(o, l) == pc' = [pc EXCEPT ![o] = l]

\* An operation is over: what it held is gone.
Leave(o, l) ==
  /\ Goto(o, l)
  /\ idx'  = [p \in Appends |-> IF p = o THEN <<>> ELSE idx[p]]
  /\ sw'   = [p \in Updates |-> IF p = o THEN NoAgents ELSE sw[p]]
  /\ snap' = [snap EXCEPT ![o] = NoManifest]

\* An operation of a kind begins: it and those it meets under way overlap.
Begin(o, kind) ==
  LET met == {p \in kind : pc[p] \in InFlight}
  IN apart' = IF met = {} THEN apart \cup {o} ELSE apart \ met

-----------------------------------------------------------------------------
(* SwarmKV.                                                                *)

\* An upload returns x's root hash.  With the sidecar, x need not be there.
Stored(x) == store' = store \cup {x} /\ UNCHANGED late
ReturnedEarly(x) ==
  /\ live
  /\ Cardinality(late) < MaxLate
  /\ late' = late \cup {x}
  /\ UNCHANGED store

\* A storage node picks up an object after all.  Nothing says that it must.
Propagated(x) ==
  /\ x \in late
  /\ store' = store \cup {x}
  /\ late'  = late \ {x}
  /\ UNCHANGED <<pc, idx, sw, snap, kv, world, apart>>

\* An upload answers: the operation at label l goes on.
Uploaded(o, l) ==
  /\ pc[o] = l
  /\ MayRun(o)
  /\ Stored(Pending(o)) \/ ReturnedEarly(Pending(o))

\* set: the value's hash goes into the manifest, and the manifest as it is
\* now is what _persist_manifest uploads.
Assign(o, m, l) ==
  /\ manifest' = m
  /\ snap' = [snap EXCEPT ![o] = m]
  /\ Goto(o, l)

\* _persist_manifest after its upload.
SetRoot(o) == root' = snap[o]

-----------------------------------------------------------------------------
(* SwarmLog.append.                                                        *)

StartAppend(o) ==
  /\ pc[o] = "idle"
  /\ Cardinality(Begun) < MaxOps
  /\ MayRun(o)
  /\ Goto(o, "entry")
  /\ Begin(o, Appends)
  /\ UNCHANGED <<idx, sw, snap, kv, objects, world>>

\* Mutant: the index is read and extended, the entry uploaded later.
EntryForgotten(o) ==
  /\ pc[o] = "entry"
  /\ MayRun(o)
  /\ idx' = [idx EXCEPT ![o] = IF manifest.index = <<>> THEN <<o>> ELSE manifest.index]
  /\ Goto(o, IF manifest.index = <<>> THEN "index" ELSE "indexLoad")
  /\ UNCHANGED <<sw, snap, kv, objects, world, apart>>

\* The entry's hash is known; _load_index looks the index up, and suspends only if
\* there is one to download.
EntryUploaded(o) ==
  /\ Uploaded(o, "entry")
  /\ idx' = [idx EXCEPT ![o] = IF manifest.index = <<>> THEN <<o>> ELSE manifest.index]
  /\ Goto(o, IF manifest.index = <<>> THEN "index" ELSE "indexLoad")
  /\ UNCHANGED <<sw, snap, kv, world, apart>>

\* Mutant: an index that cannot be downloaded is taken for an empty one.
IndexOrEmpty(o) ==
  /\ pc[o] = "indexLoad"
  /\ MayRun(o)
  /\ idx' = [idx EXCEPT ![o] = IF IndexObj(@) \in store THEN Append(@, o) ELSE <<o>>]
  /\ Goto(o, "index")
  /\ UNCHANGED <<sw, snap, kv, objects, world, apart>>

\* The download finds the index, which decodes: its hash is the hash of one
\* that this code encoded.  While no node has it the sidecar tries again, and
\* ends by failing the operation.
IndexLoaded(o) ==
  /\ pc[o] = "indexLoad"
  /\ MayRun(o)
  /\ IndexObj(idx[o]) \in store
  /\ idx' = [idx EXCEPT ![o] = Append(@, o)]
  /\ Goto(o, "index")
  /\ UNCHANGED <<sw, snap, kv, objects, world, apart>>

IndexUploaded(o) ==
  /\ Uploaded(o, "index")
  /\ Assign(o, [manifest EXCEPT !.index = idx[o]], "indexPersist")
  /\ UNCHANGED <<idx, sw, root, world, apart>>

IndexPersisted(o) ==
  /\ Uploaded(o, "indexPersist")
  /\ SetRoot(o)
  /\ Leave(o, "done")
  /\ UNCHANGED <<manifest, world, apart>>

-----------------------------------------------------------------------------
(* AgentMemory.update_status.                                              *)

StartUpdate(o) ==
  /\ pc[o] = "idle"
  /\ Cardinality(Begun) < MaxOps
  /\ MayRun(o)
  /\ Goto(o, "agent")
  /\ Begin(o, Updates)
  /\ UNCHANGED <<idx, sw, snap, kv, objects, world>>

AgentUploaded(o) ==
  /\ Uploaded(o, "agent")
  /\ Assign(o, [manifest EXCEPT !.agent = [@ EXCEPT ![RoleOf[o]] = o]], "agentPersist")
  /\ UNCHANGED <<idx, sw, root, world, apart>>

\* Mutant: the aggregate is only written when there is one already.
AgentPersistedOnly(o) ==
  /\ Uploaded(o, "agentPersist")
  /\ SetRoot(o)
  /\ sw' = [sw EXCEPT ![o] = manifest.swarm]
  /\ Goto(o, IF manifest.swarm = NoAgents THEN "done" ELSE "swarmLoad")
  /\ UNCHANGED <<idx, snap, manifest, world, apart>>

\* The agent's own key is set; read_swarm_state looks the aggregate up.
AgentPersisted(o) ==
  /\ Uploaded(o, "agentPersist")
  /\ SetRoot(o)
  /\ sw' = [sw EXCEPT ![o] =
              IF manifest.swarm = NoAgents
                THEN [NoAgents EXCEPT ![RoleOf[o]] = o]
                ELSE manifest.swarm]
  /\ Goto(o, IF manifest.swarm = NoAgents THEN "swarm" ELSE "swarmLoad")
  /\ snap' = [snap EXCEPT ![o] = NoManifest]
  /\ UNCHANGED <<idx, manifest, world, apart>>

SwarmLoaded(o) ==
  /\ pc[o] = "swarmLoad"
  /\ MayRun(o)
  /\ SwarmObj(sw[o]) \in store
  /\ sw' = [sw EXCEPT ![o] = [@ EXCEPT ![RoleOf[o]] = o]]
  /\ Goto(o, "swarm")
  /\ UNCHANGED <<idx, snap, kv, objects, world, apart>>

SwarmUploaded(o) ==
  /\ Uploaded(o, "swarm")
  /\ Assign(o, [manifest EXCEPT !.swarm = sw[o]], "swarmPersist")
  /\ UNCHANGED <<idx, sw, root, world, apart>>

SwarmPersisted(o) ==
  /\ Uploaded(o, "swarmPersist")
  /\ SetRoot(o)
  /\ Leave(o, "done")
  /\ UNCHANGED <<manifest, world, apart>>

-----------------------------------------------------------------------------
(* Failure: a sidecar exits with an error, or wait_for or stop() cancels   *)
(* the operation at an await.  The sidecar's thread goes on: the object    *)
(* may be stored.  The clients in memory neither fail nor suspend.         *)

\* Mutant: a failed manifest upload makes the append start over.
OperationRetried(o, got) ==
  /\ pc[o] = "indexPersist"
  /\ MayRun(o)
  /\ idx' = [idx EXCEPT ![o] = manifest.index]
  /\ Goto(o, "indexLoad")
  /\ UNCHANGED <<sw, snap, kv, objects, world, apart>>

OperationFails(o, got) ==
  /\ live
  /\ pc[o] \in InFlight
  /\ store' = IF got /\ pc[o] \in Uploading THEN store \cup {Pending(o)} ELSE store
  /\ Leave(o, "failed")
  /\ UNCHANGED <<kv, late, world, apart>>

\* The process dies and comes back with a new SwarmKV: nothing calls
\* load_manifest with the last root.  What the in-memory and the buffered
\* client hold dies with it; what is on 0G stays.
Restart ==
  /\ restarts < MaxRestarts
  /\ restarts' = restarts + 1
  /\ pc' = [o \in Ops |-> IF pc[o] \in InFlight THEN "failed" ELSE pc[o]]
  /\ manifest' = NoManifest
  /\ root'     = NoManifest
  /\ store'    = IF live THEN store ELSE {}
  /\ apart'    = {}
  /\ idx'      = [o \in Appends |-> <<>>]
  /\ sw'       = [o \in Updates |-> NoAgents]
  /\ snap'     = [o \in Ops |-> NoManifest]
  /\ UNCHANGED <<late, live>>

-----------------------------------------------------------------------------

Init ==
  /\ pc       = [o \in Ops |-> "idle"]
  /\ idx      = [o \in Appends |-> <<>>]
  /\ sw       = [o \in Updates |-> NoAgents]
  /\ snap     = [o \in Ops |-> NoManifest]
  /\ manifest = NoManifest
  /\ root     = NoManifest
  /\ store    = {}
  /\ late     = {}
  /\ live     \in BOOLEAN
  /\ restarts = 0
  /\ apart    = {}

AppendStep(o) ==
  \/ StartAppend(o)
  \/ EntryUploaded(o)
  \/ IndexLoaded(o)
  \/ IndexUploaded(o)
  \/ IndexPersisted(o)

UpdateStep(o) ==
  \/ StartUpdate(o)
  \/ AgentUploaded(o)
  \/ AgentPersisted(o)
  \/ SwarmLoaded(o)
  \/ SwarmUploaded(o)
  \/ SwarmPersisted(o)

Ended ==
  /\ \A o \in Begun : pc[o] \in {"done", "failed"}
  /\ Begun = Ops \/ Cardinality(Begun) = MaxOps

Next ==
  \/ \E o \in Appends : AppendStep(o)
  \/ \E o \in Updates : UpdateStep(o)
  \/ \E o \in Ops, got \in BOOLEAN : OperationFails(o, got)
  \/ \E x \in late : Propagated(x)
  \/ Restart
  \/ Ended /\ UNCHANGED vars

Spec == Init /\ [][Next]_vars

-----------------------------------------------------------------------------
(* Properties.                                                             *)

AgentMap == [Roles -> Updates \cup {None}]
Manifest == [index : Seq(Appends), agent : AgentMap, swarm : AgentMap]

Objects == ({"entry"} \X Appends) \cup ({"index"} \X Seq(Appends))
           \cup ({"agent"} \X Updates) \cup ({"swarm"} \X AgentMap)
           \cup ({"manifest"} \X Manifest)

\* The shape of the state of the store and of the operations under way.
TypeOK ==
  /\ pc       \in [Ops -> InFlight \cup {"idle", "done", "failed"}]
  /\ idx      \in [Appends -> Seq(Appends)]
  /\ sw       \in [Updates -> AgentMap]
  /\ snap     \in [Ops -> Manifest]
  /\ manifest \in Manifest
  /\ root     \in Manifest
  /\ store    \subseteq Objects
  /\ late     \subseteq Objects
  /\ live     \in BOOLEAN
  /\ restarts \in 0 .. MaxRestarts
  /\ apart    \subseteq Ops

\* The objects whose upload returned, and those that are there anyway.
Known == store \cup late

\* Everything a manifest leads to was uploaded: the index, every entry of the
\* index, the agents' states and the aggregate.
Resolves(m) ==
  /\ m.index # <<>> => IndexObj(m.index) \in Known
  /\ \A e \in Range(m.index) : EntryObj(e) \in Known
  /\ \A r \in Roles : m.agent[r] # None => AgentObj(m.agent[r]) \in Known
  /\ m.swarm # NoAgents => SwarmObj(m.swarm) \in Known

\* Whichever requests failed, were cancelled or overlapped, a hash in the
\* manifest in memory, or in the one the last root stands for, misses its
\* object for one reason only: the sidecar returned the hash before a storage
\* node had the object.  With the clients in memory none does.
OnlyLateDangles ==
  /\ Resolves(manifest)
  /\ root # NoManifest => ManifestObj(root) \in Known /\ Resolves(root)
  /\ ~live => late = {}

\* No entry is in the log twice, in memory or as persisted, although appends
\* of several coroutines read and write the same index.
EntriesOnce == IsInjective(manifest.index) /\ IsInjective(root.index)

\* The log implements the abstract one: an append that overlapped no other
\* append and returned stays in the log with all that was before it, until the
\* process ends, although later appends overlap, fail or are cancelled.
LogSpec ==
  INSTANCE SessionLog
    WITH Entries <- Appends,
         log     <- manifest.index,
         acked   <- {o \in Appends \cap apart : pc[o] = "done"}
ImplementsSessionLog == LogSpec!Spec

\* The aggregate that the other agents read shows the state an agent's own key
\* has, once the update returned, if it overlapped no other update, whichever
\* updates of other agents overlap or fail afterwards.
SwarmStateFollows ==
  \A o \in Updates \cap apart :
    pc[o] = "done" /\ manifest.agent[RoleOf[o]] = o => manifest.swarm[RoleOf[o]] = o

\* core/storage/log.py:14: any agent can replay the full history: an append
\* that returned is in the log.
HistoryIsFull ==
  \A o \in Appends : pc[o] = "done" => o \in Range(manifest.index)
=============================================================================
