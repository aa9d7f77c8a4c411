------------------------- MODULE SwarmStorageProofs -------------------------
(***************************************************************************)
(* Proofs about SwarmStorage, for any operations, any agents, interleaved  *)
(* or not, and any number of objects that are late.                        *)
(*                                                                         *)
(* IInv is about what was uploaded.  Once adds that no index, read,        *)
(* written or under way, has an append that has not extended one yet:      *)
(* entries stay unique however appends interleave.  LogKept and SwarmKept  *)
(* say what an operation that overlapped no other of its kind can count    *)
(* on afterwards: every copy of the index, or of the aggregate, that an    *)
(* operation under way will write back has what it wrote.                  *)
(***************************************************************************)
EXTENDS SwarmStorage, TLAPS

-----------------------------------------------------------------------------
(* The inductive invariant.                                                *)

\* Appends are at the labels of append, updates at those of update_status.
LabelsOK ==
  /\ \A o \in Appends :
       pc[o] \in {"idle", "entry", "indexLoad", "index", "indexPersist", "done",
                 "failed"}
  /\ \A o \in Updates :
       pc[o] \in {"idle", "agent", "agentPersist", "swarmLoad", "swarm",
                 "swarmPersist", "done", "failed"}

EntriesStored(i) == \A e \in Range(i) : EntryObj(e) \in Known

\* An append extends an index whose entries, and its own, were uploaded.
AppendsOK ==
  \A o \in Appends :
    /\ pc[o] = "indexLoad" => EntriesStored(idx[o]) /\ EntryObj(o) \in Known
    /\ pc[o] = "index" => EntriesStored(idx[o])

\* The manifest that an operation is persisting has no dangling hash.
PersistsOK ==
  \A o \in Ops :
    pc[o] \in {"indexPersist", "agentPersist", "swarmPersist"} => Resolves(snap[o])

IInv == TypeOK /\ LabelsOK /\ OnlyLateDangles /\ AppendsOK /\ PersistsOK

\* Every log index there is: in memory, persisted, or under way.
Indexes ==
  {manifest.index, root.index} \cup {snap[o].index : o \in Ops} \cup {idx[o] : o \in Appends}

\* An append is in no index before it has read the index it extends, and in
\* each at most once.
Before == {"idle", "entry", "indexLoad"}
Once ==
  \A i \in Indexes :
    /\ IsInjective(i)
    /\ \A o \in Appends : pc[o] \in Before => o \notin Range(i)

-----------------------------------------------------------------------------
(* Facts about the operators of the model.                                 *)

\* LogIndex.append adds one entry to those of the index.
LEMMA RangeOfAppend ==
  ASSUME NEW S, NEW s \in Seq(S), NEW e \in S
  PROVE  Range(Append(s, e)) = Range(s) \cup {e}
<1> DEFINE t == Append(s, e)
<1>1. /\ DOMAIN s = 1 .. Len(s) /\ Len(s) \in Nat
      /\ DOMAIN t = 1 .. Len(s) + 1
      /\ \A i \in 1 .. Len(s) : t[i] = s[i]
      /\ t[Len(s) + 1] = e
  OBVIOUS
<1> HIDE DEF t
<1>2. ASSUME NEW x \in Range(t)
      PROVE  x \in Range(s) \cup {e}
  <2>1. PICK i \in DOMAIN t : x = t[i]
    BY <1>2 DEF Range
  <2>2. i \in 1 .. Len(s) \/ i = Len(s) + 1
    BY <1>1
  <2> QED
    BY <1>1, <2>1, <2>2 DEF Range
<1>3. ASSUME NEW x \in Range(s) \cup {e}
      PROVE  x \in Range(t)
  <2>1. PICK i \in DOMAIN t : x = t[i]
    <3>1. CASE x = e
      <4>1. Len(s) + 1 \in DOMAIN t
        BY <1>1
      <4> QED
        BY <1>1, <3>1, <4>1
    <3>2. CASE x \in Range(s)
      <4>1. PICK i \in DOMAIN s : x = s[i]
        BY <3>2 DEF Range
      <4> QED
        BY <1>1, <4>1
    <3> QED
      BY <1>3, <3>1, <3>2
  <2> QED
    BY <2>1 DEF Range
<1> QED
  BY <1>2, <1>3 DEF t

\* What was uploaded for a manifest stays so.
LEMMA ResolvesMonotone ==
  ASSUME NEW m \in Manifest, Resolves(m), Known \subseteq Known'
  PROVE  Resolves(m)'
BY DEF Resolves

\* The object of an upload under way is well formed.
LEMMA PendingTyped ==
  ASSUME TypeOK, LabelsOK, NEW o \in Ops, pc[o] \in Uploading
  PROVE  Pending(o) \in Objects
<1>1. /\ snap[o] \in Manifest
      /\ o \in Appends \/ o \in Updates
      /\ o \in Appends => idx[o] \in Seq(Appends)
      /\ o \in Updates => sw[o] \in AgentMap
  BY DEF TypeOK, Ops
<1>2. /\ pc[o] \in {"entry", "index"} => o \in Appends
      /\ pc[o] \in {"agent", "swarm"} => o \in Updates
  BY <1>1 DEF LabelsOK
<1> QED
  BY <1>1, <1>2 DEF Pending, Objects, EntryObj, IndexObj, AgentObj, SwarmObj, ManifestObj

\* The locals of an operation that is over are empty, the others' as before.
LEMMA LeaveFacts ==
  ASSUME TypeOK, NEW o \in Ops, NEW l \in {"done", "failed"}, Leave(o, l)
  PROVE  /\ pc' \in [Ops -> InFlight \cup {"idle", "done", "failed"}]
         /\ idx' \in [Appends -> Seq(Appends)] /\ sw' \in [Updates -> AgentMap]
         /\ snap' \in [Ops -> Manifest]
         /\ pc'[o] = l /\ \A p \in Ops : p # o => pc'[p] = pc[p] /\ snap'[p] = snap[p]
         /\ snap'[o] = NoManifest
         /\ \A p \in Appends : idx'[p] = IF p = o THEN <<>> ELSE idx[p]
         /\ \A p \in Updates : sw'[p] = IF p = o THEN NoAgents ELSE sw[p]
<1>1. NoManifest \in Manifest /\ NoAgents \in AgentMap /\ <<>> \in Seq(Appends)
  BY DEF NoManifest, NoAgents, Manifest, AgentMap
<1>2. pc' = [pc EXCEPT ![o] = l] /\ snap' = [snap EXCEPT ![o] = NoManifest]
  BY DEF Leave, Goto
<1>3. /\ pc' \in [Ops -> InFlight \cup {"idle", "done", "failed"}]
      /\ snap' \in [Ops -> Manifest] /\ snap'[o] = NoManifest
      /\ pc'[o] = l /\ \A p \in Ops : p # o => pc'[p] = pc[p] /\ snap'[p] = snap[p]
  BY <1>1, <1>2 DEF TypeOK
<1>4. /\ idx' \in [Appends -> Seq(Appends)]
      /\ \A p \in Appends : idx'[p] = IF p = o THEN <<>> ELSE idx[p]
  BY <1>1 DEF Leave, TypeOK
<1>5. /\ sw' \in [Updates -> AgentMap]
      /\ \A p \in Updates : sw'[p] = IF p = o THEN NoAgents ELSE sw[p]
  BY <1>1 DEF Leave, TypeOK
<1> QED
  BY <1>3, <1>4, <1>5

\* An upload that returns adds its object to those uploaded, wherever it is.
LEMMA UploadedKnown ==
  ASSUME TypeOK, LabelsOK, OnlyLateDangles, NEW o \in Ops, NEW l \in Uploading,
         Uploaded(o, l), UNCHANGED live
  PROVE  /\ Known' = Known \cup {Pending(o)}
         /\ store' \subseteq Objects /\ late' \subseteq Objects
         /\ ~live' => late' = {}
<1>1. Pending(o) \in Objects
  BY PendingTyped DEF Uploaded
<1> QED
  BY <1>1 DEF Uploaded, Stored, ReturnedEarly, Known, TypeOK, OnlyLateDangles

-----------------------------------------------------------------------------
(* Induction.                                                              *)

\* A fresh SwarmKV and no operation under way satisfy the invariant.
LEMMA InitInv == Init => IInv
BY OpsAssumption, RolesAssumption, BoundsAssumption
   DEF Init, IInv, TypeOK, LabelsOK, OnlyLateDangles, Resolves, AppendsOK,
       PersistsOK, NoManifest, NoAgents, Manifest, AgentMap, Ops, InFlight,
       Uploading, Range

\* Starting an append changes nothing but its label.
LEMMA StartAppendStep ==
  ASSUME IInv, NEW o \in Appends, StartAppend(o)
  PROVE  IInv'
<1> USE OpsAssumption, RolesAssumption DEF IInv, StartAppend, Begin, Goto, Ops,
        kv, objects, world
<1>1. /\ Known \subseteq Known'
      /\ store' \subseteq Objects /\ late' \subseteq Objects /\ (~live' => late' = {})
  BY DEF TypeOK, Known, OnlyLateDangles
<1>2. TypeOK' /\ LabelsOK'
  BY <1>1 DEF TypeOK, LabelsOK, InFlight, Uploading, Uploaded
<1>3. OnlyLateDangles'
  BY <1>1, ResolvesMonotone DEF OnlyLateDangles, TypeOK, Uploaded
<1>4. AppendsOK'
  BY <1>1 DEF AppendsOK, LabelsOK, TypeOK, EntriesStored, Uploaded
<1>5. PersistsOK'
  BY <1>1, ResolvesMonotone DEF PersistsOK, LabelsOK, TypeOK, Uploaded
<1> QED
  BY <1>2, <1>3, <1>4, <1>5

\* The entry is on 0G before any index names it.
LEMMA EntryUploadedStep ==
  ASSUME IInv, NEW o \in Appends, EntryUploaded(o)
  PROVE  IInv'
<1> USE OpsAssumption, RolesAssumption DEF IInv, EntryUploaded, Goto, Ops,
        kv, objects, world
<1>1. /\ Known \subseteq Known' /\ Pending(o) \in Known'
      /\ store' \subseteq Objects /\ late' \subseteq Objects /\ (~live' => late' = {})
  BY UploadedKnown DEF Uploading
<1>2. TypeOK' /\ LabelsOK'
  <2>1. manifest.index \in Seq(Appends) /\ <<o>> \in Seq(Appends)
    BY DEF TypeOK, Manifest
  <2> QED
    BY <1>1, <2>1 DEF TypeOK, LabelsOK, InFlight, Uploading, Uploaded
<1>3. OnlyLateDangles'
  BY <1>1, ResolvesMonotone DEF OnlyLateDangles, TypeOK, Uploaded
<1>4. AppendsOK'
  <2>1. EntryObj(o) \in Known' /\ EntriesStored(manifest.index)
    BY <1>1 DEF Uploaded, Pending, OnlyLateDangles, Resolves, EntriesStored
  <2>2. Range(<<o>>) = {o}
    BY DEF Range
  <2>3. EntriesStored(idx[o])'
    <3>1. CASE manifest.index = <<>>
      BY <2>1, <2>2, <3>1 DEF EntriesStored, TypeOK
    <3>2. CASE manifest.index # <<>>
      BY <1>1, <2>1, <3>2 DEF EntriesStored, TypeOK
    <3> QED
      BY <3>1, <3>2
  <2>4. ASSUME NEW p \in Appends, p # o
        PROVE  /\ pc[p]' = pc[p] /\ idx[p]' = idx[p]
               /\ EntriesStored(idx[p]) => EntriesStored(idx[p])'
    BY <1>1, <2>4 DEF TypeOK, EntriesStored
  <2> QED
    BY <1>1, <2>1, <2>3, <2>4 DEF AppendsOK, TypeOK
<1>5. PersistsOK'
  BY <1>1, ResolvesMonotone DEF PersistsOK, LabelsOK, TypeOK, Uploaded
<1> QED
  BY <1>2, <1>3, <1>4, <1>5

\* The extended index names stored entries only.
LEMMA IndexLoadedStep ==
  ASSUME IInv, NEW o \in Appends, IndexLoaded(o)
  PROVE  IInv'
<1> USE OpsAssumption, RolesAssumption DEF IInv, IndexLoaded, Goto, Ops,
        kv, objects, world
<1>1. /\ Known \subseteq Known'
      /\ store' \subseteq Objects /\ late' \subseteq Objects /\ (~live' => late' = {})
  BY DEF TypeOK, Known, OnlyLateDangles
<1>2. TypeOK' /\ LabelsOK'
  BY <1>1 DEF TypeOK, LabelsOK, InFlight, Uploading, Uploaded
<1>3. OnlyLateDangles'
  BY <1>1, ResolvesMonotone DEF OnlyLateDangles, TypeOK, Uploaded
<1>4. AppendsOK'
  BY <1>1 DEF AppendsOK, LabelsOK, TypeOK, EntriesStored, Uploaded, Range
<1>5. PersistsOK'
  BY <1>1, ResolvesMonotone DEF PersistsOK, LabelsOK, TypeOK, Uploaded
<1> QED
  BY <1>2, <1>3, <1>4, <1>5

\* Starting an update changes nothing but its label.
LEMMA StartUpdateStep ==
  ASSUME IInv, NEW o \in Updates, StartUpdate(o)
  PROVE  IInv'
<1> USE OpsAssumption, RolesAssumption DEF IInv, StartUpdate, Begin, Goto, Ops,
        kv, objects, world
<1>1. /\ Known \subseteq Known'
      /\ store' \subseteq Objects /\ late' \subseteq Objects /\ (~live' => late' = {})
  BY DEF TypeOK, Known, OnlyLateDangles
<1>2. TypeOK' /\ LabelsOK'
  BY <1>1 DEF TypeOK, LabelsOK, InFlight, Uploading, Uploaded
<1>3. OnlyLateDangles'
  BY <1>1, ResolvesMonotone DEF OnlyLateDangles, TypeOK, Uploaded
<1>4. AppendsOK'
  BY <1>1 DEF AppendsOK, LabelsOK, TypeOK, EntriesStored, Uploaded
<1>5. PersistsOK'
  BY <1>1, ResolvesMonotone DEF PersistsOK, LabelsOK, TypeOK, Uploaded
<1> QED
  BY <1>2, <1>3, <1>4, <1>5

\* The index is on 0G before the manifest names it.
LEMMA IndexUploadedStep ==
  ASSUME IInv, NEW o \in Appends, IndexUploaded(o)
  PROVE  IInv'
<1> USE OpsAssumption, RolesAssumption DEF IInv, IndexUploaded, Assign, Goto, Ops,
        kv, objects, world
<1>1. /\ Known \subseteq Known' /\ Pending(o) \in Known'
      /\ store' \subseteq Objects /\ late' \subseteq Objects /\ (~live' => late' = {})
  BY UploadedKnown DEF Uploading
<1>2. TypeOK' /\ LabelsOK'
  BY <1>1 DEF TypeOK, LabelsOK, InFlight, Uploading, Uploaded, Manifest, AgentMap
<1>3. OnlyLateDangles'
  BY <1>1, ResolvesMonotone DEF OnlyLateDangles, TypeOK, Uploaded, Manifest, AgentMap, Resolves, Pending, AppendsOK, EntriesStored
<1>4. AppendsOK'
  BY <1>1 DEF AppendsOK, LabelsOK, TypeOK, EntriesStored, Uploaded
<1>5. PersistsOK'
  BY <1>1, ResolvesMonotone DEF PersistsOK, LabelsOK, TypeOK, Uploaded, Manifest, AgentMap, Resolves, Pending, AppendsOK, EntriesStored, OnlyLateDangles
<1> QED
  BY <1>2, <1>3, <1>4, <1>5

\* The root is that of a manifest on 0G.
LEMMA IndexPersistedStep ==
  ASSUME IInv, NEW o \in Appends, IndexPersisted(o)
  PROVE  IInv'
<1> USE OpsAssumption, RolesAssumption DEF IInv, IndexPersisted, SetRoot, Ops,
        kv, objects, world
<1>0. /\ pc' \in [Ops -> InFlight \cup {"idle", "done", "failed"}]
      /\ idx' \in [Appends -> Seq(Appends)] /\ sw' \in [Updates -> AgentMap]
      /\ snap' \in [Ops -> Manifest]
      /\ pc'[o] \in {"done", "failed"}
      /\ \A p \in Ops : p # o => pc'[p] = pc[p] /\ snap'[p] = snap[p]
      /\ \A p \in Appends : p # o => idx'[p] = idx[p]
  BY LeaveFacts DEF IndexPersisted, SwarmPersisted, OperationFails, IInv, Ops
<1>1. /\ Known \subseteq Known' /\ Pending(o) \in Known'
      /\ store' \subseteq Objects /\ late' \subseteq Objects /\ (~live' => late' = {})
  BY UploadedKnown DEF Uploading
<1>2. TypeOK' /\ LabelsOK'
  BY <1>0, <1>1 DEF TypeOK, LabelsOK, Ops
<1>3. OnlyLateDangles'
  BY <1>1, ResolvesMonotone DEF OnlyLateDangles, TypeOK, Uploaded, Pending, PersistsOK
<1>4. AppendsOK'
  BY <1>0, <1>1 DEF AppendsOK, EntriesStored, Ops
<1>5. PersistsOK'
  BY <1>0, <1>1, ResolvesMonotone DEF PersistsOK, TypeOK
<1> QED
  BY <1>2, <1>3, <1>4, <1>5

\* The agent's state is on 0G before the manifest names it.
LEMMA AgentUploadedStep ==
  ASSUME IInv, NEW o \in Updates, AgentUploaded(o)
  PROVE  IInv'
<1> USE OpsAssumption, RolesAssumption DEF IInv, AgentUploaded, Assign, Goto, Ops,
        kv, objects, world
<1>1. /\ Known \subseteq Known' /\ Pending(o) \in Known'
      /\ store' \subseteq Objects /\ late' \subseteq Objects /\ (~live' => late' = {})
  BY UploadedKnown DEF Uploading
<1>2. TypeOK' /\ LabelsOK'
  BY <1>1 DEF TypeOK, LabelsOK, InFlight, Uploading, Uploaded, Manifest, AgentMap
<1>3. OnlyLateDangles'
  BY <1>1, ResolvesMonotone DEF OnlyLateDangles, TypeOK, Uploaded, Manifest, AgentMap, Resolves, Pending
<1>4. AppendsOK'
  BY <1>1 DEF AppendsOK, LabelsOK, TypeOK, EntriesStored, Uploaded
<1>5. PersistsOK'
  BY <1>1, ResolvesMonotone DEF PersistsOK, LabelsOK, TypeOK, Uploaded, Manifest, AgentMap, Resolves, Pending, OnlyLateDangles
<1> QED
  BY <1>2, <1>3, <1>4, <1>5

\* The root is that of a manifest on 0G.
LEMMA AgentPersistedStep ==
  ASSUME IInv, NEW o \in Updates, AgentPersisted(o)
  PROVE  IInv'
<1> USE OpsAssumption, RolesAssumption DEF IInv, AgentPersisted, SetRoot, Goto, Ops,
        kv, objects, world
<1>1. /\ Known \subseteq Known' /\ Pending(o) \in Known'
      /\ store' \subseteq Objects /\ late' \subseteq Objects /\ (~live' => late' = {})
  BY UploadedKnown DEF Uploading
<1>2. TypeOK' /\ LabelsOK'
  <2>1. NoManifest \in Manifest /\ NoAgents \in AgentMap
    BY DEF NoManifest, NoAgents, Manifest, AgentMap
  <2>2. [NoAgents EXCEPT ![RoleOf[o]] = o] \in AgentMap /\ manifest.swarm \in AgentMap
    BY <2>1 DEF TypeOK, Manifest, AgentMap
  <2>3. sw' \in [Updates -> AgentMap] /\ snap' \in [Ops -> Manifest] /\ root' \in Manifest
    BY <2>1, <2>2 DEF TypeOK
  <2> QED
    BY <1>1, <2>3 DEF TypeOK, LabelsOK, InFlight, Uploading, Uploaded
<1>3. OnlyLateDangles'
  BY <1>1, ResolvesMonotone DEF OnlyLateDangles, TypeOK, Uploaded, Pending, PersistsOK
<1>4. AppendsOK'
  BY <1>1 DEF AppendsOK, LabelsOK, TypeOK, EntriesStored, Uploaded
<1>5. PersistsOK'
  BY <1>1, ResolvesMonotone DEF PersistsOK, LabelsOK, TypeOK, Uploaded
<1> QED
  BY <1>2, <1>3, <1>4, <1>5

\* Reading the aggregate changes no object and no manifest.
LEMMA SwarmLoadedStep ==
  ASSUME IInv, NEW o \in Updates, SwarmLoaded(o)
  PROVE  IInv'
<1> USE OpsAssumption, RolesAssumption DEF IInv, SwarmLoaded, Goto, Ops,
        kv, objects, world
<1>1. /\ Known \subseteq Known'
      /\ store' \subseteq Objects /\ late' \subseteq Objects /\ (~live' => late' = {})
  BY DEF TypeOK, Known, OnlyLateDangles
<1>2. TypeOK' /\ LabelsOK'
  BY <1>1 DEF TypeOK, LabelsOK, InFlight, Uploading, Uploaded, Manifest, AgentMap
<1>3. OnlyLateDangles'
  BY <1>1, ResolvesMonotone DEF OnlyLateDangles, TypeOK, Uploaded
<1>4. AppendsOK'
  BY <1>1 DEF AppendsOK, LabelsOK, TypeOK, EntriesStored, Uploaded
<1>5. PersistsOK'
  BY <1>1, ResolvesMonotone DEF PersistsOK, LabelsOK, TypeOK, Uploaded
<1> QED
  BY <1>2, <1>3, <1>4, <1>5

\* The aggregate is on 0G before the manifest names it.
LEMMA SwarmUploadedStep ==
  ASSUME IInv, NEW o \in Updates, SwarmUploaded(o)
  PROVE  IInv'
<1> USE OpsAssumption, RolesAssumption DEF IInv, SwarmUploaded, Assign, Goto, Ops,
        kv, objects, world
<1>1. /\ Known \subseteq Known' /\ Pending(o) \in Known'
      /\ store' \subseteq Objects /\ late' \subseteq Objects /\ (~live' => late' = {})
  BY UploadedKnown DEF Uploading
<1>2. TypeOK' /\ LabelsOK'
  BY <1>1 DEF TypeOK, LabelsOK, InFlight, Uploading, Uploaded, Manifest, AgentMap
<1>3. OnlyLateDangles'
  BY <1>1, ResolvesMonotone DEF OnlyLateDangles, TypeOK, Uploaded, Manifest, AgentMap, Resolves, Pending
<1>4. AppendsOK'
  BY <1>1 DEF AppendsOK, LabelsOK, TypeOK, EntriesStored, Uploaded
<1>5. PersistsOK'
  BY <1>1, ResolvesMonotone DEF PersistsOK, LabelsOK, TypeOK, Uploaded, Manifest, AgentMap, Resolves, Pending, OnlyLateDangles
<1> QED
  BY <1>2, <1>3, <1>4, <1>5

\* The root is that of a manifest on 0G.
LEMMA SwarmPersistedStep ==
  ASSUME IInv, NEW o \in Updates, SwarmPersisted(o)
  PROVE  IInv'
<1> USE OpsAssumption, RolesAssumption DEF IInv, SwarmPersisted, SetRoot, Ops,
        kv, objects, world
<1>0. /\ pc' \in [Ops -> InFlight \cup {"idle", "done", "failed"}]
      /\ idx' \in [Appends -> Seq(Appends)] /\ sw' \in [Updates -> AgentMap]
      /\ snap' \in [Ops -> Manifest]
      /\ pc'[o] \in {"done", "failed"}
      /\ \A p \in Ops : p # o => pc'[p] = pc[p] /\ snap'[p] = snap[p]
      /\ \A p \in Appends : p # o => idx'[p] = idx[p]
  BY LeaveFacts DEF IndexPersisted, SwarmPersisted, OperationFails, IInv, Ops
<1>1. /\ Known \subseteq Known' /\ Pending(o) \in Known'
      /\ store' \subseteq Objects /\ late' \subseteq Objects /\ (~live' => late' = {})
  BY UploadedKnown DEF Uploading
<1>2. TypeOK' /\ LabelsOK'
  BY <1>0, <1>1 DEF TypeOK, LabelsOK, Ops
<1>3. OnlyLateDangles'
  BY <1>1, ResolvesMonotone DEF OnlyLateDangles, TypeOK, Uploaded, Pending, PersistsOK
<1>4. AppendsOK'
  BY <1>0, <1>1 DEF AppendsOK, EntriesStored, Ops
<1>5. PersistsOK'
  BY <1>0, <1>1, ResolvesMonotone DEF PersistsOK, TypeOK
<1> QED
  BY <1>2, <1>3, <1>4, <1>5

\* An operation that raises or is cancelled leaves no dangling hash behind:
\* its object may be stored, the manifest is what it was.
LEMMA OperationFailsStep ==
  ASSUME IInv, NEW o \in Ops, NEW got \in BOOLEAN, OperationFails(o, got)
  PROVE  IInv'
<1> USE DEF IInv, OperationFails, Ops, kv, world
<1>0. /\ pc' \in [Ops -> InFlight \cup {"idle", "done", "failed"}]
      /\ idx' \in [Appends -> Seq(Appends)] /\ sw' \in [Updates -> AgentMap]
      /\ snap' \in [Ops -> Manifest]
      /\ pc'[o] \in {"done", "failed"}
      /\ \A p \in Ops : p # o => pc'[p] = pc[p] /\ snap'[p] = snap[p]
      /\ \A p \in Appends : p # o => idx'[p] = idx[p]
  BY LeaveFacts DEF IndexPersisted, SwarmPersisted, OperationFails, IInv, Ops
<1>1. /\ Known \subseteq Known'
      /\ store' \subseteq Objects /\ late' \subseteq Objects /\ (~live' => late' = {})
  <2>1. store' = store \/ (pc[o] \in Uploading /\ store' = store \cup {Pending(o)})
    OBVIOUS
  <2>2. late' = late /\ live /\ live' = live
    OBVIOUS
  <2>3. pc[o] \in Uploading => Pending(o) \in Objects
    BY PendingTyped
  <2> QED
    BY <2>1, <2>2, <2>3 DEF TypeOK, Known
<1>2. TypeOK' /\ LabelsOK'
  BY <1>0, <1>1 DEF TypeOK, LabelsOK, Ops
<1>3. OnlyLateDangles'
  BY <1>1, ResolvesMonotone DEF OnlyLateDangles, TypeOK
<1>4. AppendsOK'
  BY <1>0, <1>1 DEF AppendsOK, EntriesStored, Ops
<1>5. PersistsOK'
  BY <1>0, <1>1, ResolvesMonotone DEF PersistsOK, TypeOK
<1> QED
  BY <1>2, <1>3, <1>4, <1>5

\* An object that a storage node picks up was one of those uploaded.
LEMMA PropagatedStep ==
  ASSUME IInv, NEW x \in late, Propagated(x)
  PROVE  IInv'
<1> USE DEF IInv, Propagated, kv, world
<1>1. /\ Known' = Known
      /\ store' \subseteq Objects /\ late' \subseteq Objects /\ (~live' => late' = {})
  BY DEF TypeOK, Known, OnlyLateDangles
<1>2. TypeOK' /\ LabelsOK'
  BY <1>1 DEF TypeOK, LabelsOK
<1>3. OnlyLateDangles' /\ AppendsOK' /\ PersistsOK'
  BY <1>1 DEF OnlyLateDangles, AppendsOK, PersistsOK, EntriesStored, Resolves
<1> QED
  BY <1>2, <1>3

\* After a restart the manifest is empty and no operation is under way.
LEMMA RestartStep ==
  ASSUME IInv, Restart
  PROVE  IInv'
<1> USE DEF IInv, Restart
<1>1. NoManifest \in Manifest /\ NoAgents \in AgentMap
  BY DEF NoManifest, NoAgents, Manifest, AgentMap
<1>2. Resolves(NoManifest)'
  BY DEF Resolves, NoManifest, NoAgents, Range
<1>3. TypeOK' /\ LabelsOK'
  BY <1>1, BoundsAssumption DEF TypeOK, LabelsOK, Ops, InFlight, Uploading
<1>4. OnlyLateDangles'
  BY <1>2 DEF OnlyLateDangles, Resolves
<1>5. AppendsOK' /\ PersistsOK'
  BY DEF AppendsOK, PersistsOK, TypeOK, Ops, InFlight, Uploading
<1> QED
  BY <1>3, <1>4, <1>5

\* Every step preserves the invariant.
LEMMA NextStep ==
  ASSUME IInv, [Next]_vars
  PROVE  IInv'
<1>1. ASSUME NEW o \in Appends, AppendStep(o)
      PROVE  IInv'
  BY <1>1, StartAppendStep, EntryUploadedStep, IndexLoadedStep,
     IndexUploadedStep, IndexPersistedStep DEF AppendStep
<1>2. ASSUME NEW o \in Updates, UpdateStep(o)
      PROVE  IInv'
  BY <1>2, StartUpdateStep, AgentUploadedStep, AgentPersistedStep,
     SwarmLoadedStep, SwarmUploadedStep, SwarmPersistedStep DEF UpdateStep
<1>3. CASE UNCHANGED vars
  BY <1>3 DEF vars, IInv, TypeOK, LabelsOK, OnlyLateDangles, Resolves, AppendsOK,
              PersistsOK, EntriesStored, Known
<1> QED
  BY <1>1, <1>2, <1>3, OperationFailsStep, PropagatedStep, RestartStep DEF Next

-----------------------------------------------------------------------------
(* The theorems.                                                           *)

\* The inductive invariant holds of every behaviour of the store.
THEOREM Invariance == Spec => []IInv
<1>1. Init => IInv
  BY InitInv
<1>2. IInv /\ [Next]_vars => IInv'
  BY NextStep
<1> QED
  BY <1>1, <1>2, PTL DEF Spec

\* Operations, manifests and objects are well formed.
THEOREM TypeCorrect == Spec => []TypeOK
<1>1. IInv => TypeOK
  BY DEF IInv
<1> QED
  BY <1>1, Invariance, PTL

\* No interleaving, failure, cancellation or restart leaves a hash in the
\* manifest in memory, or in the one of the last root, whose object was never
\* uploaded: what it misses is an object whose upload the sidecar reported
\* before a storage node had it, and the clients in memory miss nothing.
THEOREM OnlyLateUploadsDangle == Spec => []OnlyLateDangles
<1>1. IInv => OnlyLateDangles
  BY DEF IInv
<1> QED
  BY <1>1, Invariance, PTL

-----------------------------------------------------------------------------
(* No entry is in the log twice.                                           *)

\* LogIndex.append of an entry that is not in the index.
LEMMA IndexStaysUnique ==
  ASSUME NEW S, NEW s \in Seq(S), NEW e \in S, IsInjective(s), e \notin Range(s),
         NEW t, t = Append(s, e)
  PROVE  IsInjective(t)
<1>1. /\ DOMAIN s = 1 .. Len(s) /\ Len(s) \in Nat
      /\ DOMAIN t = 1 .. Len(s) + 1
      /\ \A i \in 1 .. Len(s) : t[i] = s[i]
      /\ t[Len(s) + 1] = e
  OBVIOUS
<1>2. \A i \in 1 .. Len(s) : s[i] # e
  BY <1>1 DEF Range
<1>3. ASSUME NEW i \in DOMAIN t, NEW j \in DOMAIN t, t[i] = t[j]
      PROVE  i = j
  <2>1. i \in 1 .. Len(s) \/ i = Len(s) + 1
    BY <1>1
  <2>2. j \in 1 .. Len(s) \/ j = Len(s) + 1
    BY <1>1
  <2> QED
    BY <1>1, <1>2, <1>3, <2>1, <2>2 DEF IsInjective
<1> QED
  BY <1>3 DEF IsInjective

\* An index with one entry, and one with none.
LEMMA SmallIndexes ==
  ASSUME NEW e
  PROVE  /\ IsInjective(<<e>>) /\ Range(<<e>>) = {e}
         /\ IsInjective(<<>>) /\ Range(<<>>) = {}
BY DEF IsInjective, Range

\* A step that makes one index i at most, without entries of appends that
\* have not read theirs.
LEMMA OnceKept ==
  ASSUME Once, NEW i, Indexes' \subseteq Indexes \cup {i}, IsInjective(i),
         \A o \in Appends : pc'[o] \in Before => pc[o] \in Before /\ o \notin Range(i)
  PROVE  Once'
BY DEF Once

\* The indexes after a step.
LEMMA IndexesNext ==
  ASSUME NEW i,
         manifest'.index \in Indexes \cup {i},
         root'.index \in Indexes \cup {i},
         \A o \in Ops : snap'[o].index \in Indexes \cup {i},
         \A o \in Appends : idx'[o] \in Indexes \cup {i}
  PROVE  Indexes' \subseteq Indexes \cup {i}
BY DEF Indexes

\* Every step keeps entries unique.
LEMMA OnceStep ==
  ASSUME IInv, Once, [Next]_vars
  PROVE  Once'
<1> USE OpsAssumption DEF IInv,
        kv, objects, world
<1>0. /\ pc \in [Ops -> InFlight \cup {"idle", "done", "failed"}]
      /\ idx \in [Appends -> Seq(Appends)] /\ snap \in [Ops -> Manifest]
      /\ manifest \in Manifest /\ root \in Manifest
      /\ Appends \subseteq Ops /\ Updates \subseteq Ops
  BY DEF TypeOK, Ops
<1>1. /\ manifest.index \in Indexes /\ root.index \in Indexes
      /\ \A o \in Ops : snap[o].index \in Indexes
      /\ \A o \in Appends : idx[o] \in Indexes
  BY DEF Indexes
<1>2. ASSUME NEW o \in Ops, NEW l, l \notin Before, Goto(o, l)
      PROVE  \A p \in Appends : pc'[p] \in Before => pc[p] \in Before
  BY <1>0, <1>2 DEF Goto
<1>3. IsInjective(<<>>) /\ \A o \in Appends : o \notin Range(<<>>)
  BY SmallIndexes
<1>4. ASSUME UNCHANGED <<idx, snap, manifest, root>>,
             \A p \in Appends : pc'[p] \in Before => pc[p] \in Before
      PROVE  Once'
  <2>1. Indexes' \subseteq Indexes \cup {<<>>}
    BY <1>4 DEF Indexes
  <2> QED BY <1>3, <1>4, <2>1, OnceKept
<1>5. ASSUME NEW o \in Ops, NEW m \in Manifest, NEW l, l \notin Before,
             m.index \in Indexes, Assign(o, m, l), UNCHANGED <<idx, root>>
      PROVE  Once'
  <2>1. \A p \in Ops : snap'[p].index \in Indexes \cup {<<>>}
    BY <1>0, <1>1, <1>5 DEF Assign
  <2>2. Indexes' \subseteq Indexes \cup {<<>>}
    BY <1>1, <1>5, <2>1, IndexesNext DEF Assign
  <2> QED BY <1>2, <1>3, <1>5, <2>2, OnceKept DEF Assign
<1>6. ASSUME manifest' = manifest, root' = root \/ \E o \in Ops : root' = snap[o],
             \A p \in Ops : snap'[p] \in {snap[p], NoManifest},
             \A p \in Appends : idx'[p] \in {idx[p], <<>>},
             \A p \in Appends : pc'[p] \in Before => pc[p] \in Before
      PROVE  Once'
  <2>1. NoManifest.index = <<>>
    BY DEF NoManifest
  <2>2. Indexes' \subseteq Indexes \cup {<<>>}
    BY <1>1, <1>6, <2>1, IndexesNext
  <2> QED BY <1>3, <1>6, <2>2, OnceKept
<1>12. ASSUME NEW o \in Ops, NEW l \in {"done", "failed"}, Leave(o, l), manifest' = manifest,
              root' = root \/ root' = snap[o]
       PROVE  Once'
  <2>1. /\ \A p \in Ops : snap'[p] \in {snap[p], NoManifest}
        /\ \A p \in Appends : idx'[p] \in {idx[p], <<>>}
        /\ \A p \in Ops : pc'[p] \in Before => pc'[p] = pc[p]
    BY <1>12, LeaveFacts DEF Before
  <2> QED BY <1>0, <1>6, <1>12, <2>1
<1>7. ASSUME NEW o \in Appends, AppendStep(o)
      PROVE  Once'
  <2>1. CASE StartAppend(o)
    BY <1>0, <1>4, <2>1 DEF StartAppend, Goto, Before, kv
  <2>2. CASE EntryUploaded(o)
    <3> DEFINE i == IF manifest.index = <<>> THEN <<o>> ELSE manifest.index
               l == IF manifest.index = <<>> THEN "index" ELSE "indexLoad"
    <3>1. pc[o] = "entry" /\ idx' = [idx EXCEPT ![o] = i] /\ pc' = [pc EXCEPT ![o] = l]
          /\ UNCHANGED <<snap, manifest, root>>
      BY <2>2 DEF EntryUploaded, Uploaded, Goto, kv
    <3>2. IsInjective(i)
      BY <1>1, SmallIndexes DEF Once
    <3>3. \A p \in Appends : pc'[p] \in Before => pc[p] \in Before
      BY <1>0, <3>1 DEF Before
    <3>4. \A p \in Appends : pc'[p] \in Before => p \notin Range(i)
      <4>1. CASE manifest.index = <<>>
        <5>1. pc'[o] \notin Before
          BY <1>0, <3>1, <4>1 DEF Before
        <5>2. Range(i) = {o}
          BY <4>1, SmallIndexes
        <5> QED BY <5>1, <5>2
      <4>2. CASE manifest.index # <<>>
        BY <1>1, <3>3, <4>2 DEF Once
      <4> QED BY <4>1, <4>2
    <3> HIDE DEF i
    <3>5. Indexes' \subseteq Indexes \cup {i}
      BY <1>0, <1>1, <3>1, IndexesNext
    <3> QED BY <3>2, <3>3, <3>4, <3>5, OnceKept
  <2>3. CASE IndexLoaded(o)
    <3> DEFINE i == Append(idx[o], o)
    <3>1. /\ pc[o] = "indexLoad" /\ idx' = [idx EXCEPT ![o] = i]
          /\ pc' = [pc EXCEPT ![o] = "index"]
          /\ UNCHANGED <<snap, manifest, root>>
      BY <2>3 DEF IndexLoaded, Goto, kv
    <3>2. idx[o] \in Seq(Appends) /\ IsInjective(idx[o]) /\ o \notin Range(idx[o])
      BY <1>0, <1>1, <3>1 DEF Once, Before
    <3>3. IsInjective(i) /\ Range(i) = Range(idx[o]) \cup {o}
      <4>1. IsInjective(i)
        BY <3>2, IndexStaysUnique
      <4>2. Range(i) = Range(idx[o]) \cup {o}
        BY <3>2, RangeOfAppend
      <4> QED BY <4>1, <4>2
    <3> HIDE DEF i
    <3>4. \A p \in Appends : pc'[p] \in Before => p # o /\ pc[p] \in Before
      BY <1>0, <3>1 DEF Before
    <3>5. \A p \in Appends : pc'[p] \in Before => p \notin Range(i)
      BY <1>1, <3>3, <3>4 DEF Once
    <3>6. Indexes' \subseteq Indexes \cup {i}
      BY <1>0, <1>1, <3>1, IndexesNext
    <3> QED BY <3>3, <3>4, <3>5, <3>6, OnceKept
  <2>4. CASE IndexUploaded(o)
    <3> DEFINE m == [manifest EXCEPT !.index = idx[o]]
    <3>1. m \in Manifest /\ m.index = idx[o]
      BY <1>0 DEF Manifest
    <3> HIDE DEF m
    <3>2. Assign(o, m, "indexPersist") /\ UNCHANGED <<idx, root>>
      BY <2>4 DEF IndexUploaded, m
    <3> QED BY <1>0, <1>1, <1>5, <3>1, <3>2 DEF Before
  <2>5. CASE IndexPersisted(o)
    BY <1>0, <1>12, <2>5 DEF IndexPersisted, SetRoot
  <2> QED BY <1>7, <2>1, <2>2, <2>3, <2>4, <2>5 DEF AppendStep
<1>8. ASSUME NEW o \in Updates, UpdateStep(o)
      PROVE  Once'
  <2>1. CASE StartUpdate(o) \/ SwarmLoaded(o)
    BY <1>0, <1>4, <2>1 DEF StartUpdate, SwarmLoaded, Goto, Before, kv
  <2>2. CASE AgentUploaded(o)
    <3> DEFINE m == [manifest EXCEPT !.agent = [manifest.agent EXCEPT ![RoleOf[o]] = o]]
    <3>1. m \in Manifest /\ m.index = manifest.index
      BY <1>0, RolesAssumption DEF Manifest, AgentMap
    <3> HIDE DEF m
    <3>2. Assign(o, m, "agentPersist") /\ UNCHANGED <<idx, root>>
      BY <2>2 DEF AgentUploaded, m
    <3> QED BY <1>0, <1>1, <1>5, <3>1, <3>2 DEF Before
  <2>3. CASE AgentPersisted(o)
    <3>1. PICK l \in {"swarm", "swarmLoad"} : pc' = [pc EXCEPT ![o] = l]
      BY <2>3 DEF AgentPersisted, Goto
    <3>2. \A p \in Appends : pc'[p] \in Before => pc[p] \in Before
      BY <1>0, <3>1 DEF Before
    <3>3. /\ manifest' = manifest /\ root' = snap[o] /\ idx' = idx
          /\ snap' = [snap EXCEPT ![o] = NoManifest]
      BY <2>3 DEF AgentPersisted, SetRoot
    <3>4. \A p \in Ops : snap'[p] \in {snap[p], NoManifest}
      BY <1>0, <3>3
    <3> QED BY <1>0, <1>6, <3>2, <3>3, <3>4
  <2>4. CASE SwarmUploaded(o)
    <3> DEFINE m == [manifest EXCEPT !.swarm = sw[o]]
    <3>1. m \in Manifest /\ m.index = manifest.index
      BY <1>0 DEF Manifest, TypeOK
    <3> HIDE DEF m
    <3>2. Assign(o, m, "swarmPersist") /\ UNCHANGED <<idx, root>>
      BY <2>4 DEF SwarmUploaded, m
    <3> QED BY <1>0, <1>1, <1>5, <3>1, <3>2 DEF Before
  <2>5. CASE SwarmPersisted(o)
    BY <1>0, <1>12, <2>5 DEF SwarmPersisted, SetRoot
  <2> QED BY <1>8, <2>1, <2>2, <2>3, <2>4, <2>5 DEF UpdateStep
<1>9. ASSUME NEW o \in Ops, NEW got \in BOOLEAN, OperationFails(o, got)
      PROVE  Once'
  BY <1>9, <1>12 DEF OperationFails, kv
<1>10. CASE Restart
  <2>1. \A p \in Appends : pc'[p] \in Before => pc[p] \in Before
    BY <1>0, <1>10 DEF Restart, Before
  <2>2. manifest'.index \in Indexes \cup {<<>>} /\ root'.index \in Indexes \cup {<<>>}
    BY <1>1, <1>10 DEF Restart, NoManifest
  <2>3. Indexes' \subseteq Indexes \cup {<<>>}
    BY <1>1, <1>10, <2>2, IndexesNext DEF Restart, NoManifest
  <2> QED BY <1>3, <2>1, <2>3, OnceKept
<1>11. CASE UNCHANGED vars
  BY <1>4, <1>11 DEF vars
<1>13. ASSUME NEW x \in late, Propagated(x)
       PROVE  Once'
  BY <1>4, <1>13 DEF Propagated, kv
<1> QED
  BY <1>7, <1>8, <1>9, <1>10, <1>11, <1>13 DEF Next

\* The log is empty and no append has begun.
LEMMA OnceInit == Init => Once
<1> SUFFICES ASSUME Init PROVE Once
  OBVIOUS
<1>1. \A i \in Indexes : i = <<>>
  BY DEF Init, Indexes, NoManifest
<1> QED
  BY <1>1, SmallIndexes DEF Once

\* However the coroutines of core/storage/log.py interleave, fail or are
\* restarted, no entry is in the log twice.
THEOREM EntriesAreUnique == Spec => []EntriesOnce
<1>1. Init => Once
  BY OnceInit
<1>2. IInv /\ Once /\ [Next]_vars => Once'
  BY OnceStep
<1>3. Once => EntriesOnce
  BY DEF Once, Indexes, EntriesOnce
<1> QED
  BY <1>1, <1>2, <1>3, Invariance, PTL DEF Spec

-----------------------------------------------------------------------------
(* What an operation that overlapped no other of its kind can count on.    *)

\* Two indexes are the same up to their i-th entry.
SameUpTo(s, t, i) ==
  i \in DOMAIN s /\ i \in DOMAIN t /\ \A j \in 1 .. i : s[j] = t[j]

\* An operation that has not begun is not among those that met no other.
Fresh == \A o \in apart : pc[o] # "idle"

\* An append that has met no other extends the index that the manifest still
\* has.
OwnIndex ==
  \A o \in Appends \cap apart :
    pc[o] \in InFlight =>
      /\ \A p \in Appends : pc[p] \in InFlight => p = o
      /\ pc[o] = "indexLoad" => idx[o] = manifest.index
      /\ pc[o] = "index" =>
           /\ o \in Range(idx[o])
           /\ \A i \in DOMAIN manifest.index : SameUpTo(manifest.index, idx[o], i)
      /\ pc[o] = "indexPersist" => o \in Range(manifest.index)

Acked == {o \in Appends \cap apart : pc[o] = "done"}

\* Its entry is in the index, and every index that will be written back agrees
\* with this one up to it.
AckedKept ==
  /\ \A e \in Acked : e \in Range(manifest.index)
  /\ \A i \in DOMAIN manifest.index : manifest.index[i] \in Acked =>
       \A p \in Appends :
         pc[p] \in {"indexLoad", "index"} => SameUpTo(manifest.index, idx[p], i)

LogKept == OwnIndex /\ AckedKept

\* An update that has met no other finds what it wrote.
OwnState ==
  \A o \in Updates \cap apart :
    pc[o] \in InFlight =>
      /\ \A p \in Updates : pc[p] \in InFlight => p = o
      /\ pc[o] \in {"agentPersist", "swarmLoad", "swarm", "swarmPersist"} =>
           manifest.agent[RoleOf[o]] = o
      /\ pc[o] = "swarm" => sw[o][RoleOf[o]] = o
      /\ pc[o] = "swarmPersist" => manifest.swarm[RoleOf[o]] = o

\* As long as its agent has not written another state, the aggregate shows it,
\* and so does every aggregate that another agent will write back.
Shown(m) ==
  \A o \in Updates \cap apart :
    pc[o] = "done" /\ m.agent[RoleOf[o]] = o =>
      /\ m.swarm[RoleOf[o]] = o
      /\ \A p \in Updates :
           /\ pc[p] \in {"agentPersist", "swarmLoad", "swarm"} => RoleOf[p] # RoleOf[o]
           /\ pc[p] \in {"swarmLoad", "swarm"} => sw[p][RoleOf[o]] = o

SwarmKept == OwnState /\ Shown(manifest)

\* With a client that does not suspend nothing overlaps.
Solo ==
  ~live => /\ \A o, p \in Ops : pc[o] \in InFlight /\ pc[p] \in InFlight => o = p
           /\ restarts = 0 => \A o \in Ops : pc[o] # "idle" => o \in apart

-----------------------------------------------------------------------------
(* The log.                                                                *)

\* A step that writes no index, acknowledges nothing and lets no append read.
LEMMA LogFrame ==
  ASSUME LogKept, manifest'.index = manifest.index,
         \A p \in Appends :
           /\ p \in apart' => p \in apart
           /\ \/ pc'[p] = pc[p] /\ idx'[p] = idx[p]
              \/ pc'[p] \notin InFlight /\ pc'[p] # "done"
  PROVE  LogKept'
<1>0. {"indexLoad", "index"} \subseteq InFlight
  BY DEF InFlight, Uploading
<1>1. Acked' \subseteq Acked
  BY <1>0 DEF Acked
<1>2. OwnIndex'
  BY DEF LogKept, OwnIndex, SameUpTo
<1>3. AckedKept'
  BY <1>0, <1>1 DEF LogKept, AckedKept, SameUpTo
<1> QED BY <1>2, <1>3 DEF LogKept

\* An append begins: those that it meets are not alone any more.
LEMMA StartAppendLog ==
  ASSUME IInv, Fresh, LogKept, NEW o \in Appends, StartAppend(o)
  PROVE  LogKept'
<1> DEFINE met == {p \in Appends : pc[p] \in InFlight}
<1>0. {"indexLoad", "index"} \subseteq InFlight /\ "done" \notin InFlight /\ "idle" \notin InFlight
  BY DEF InFlight, Uploading
<1>1. /\ pc[o] = "idle" /\ pc'[o] = "entry" /\ \A p \in Appends : p # o => pc'[p] = pc[p]
      /\ idx' = idx /\ manifest' = manifest
      /\ apart' = IF met = {} THEN apart \cup {o} ELSE apart \ met
  BY DEF StartAppend, Goto, Begin, IInv, TypeOK, Ops, kv
<1>2. o \notin apart
  BY <1>1 DEF Fresh
<1>3. ASSUME NEW q \in Appends \cap apart', pc'[q] \in InFlight
      PROVE  /\ q = o
             /\ \A p \in Appends : pc'[p] \in InFlight => p = o
  <2>1. CASE met = {}
    BY <1>1, <1>3, <2>1
  <2>2. CASE met # {}
    <3>1. q \in apart /\ q \notin met
      BY <1>1, <1>3, <2>2
    <3>2. q # o
      BY <1>2, <3>1
    <3> QED BY <1>1, <1>3, <3>1, <3>2
  <2> QED BY <2>1, <2>2
<1>4. OwnIndex'
  BY <1>1, <1>3 DEF OwnIndex
<1>5. Acked' \subseteq Acked
  BY <1>1 DEF Acked
<1>6. AckedKept'
  BY <1>1, <1>5 DEF LogKept, AckedKept, SameUpTo
<1> QED BY <1>4, <1>6 DEF LogKept

\* What the other steps of an append have in common: an append that was alone
\* is the one that takes the step.
LEMMA AppendAlone ==
  ASSUME LogKept, NEW o \in Appends, pc[o] \in InFlight,
         NEW q \in Appends \cap apart, pc[q] \in InFlight
  PROVE  q = o /\ \A p \in Appends : pc[p] \in InFlight => p = o
BY DEF LogKept, OwnIndex

\* The index that an append reads agrees with the manifest's all along.
LEMMA EntryUploadedLog ==
  ASSUME IInv, LogKept, NEW o \in Appends, EntryUploaded(o)
  PROVE  LogKept'
<1>0. /\ {"entry", "indexLoad", "index"} \subseteq InFlight /\ "done" \notin InFlight
      /\ manifest.index \in Seq(Appends) /\ <<o>> \in Seq(Appends)
  BY DEF InFlight, Uploading, IInv, TypeOK, Manifest
<1>1. /\ pc[o] = "entry" /\ \A p \in Appends : p # o => pc'[p] = pc[p] /\ idx'[p] = idx[p]
      /\ manifest' = manifest /\ apart' = apart
      /\ \/ manifest.index = <<>> /\ pc'[o] = "index" /\ idx'[o] = <<o>>
         \/ manifest.index # <<>> /\ pc'[o] = "indexLoad" /\ idx'[o] = manifest.index
  BY DEF EntryUploaded, Uploaded, Goto, IInv, TypeOK, Ops, kv
<1>2. \A i \in DOMAIN manifest.index : SameUpTo(manifest.index, idx'[o], i)
  <2>1. CASE manifest.index = <<>>
    BY <2>1
  <2>2. CASE manifest.index # <<>>
    BY <1>1, <2>2 DEF SameUpTo
  <2> QED BY <2>1, <2>2
<1>3. pc'[o] = "index" => o \in Range(idx'[o])
  BY <1>1, SmallIndexes
<1>4. OwnIndex'
  BY <1>0, <1>1, <1>2, <1>3, AppendAlone DEF OwnIndex
<1>5. Acked' \subseteq Acked
  BY <1>1 DEF Acked
<1>6. AckedKept'
  BY <1>1, <1>2, <1>5 DEF LogKept, AckedKept, SameUpTo
<1> QED BY <1>4, <1>6 DEF LogKept

\* Appending to an index keeps what it agreed with.
LEMMA IndexLoadedLog ==
  ASSUME IInv, LogKept, NEW o \in Appends, IndexLoaded(o)
  PROVE  LogKept'
<1>0. /\ {"indexLoad", "index"} \subseteq InFlight
      /\ manifest.index \in Seq(Appends) /\ idx[o] \in Seq(Appends)
  BY DEF InFlight, Uploading, IInv, TypeOK, Manifest
<1>1. /\ pc[o] = "indexLoad" /\ \A p \in Appends : p # o => pc'[p] = pc[p] /\ idx'[p] = idx[p]
      /\ manifest' = manifest /\ apart' = apart
      /\ pc'[o] = "index" /\ idx'[o] = Append(idx[o], o)
  BY DEF IndexLoaded, Goto, IInv, TypeOK, Ops, kv
<1> DEFINE t == Append(idx[o], o)
<1>2. /\ DOMAIN idx[o] = 1 .. Len(idx[o]) /\ Len(idx[o]) \in Nat
      /\ DOMAIN t = 1 .. Len(idx[o]) + 1
      /\ \A i \in 1 .. Len(idx[o]) : t[i] = idx[o][i]
  BY <1>0
<1> HIDE DEF t
<1>3. ASSUME NEW i \in DOMAIN manifest.index, SameUpTo(manifest.index, idx[o], i)
      PROVE  SameUpTo(manifest.index, t, i)
  <2>1. i \in 1 .. Len(idx[o]) /\ \A j \in 1 .. i : manifest.index[j] = idx[o][j]
    BY <1>2, <1>3 DEF SameUpTo
  <2>2. i \in DOMAIN t /\ \A j \in 1 .. i : j \in 1 .. Len(idx[o])
    BY <1>2, <2>1
  <2> QED BY <1>2, <2>1, <2>2 DEF SameUpTo
<1>4. o \in Range(t)
  BY <1>0, RangeOfAppend DEF t
<1>5. idx[o] = manifest.index => \A i \in DOMAIN manifest.index : SameUpTo(manifest.index, idx[o], i)
  BY DEF SameUpTo
<1>6. OwnIndex'
  <2>1. ASSUME NEW q \in Appends \cap apart, pc'[q] \in InFlight
        PROVE  /\ q = o /\ \A p \in Appends : pc'[p] \in InFlight => p = o
               /\ idx[o] = manifest.index
    <3>1. pc[q] \in InFlight
      BY <1>0, <1>1, <2>1
    <3>2. q = o /\ \A p \in Appends : pc[p] \in InFlight => p = o
      BY <1>0, <1>1, <3>1, AppendAlone
    <3> QED BY <1>1, <3>1, <3>2 DEF LogKept, OwnIndex
  <2> QED BY <1>1, <1>3, <1>4, <1>5, <2>1 DEF OwnIndex, t
<1>7. Acked' \subseteq Acked
  BY <1>1 DEF Acked
<1>8. AckedKept'
  <2>1. ASSUME NEW i \in DOMAIN manifest.index, manifest.index[i] \in Acked
        PROVE  SameUpTo(manifest.index, t, i)
    BY <1>1, <1>3, <2>1 DEF LogKept, AckedKept
  <2> QED BY <1>1, <1>7, <2>1 DEF LogKept, AckedKept, SameUpTo, t
<1> QED BY <1>6, <1>8 DEF LogKept

\* The index that is written back has every acknowledged entry where it was,
\* and so have those that other appends still hold.
LEMMA IndexUploadedLog ==
  ASSUME IInv, Once, LogKept, NEW o \in Appends, IndexUploaded(o)
  PROVE  LogKept'
<1>0. {"indexLoad", "index", "indexPersist"} \subseteq InFlight /\ "done" \notin InFlight
  BY DEF InFlight, Uploading
<1>1. /\ pc[o] = "index" /\ pc'[o] = "indexPersist"
      /\ \A p \in Appends : p # o => pc'[p] = pc[p]
      /\ idx' = idx /\ apart' = apart /\ manifest'.index = idx[o]
  BY DEF IndexUploaded, Uploaded, Assign, Goto, IInv, TypeOK, Ops, Manifest
<1>2. Acked' = Acked
  BY <1>0, <1>1 DEF Acked
<1>3. ASSUME NEW i \in DOMAIN manifest.index, manifest.index[i] \in Acked
      PROVE  SameUpTo(manifest.index, idx[o], i)
  BY <1>1, <1>3 DEF LogKept, AckedKept
<1>4. IsInjective(idx[o])
  BY DEF Once, Indexes
<1>5. ASSUME NEW e \in Acked
      PROVE  e \in Range(idx[o])
  <2>1. PICK i \in DOMAIN manifest.index : manifest.index[i] = e
    BY <1>5 DEF LogKept, AckedKept, Range
  <2>2. i \in DOMAIN idx[o] /\ \A j \in 1 .. i : manifest.index[j] = idx[o][j]
    BY <1>3, <1>5, <2>1 DEF SameUpTo
  <2>3. i \in 1 .. i
    BY DEF IInv, TypeOK, Manifest
  <2> QED BY <2>1, <2>2, <2>3 DEF Range
<1>6. ASSUME NEW i \in DOMAIN idx[o], idx[o][i] \in Acked, NEW p \in Appends, p # o,
             pc[p] \in {"indexLoad", "index"}
      PROVE  SameUpTo(idx[o], idx[p], i)
  <2>1. PICK k \in DOMAIN manifest.index : manifest.index[k] = idx[o][i]
    BY <1>6 DEF LogKept, AckedKept, Range
  <2>2. SameUpTo(manifest.index, idx[o], k) /\ SameUpTo(manifest.index, idx[p], k)
    BY <1>3, <1>6, <2>1 DEF LogKept, AckedKept
  <2>3. k \in 1 .. k
    BY DEF IInv, TypeOK, Manifest
  <2>4. i = k
    BY <1>4, <1>6, <2>1, <2>2, <2>3 DEF IsInjective, SameUpTo
  <2> QED BY <2>2, <2>4 DEF SameUpTo
<1>7. AckedKept'
  <2>1. \A e \in Acked : e \in Range(idx[o])
    BY <1>5
  <2>2. \A i \in DOMAIN idx[o] : idx[o][i] \in Acked =>
          \A p \in Appends : pc'[p] \in {"indexLoad", "index"} => SameUpTo(idx[o], idx[p], i)
    BY <1>1, <1>6
  <2> QED BY <1>1, <1>2, <2>1, <2>2 DEF AckedKept
<1>8. OwnIndex'
  BY <1>0, <1>1, AppendAlone DEF OwnIndex, LogKept
<1> QED BY <1>7, <1>8 DEF LogKept

\* An append that returns, having met no other, has its entry in the index,
\* and nobody holds an older index.
LEMMA IndexPersistedLog ==
  ASSUME IInv, LogKept, NEW o \in Appends, IndexPersisted(o)
  PROVE  LogKept'
<1>0. /\ {"indexLoad", "index", "indexPersist"} \subseteq InFlight /\ "done" \notin InFlight
      /\ o \in Ops
  BY DEF InFlight, Uploading, Ops
<1>1. /\ pc[o] = "indexPersist" /\ pc'[o] = "done"
      /\ \A p \in Appends : p # o => pc'[p] = pc[p] /\ idx'[p] = idx[p]
      /\ manifest' = manifest /\ apart' = apart
  BY <1>0, LeaveFacts DEF IndexPersisted, Uploaded, IInv, Ops
<1>2. ASSUME o \in apart
      PROVE  /\ o \in Range(manifest.index)
             /\ \A p \in Appends : pc'[p] \notin InFlight
  <2>1. o \in Range(manifest.index) /\ \A p \in Appends : pc[p] \in InFlight => p = o
    BY <1>0, <1>1, <1>2 DEF LogKept, OwnIndex
  <2> QED BY <1>0, <1>1, <2>1
<1>3. Acked' \subseteq Acked \cup {o} /\ (o \notin apart => Acked' \subseteq Acked)
  BY <1>1 DEF Acked
<1>4. OwnIndex'
  BY <1>0, <1>1 DEF LogKept, OwnIndex, SameUpTo
<1>5. AckedKept'
  <2>1. CASE o \in apart
    BY <1>0, <1>1, <1>2, <1>3, <2>1 DEF LogKept, AckedKept
  <2>2. CASE o \notin apart
    BY <1>0, <1>1, <1>3, <2>2 DEF LogKept, AckedKept, SameUpTo
  <2> QED BY <2>1, <2>2
<1> QED BY <1>4, <1>5 DEF LogKept

\* What a step of an update leaves alone.
LEMMA UpdateFrame ==
  ASSUME IInv, NEW o \in Updates, UpdateStep(o)
  PROVE  /\ manifest'.index = manifest.index
         /\ \A p \in Appends : pc'[p] = pc[p] /\ idx'[p] = idx[p]
         /\ \A p \in Appends : p \in apart' => p \in apart
         /\ \A p \in Updates : p # o => pc'[p] = pc[p] /\ sw'[p] = sw[p]
         /\ live' = live /\ restarts' = restarts
<1> USE OpsAssumption DEF IInv
<1>0. /\ o \in Ops /\ \A p \in Appends : p \in Ops /\ p # o
      /\ \A p \in Updates : p \in Ops /\ p \notin Appends
      /\ TypeOK /\ manifest \in Manifest
  BY DEF Ops, TypeOK
<1>1. CASE StartUpdate(o)
  BY <1>0, <1>1 DEF StartUpdate, Begin, Goto, TypeOK, kv, world
<1>2. CASE AgentUploaded(o)
  BY <1>0, <1>2 DEF AgentUploaded, Assign, Goto, TypeOK, Manifest, world
<1>3. CASE AgentPersisted(o)
  BY <1>0, <1>3 DEF AgentPersisted, Goto, TypeOK, world
<1>4. CASE SwarmLoaded(o)
  BY <1>0, <1>4 DEF SwarmLoaded, Goto, TypeOK, kv, world
<1>5. CASE SwarmUploaded(o)
  BY <1>0, <1>5 DEF SwarmUploaded, Assign, Goto, TypeOK, Manifest, world
<1>6. CASE SwarmPersisted(o)
  <2>1. /\ Leave(o, "done") /\ manifest' = manifest /\ apart' = apart /\ UNCHANGED world
    BY <1>6 DEF SwarmPersisted
  <2>2. /\ \A p \in Ops : p # o => pc'[p] = pc[p]
        /\ \A p \in Appends : idx'[p] = IF p = o THEN <<>> ELSE idx[p]
        /\ \A p \in Updates : sw'[p] = IF p = o THEN NoAgents ELSE sw[p]
    BY <1>0, <2>1, LeaveFacts
  <2> QED BY <1>0, <2>1, <2>2 DEF world
<1> QED BY <1>1, <1>2, <1>3, <1>4, <1>5, <1>6 DEF UpdateStep

\* What a step of an append leaves alone.
LEMMA AppendFrame ==
  ASSUME IInv, NEW o \in Appends, AppendStep(o)
  PROVE  /\ manifest'.agent = manifest.agent /\ manifest'.swarm = manifest.swarm
         /\ \A p \in Updates : pc'[p] = pc[p] /\ sw'[p] = sw[p]
         /\ \A p \in Updates : p \in apart' => p \in apart
         /\ live' = live /\ restarts' = restarts
<1> USE OpsAssumption DEF IInv
<1>0. /\ o \in Ops /\ \A p \in Updates : p \in Ops /\ p # o
      /\ TypeOK /\ manifest \in Manifest
  BY DEF Ops, TypeOK
<1>1. CASE StartAppend(o)
  BY <1>0, <1>1 DEF StartAppend, Begin, Goto, TypeOK, kv, world
<1>2. CASE EntryUploaded(o)
  BY <1>0, <1>2 DEF EntryUploaded, Goto, TypeOK, kv, world
<1>3. CASE IndexLoaded(o)
  BY <1>0, <1>3 DEF IndexLoaded, Goto, TypeOK, kv, world
<1>4. CASE IndexUploaded(o)
  BY <1>0, <1>4 DEF IndexUploaded, Assign, Goto, TypeOK, Manifest, world
<1>5. CASE IndexPersisted(o)
  <2>1. /\ Leave(o, "done") /\ manifest' = manifest /\ apart' = apart /\ UNCHANGED world
    BY <1>5 DEF IndexPersisted
  <2>2. /\ \A p \in Ops : p # o => pc'[p] = pc[p]
        /\ \A p \in Updates : sw'[p] = IF p = o THEN NoAgents ELSE sw[p]
    BY <1>0, <2>1, LeaveFacts
  <2> QED BY <1>0, <2>1, <2>2 DEF world
<1> QED BY <1>1, <1>2, <1>3, <1>4, <1>5 DEF AppendStep

\* What a failure leaves alone.
LEMMA FailFrame ==
  ASSUME IInv, NEW o \in Ops, NEW got \in BOOLEAN, OperationFails(o, got)
  PROVE  /\ manifest' = manifest /\ apart' = apart /\ live /\ live' /\ restarts' = restarts
         /\ pc'[o] = "failed" /\ \A p \in Ops : p # o => pc'[p] = pc[p]
         /\ \A p \in Appends : p # o => idx'[p] = idx[p]
         /\ \A p \in Updates : p # o => sw'[p] = sw[p]
<1>1. Leave(o, "failed") /\ TypeOK
  BY DEF OperationFails, IInv
<1>2. /\ pc'[o] = "failed" /\ \A p \in Ops : p # o => pc'[p] = pc[p]
      /\ \A p \in Appends : idx'[p] = IF p = o THEN <<>> ELSE idx[p]
      /\ \A p \in Updates : sw'[p] = IF p = o THEN NoAgents ELSE sw[p]
  BY <1>1, LeaveFacts
<1> QED BY <1>2 DEF OperationFails, kv, world

\* Every step keeps the log of the entries that were acknowledged.
LEMMA LogKeptStep ==
  ASSUME IInv, Once, Fresh, LogKept, [Next]_vars
  PROVE  LogKept'
<1>1. ASSUME NEW o \in Appends, AppendStep(o)
      PROVE  LogKept'
  BY <1>1, StartAppendLog, EntryUploadedLog, IndexLoadedLog, IndexUploadedLog,
     IndexPersistedLog DEF AppendStep
<1>2. ASSUME NEW o \in Updates, UpdateStep(o)
      PROVE  LogKept'
  BY <1>2, UpdateFrame, LogFrame
<1>3. ASSUME NEW o \in Ops, NEW got \in BOOLEAN, OperationFails(o, got)
      PROVE  LogKept'
  <2>1. "failed" \notin InFlight /\ "failed" # "done" /\ Appends \subseteq Ops
    BY DEF InFlight, Uploading, Ops
  <2> QED BY <1>3, <2>1, FailFrame, LogFrame
<1>4. ASSUME NEW x \in late, Propagated(x)
      PROVE  LogKept'
  BY <1>4, LogFrame DEF Propagated, kv
<1>5. CASE Restart
  <2>1. apart' = {} /\ manifest'.index = <<>>
    BY <1>5 DEF Restart, NoManifest
  <2> QED BY <2>1 DEF LogKept, OwnIndex, AckedKept, Acked
<1>6. CASE UNCHANGED vars
  BY <1>6, LogFrame DEF vars
<1> QED
  BY <1>1, <1>2, <1>3, <1>4, <1>5, <1>6 DEF Next

\* An operation is taken for one that met no other when it begins, not before.
LEMMA FreshStep ==
  ASSUME IInv, Fresh, [Next]_vars
  PROVE  Fresh'
<1> USE DEF IInv
<1>0. /\ pc \in [Ops -> InFlight \cup {"idle", "done", "failed"}] /\ apart \subseteq Ops
      /\ Appends \subseteq Ops /\ Updates \subseteq Ops /\ TypeOK
  BY DEF TypeOK, Ops
<1>1. ASSUME NEW o \in Ops, NEW l, l # "idle", Goto(o, l), apart' \subseteq apart \cup {o}
      PROVE  Fresh'
  BY <1>0, <1>1 DEF Fresh, Goto
<1>2. ASSUME NEW o \in Ops, NEW l \in {"done", "failed"}, Leave(o, l), apart' = apart
      PROVE  Fresh'
  BY <1>1, <1>2 DEF Leave
<1>3. ASSUME NEW o \in Appends, AppendStep(o)
      PROVE  Fresh'
  <2>1. CASE StartAppend(o)
    BY <1>0, <1>1, <2>1 DEF StartAppend, Begin
  <2>2. CASE EntryUploaded(o) \/ IndexLoaded(o) \/ IndexUploaded(o)
    <3>1. PICK l \in {"index", "indexLoad", "indexPersist"} : Goto(o, l)
      BY <2>2 DEF EntryUploaded, IndexLoaded, IndexUploaded, Assign
    <3>2. apart' = apart
      BY <2>2 DEF EntryUploaded, IndexLoaded, IndexUploaded
    <3> QED BY <1>0, <1>1, <3>1, <3>2
  <2>3. CASE IndexPersisted(o)
    BY <1>0, <1>2, <2>3 DEF IndexPersisted
  <2> QED BY <1>3, <2>1, <2>2, <2>3 DEF AppendStep
<1>4. ASSUME NEW o \in Updates, UpdateStep(o)
      PROVE  Fresh'
  <2>1. CASE StartUpdate(o)
    BY <1>0, <1>1, <2>1 DEF StartUpdate, Begin
  <2>2. CASE AgentUploaded(o) \/ AgentPersisted(o) \/ SwarmLoaded(o) \/ SwarmUploaded(o)
    <3>1. PICK l \in {"agentPersist", "swarm", "swarmLoad", "swarmPersist"} : Goto(o, l)
      BY <2>2 DEF AgentUploaded, AgentPersisted, SwarmLoaded, SwarmUploaded, Assign
    <3>2. apart' = apart
      BY <2>2 DEF AgentUploaded, AgentPersisted, SwarmLoaded, SwarmUploaded
    <3> QED BY <1>0, <1>1, <3>1, <3>2
  <2>3. CASE SwarmPersisted(o)
    BY <1>0, <1>2, <2>3 DEF SwarmPersisted
  <2> QED BY <1>4, <2>1, <2>2, <2>3 DEF UpdateStep
<1>5. ASSUME NEW o \in Ops, NEW got \in BOOLEAN, OperationFails(o, got)
      PROVE  Fresh'
  BY <1>2, <1>5 DEF OperationFails
<1>6. ASSUME NEW x \in late, Propagated(x)
      PROVE  Fresh'
  BY <1>6 DEF Propagated, Fresh
<1>7. CASE Restart
  BY <1>7 DEF Restart, Fresh
<1>8. CASE UNCHANGED vars
  BY <1>8 DEF vars, Fresh
<1> QED
  BY <1>3, <1>4, <1>5, <1>6, <1>7, <1>8 DEF Next

-----------------------------------------------------------------------------
(* The aggregate.                                                          *)

\* A step of no update that writes neither key of the manifest.
LEMMA SwarmFrame ==
  ASSUME SwarmKept, manifest'.agent = manifest.agent, manifest'.swarm = manifest.swarm,
         \A p \in Updates :
           /\ p \in apart' => p \in apart
           /\ \/ pc'[p] = pc[p] /\ sw'[p] = sw[p]
              \/ pc'[p] \notin InFlight /\ pc'[p] # "done"
  PROVE  SwarmKept'
<1>0. {"agentPersist", "swarmLoad", "swarm"} \subseteq InFlight
  BY DEF InFlight, Uploading
<1>1. OwnState'
  BY DEF SwarmKept, OwnState
<1>2. Shown(manifest)'
  BY <1>0 DEF SwarmKept, Shown
<1> QED BY <1>1, <1>2 DEF SwarmKept

\* What the steps of an update after its first have in common.
LEMMA UpdateAlone ==
  ASSUME SwarmKept, NEW o \in Updates, pc[o] \in InFlight,
         NEW q \in Updates \cap apart, pc[q] \in InFlight
  PROVE  q = o /\ \A p \in Updates : pc[p] \in InFlight => p = o
BY DEF SwarmKept, OwnState

\* The steps of an update.
LEMMA UpdateSwarm ==
  ASSUME IInv, Fresh, SwarmKept, NEW o \in Updates, UpdateStep(o)
  PROVE  SwarmKept'
<1> USE OpsAssumption DEF IInv
<1>0. /\ {"agent", "agentPersist", "swarmLoad", "swarm", "swarmPersist"} \subseteq InFlight
      /\ "done" \notin InFlight /\ "idle" \notin InFlight
      /\ o \in Ops /\ TypeOK /\ manifest \in Manifest /\ sw \in [Updates -> AgentMap]
      /\ pc \in [Ops -> InFlight \cup {"idle", "done", "failed"}]
      /\ manifest.agent \in [Roles -> Updates \cup {None}]
      /\ manifest.swarm \in [Roles -> Updates \cup {None}]
      /\ sw[o] \in [Roles -> Updates \cup {None}]
      /\ \A p \in Updates : RoleOf[p] \in Roles /\ p # None /\ p \in Ops
  BY RolesAssumption DEF InFlight, Uploading, Ops, TypeOK, Manifest, AgentMap
<1>1. /\ \A p \in Updates : p # o => pc'[p] = pc[p] /\ sw'[p] = sw[p]
  BY UpdateFrame
<1>2. CASE StartUpdate(o)
  <2> DEFINE met == {p \in Updates : pc[p] \in InFlight}
  <2>1. /\ pc[o] = "idle" /\ pc'[o] = "agent" /\ sw' = sw /\ manifest' = manifest
        /\ apart' = IF met = {} THEN apart \cup {o} ELSE apart \ met
    BY <1>0, <1>2 DEF StartUpdate, Goto, Begin, kv
  <2>2. o \notin apart
    BY <2>1 DEF Fresh
  <2>3. ASSUME NEW q \in Updates \cap apart', pc'[q] \in InFlight
        PROVE  q = o /\ \A p \in Updates : pc'[p] \in InFlight => p = o
    <3>1. CASE met = {}
      BY <1>1, <2>1, <2>3, <3>1
    <3>2. CASE met # {}
      <4>1. q \in apart /\ q \notin met /\ q # o
        BY <2>1, <2>2, <2>3, <3>2
      <4> QED BY <1>1, <2>3, <4>1
    <3> QED BY <3>1, <3>2
  <2>4. OwnState'
    BY <2>1, <2>3 DEF OwnState
  <2>5. Shown(manifest)'
    BY <1>0, <1>1, <2>1 DEF SwarmKept, Shown
  <2> QED BY <2>4, <2>5 DEF SwarmKept
<1>3. CASE AgentUploaded(o)
  <2>1. /\ pc[o] = "agent" /\ pc'[o] = "agentPersist" /\ sw' = sw /\ apart' = apart
        /\ manifest'.agent = [manifest.agent EXCEPT ![RoleOf[o]] = o]
        /\ manifest'.swarm = manifest.swarm
    BY <1>0, <1>3 DEF AgentUploaded, Uploaded, Assign, Goto, Manifest
  <2>2. /\ manifest'.agent[RoleOf[o]] = o
        /\ \A r \in Roles : r # RoleOf[o] => manifest'.agent[r] = manifest.agent[r]
    BY <1>0, <2>1
  <2>3. OwnState'
    BY <1>0, <1>1, <2>1, <2>2, UpdateAlone DEF OwnState
  <2>4. ASSUME NEW q \in Updates \cap apart, pc'[q] = "done", manifest'.agent[RoleOf[q]] = q
        PROVE  /\ RoleOf[q] # RoleOf[o] /\ pc[q] = "done" /\ manifest.agent[RoleOf[q]] = q
    BY <1>0, <1>1, <2>1, <2>2, <2>4
  <2>5. Shown(manifest)'
    BY <1>1, <2>1, <2>4 DEF SwarmKept, Shown
  <2> QED BY <2>3, <2>5 DEF SwarmKept
<1>4. CASE AgentPersisted(o)
  <2>1. /\ pc[o] = "agentPersist" /\ apart' = apart /\ manifest' = manifest
        /\ \/ /\ manifest.swarm = NoAgents /\ pc'[o] = "swarm"
              /\ sw'[o] = [NoAgents EXCEPT ![RoleOf[o]] = o]
           \/ manifest.swarm # NoAgents /\ pc'[o] = "swarmLoad" /\ sw'[o] = manifest.swarm
    BY <1>0, <1>4 DEF AgentPersisted, Uploaded, Goto
  <2>2. pc'[o] = "swarm" => sw'[o][RoleOf[o]] = o
    BY <1>0, <2>1 DEF NoAgents
  <2>3. OwnState'
    BY <1>0, <1>1, <2>1, <2>2, UpdateAlone DEF OwnState, SwarmKept
  <2>4. ASSUME NEW q \in Updates \cap apart, pc'[q] = "done", manifest.agent[RoleOf[q]] = q
        PROVE  /\ pc[q] = "done" /\ RoleOf[q] # RoleOf[o] /\ manifest.swarm[RoleOf[q]] = q
               /\ sw'[o][RoleOf[q]] = q
    <3>1. pc[q] = "done" /\ RoleOf[q] # RoleOf[o] /\ manifest.swarm[RoleOf[q]] = q
      BY <1>0, <1>1, <2>1, <2>4 DEF SwarmKept, Shown
    <3>2. manifest.swarm # NoAgents
      BY <1>0, <3>1 DEF NoAgents
    <3> QED BY <2>1, <3>1, <3>2
  <2>5. Shown(manifest)'
    BY <1>1, <2>1, <2>4 DEF SwarmKept, Shown
  <2> QED BY <2>3, <2>5 DEF SwarmKept
<1>5. CASE SwarmLoaded(o)
  <2>1. /\ pc[o] = "swarmLoad" /\ pc'[o] = "swarm" /\ apart' = apart /\ manifest' = manifest
    BY <1>0, <1>5 DEF SwarmLoaded, Goto, kv
  <2>2. /\ sw'[o][RoleOf[o]] = o
        /\ \A r \in Roles : r # RoleOf[o] => sw'[o][r] = sw[o][r]
    <3>1. sw'[o] = [sw[o] EXCEPT ![RoleOf[o]] = o]
      BY <1>0, <1>5 DEF SwarmLoaded
    <3> QED BY <1>0, <3>1
  <2>3. OwnState'
    BY <1>0, <1>1, <2>1, <2>2, UpdateAlone DEF OwnState, SwarmKept
  <2>4. ASSUME NEW q \in Updates \cap apart, pc'[q] = "done", manifest.agent[RoleOf[q]] = q
        PROVE  /\ pc[q] = "done" /\ RoleOf[q] # RoleOf[o] /\ sw'[o][RoleOf[q]] = q
               /\ manifest.swarm[RoleOf[q]] = q
    BY <1>0, <1>1, <2>1, <2>2, <2>4 DEF SwarmKept, Shown
  <2>5. Shown(manifest)'
    BY <1>1, <2>1, <2>4 DEF SwarmKept, Shown
  <2> QED BY <2>3, <2>5 DEF SwarmKept
<1>6. CASE SwarmUploaded(o)
  <2>1. /\ pc[o] = "swarm" /\ pc'[o] = "swarmPersist" /\ sw' = sw /\ apart' = apart
        /\ manifest'.swarm = sw[o] /\ manifest'.agent = manifest.agent
    BY <1>0, <1>6 DEF SwarmUploaded, Uploaded, Assign, Goto, Manifest
  <2>2. OwnState'
    BY <1>0, <1>1, <2>1, UpdateAlone DEF OwnState, SwarmKept
  <2>3. Shown(manifest)'
    BY <1>0, <1>1, <2>1 DEF SwarmKept, Shown
  <2> QED BY <2>2, <2>3 DEF SwarmKept
<1>7. CASE SwarmPersisted(o)
  <2>1. /\ pc[o] = "swarmPersist" /\ pc'[o] = "done" /\ apart' = apart /\ manifest' = manifest
    BY <1>0, <1>7, LeaveFacts DEF SwarmPersisted, Uploaded
  <2>2. ASSUME o \in apart
        PROVE  /\ manifest.swarm[RoleOf[o]] = o
               /\ \A p \in Updates : pc'[p] \notin InFlight
    <3>1. manifest.swarm[RoleOf[o]] = o /\ \A p \in Updates : pc[p] \in InFlight => p = o
      BY <1>0, <2>1, <2>2 DEF SwarmKept, OwnState
    <3> QED BY <1>0, <1>1, <2>1, <3>1
  <2>3. OwnState'
    BY <1>0, <1>1, <2>1 DEF SwarmKept, OwnState
  <2>4. ASSUME NEW q \in Updates \cap apart, pc'[q] = "done", manifest.agent[RoleOf[q]] = q
        PROVE  /\ manifest.swarm[RoleOf[q]] = q
               /\ \A p \in Updates :
                    /\ pc'[p] \in {"agentPersist", "swarmLoad", "swarm"} => RoleOf[p] # RoleOf[q]
                    /\ pc'[p] \in {"swarmLoad", "swarm"} => sw'[p][RoleOf[q]] = q
    <3>1. CASE q = o
      BY <1>0, <2>2, <2>4, <3>1
    <3>2. CASE q # o
      BY <1>0, <1>1, <2>1, <2>4, <3>2 DEF SwarmKept, Shown
    <3> QED BY <3>1, <3>2
  <2>5. Shown(manifest)'
    BY <2>1, <2>4 DEF Shown
  <2> QED BY <2>3, <2>5 DEF SwarmKept
<1> QED BY <1>2, <1>3, <1>4, <1>5, <1>6, <1>7 DEF UpdateStep

\* Every step keeps the aggregate of the updates that met no other.
LEMMA SwarmKeptStep ==
  ASSUME IInv, Fresh, SwarmKept, [Next]_vars
  PROVE  SwarmKept'
<1>1. ASSUME NEW o \in Appends, AppendStep(o)
      PROVE  SwarmKept'
  BY <1>1, AppendFrame, SwarmFrame
<1>2. ASSUME NEW o \in Ops, NEW got \in BOOLEAN, OperationFails(o, got)
      PROVE  SwarmKept'
  <2>1. "failed" \notin InFlight /\ "failed" # "done" /\ Updates \subseteq Ops
    BY DEF InFlight, Uploading, Ops
  <2> QED BY <1>2, <2>1, FailFrame, SwarmFrame
<1>3. ASSUME NEW x \in late, Propagated(x)
      PROVE  SwarmKept'
  BY <1>3, SwarmFrame DEF Propagated, kv
<1>4. CASE Restart
  <2>1. apart' = {}
    BY <1>4 DEF Restart
  <2> QED BY <2>1 DEF SwarmKept, OwnState, Shown
<1>5. CASE UNCHANGED vars
  BY <1>5, SwarmFrame DEF vars
<1> QED
  BY <1>1, <1>2, <1>3, <1>4, <1>5, UpdateSwarm DEF Next

-----------------------------------------------------------------------------
(* The client that does not suspend.                                       *)

\* Nothing overlaps, so that every operation of the first process is one that
\* met no other.
LEMMA SoloStep ==
  ASSUME IInv, Solo, [Next]_vars
  PROVE  Solo'
<1> USE OpsAssumption DEF IInv
<1>0. /\ pc \in [Ops -> InFlight \cup {"idle", "done", "failed"}] /\ TypeOK
      /\ Appends \subseteq Ops /\ Updates \subseteq Ops
      /\ "idle" \notin InFlight /\ "failed" \notin InFlight /\ "done" \notin InFlight
      /\ restarts \in Nat
  BY BoundsAssumption DEF TypeOK, Ops, InFlight, Uploading
<1>1. ASSUME NEW o \in Ops, NEW l, MayRun(o), Goto(o, l), live' = live, restarts' = restarts,
             apart \subseteq apart' \/ live, ~live /\ pc[o] = "idle" => o \in apart'
      PROVE  Solo'
  <2> SUFFICES ASSUME ~live'
               PROVE  Solo'
    BY DEF Solo
  <2>1. ~live /\ \A p \in Ops : p # o => pc[p] \notin InFlight /\ pc'[p] = pc[p]
    BY <1>0, <1>1 DEF MayRun, Goto
  <2>2. ASSUME restarts = 0, NEW p \in Ops, pc'[p] # "idle"
        PROVE  p \in apart'
    BY <1>1, <2>1, <2>2 DEF Solo
  <2> QED BY <1>1, <2>1, <2>2 DEF Solo
<1>2. ASSUME NEW o \in Ops, NEW kind \in {Appends, Updates}, pc[o] = "idle", MayRun(o),
             Begin(o, kind), ~live
      PROVE  apart' = apart \cup {o}
  <2>1. \A p \in Ops : pc[p] \notin InFlight
    BY <1>0, <1>2 DEF MayRun
  <2> QED BY <1>0, <1>2, <2>1 DEF Begin
<1>3. ASSUME NEW o \in Appends, AppendStep(o)
      PROVE  Solo'
  <2>0. MayRun(o) /\ o \in Ops /\ live' = live /\ restarts' = restarts
    BY <1>0, <1>3, AppendFrame DEF AppendStep, StartAppend, EntryUploaded, IndexLoaded,
       IndexUploaded, IndexPersisted, Uploaded
  <2>1. PICK l : Goto(o, l)
    BY <1>3 DEF AppendStep, StartAppend, EntryUploaded, IndexLoaded, IndexUploaded,
       IndexPersisted, Assign, Leave
  <2>2. \/ pc[o] = "idle" /\ Begin(o, Appends)
        \/ pc[o] # "idle" /\ apart' = apart
    BY <1>3 DEF AppendStep, StartAppend, EntryUploaded, IndexLoaded, IndexUploaded,
       IndexPersisted, Uploaded
  <2> QED BY <1>1, <1>2, <2>0, <2>1, <2>2
<1>4. ASSUME NEW o \in Updates, UpdateStep(o)
      PROVE  Solo'
  <2>0. MayRun(o) /\ o \in Ops /\ live' = live /\ restarts' = restarts
    BY <1>0, <1>4, UpdateFrame DEF UpdateStep, StartUpdate, AgentUploaded, AgentPersisted,
       SwarmLoaded, SwarmUploaded, SwarmPersisted, Uploaded
  <2>1. PICK l : Goto(o, l)
    BY <1>4 DEF UpdateStep, StartUpdate, AgentUploaded, AgentPersisted, SwarmLoaded,
       SwarmUploaded, SwarmPersisted, Assign, Leave
  <2>2. \/ pc[o] = "idle" /\ Begin(o, Updates)
        \/ pc[o] # "idle" /\ apart' = apart
    BY <1>4 DEF UpdateStep, StartUpdate, AgentUploaded, AgentPersisted, SwarmLoaded,
       SwarmUploaded, SwarmPersisted, Uploaded
  <2> QED BY <1>1, <1>2, <2>0, <2>1, <2>2
<1>5. ASSUME NEW o \in Ops, NEW got \in BOOLEAN, OperationFails(o, got)
      PROVE  Solo'
  BY <1>5, FailFrame DEF Solo
<1>6. ASSUME NEW x \in late, Propagated(x)
      PROVE  Solo'
  BY <1>6 DEF Propagated, Solo, world
<1>7. CASE Restart
  <2>1. restarts' = restarts + 1 /\ \A p \in Ops : pc'[p] \notin InFlight
    BY <1>0, <1>7 DEF Restart
  <2>2. restarts' # 0
    BY <1>0, <2>1
  <2> QED BY <2>1, <2>2 DEF Solo
<1>8. CASE UNCHANGED vars
  BY <1>8 DEF vars, Solo
<1> QED
  BY <1>3, <1>4, <1>5, <1>6, <1>7, <1>8 DEF Next

-----------------------------------------------------------------------------
(* The theorems about what is kept.                                        *)

\* No operation has begun and nothing is written yet.
LEMMA KeptInit == Init => Fresh /\ LogKept /\ SwarmKept /\ Solo
<1> SUFFICES ASSUME Init
             PROVE  Fresh /\ LogKept /\ SwarmKept /\ Solo
  OBVIOUS
<1>1. apart = {} /\ manifest.index = <<>> /\ \A o \in Ops : pc[o] = "idle"
  BY DEF Init, NoManifest
<1> QED
  BY <1>1 DEF Fresh, LogKept, OwnIndex, AckedKept, Acked, SwarmKept, OwnState, Shown, Solo,
     InFlight, Uploading

\* All that a step preserves.
Kept == IInv /\ Once /\ Fresh /\ LogKept /\ SwarmKept /\ Solo

\* It holds of every behaviour.
LEMMA AllKept == Spec => []Kept
<1>1. Init => Kept
  BY InitInv, OnceInit, KeptInit DEF Kept
<1>2. Kept /\ [Next]_vars => Kept'
  BY NextStep, OnceStep, FreshStep, LogKeptStep, SwarmKeptStep, SoloStep DEF Kept
<1> QED
  BY <1>1, <1>2, PTL DEF Spec

\* For any number of agents and any overlaps, the aggregate that
\* agent_memory.py's read_swarm_state returns shows the state an agent's own
\* key has once the update that wrote it returned, having met no other update.
THEOREM AggregateFollows == Spec => []SwarmStateFollows
<1>1. Kept => SwarmStateFollows
  BY DEF Kept, SwarmKept, Shown, SwarmStateFollows
<1> QED
  BY <1>1, AllKept, PTL

\* core/storage/log.py:14 holds of the appends that met no other append, with
\* any client and until the process ends: an entry whose append returned can be
\* replayed.  With a client that does not suspend, that is every append of the
\* first process.  Entries are lost to overlapping appends and to a restart,
\* and to nothing else.
THEOREM HistoryFullApart ==
  Spec => [](/\ \A o \in Appends \cap apart : pc[o] = "done" => o \in Range(manifest.index)
             /\ ~live /\ restarts = 0 => HistoryIsFull)
<1>1. ASSUME Kept
      PROVE  /\ \A o \in Appends \cap apart : pc[o] = "done" => o \in Range(manifest.index)
             /\ ~live /\ restarts = 0 => HistoryIsFull
  <2>1. \A o \in Appends \cap apart : pc[o] = "done" => o \in Range(manifest.index)
    BY <1>1 DEF Kept, LogKept, AckedKept, Acked
  <2>2. ~live /\ restarts = 0 => \A o \in Appends : pc[o] = "done" => o \in apart
    BY <1>1 DEF Kept, Solo, Ops
  <2> QED BY <2>1, <2>2 DEF HistoryIsFull
<1> QED
  BY <1>1, AllKept, PTL

-----------------------------------------------------------------------------
(* The log implements SessionLog.                                          *)

\* What a step does to the entries that are acknowledged.
LEMMA AckStep ==
  ASSUME Kept, [Next]_vars
  PROVE  \/ Acked' = Acked
         \/ \E o \in Appends : Acked' = Acked \cup {o} /\ o \in Range(manifest'.index)
         \/ Restart
<1> USE DEF Kept, IInv
<1>0. /\ pc \in [Ops -> InFlight \cup {"idle", "done", "failed"}] /\ TypeOK
      /\ Appends \subseteq Ops /\ "done" \notin InFlight
  BY DEF TypeOK, Ops, InFlight, Uploading
<1>1. ASSUME NEW o \in Appends, AppendStep(o)
      PROVE  \/ Acked' = Acked
             \/ Acked' = Acked \cup {o} /\ o \in Range(manifest'.index)
  <2>1. CASE StartAppend(o)
    <3>1. /\ pc[o] = "idle" /\ pc'[o] = "entry" /\ \A p \in Appends : p # o => pc'[p] = pc[p]
          /\ \A p \in Appends : pc[p] = "done" => (p \in apart' <=> p \in apart)
      BY <1>0, <2>1 DEF StartAppend, Goto, Begin
    <3> QED BY <3>1 DEF Acked
  <2>2. CASE EntryUploaded(o) \/ IndexLoaded(o) \/ IndexUploaded(o)
    <3>1. PICK l \in {"index", "indexLoad", "indexPersist"} : Goto(o, l)
      BY <2>2 DEF EntryUploaded, IndexLoaded, IndexUploaded, Assign
    <3>2. apart' = apart /\ pc[o] # "done"
      BY <2>2 DEF EntryUploaded, IndexLoaded, IndexUploaded, Uploaded
    <3> QED BY <1>0, <3>1, <3>2 DEF Acked, Goto
  <2>3. CASE IndexPersisted(o)
    <3>1. /\ pc[o] = "indexPersist" /\ pc'[o] = "done" /\ apart' = apart /\ manifest' = manifest
          /\ \A p \in Appends : p # o => pc'[p] = pc[p]
      BY <1>0, <2>3, LeaveFacts DEF IndexPersisted, Uploaded
    <3>2. o \in apart => o \in Range(manifest.index)
      BY <3>1 DEF LogKept, OwnIndex, InFlight, Uploading
    <3>3. Acked' = IF o \in apart THEN Acked \cup {o} ELSE Acked
      BY <3>1 DEF Acked
    <3> QED BY <3>1, <3>2, <3>3
  <2> QED BY <1>1, <2>1, <2>2, <2>3 DEF AppendStep
<1>2. ASSUME NEW o \in Updates, UpdateStep(o)
      PROVE  Acked' = Acked
  <2>1. \A p \in Appends : p \in apart' <=> p \in apart
    BY <1>2, OpsAssumption DEF UpdateStep, StartUpdate, Begin, AgentUploaded, AgentPersisted,
       SwarmLoaded, SwarmUploaded, SwarmPersisted
  <2> QED BY <1>2, <2>1, UpdateFrame DEF Acked
<1>3. ASSUME NEW o \in Ops, NEW got \in BOOLEAN, OperationFails(o, got)
      PROVE  Acked' = Acked
  <2>1. pc[o] # "done"
    BY <1>0, <1>3 DEF OperationFails
  <2> QED BY <1>0, <1>3, <2>1, FailFrame DEF Acked
<1>4. ASSUME NEW x \in late, Propagated(x)
      PROVE  Acked' = Acked
  BY <1>4 DEF Propagated, Acked
<1>5. CASE UNCHANGED vars
  BY <1>5 DEF vars, Acked
<1> QED
  BY <1>1, <1>2, <1>3, <1>4, <1>5 DEF Next

\* Unless the process restarts, the index keeps what was acknowledged.
LEMMA LogKeptUpToAcked ==
  ASSUME Kept, [Next]_vars, ~Restart
  PROVE  \A i \in DOMAIN manifest.index : manifest.index[i] \in Acked =>
           \A j \in 1 .. i : j \in DOMAIN manifest'.index /\ manifest'.index[j] = manifest.index[j]
<1> USE DEF Kept, IInv
<1>0. manifest.index \in Seq(Appends) /\ manifest \in Manifest /\ idx \in [Appends -> Seq(Appends)]
  BY DEF TypeOK, Manifest
<1>1. CASE manifest'.index = manifest.index
  <2>1. DOMAIN manifest.index = 1 .. Len(manifest.index) /\ Len(manifest.index) \in Nat
    BY <1>0
  <2>2. \A i \in DOMAIN manifest.index : \A j \in 1 .. i : j \in DOMAIN manifest.index
    BY <2>1
  <2> QED BY <1>1, <2>2
<1>2. ASSUME NEW o \in Appends, IndexUploaded(o)
      PROVE  \A i \in DOMAIN manifest.index : manifest.index[i] \in Acked =>
               \A j \in 1 .. i : j \in DOMAIN idx[o] /\ idx[o][j] = manifest.index[j]
  <2> SUFFICES ASSUME NEW i \in DOMAIN manifest.index, manifest.index[i] \in Acked,
                      NEW j \in 1 .. i
               PROVE  j \in DOMAIN idx[o] /\ idx[o][j] = manifest.index[j]
    OBVIOUS
  <2>1. SameUpTo(manifest.index, idx[o], i)
    BY <1>2 DEF LogKept, AckedKept, IndexUploaded, Uploaded
  <2>2. i \in 1 .. Len(idx[o]) /\ DOMAIN idx[o] = 1 .. Len(idx[o]) /\ Len(idx[o]) \in Nat
    BY <1>0, <2>1 DEF SameUpTo
  <2>3. j \in DOMAIN idx[o]
    BY <2>2
  <2> QED BY <2>1, <2>3 DEF SameUpTo
<1>3. \/ manifest'.index = manifest.index
      \/ \E o \in Appends : IndexUploaded(o) /\ manifest'.index = idx[o]
  <2>1. ASSUME NEW o \in Appends, AppendStep(o)
        PROVE  \/ manifest'.index = manifest.index
               \/ IndexUploaded(o) /\ manifest'.index = idx[o]
    <3>1. CASE IndexUploaded(o)
      BY <1>0, <3>1 DEF IndexUploaded, Assign, Manifest
    <3>2. CASE ~IndexUploaded(o)
      BY <2>1, <3>2 DEF AppendStep, StartAppend, EntryUploaded, IndexLoaded, IndexPersisted, kv
    <3> QED BY <3>1, <3>2
  <2>2. ASSUME NEW o \in Updates, UpdateStep(o)
        PROVE  manifest'.index = manifest.index
    BY <2>2, UpdateFrame
  <2>3. ASSUME NEW o \in Ops, NEW got \in BOOLEAN, OperationFails(o, got)
        PROVE  manifest'.index = manifest.index
    BY <2>3, FailFrame
  <2> QED BY <2>1, <2>2, <2>3 DEF Next, Propagated, vars, kv
<1> QED BY <1>1, <1>2, <1>3

\* For any entries, overlaps, failures and late objects, SwarmLog.append
\* implements the log that keeps every entry whose append returned without
\* having met another, with all that came before it, while the process runs.
THEOREM LogIsKept == Spec => ImplementsSessionLog
<1> DEFINE llog   == manifest.index
           lacked == {o \in Appends \cap apart : pc[o] = "done"}
<1>1. Init => LogSpec!Init
  BY DEF Init, LogSpec!Init, NoManifest
<1>2. ASSUME Kept, Kept', [Next]_vars
      PROVE  LogSpec!Next
  <2>0. lacked = Acked /\ lacked' = Acked'
    BY DEF Acked
  <2>1. CASE Restart
    <3>1. llog' = <<>> /\ lacked' = {}
      BY <2>1 DEF Restart, NoManifest
    <3>2. LogSpec!Restart
      BY <3>1 DEF LogSpec!Restart
    <3> QED BY <3>2 DEF LogSpec!Next
  <2>2. CASE ~Restart
    <3>1. IsInjective(llog')
      BY <1>2 DEF Kept, Once, Indexes
    <3>2. LogSpec!Kept
      BY <1>2, <2>0, <2>2, <3>1, LogKeptUpToAcked DEF LogSpec!Kept, IsInjective,
         LogSpec!IsInjective
    <3>3. CASE Acked' = Acked
      <4>1. LogSpec!Write
        BY <2>0, <3>2, <3>3 DEF LogSpec!Write
      <4> QED BY <4>1 DEF LogSpec!Next
    <3>4. ASSUME NEW o \in Appends, Acked' = Acked \cup {o}, o \in Range(manifest'.index)
          PROVE  LogSpec!Next
      <4>1. LogSpec!Append1(o)
        BY <2>0, <3>2, <3>4 DEF LogSpec!Append1, Range, LogSpec!Range
      <4> QED BY <4>1 DEF LogSpec!Next
    <3> QED BY <1>2, <2>2, <3>3, <3>4, AckStep
  <2> QED BY <2>1, <2>2
<1> QED
  BY <1>1, <1>2, AllKept, PTL DEF Spec, ImplementsSessionLog, LogSpec!Spec
=============================================================================
