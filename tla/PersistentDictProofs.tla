------------------------- MODULE PersistentDictProofs -------------------------
(***************************************************************************)
(* PersistentDict for every set of threads, keys and values, and any depth  *)
(* of nesting: its types, the agreement of lock, batch and save, and that   *)
(* it implements DurableMap.                                                *)
(***************************************************************************)
EXTENDS PersistentDict, TLAPS

LEMMA EditsAreMaps ==
  ASSUME TypeOK
  PROVE  /\ \A k \in Key, v \in Value : [data EXCEPT ![k] = v] \in Map
         /\ \A k \in Key : [data EXCEPT ![k] = Absent] \in Map
         /\ EmptyMap \in Map
BY DEF TypeOK, Map, EmptyMap

LEMMA InitInv == Init => DictInv
BY PersistentDictAssumption
DEF Init, DictInv, TypeOK, Consistent, BatchIsOwned, WriterIsBusy, SavedIsDurable, Map

\* A mutation keeps the invariant, whether it runs in the thread's batch or
\* takes the lock.
LEMMA MutateInv ==
  ASSUME DictInv, NEW t \in Thread, NEW new \in Map, Mutate(t, new)
  PROVE  DictInv'
<1> USE PersistentDictAssumption DEF DictInv, TypeOK, Consistent, BatchIsOwned, WriterIsBusy, SavedIsDurable
<1>1. CASE InBatch(t)
  BY <1>1 DEF Mutate, InBatch, Map
<1>2. CASE ~InBatch(t)
  <2>1. /\ writer = NoThread /\ writer' = t /\ pc' = [pc EXCEPT ![t] = "save"]
        /\ outcome' = [outcome EXCEPT ![t] = "pending"] /\ before' = data /\ data' = new
        /\ UNCHANGED <<disk, temp, batchOwner, batchDepth, nest, seen>>
    BY <1>2 DEF Mutate, Acquire
  <2>2. TypeOK'
    BY <2>1
  <2>3. BatchIsOwned' /\ WriterIsBusy' /\ SavedIsDurable'
    BY <2>1
  <2> QED BY <2>2, <2>3
<1> QED BY <1>1, <1>2

\* Entering a batch keeps the invariant.
LEMMA BatchEnterInv ==
  ASSUME DictInv, NEW t \in Thread, BatchEnter(t)
  PROVE  DictInv'
<1> USE PersistentDictAssumption DEF DictInv, TypeOK, Consistent, BatchIsOwned, WriterIsBusy, SavedIsDurable
<1>1. CASE batchOwner # t
  BY <1>1 DEF BatchEnter, Acquire
<1>2. CASE batchOwner = t
  BY <1>2 DEF BatchEnter
<1> QED BY <1>1, <1>2

\* So does leaving one.
LEMMA BatchExitInv ==
  ASSUME DictInv, NEW t \in Thread, BatchExit(t)
  PROVE  DictInv'
<1> USE PersistentDictAssumption DEF DictInv, TypeOK, Consistent, BatchIsOwned, WriterIsBusy, SavedIsDurable
<1>1. CASE batchDepth = 1
  BY <1>1 DEF BatchExit
<1>2. CASE batchDepth # 1
  BY <1>2 DEF BatchExit
<1> QED BY <1>1, <1>2

\* So does every step of a save and the release of the lock.
LEMMA SavingInv ==
  ASSUME DictInv, NEW t \in Thread, Saving(t)
  PROVE  DictInv'
<1> USE PersistentDictAssumption DEF DictInv, TypeOK, Consistent, BatchIsOwned, WriterIsBusy, SavedIsDurable
<1>1. CASE WriteTemp(t)
  BY <1>1 DEF WriteTemp
<1>2. CASE Replace(t)
  BY <1>2 DEF Replace
<1>3. CASE SaveFails(t)
  BY <1>3 DEF SaveFails
<1>4. CASE Release(t)
  BY <1>4 DEF Release
<1> QED BY <1>1, <1>2, <1>3, <1>4 DEF Saving

\* DictInv is inductive.
LEMMA NextInv == DictInv /\ [Next]_vars => DictInv'
<1> SUFFICES ASSUME DictInv, [Next]_vars PROVE DictInv'
  OBVIOUS
<1>1. ASSUME NEW t \in Thread, Step(t) PROVE DictInv'
  <2>1. ASSUME NEW k \in Key, NEW v \in Value, SetItem(t, k, v) PROVE DictInv'
    BY <2>1, EditsAreMaps, MutateInv DEF SetItem, DictInv
  <2>2. ASSUME NEW k \in Key, DelItem(t, k) PROVE DictInv'
    BY <2>2, EditsAreMaps, MutateInv DEF DelItem, DictInv
  <2>3. CASE Clear(t)
    BY <2>3, EditsAreMaps, MutateInv DEF Clear, DictInv
  <2>4. CASE Read(t)
    BY <2>4 DEF Read, DictInv, TypeOK, Consistent, BatchIsOwned, WriterIsBusy, SavedIsDurable
  <2>5. CASE Reload(t)
    BY <2>5, PersistentDictAssumption
    DEF Reload, DictInv, TypeOK, Consistent, BatchIsOwned, WriterIsBusy, SavedIsDurable
  <2> QED BY <1>1, <2>1, <2>2, <2>3, <2>4, <2>5, BatchEnterInv, BatchExitInv, SavingInv DEF Step, Saving
<1>2. CASE Restart
  BY <1>2, PersistentDictAssumption
  DEF Restart, DictInv, TypeOK, Consistent, BatchIsOwned, WriterIsBusy, SavedIsDurable
<1>3. CASE UNCHANGED vars
  BY <1>3 DEF vars, DictInv, TypeOK, Consistent, BatchIsOwned, WriterIsBusy, SavedIsDurable
<1> QED BY <1>1, <1>2, <1>3 DEF Next

\* The types of all variables, and the agreement of the batch fields, the lock
\* and the saves, hold in every state.
THEOREM DictInvariant == Spec => []DictInv
BY InitInv, NextInv, PTL DEF Spec

-------------------------------------------------------------------------------
(* The refinement                                                          *)

\* The abstract owner is the thread that holds the lock and still has to save.
LEMMA OwnerIsWriter ==
  ASSUME DictInv
  PROVE  /\ \A t \in Thread : writer = t /\ pc[t] # "release" => InTransaction
         /\ writer = NoThread => ~InTransaction
         /\ \A t \in Thread : pc[t] = "release" => writer = t /\ ~InTransaction
         /\ \A t \in Thread : pc[t] \in {"save", "replace"} => writer = t /\ InTransaction
         /\ \A t \in Thread : InBatch(t) => writer = t /\ pc[t] = "run" /\ InTransaction
BY PersistentDictAssumption
DEF DictInv, TypeOK, Consistent, BatchIsOwned, WriterIsBusy, InTransaction, InBatch

\* A write is the one-edit transaction it opens, or an edit of the open batch.
LEMMA MutateRefines ==
  ASSUME DictInv, NEW t \in Thread, NEW new \in Promise!Edits(data), new \in Map, Mutate(t, new)
  PROVE  Promise!Begin(t) \/ Promise!Edit(t)
<1>1. DictInv'
  BY MutateInv
<1>2. CASE InBatch(t)
  <2>1. UNCHANGED <<disk, writer, pc, outcome, seen, before>> /\ data' = new
    BY <1>2 DEF Mutate
  <2>2. InTransaction /\ InTransaction' /\ writer = t
    BY <1>2, <2>1, OwnerIsWriter DEF InTransaction
  <2> QED BY <2>1, <2>2 DEF Promise!Edit
<1>3. CASE ~InBatch(t)
  <2>1. /\ writer = NoThread /\ writer' = t /\ pc' = [pc EXCEPT ![t] = "save"]
        /\ outcome' = [outcome EXCEPT ![t] = "pending"] /\ before' = data /\ data' = new
        /\ UNCHANGED <<disk, seen>>
    BY <1>3 DEF Mutate, Acquire
  <2>2. ~InTransaction
    BY <2>1, OwnerIsWriter
  <2>3. InTransaction'
    BY <2>1 DEF InTransaction, DictInv, TypeOK
  <2> QED BY <2>1, <2>2, <2>3 DEF Promise!Begin
<1> QED BY <1>2, <1>3

LEMMA BatchEnterRefines ==
  ASSUME DictInv, NEW t \in Thread, BatchEnter(t)
  PROVE  Promise!Begin(t) \/ UNCHANGED Promise!dvars
<1>1. CASE batchOwner # t
  <2>1. /\ writer = NoThread /\ writer' = t /\ before' = data
        /\ outcome' = [outcome EXCEPT ![t] = "pending"]
        /\ UNCHANGED <<data, disk, pc, seen>> /\ pc[t] = "run"
    BY <1>1 DEF BatchEnter, Acquire
  <2>2. ~InTransaction /\ InTransaction'
    BY <2>1, OwnerIsWriter DEF InTransaction
  <2> QED BY <2>1, <2>2 DEF Promise!Begin
<1>2. CASE batchOwner = t
  <2>1. UNCHANGED <<data, disk, writer, pc, outcome, seen, before>>
    BY <1>2 DEF BatchEnter
  <2>2. UNCHANGED InTransaction
    BY <2>1 DEF InTransaction
  <2> QED BY <2>1, <2>2 DEF Promise!dvars
<1> QED BY <1>1, <1>2

\* Leaving a block, however deep, changes nothing the promise speaks of.
LEMMA BatchExitRefines ==
  ASSUME DictInv, NEW t \in Thread, BatchExit(t)
  PROVE  UNCHANGED Promise!dvars
<1>1. UNCHANGED <<data, disk, writer, outcome, seen, before>>
  BY DEF BatchExit
<1>2. writer = t /\ pc[t] = "run" /\ pc'[t] # "release"
  BY DEF BatchExit, DictInv, TypeOK, Consistent, WriterIsBusy
<1>3. InTransaction /\ InTransaction'
  BY <1>1, <1>2 DEF InTransaction
<1> QED BY <1>1, <1>3 DEF Promise!dvars

\* The rename commits, a failed save commits in memory only, and the release
\* of the lock and the writing of the temporary file are invisible.
LEMMA SavingRefines ==
  ASSUME DictInv, NEW t \in Thread, Saving(t)
  PROVE  Promise!Commit(t) \/ Promise!CommitInMemory(t) \/ UNCHANGED Promise!dvars
<1> USE DEF DictInv, TypeOK, Consistent, WriterIsBusy
<1>1. CASE WriteTemp(t)
  <2>1. UNCHANGED <<data, disk, writer, outcome, seen, before>> /\ pc[t] = "save" /\ pc'[t] = "replace"
    BY <1>1 DEF WriteTemp
  <2>2. writer = t /\ InTransaction /\ InTransaction'
    BY <2>1, OwnerIsWriter DEF InTransaction
  <2> QED BY <2>1, <2>2 DEF Promise!dvars
<1>2. CASE Replace(t)
  <2>1. /\ pc[t] = "replace" /\ pc' = [pc EXCEPT ![t] = "release"] /\ disk' = data
        /\ outcome' = [outcome EXCEPT ![t] = "ok"] /\ UNCHANGED <<data, writer, seen, before>>
    BY <1>2 DEF Replace, SavedIsDurable
  <2>2. writer = t /\ InTransaction
    BY <2>1, OwnerIsWriter
  <2>3. ~InTransaction'
    BY <2>1, <2>2 DEF InTransaction
  <2> QED BY <2>1, <2>2, <2>3 DEF Promise!Commit
<1>3. CASE SaveFails(t)
  <2>1. /\ pc[t] \in {"save", "replace"} /\ pc' = [pc EXCEPT ![t] = "release"]
        /\ outcome' = [outcome EXCEPT ![t] = "error"] /\ UNCHANGED <<data, disk, writer, seen, before>>
    BY <1>3 DEF SaveFails
  <2>2. writer = t /\ InTransaction
    BY <2>1, OwnerIsWriter
  <2>3. ~InTransaction'
    BY <2>1, <2>2 DEF InTransaction
  <2> QED BY <2>1, <2>2, <2>3 DEF Promise!CommitInMemory
<1>4. CASE Release(t)
  <2>1. /\ pc[t] = "release" /\ writer' = NoThread
        /\ UNCHANGED <<data, disk, outcome, seen, before>>
    BY <1>4 DEF Release
  <2>2. ~InTransaction /\ ~InTransaction'
    BY <2>1, OwnerIsWriter, PersistentDictAssumption DEF InTransaction
  <2> QED BY <2>1, <2>2 DEF Promise!dvars
<1> QED BY <1>1, <1>2, <1>3, <1>4 DEF Saving

\* Every step of the dictionary is a step of its promise, or is invisible.
LEMMA StepRefines == DictInv /\ [Next]_vars => [Promise!Next]_(Promise!dvars)
<1> SUFFICES ASSUME DictInv, [Next]_vars PROVE Promise!Next \/ UNCHANGED Promise!dvars
  OBVIOUS
<1>1. ASSUME NEW t \in Thread, Step(t) PROVE Promise!Next \/ UNCHANGED Promise!dvars
  <2>1. ASSUME NEW new \in Promise!Edits(data), new \in Map, Mutate(t, new) PROVE Promise!Next
    BY <2>1, MutateRefines DEF Promise!Next
  <2>2. /\ \A k \in Key, v \in Value : [data EXCEPT ![k] = v] \in Promise!Edits(data)
        /\ \A k \in Key : [data EXCEPT ![k] = Absent] \in Promise!Edits(data)
        /\ EmptyMap \in Promise!Edits(data)
    BY DEF Promise!Edits, Promise!EmptyMap, EmptyMap
  <2>3. ASSUME NEW k \in Key, NEW v \in Value, SetItem(t, k, v) PROVE Promise!Next
    BY <2>1, <2>2, <2>3, EditsAreMaps DEF SetItem, DictInv
  <2>4. ASSUME NEW k \in Key, DelItem(t, k) PROVE Promise!Next
    BY <2>1, <2>2, <2>4, EditsAreMaps DEF DelItem, DictInv
  <2>5. CASE Clear(t)
    BY <2>1, <2>2, <2>5, EditsAreMaps DEF Clear, DictInv
  <2>6. CASE Read(t)
    <3>1. UNCHANGED <<data, disk, writer, pc, outcome, before>> /\ seen' = [seen EXCEPT ![t] = data]
      BY <2>6 DEF Read
    <3>2. writer = NoThread
      BY <2>6 DEF Read, InBatch, DictInv, Consistent, BatchIsOwned
    <3>3. ~InTransaction /\ ~InTransaction'
      BY <3>1, <3>2, OwnerIsWriter DEF InTransaction
    <3> QED BY <3>1, <3>3 DEF Promise!Next, Promise!Read
  <2>7. CASE Reload(t)
    <3>1. UNCHANGED <<disk, writer, pc, outcome, seen>> /\ data' = disk /\ writer = NoThread
      BY <2>7 DEF Reload
    <3>2. ~InTransaction /\ ~InTransaction'
      BY <3>1, OwnerIsWriter DEF InTransaction
    <3> QED BY <3>1, <3>2 DEF Promise!Next, Promise!Reload
  <2>8. CASE BatchEnter(t)
    BY <2>8, BatchEnterRefines DEF Promise!Next
  <2>9. CASE BatchExit(t)
    BY <2>9, BatchExitRefines
  <2>10. CASE Saving(t)
    BY <2>10, SavingRefines DEF Promise!Next
  <2> QED BY <1>1, <2>3, <2>4, <2>5, <2>6, <2>7, <2>8, <2>9, <2>10 DEF Step, Saving
<1>2. CASE Restart
  <2>1. ~InTransaction'
    BY <1>2, PersistentDictAssumption DEF Restart, InTransaction
  <2> QED BY <1>2, <2>1 DEF Restart, Promise!Next, Promise!Restart
<1>3. CASE UNCHANGED vars
  <2>1. UNCHANGED InTransaction
    BY <1>3 DEF vars, InTransaction
  <2> QED BY <1>3, <2>1 DEF vars, Promise!dvars
<1> QED BY <1>1, <1>2, <1>3 DEF Next

\* A PersistentDict, with failing saves and restarts anywhere, is the map of
\* exclusive transactions it promises to be.
THEOREM ImplementsPromise == Spec => KeepsPromise
<1>1. Init => Promise!Init
  <2> SUFFICES ASSUME Init PROVE Promise!Init
    OBVIOUS
  <2>1. ~InTransaction
    BY PersistentDictAssumption DEF Init, InTransaction
  <2> QED BY <2>1 DEF Init, Promise!Init, Map, Promise!Map
<1> QED BY <1>1, InitInv, NextInv, StepRefines, PTL DEF Spec, KeepsPromise, Promise!Spec
===============================================================================
