---------------------------- MODULE PersistentDict ----------------------------
(***************************************************************************)
(* One PersistentDict shared by the threads of the server: the in-memory    *)
(* map, the JSON file behind it, the writer lock, and batch_write with its  *)
(* two shared fields _batch_owner and _batch_depth.  Reads take the reader  *)
(* lock for one copy of the map, so they are one step that needs no writer. *)
(* A file that does not exist loads as the empty map.                       *)
(***************************************************************************)
EXTENDS Integers

CONSTANTS
    Thread,     \* the threads that call the dictionary
    Key, Value, \* what it stores
    NoThread,   \* _batch_owner is None, and the lock is free
    Absent,     \* a key the map does not hold
    NoFile,     \* no temporary file
    MaxNest     \* bound: how deep a thread nests batch_write blocks

ASSUME PersistentDictAssumption ==
    /\ NoThread \notin Thread
    /\ Absent \notin Value
    /\ MaxNest \in Nat

VARIABLES
    data,        \* self._data
    disk,        \* what json.load of the file gives
    temp,        \* the temporary file of each thread's save in progress
    writer,      \* the thread that holds the write side of self._lock
    batchOwner,  \* self._batch_owner
    batchDepth,  \* self._batch_depth
    pc,          \* where each thread is: "run" its own code, or in a save
    nest,        \* how many batch_write blocks each thread is inside
    outcome,     \* how the save of each thread's last write ended
    seen,        \* what each thread last read outside its own batch
    before       \* history: the map when the write lock was taken

vars == <<data, disk, temp, writer, batchOwner, batchDepth, pc, nest, outcome, seen, before>>

Map == [Key -> Value \cup {Absent}]
EmptyMap == [k \in Key |-> Absent]

Init ==
    /\ disk \in Map
    /\ data = disk
    /\ temp = [t \in Thread |-> NoFile]
    /\ writer = NoThread
    /\ batchOwner = NoThread
    /\ batchDepth = 0
    /\ pc = [t \in Thread |-> "run"]
    /\ nest = [t \in Thread |-> 0]
    /\ outcome = [t \in Thread |-> "none"]
    /\ seen = [t \in Thread |-> disk]
    /\ before = disk

-------------------------------------------------------------------------------
(* The operations                                                          *)

\* Mutant: the batch state is not scoped to the thread that owns it.
InAnyBatch(t) == batchDepth > 0

\* True only when the calling thread owns the batch write lock.
InBatch(t) == batchOwner = t /\ batchDepth > 0

Acquire(t) ==
    /\ writer = NoThread
    /\ writer' = t
    /\ before' = data
    /\ outcome' = [outcome EXCEPT ![t] = "pending"]

\* Every mutator: in the thread's own batch it changes the map and returns;
\* otherwise it takes the write lock, changes the map and goes on to save.
Mutate(t, new) ==
    /\ pc[t] = "run"
    /\ data' = new
    /\ \/ /\ InBatch(t)
          /\ UNCHANGED <<writer, pc, outcome, before>>
       \/ /\ ~InBatch(t)
          /\ Acquire(t)
          /\ pc' = [pc EXCEPT ![t] = "save"]
    /\ UNCHANGED <<disk, temp, batchOwner, batchDepth, nest, seen>>

SetItem(t, k, v) == Mutate(t, [data EXCEPT ![k] = v])

\* del of a key the map lacks raises KeyError and changes nothing.
DelItem(t, k) == data[k] # Absent /\ Mutate(t, [data EXCEPT ![k] = Absent])

Clear(t) == Mutate(t, EmptyMap)

\* get, items, values, in, len, iter: a copy under the reader lock.  Inside its
\* own batch a thread reads its own working copy, which no one else observes.
Read(t) ==
    /\ pc[t] = "run"
    /\ nest[t] = 0
    /\ InBatch(t) \/ writer = NoThread
    /\ seen' = [seen EXCEPT ![t] = data]
    /\ UNCHANGED <<data, disk, temp, writer, batchOwner, batchDepth, pc, nest, outcome, before>>

\* The write lock is not re-entrant; no caller reloads inside a batch.
Reload(t) ==
    /\ pc[t] = "run"
    /\ nest[t] = 0
    /\ writer = NoThread
    /\ data' = disk
    /\ UNCHANGED <<disk, temp, writer, batchOwner, batchDepth, pc, nest, outcome, seen, before>>

BatchEnter(t) ==
    /\ pc[t] = "run"
    /\ nest[t] < MaxNest
    /\ nest' = [nest EXCEPT ![t] = @ + 1]
    /\ batchDepth' = batchDepth + 1
    /\ \/ /\ batchOwner # t
          /\ Acquire(t)
          /\ batchOwner' = t
       \/ /\ batchOwner = t
          /\ UNCHANGED <<writer, batchOwner, outcome, before>>
    /\ UNCHANGED <<data, disk, temp, pc, seen>>

\* Mutant: every exit gives the batch up, not only the outermost.
BatchExitClearsOwner(t) ==
    /\ pc[t] = "run"
    /\ nest[t] > 0
    /\ nest' = [nest EXCEPT ![t] = @ - 1]
    /\ batchDepth' = batchDepth - 1
    /\ batchOwner' = NoThread
    /\ pc' = IF batchDepth = 1 THEN [pc EXCEPT ![t] = "save"] ELSE pc
    /\ UNCHANGED <<data, disk, temp, writer, outcome, seen, before>>

\* Leaving a block, by its end or by an exception: the finally clause.  The
\* outermost exit disowns the batch and saves; an inner one only counts.
BatchExit(t) ==
    /\ pc[t] = "run"
    /\ nest[t] > 0
    /\ nest' = [nest EXCEPT ![t] = @ - 1]
    /\ batchDepth' = batchDepth - 1
    /\ \/ /\ batchDepth = 1
          /\ batchOwner' = NoThread
          /\ pc' = [pc EXCEPT ![t] = "save"]
       \/ /\ batchDepth # 1
          /\ UNCHANGED <<batchOwner, pc>>
    /\ UNCHANGED <<data, disk, temp, writer, outcome, seen, before>>

-------------------------------------------------------------------------------
(* _save and the release of the lock                                       *)

\* Serialise the map into a fresh file beside the target.
WriteTemp(t) ==
    /\ pc[t] = "save"
    /\ temp' = [temp EXCEPT ![t] = data]
    /\ pc' = [pc EXCEPT ![t] = "replace"]
    /\ UNCHANGED <<data, disk, writer, batchOwner, batchDepth, nest, outcome, seen, before>>

\* The atomic rename over the target.
Replace(t) ==
    /\ pc[t] = "replace"
    /\ disk' = temp[t]
    /\ temp' = [temp EXCEPT ![t] = NoFile]
    /\ outcome' = [outcome EXCEPT ![t] = "ok"]
    /\ pc' = [pc EXCEPT ![t] = "release"]
    /\ UNCHANGED <<data, writer, batchOwner, batchDepth, nest, seen, before>>

\* Mutant: the exception skips the release of the lock.
SaveFailsLocked(t) ==
    /\ pc[t] \in {"save", "replace"}
    /\ temp' = [temp EXCEPT ![t] = NoFile]
    /\ outcome' = [outcome EXCEPT ![t] = "error"]
    /\ pc' = [pc EXCEPT ![t] = "run"]
    /\ UNCHANGED <<data, disk, writer, batchOwner, batchDepth, nest, seen, before>>

\* mkdir, mkstemp, the write or the rename raises: the temporary file goes,
\* the map keeps the change, and the exception reaches the caller.
SaveFails(t) ==
    /\ pc[t] \in {"save", "replace"}
    /\ temp' = [temp EXCEPT ![t] = NoFile]
    /\ outcome' = [outcome EXCEPT ![t] = "error"]
    /\ pc' = [pc EXCEPT ![t] = "release"]
    /\ UNCHANGED <<data, disk, writer, batchOwner, batchDepth, nest, seen, before>>

Release(t) ==
    /\ pc[t] = "release"
    /\ writer' = NoThread
    /\ pc' = [pc EXCEPT ![t] = "run"]
    /\ UNCHANGED <<data, disk, temp, batchOwner, batchDepth, nest, outcome, seen, before>>

\* The process dies at any point and starts again: _load reads the file.
Restart ==
    /\ data' = disk
    /\ temp' = [t \in Thread |-> NoFile]
    /\ writer' = NoThread
    /\ batchOwner' = NoThread
    /\ batchDepth' = 0
    /\ pc' = [t \in Thread |-> "run"]
    /\ nest' = [t \in Thread |-> 0]
    /\ outcome' = [t \in Thread |-> "none"]
    /\ before' = disk
    /\ UNCHANGED <<disk, seen>>

-------------------------------------------------------------------------------
Step(t) ==
    \/ \E k \in Key, v \in Value : SetItem(t, k, v)
    \/ \E k \in Key : DelItem(t, k)
    \/ Clear(t)
    \/ Read(t)
    \/ Reload(t)
    \/ BatchEnter(t)
    \/ BatchExit(t)
    \/ WriteTemp(t)
    \/ Replace(t)
    \/ SaveFails(t)
    \/ Release(t)

Next == Restart \/ \E t \in Thread : Step(t)

Spec == Init /\ [][Next]_vars

\* A thread that holds the lock finishes what it is doing: the body of every
\* batch_write block in the program is a finite loop, and a save ends.
Saving(t) == WriteTemp(t) \/ Replace(t) \/ SaveFails(t) \/ Release(t)
LeaveBlock(t, d) == nest[t] = d /\ BatchExit(t)
FairSpec ==
    /\ Spec
    /\ \A t \in Thread : WF_vars(Saving(t))
    /\ \A t \in Thread, d \in 1..MaxNest : SF_vars(LeaveBlock(t, d))

-------------------------------------------------------------------------------
(* Properties                                                              *)

\* Type invariant: the file and every copy are whole maps, never part of one.
TypeOK ==
    /\ data \in Map
    /\ disk \in Map
    /\ temp \in [Thread -> Map \cup {NoFile}]
    /\ writer \in Thread \cup {NoThread}
    /\ batchOwner \in Thread \cup {NoThread}
    /\ batchDepth \in Nat
    /\ pc \in [Thread -> {"run", "save", "replace", "release"}]
    /\ nest \in [Thread -> Nat]
    /\ outcome \in [Thread -> {"none", "pending", "ok", "error"}]
    /\ seen \in [Thread -> Map]
    /\ before \in Map

\* A thread inside a batch owns it, at the depth it is nested to, and holds
\* the write lock; the batch fields are clear whenever no one is inside.
BatchIsOwned ==
    /\ \A t \in Thread : nest[t] > 0 => batchOwner = t /\ batchDepth = nest[t] /\ pc[t] = "run"
    /\ batchOwner = NoThread => batchDepth = 0
    /\ batchOwner # NoThread => nest[batchOwner] > 0

\* A thread that holds the write lock is in its batch or in a save, and no
\* other thread is in either.
WriterIsBusy ==
    \A t \in Thread : writer = t <=> (pc[t] # "run" \/ nest[t] > 0)

\* A save that ended well has put on disk what is in memory.
SavedIsDurable ==
    \A t \in Thread :
        /\ pc[t] = "replace" => temp[t] = data
        /\ pc[t] = "release" /\ outcome[t] = "ok" => disk = data

\* The two unguarded batch fields, the lock and the save agree in every state:
\* what batch_write relies on when it reads _batch_owner without the lock.
Consistent == BatchIsOwned /\ WriterIsBusy /\ SavedIsDurable

\* The inductive invariant: types need the agreement (the shared depth never
\* goes below zero because a thread that leaves a block is inside one).
DictInv == TypeOK /\ Consistent

\* A transaction is open from the lock until its save has ended.
InTransaction == \E t \in Thread : writer = t /\ pc[t] # "release"
Promise == INSTANCE DurableMap WITH
    visible <- IF InTransaction THEN before ELSE data,
    durable <- disk,
    owner <- IF InTransaction THEN writer ELSE NoThread,
    work <- data

\* Every run of the dictionary is a run of the map it promises: transactions
\* are isolated, readers see finished ones, and the file is always one of them.
KeepsPromise == Promise!Spec

\* Whoever takes the write lock gives it back, also when the save fails or the
\* body of a batch raises: the try/finally around both.
LockReleased == \A t \in Thread : writer = t ~> writer # t
===============================================================================
