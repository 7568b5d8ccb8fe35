------------------------------ MODULE DurableMap ------------------------------
(***************************************************************************)
(* What PersistentDict promises its callers: a map that threads update in   *)
(* exclusive transactions and read as of the last finished one, and a copy  *)
(* of it on disk that is always some whole finished transaction.  A         *)
(* transaction that reported success is on disk; one that reported an error *)
(* is visible in memory and lost by a restart unless a later one saves it.  *)
(***************************************************************************)
CONSTANTS Thread, Key, Value, NoThread, Absent

VARIABLES
    visible,   \* the map as every thread outside a transaction reads it
    durable,   \* the map a restart would find
    owner,     \* the thread whose transaction is open, or NoThread
    work,      \* the working copy of the open transaction
    outcome,   \* what each thread's last transaction reported
    seen       \* what each thread last read

dvars == <<visible, durable, owner, work, outcome, seen>>

Map == [Key -> Value \cup {Absent}]
EmptyMap == [k \in Key |-> Absent]

\* One assignment, one removal, or a clear.
Edits(m) == {[m EXCEPT ![k] = v] : k \in Key, v \in Value \cup {Absent}} \cup {EmptyMap}

Init ==
    /\ visible \in Map
    /\ durable = visible
    /\ owner = NoThread
    /\ work = visible
    /\ outcome = [t \in Thread |-> "none"]
    /\ seen = [t \in Thread |-> visible]

\* A transaction opens on what is visible; a one-operation transaction makes
\* its edit in the same step.
Begin(t) ==
    /\ owner = NoThread
    /\ owner' = t
    /\ work' \in {visible} \cup Edits(visible)
    /\ outcome' = [outcome EXCEPT ![t] = "pending"]
    /\ UNCHANGED <<visible, durable, seen>>

Edit(t) ==
    /\ owner = t
    /\ work' \in Edits(work)
    /\ UNCHANGED <<visible, durable, owner, outcome, seen>>

Commit(t) ==
    /\ owner = t
    /\ visible' = work
    /\ durable' = work
    /\ owner' = NoThread
    /\ outcome' = [outcome EXCEPT ![t] = "ok"]
    /\ UNCHANGED <<work, seen>>

\* The save failed: visible to readers, not on disk, and the caller is told.
CommitInMemory(t) ==
    /\ owner = t
    /\ visible' = work
    /\ owner' = NoThread
    /\ outcome' = [outcome EXCEPT ![t] = "error"]
    /\ UNCHANGED <<durable, work, seen>>

Read(t) ==
    /\ seen' = [seen EXCEPT ![t] = visible]
    /\ UNCHANGED <<visible, durable, owner, work, outcome>>

\* PersistentObject re-reads the file before each get.
Reload ==
    /\ owner = NoThread
    /\ visible' = durable
    /\ work' = durable
    /\ UNCHANGED <<durable, owner, outcome, seen>>

Restart ==
    /\ visible' = durable
    /\ work' = durable
    /\ owner' = NoThread
    /\ outcome' = [t \in Thread |-> "none"]
    /\ UNCHANGED <<durable, seen>>

Next ==
    \/ \E t \in Thread : Begin(t) \/ Edit(t) \/ Commit(t) \/ CommitInMemory(t) \/ Read(t)
    \/ Reload
    \/ Restart

Spec == Init /\ [][Next]_dvars
===============================================================================
