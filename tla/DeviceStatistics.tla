--------------------------- MODULE DeviceStatistics ---------------------------
(***************************************************************************)
(* The statistics of InternalService: when the first device of the day came *)
(* and when the last one left, in fields that a process keeps in memory and  *)
(* in a file each.  The poll runs under the service's write lock; a request  *)
(* for the details reads between polls.  Files and storages exist: the race  *)
(* for the first write of a field is the one of ApiKeyStore.  Which wardens  *)
(* are on site is in WardenStore.                                            *)
(***************************************************************************)
EXTENDS Integers

CONSTANTS
    Count,    \* device counts the router may report
    MaxTime,  \* bound: how far the clock runs
    Date,     \* the virtual date (5 AM to 5 AM) of each reading of the clock
    NoTime

Time == 0..MaxTime

ASSUME StatisticsAssumption ==
    /\ Count \subseteq Nat
    /\ MaxTime \in Nat
    /\ Date \in [Time -> Nat]
    /\ \A t, u \in Time : t <= u => Date[t] <= Date[u]
    /\ NoTime \notin Time

VARIABLES
    first,        \* first_device_on_site, in memory (mem) and on disk (file)
    last,         \* last_device_on_site, likewise
    active,       \* active_devices_ct; always read from its file
    lastUpdated,  \* self._last_updated
    error,        \* self._last_error is set
    poll,         \* the poll: its step, the old and the new count, its time
    clock,
    seen,         \* history: the earliest finished poll of the day of the last
                  \* finished one that saw a device
    left,         \* history: the latest one that saw the last device gone
    missed        \* history: why the last reset did not happen, or "no"

service == <<first, last, active, lastUpdated, error>>
history == <<seen, left, missed>>
vars == <<service, poll, clock, history>>

AtRest == [step |-> "rest", old |-> 0, new |-> 0, now |-> NoTime]

-------------------------------------------------------------------------------
(* PersistentObject                                                        *)

Holds(v) == [mem |-> v, file |-> v]

\* get reloads the field from its file.
Reloaded(f) == Holds(f.file)

\* clear does nothing when the field is not in memory, whatever the file says.
Cleared(f) == IF f.mem = NoTime THEN f ELSE Holds(NoTime)

\* A save that fails leaves the new value in memory only.
Ahead(f, v) == [f EXCEPT !.mem = v]

Init ==
    /\ first = Holds(NoTime)
    /\ last = Holds(NoTime)
    /\ active = 0
    /\ lastUpdated = NoTime
    /\ error = FALSE
    /\ poll = AtRest
    /\ clock = 0
    /\ seen = NoTime
    /\ left = NoTime
    /\ missed = "no"

-------------------------------------------------------------------------------
(* _run_internal_query and _update_device_statistics                       *)

Goto(step) == poll' = [poll EXCEPT !.step = step]

Before(t, u) == t # NoTime /\ Date[t] < Date[u]

\* Mutant: a process that has not polled yet has crossed into a new day.
CrossedAtStart(prev, now) == prev = NoTime \/ Before(prev, now)

\* crossed_virtual_day
Crossed(prev, now) == Before(prev, now)

\* The router answered with n devices that are not to be ignored.
Fetch(n) ==
    /\ poll = AtRest
    /\ poll' = [AtRest EXCEPT !.step = "begin", !.new = n]
    /\ UNCHANGED <<service, clock, history>>

\* The old count is read, and the clock for the first time.
Begin ==
    /\ poll.step = "begin"
    /\ LET crossed == Crossed(lastUpdated, clock) IN
       /\ poll' = [poll EXCEPT !.step = IF crossed THEN "reset first" ELSE "first",
                               !.old = active, !.now = clock]
       /\ missed' = IF crossed THEN "no"
                    ELSE IF lastUpdated = NoTime /\ (Before(first.file, clock) \/ Before(last.file, clock))
                    THEN "restart"
                    ELSE missed
    /\ UNCHANGED <<service, clock, seen, left>>

\* Clearing f: a value in the file of a field that is not in memory stays.
Missing(f) == IF f.mem = NoTime /\ f.file # NoTime THEN "failed save" ELSE missed

ResetFirst ==
    /\ poll.step = "reset first"
    /\ first' = Cleared(first)
    /\ missed' = Missing(first)
    /\ Goto("reset last")
    /\ UNCHANGED <<last, active, lastUpdated, error, clock, seen, left>>

\* Mutant: only the first device is reset.
ResetFirstOnly ==
    /\ poll.step = "reset last"
    /\ Goto("first")
    /\ UNCHANGED <<service, clock, history>>

ResetLast ==
    /\ poll.step = "reset last"
    /\ last' = Cleared(last)
    /\ missed' = Missing(last)
    /\ Goto("first")
    /\ UNCHANGED <<first, active, lastUpdated, error, clock, seen, left>>

\* Mutant: each arrival counts as the first.
SetFirstAgain ==
    /\ poll.step = "first"
    /\ first' = IF poll.old = 0 /\ poll.new > 0 THEN Holds(poll.now) ELSE Reloaded(first)
    /\ Goto("last")
    /\ UNCHANGED <<last, active, lastUpdated, error, clock, history>>

\* The first activity after the reset.
SetFirst ==
    /\ poll.step = "first"
    /\ first' = IF first.file = NoTime /\ poll.new > 0 THEN Holds(poll.now) ELSE Reloaded(first)
    /\ Goto("last")
    /\ UNCHANGED <<last, active, lastUpdated, error, clock, history>>

Departure == poll.old > 0 /\ poll.new = 0

\* Mutant: a second departure of the day does not count.
SetLastOnce ==
    /\ poll.step = "last"
    /\ last' = IF Departure /\ last.file = NoTime THEN Holds(poll.now) ELSE last
    /\ Goto("count")
    /\ UNCHANGED <<first, active, lastUpdated, error, clock, history>>

\* Everyone left.
SetLast ==
    /\ poll.step = "last"
    /\ last' = IF Departure THEN Holds(poll.now) ELSE last
    /\ Goto("count")
    /\ UNCHANGED <<first, active, lastUpdated, error, clock, history>>

SetCount ==
    /\ poll.step = "count"
    /\ active' = poll.new
    /\ Goto("stamp")
    /\ UNCHANGED <<first, last, lastUpdated, error, clock, history>>

OfThisPoll(t) == t # NoTime /\ Date[t] = Date[poll.now]

\* The clock is read again; the poll has succeeded.
Stamp ==
    /\ poll.step = "stamp"
    /\ lastUpdated' = clock
    /\ error' = FALSE
    /\ poll' = AtRest
    /\ seen' = IF OfThisPoll(seen) THEN seen ELSE IF poll.new > 0 THEN poll.now ELSE NoTime
    /\ left' = IF Departure THEN poll.now ELSE IF OfThisPoll(left) THEN left ELSE NoTime
    /\ missed' = IF Date[poll.now] < Date[clock] THEN "two clocks" ELSE missed
    /\ UNCHANGED <<first, last, active, clock>>

\* A save fails, with its value in memory.
SaveFails ==
    /\ \/ /\ poll.step = "reset first" /\ first.mem # NoTime
          /\ first' = Ahead(first, NoTime) /\ UNCHANGED last
       \/ /\ poll.step = "reset last" /\ last.mem # NoTime
          /\ last' = Ahead(last, NoTime) /\ UNCHANGED first
       \/ /\ poll.step = "first" /\ first.file = NoTime /\ poll.new > 0
          /\ first' = Ahead(first, poll.now) /\ UNCHANGED last
       \/ /\ poll.step = "last" /\ Departure
          /\ last' = Ahead(last, poll.now) /\ UNCHANGED first
    /\ error' = TRUE
    /\ poll' = AtRest
    /\ UNCHANGED <<active, lastUpdated, clock, history>>

\* The router, the matching of wardens, the save of the wardens or of the
\* count, or the reading of a file raises; or, when all is done, the logout.
Raises ==
    /\ poll.step \in {"rest", "begin", "first", "count"}
    /\ error' = TRUE
    /\ poll' = AtRest
    /\ UNCHANGED <<first, last, active, lastUpdated, clock, history>>

-------------------------------------------------------------------------------
\* The poll holds the service's write lock.
InLock == poll.step \notin {"rest", "begin"}

\* A request reads one of the two fields, which reloads it.
ReadDetails ==
    /\ ~InLock
    /\ \/ first' = Reloaded(first) /\ UNCHANGED last
       \/ last' = Reloaded(last) /\ UNCHANGED first
    /\ UNCHANGED <<active, lastUpdated, error, poll, clock, history>>

Tick ==
    /\ clock < MaxTime
    /\ clock' = clock + 1
    /\ UNCHANGED <<service, poll, history>>

\* The process starts again with what the files hold.
Restart ==
    /\ first' = Reloaded(first)
    /\ last' = Reloaded(last)
    /\ lastUpdated' = NoTime
    /\ error' = FALSE
    /\ poll' = AtRest
    /\ UNCHANGED <<active, clock, history>>

Poll ==
    \/ \E n \in Count : Fetch(n)
    \/ Begin
    \/ ResetFirst
    \/ ResetLast
    \/ SetFirst
    \/ SetLast
    \/ SetCount
    \/ Stamp
    \/ SaveFails
    \/ Raises

Next == Poll \/ ReadDetails \/ Tick \/ Restart

Spec == Init /\ [][Next]_vars

-------------------------------------------------------------------------------
(* Properties                                                              *)

MaybeTime == Time \cup {NoTime}
Field == [mem : MaybeTime, file : MaybeTime]
Steps == {"rest", "begin", "reset first", "reset last", "first", "last", "count", "stamp"}
Reasons == {"no", "restart", "failed save", "two clocks"}

\* Type invariant.
TypeOK ==
    /\ first \in Field
    /\ last \in Field
    /\ active \in Count \cup {0}
    /\ lastUpdated \in MaybeTime
    /\ error \in BOOLEAN
    /\ poll \in [step : Steps, old : Count \cup {0}, new : Count \cup {0}, now : MaybeTime]
    /\ clock \in Time
    /\ seen \in MaybeTime
    /\ left \in MaybeTime
    /\ missed \in Reasons

\* The last poll of this process succeeded.
UpToDate == poll.step = "rest" /\ lastUpdated # NoTime /\ ~error

IsOf(f, t) == f # NoTime => Date[f] = Date[t]
FilesAreOf(t) == IsOf(first.file, t) /\ IsOf(last.file, t)

\* After a poll that succeeded the two fields are of its day, unless a reset was
\* missed, which has three causes: the process restarted across 5 AM; 5 AM came
\* between the two clock readings of a poll; a save that failed left a field
\* cleared in memory only, and clearing it again did nothing.  No other order of
\* polls, failures and reads leaves a time of another day behind.
ResetUnlessMissed == UpToDate /\ missed = "no" => FilesAreOf(lastUpdated)

\* The first device of the day is there once a poll has seen one, and no later
\* than that poll, although polls that failed half way may have written it or
\* reset it again.
FirstIsEarliest ==
    UpToDate /\ missed = "no" /\ seen # NoTime => first.file # NoTime /\ first.file <= seen

\* The last device left no earlier than the last departure a poll found.
LastIsLatest ==
    UpToDate /\ missed = "no" /\ left # NoTime => last.file # NoTime /\ last.file >= left

-------------------------------------------------------------------------------
(* The inductive invariant                                                 *)

NotAfter(t, u) == t # NoTime => t <= u

AllBy(u) ==
    /\ NotAfter(first.file, u) /\ NotAfter(last.file, u)
    /\ NotAfter(lastUpdated, u) /\ NotAfter(seen, u) /\ NotAfter(left, u)

\* Nothing is of the future, nor, while a poll works, of after its time.
Past ==
    /\ AllBy(clock)
    /\ InLock => poll.now # NoTime /\ poll.now <= clock /\ AllBy(poll.now)

\* A poll resets only what an earlier day left.
ResetIsDue == poll.step \in {"reset first", "reset last"} => Crossed(lastUpdated, poll.now)

\* What finished polls found is not of a later day than the last of them.
HistoryIsOld ==
    lastUpdated # NoTime =>
        /\ seen # NoTime => Date[seen] <= Date[lastUpdated]
        /\ left # NoTime => Date[left] <= Date[lastUpdated]

\* The files are of the day of the poll once it has passed the reset, and of the
\* day of the last one while a poll of that day could come.
DatesAgree ==
    missed = "no" =>
        /\ poll.step = "reset last" => first.file = NoTime
        /\ poll.step \in {"first", "last", "count", "stamp"} => FilesAreOf(poll.now)
        /\ ~InLock /\ lastUpdated # NoTime /\ (~error \/ Date[lastUpdated] = Date[clock])
               => FilesAreOf(lastUpdated)

\* A time that finished polls found is of a day that is not over for the service.
Counts(t) ==
    /\ t # NoTime
    /\ \/ Date[t] = Date[clock]
       \/ InLock /\ Date[t] = Date[poll.now]
       \/ ~InLock /\ ~error /\ lastUpdated # NoTime

HistoryAgrees ==
    missed = "no" =>
        /\ Counts(seen) => first.file # NoTime /\ first.file <= seen
        /\ Counts(left) => last.file # NoTime /\ last.file >= left

\* What this poll found is written before it ends.
FoundIsWritten ==
    /\ poll.step \in {"last", "count", "stamp"} /\ poll.new > 0 => first.file # NoTime
    /\ poll.step \in {"count", "stamp"} /\ Departure => last.file = poll.now

\* No sequence of polls, failures, reads, restarts and readings of the clock
\* makes the two fields disagree with what the polls found.
StatisticsInv ==
    /\ TypeOK
    /\ Past
    /\ ResetIsDue
    /\ HistoryIsOld
    /\ DatesAgree
    /\ HistoryAgrees
    /\ FoundIsWritten
===============================================================================
