------------------------- MODULE InternalServiceProofs -------------------------
(***************************************************************************)
(* InternalService: the statistics of the devices, and the store of the      *)
(* wardens with the poll that looks them up.  The names of the two modules   *)
(* are disjoint.                                                            *)
(*                                                                         *)
(* DeviceStatistics.  For any calendar, any counts and any clock: after a    *)
(* poll that succeeded the two times are of its day unless a reset was       *)
(* missed for one of three reasons, the first is not after the earliest      *)
(* sighting, and the last is not before the latest departure.  The invariant *)
(* says at each step of a poll, and after a poll that failed there, which of *)
(* these hold already.                                                      *)
(*                                                                         *)
(* WardenStore.  For any wardens, devices and threads: names are unique      *)
(* unless a PUT renamed one to a taken name, what a client was told about a  *)
(* warden stays true, and whoever is listed as on site was seen there.  What *)
(* a deletion leaves in the list is a recursive function, and the first      *)
(* warden of a name a least number: both are reasoned about with a least     *)
(* counterexample.                                                          *)
(***************************************************************************)
EXTENDS DeviceStatistics, WardenStore, FiniteSetTheorems, TLAPS

-------------------------------------------------------------------------------
(* DeviceStatistics                                                           *)


\* The calendar does not run backwards.
LEMMA DateOrder ==
    /\ NoTime \notin Time
    /\ \A t \in Time : t \in Nat /\ Date[t] \in Nat
    /\ \A t, u \in Time : t <= u => Date[t] <= Date[u]
  <1>1. \A t \in Time : t \in Nat
    BY StatisticsAssumption DEF Time
  <1> QED BY <1>1, StatisticsAssumption DEF StatisticsAssumption

LEMMA Zero == 0 \in Time
  BY StatisticsAssumption DEF StatisticsAssumption, Time

LEMMA InitInv == Init => StatisticsInv
  <1> SUFFICES ASSUME Init PROVE StatisticsInv
    OBVIOUS
  <1>1. TypeOK
    BY Zero DEF Init, Holds, AtRest, TypeOK, MaybeTime, Field, Steps, Reasons
  <1>2. poll.step = "rest" /\ first.file = NoTime /\ last.file = NoTime
    BY DEF Init, Holds, AtRest
  <1> QED BY <1>1, <1>2 DEF Init, StatisticsInv, Past, AllBy, ResetIsDue, HistoryIsOld, DatesAgree,
         HistoryAgrees, FoundIsWritten, InLock, Counts, NotAfter, FilesAreOf, IsOf

-------------------------------------------------------------------------------
(* What each step does to the files, the times and the step of the poll      *)

PollKept == poll'.old = poll.old /\ poll'.new = poll.new /\ poll'.now = poll.now
FilesKept == first'.file = first.file /\ last'.file = last.file
HistoryKept == UNCHANGED history

\* Nothing happens that a finished poll would notice.
Idled ==
    /\ ~InLock /\ poll'.step \in {"rest", "begin"}
    /\ FilesKept /\ HistoryKept /\ UNCHANGED <<lastUpdated, error, clock>>

Failed ==
    /\ poll'.step = "rest" /\ error' = TRUE
    /\ FilesKept /\ HistoryKept /\ UNCHANGED <<lastUpdated, clock>>

Restarted ==
    /\ poll'.step = "rest" /\ lastUpdated' = NoTime
    /\ FilesKept /\ HistoryKept /\ UNCHANGED clock

Began ==
    /\ poll.step = "begin" /\ poll'.now = clock
    /\ FilesKept /\ UNCHANGED <<lastUpdated, error, clock, seen, left>>
    /\ \/ Crossed(lastUpdated, clock) /\ poll'.step = "reset first"
       \/ /\ ~Crossed(lastUpdated, clock) /\ poll'.step = "first"
          /\ missed' = "no" =>
                /\ missed = "no"
                /\ lastUpdated = NoTime => ~Before(first.file, clock) /\ ~Before(last.file, clock)

DidReset ==
    /\ poll'.now = poll.now /\ UNCHANGED <<lastUpdated, error, clock, seen, left>>
    /\ missed' = "no" => missed = "no"
    /\ \/ /\ poll.step = "reset first" /\ poll'.step = "reset last" /\ last' = last
          /\ first'.file \in {NoTime, first.file} /\ (missed' = "no" => first'.file = NoTime)
       \/ /\ poll.step = "reset last" /\ poll'.step = "first" /\ first' = first
          /\ last'.file \in {NoTime, last.file} /\ (missed' = "no" => last'.file = NoTime)

DidSet ==
    /\ PollKept /\ HistoryKept /\ UNCHANGED <<lastUpdated, error, clock>>
    /\ \/ /\ poll.step = "first" /\ poll'.step = "last" /\ last' = last
          /\ \/ first'.file = first.file /\ (first.file # NoTime \/ ~(poll.new > 0))
             \/ first'.file = poll.now /\ first.file = NoTime
       \/ /\ poll.step = "last" /\ poll'.step = "count" /\ first' = first
          /\ last'.file = IF Departure THEN poll.now ELSE last.file
       \/ poll.step = "count" /\ poll'.step = "stamp" /\ FilesKept

LEMMA NextTime == ASSUME clock \in Time, Tick PROVE clock' \in Time
  <1>1. clock \in Nat /\ MaxTime \in Nat /\ clock < MaxTime /\ clock' = clock + 1
    BY StatisticsAssumption DEF StatisticsAssumption, Time, Tick
  <1> QED BY <1>1 DEF Time

LEMMA ReloadedField == ASSUME NEW f \in Field PROVE Reloaded(f) \in Field /\ Reloaded(f).file = f.file
  BY DEF Field, Reloaded, Holds

LEMMA TypeKept ==
    ASSUME TypeOK, first' \in Field, last' \in Field, clock' \in Time,
           UNCHANGED <<active, lastUpdated, error, poll, seen, left, missed>>
    PROVE  TypeOK'
  BY DEF TypeOK

LEMMA Effects == TypeOK /\ [Next]_vars =>
    TypeOK' /\ (Idled \/ Failed \/ Restarted \/ Began \/ DidReset \/ DidSet \/ Stamp \/ Tick \/ UNCHANGED vars)
  <1> SUFFICES ASSUME TypeOK, [Next]_vars
               PROVE TypeOK' /\ (Idled \/ Failed \/ Restarted \/ Began \/ DidReset \/ DidSet \/ Stamp \/ Tick \/ UNCHANGED vars)
    OBVIOUS
  <1> USE DEF TypeOK, Field, MaybeTime, Steps, Reasons, service, history, Goto, AtRest
  <1>1. ASSUME NEW n \in Count, Fetch(n) PROVE TypeOK' /\ Idled
    BY <1>1 DEF Fetch, Idled, InLock, FilesKept, HistoryKept
  <1>2. CASE Begin
    <2>1. TypeOK'
      BY <1>2 DEF Begin
    <2>2. Began
      BY <1>2 DEF Begin, Began, FilesKept
    <2> QED BY <2>1, <2>2
  <1>3. CASE ResetFirst
    BY <1>3 DEF ResetFirst, Cleared, Holds, Missing, DidReset
  <1>4. CASE ResetLast
    BY <1>4 DEF ResetLast, Cleared, Holds, Missing, DidReset
  <1>5. CASE SetFirst
    BY <1>5 DEF SetFirst, Holds, Reloaded, DidSet, PollKept, HistoryKept
  <1>6. CASE SetLast
    BY <1>6 DEF SetLast, Holds, DidSet, PollKept, HistoryKept
  <1>7. CASE SetCount
    BY <1>7 DEF SetCount, DidSet, PollKept, HistoryKept, FilesKept
  <1>8. CASE Stamp
    BY <1>8 DEF Stamp
  <1>9. CASE SaveFails
    BY <1>9 DEF SaveFails, Ahead, Failed, FilesKept, HistoryKept
  <1>10. CASE Raises
    BY <1>10 DEF Raises, Failed, FilesKept, HistoryKept
  <1>11. CASE ReadDetails
    <2>1. first' \in Field /\ last' \in Field /\ FilesKept
      <3>1. first' \in {first, Reloaded(first)} /\ last' \in {last, Reloaded(last)}
        BY <1>11 DEF ReadDetails
      <3>2. first \in Field /\ last \in Field
        OBVIOUS
      <3> QED BY <3>1, <3>2, ReloadedField DEF FilesKept
    <2>2. UNCHANGED <<active, lastUpdated, error, poll, clock, seen, left, missed>> /\ ~InLock
      BY <1>11 DEF ReadDetails
    <2>3. TypeOK'
      BY <2>1, <2>2, TypeKept
    <2> QED BY <2>1, <2>2, <2>3 DEF Idled, InLock, HistoryKept
  <1>12. CASE Tick
    <2>1. clock' \in Time /\ UNCHANGED <<first, last, active, lastUpdated, error, poll, seen, left, missed>>
      BY <1>12, NextTime DEF Tick
    <2>2. TypeOK'
      BY <2>1, TypeKept
    <2> QED BY <1>12, <2>2
  <1>13. CASE Restart
    BY <1>13 DEF Restart, Reloaded, Holds, Restarted, FilesKept, HistoryKept
  <1>14. CASE UNCHANGED vars
    <2>1. UNCHANGED <<first, last, active, lastUpdated, error, poll, clock, seen, left, missed>>
      BY <1>14 DEF vars
    <2>2. TypeOK'
      BY <2>1, TypeKept
    <2> QED BY <1>14, <2>2
  <1> QED BY <1>1, <1>2, <1>3, <1>4, <1>5, <1>6, <1>7, <1>8, <1>9, <1>10, <1>11, <1>12, <1>13, <1>14 DEF Next, Poll

-------------------------------------------------------------------------------
(* One lemma for each part of the invariant                                *)

IsTime(t) == t # NoTime => t \in Time /\ t \in Nat /\ Date[t] \in Nat

\* The times in a state, without the records around them.
LEMMA Times == TypeOK =>
    /\ clock # NoTime /\ IsTime(clock) /\ IsTime(first.file) /\ IsTime(last.file)
    /\ IsTime(lastUpdated) /\ IsTime(seen) /\ IsTime(left) /\ IsTime(poll.now)
    /\ poll.step \in Steps
  BY DateOrder DEF TypeOK, Field, MaybeTime, IsTime

LEMMA TimesNext == TypeOK /\ [Next]_vars =>
    /\ clock' # NoTime /\ IsTime(clock') /\ IsTime(first'.file) /\ IsTime(last'.file)
    /\ IsTime(lastUpdated') /\ IsTime(seen') /\ IsTime(left') /\ IsTime(poll'.now)
  BY Effects, DateOrder DEF TypeOK, Field, MaybeTime, IsTime

\* A finished poll, in the same terms.
Stamped ==
    /\ poll.step = "stamp" /\ poll'.step = "rest"
    /\ lastUpdated' = clock /\ error' = FALSE /\ FilesKept /\ UNCHANGED clock
    /\ seen' = IF OfThisPoll(seen) THEN seen ELSE IF poll.new > 0 THEN poll.now ELSE NoTime
    /\ left' = IF Departure THEN poll.now ELSE IF OfThisPoll(left) THEN left ELSE NoTime
    /\ missed' = "no" => missed = "no" /\ ~(Date[poll.now] < Date[clock])

LEMMA StampEffect == TypeOK /\ Stamp => Stamped
  <1> SUFFICES ASSUME TypeOK, Stamp PROVE Stamped
    OBVIOUS
  <1>1. poll'.step = "rest" /\ FilesKept
    BY DEF Stamp, AtRest, FilesKept
  <1>2. missed' = "no" => missed = "no" /\ ~(Date[poll.now] < Date[clock])
    BY DEF Stamp
  <1> QED BY <1>1, <1>2 DEF Stamp, Stamped

LEMMA PastStep == StatisticsInv /\ [Next]_vars => Past'
  <1> SUFFICES ASSUME StatisticsInv, [Next]_vars PROVE Past'
    OBVIOUS
  <1>0. TypeOK /\ Past
    BY DEF StatisticsInv
  <1> USE <1>0, Times, TimesNext, DateOrder DEF IsTime, Past, AllBy, InLock, NotAfter
  <1>1. CASE Idled \/ Failed \/ Restarted
    BY <1>1 DEF Idled, Failed, Restarted, FilesKept, HistoryKept, history
  <1>2. CASE Began
    <2>1. AllBy(clock)' /\ poll'.now = clock /\ clock' = clock
      BY <1>2 DEF Began, FilesKept
    <2>2. clock \in Nat
      OBVIOUS
    <2> QED BY <2>1, <2>2
  <1>3. CASE DidReset
    BY <1>3 DEF DidReset
  <1>4. CASE DidSet
    BY <1>4 DEF DidSet, PollKept, HistoryKept, FilesKept, history
  <1>5. CASE Stamp
    BY <1>5, StampEffect DEF Stamped, FilesKept, OfThisPoll
  <1>6. CASE Tick
    BY <1>6 DEF Tick, service, history
  <1>7. CASE UNCHANGED vars
    BY <1>7 DEF vars, service, history
  <1> QED BY <1>1, <1>2, <1>3, <1>4, <1>5, <1>6, <1>7, Effects

\* The order of times as the order of their dates.
Ordered ==
    /\ lastUpdated # NoTime => Date[lastUpdated] <= Date[clock]
    /\ seen # NoTime => Date[seen] <= Date[clock]
    /\ left # NoTime => Date[left] <= Date[clock]
    /\ first.file # NoTime => Date[first.file] <= Date[clock]
    /\ last.file # NoTime => Date[last.file] <= Date[clock]
    /\ InLock => Date[poll.now] <= Date[clock]
    /\ InLock /\ lastUpdated # NoTime => Date[lastUpdated] <= Date[poll.now]

LEMMA PastIsOrdered == TypeOK /\ Past => Ordered
  <1> SUFFICES ASSUME TypeOK, Past PROVE Ordered
    OBVIOUS
  <1>1. ASSUME NEW t, IsTime(t), NotAfter(t, clock), t # NoTime PROVE Date[t] <= Date[clock]
    BY <1>1, Times, DateOrder DEF IsTime, NotAfter
  <1>2. ASSUME NEW t, IsTime(t), InLock, NotAfter(t, poll.now), t # NoTime PROVE Date[t] <= Date[poll.now]
    BY <1>2, Times, DateOrder DEF IsTime, NotAfter, Past
  <1> QED BY <1>1, <1>2, Times DEF Past, AllBy, NotAfter, Ordered

\* The next date when the clock advances.
LEMMA TickOrder ==
    ASSUME TypeOK, Past, Tick
    PROVE  /\ Date[clock] \in Nat /\ Date[clock'] \in Nat /\ Date[clock] <= Date[clock']
           /\ UNCHANGED <<first, last, lastUpdated, error, poll, seen, left, missed>>
  <1>1. clock \in Time /\ clock' \in Time /\ clock' = clock + 1
    BY NextTime DEF TypeOK, Tick
  <1>2. clock \in Nat /\ clock <= clock'
    BY <1>1, DateOrder
  <1> QED BY <1>1, <1>2, DateOrder DEF Tick, service, history

\* What the order of the dates says of the day of the last finished poll.
LEMMA Days ==
    ASSUME TypeOK, Past
    PROVE  /\ lastUpdated # NoTime /\ ~Crossed(lastUpdated, clock) => Date[lastUpdated] = Date[clock]
           /\ Crossed(lastUpdated, clock) => lastUpdated # NoTime /\ Date[lastUpdated] # Date[clock]
           /\ InLock /\ Crossed(lastUpdated, poll.now) =>
                  lastUpdated # NoTime /\ Date[lastUpdated] # Date[clock] /\ Date[lastUpdated] # Date[poll.now]
           /\ InLock /\ lastUpdated # NoTime /\ Date[lastUpdated] = Date[clock] =>
                  Date[lastUpdated] = Date[poll.now]
           /\ InLock /\ ~(Date[poll.now] < Date[clock]) => Date[poll.now] = Date[clock]
  <1> DEFINE D == Date[lastUpdated]
             C == Date[clock]
             P == Date[poll.now]
  <1>1. Ordered
    BY PastIsOrdered
  <1>2. C \in Nat /\ (lastUpdated # NoTime => D \in Nat) /\ (InLock => P \in Nat)
    BY Times DEF IsTime, Past
  <1>3. (lastUpdated # NoTime => D <= C) /\ (InLock => P <= C) /\ (InLock /\ lastUpdated # NoTime => D <= P)
    BY <1>1 DEF Ordered
  <1> HIDE DEF D, C, P
  <1>4. /\ lastUpdated # NoTime /\ ~(D < C) => D = C
        /\ lastUpdated # NoTime /\ D < C => D # C
        /\ InLock /\ lastUpdated # NoTime /\ D < P => D # C /\ D # P
        /\ InLock /\ lastUpdated # NoTime /\ D = C => D = P
        /\ InLock /\ ~(P < C) => P = C
    BY <1>2, <1>3
  <1> QED BY <1>4 DEF D, C, P, Crossed, Before

LEMMA FilesToday ==
    ASSUME TypeOK, Past, NEW f \in {first.file, last.file}, f # NoTime, ~Before(f, clock)
    PROVE  Date[f] = Date[clock]
  <1> DEFINE F == Date[f]
             C == Date[clock]
  <1>1. F \in Nat /\ C \in Nat /\ F <= C
    BY Times, PastIsOrdered DEF IsTime, Ordered
  <1>2. ~(F < C)
    BY DEF Before
  <1> HIDE DEF F, C
  <1>3. F = C
    BY <1>1, <1>2
  <1> QED BY <1>3 DEF F, C

\* And of the days of the finished polls before it.
LEMMA OldDays ==
    ASSUME TypeOK, Past, HistoryIsOld, NEW t \in {seen, left}, t # NoTime
    PROVE  /\ Crossed(lastUpdated, clock) => Date[t] # Date[clock]
           /\ InLock /\ Crossed(lastUpdated, poll.now) => Date[t] # Date[clock] /\ Date[t] # Date[poll.now]
           /\ InLock /\ Date[t] = Date[clock] => Date[t] = Date[poll.now]
  <1> DEFINE D == Date[lastUpdated]
             C == Date[clock]
             P == Date[poll.now]
             T == Date[t]
  <1>1. Ordered
    BY PastIsOrdered
  <1>2. T \in Nat /\ C \in Nat /\ (lastUpdated # NoTime => D \in Nat) /\ (InLock => P \in Nat)
    BY Times DEF IsTime, Past
  <1>3. InLock => P <= C
    BY <1>1 DEF Ordered
  <1>4. lastUpdated # NoTime => T <= D
    BY DEF HistoryIsOld
  <1>5. InLock => T <= P
    <2>1. InLock => NotAfter(t, poll.now) /\ poll.now # NoTime
      BY DEF Past, AllBy
    <2> QED BY <2>1, Times, DateOrder DEF IsTime, NotAfter
  <1> HIDE DEF D, C, P, T
  <1>6. /\ lastUpdated # NoTime /\ D < C => T # C
        /\ InLock /\ lastUpdated # NoTime /\ D < P => T # C /\ T # P
        /\ InLock /\ T = C => T = P
    BY <1>2, <1>3, <1>4, <1>5
  <1> QED BY <1>6 DEF D, C, P, T, Crossed, Before

\* A date that is the next reading's is this one's.
LEMMA TickDays ==
    ASSUME TypeOK, Past, Tick, NEW t \in {lastUpdated, seen, left}, t # NoTime, Date[t] = Date[clock']
    PROVE  Date[t] = Date[clock]
  <1> DEFINE T == Date[t]
             C == Date[clock]
             N == Date[clock']
  <1>1. T \in Nat /\ C \in Nat /\ N \in Nat /\ C <= N
    BY TickOrder, Times DEF IsTime
  <1>2. T <= C
    BY PastIsOrdered DEF Ordered
  <1>3. T = N
    OBVIOUS
  <1> HIDE DEF T, C, N
  <1>4. T = C
    BY <1>1, <1>2, <1>3
  <1> QED BY <1>4 DEF T, C

LEMMA ResetIsDueStep == StatisticsInv /\ [Next]_vars => ResetIsDue'
  <1> SUFFICES ASSUME StatisticsInv, [Next]_vars PROVE ResetIsDue'
    OBVIOUS
  <1> USE DEF StatisticsInv, ResetIsDue, Crossed, Before
  <1>1. CASE Idled \/ Failed \/ Restarted
    BY <1>1 DEF Idled, Failed, Restarted, InLock
  <1>2. CASE Began \/ DidReset \/ DidSet
    BY <1>2 DEF Began, DidReset, DidSet, PollKept
  <1>3. CASE Stamp
    BY <1>3, StampEffect DEF Stamped
  <1>4. CASE Tick \/ UNCHANGED vars
    BY <1>4 DEF Tick, vars, service
  <1> QED BY <1>1, <1>2, <1>3, <1>4, Effects

LEMMA HistoryIsOldStep == StatisticsInv /\ [Next]_vars => HistoryIsOld'
  <1> SUFFICES ASSUME StatisticsInv, [Next]_vars PROVE HistoryIsOld'
    OBVIOUS
  <1>0. TypeOK /\ Past /\ HistoryIsOld
    BY DEF StatisticsInv
  <1>1. CASE Idled \/ Failed \/ Restarted
    BY <1>0, <1>1 DEF HistoryIsOld, Idled, Failed, Restarted, HistoryKept, history
  <1>2. CASE Began \/ DidReset \/ DidSet
    BY <1>0, <1>2 DEF HistoryIsOld, Began, DidReset, DidSet, HistoryKept, history
  <1>3. CASE Stamp
    <2>1. Stamped /\ Ordered /\ InLock
      BY <1>0, <1>3, StampEffect, PastIsOrdered DEF Stamp, InLock
    <2>2. seen' \in {seen, poll.now, NoTime} /\ left' \in {left, poll.now, NoTime} /\ lastUpdated' = clock
      BY <2>1 DEF Stamped
    <2> QED BY <2>1, <2>2 DEF HistoryIsOld, Ordered
  <1>4. CASE Tick \/ UNCHANGED vars
    BY <1>0, <1>4 DEF HistoryIsOld, Tick, vars, service, history
  <1> QED BY <1>0, <1>1, <1>2, <1>3, <1>4, Effects

LEMMA DatesStep == StatisticsInv /\ [Next]_vars => DatesAgree'
  <1> SUFFICES ASSUME StatisticsInv, [Next]_vars PROVE DatesAgree'
    OBVIOUS
  <1>0. TypeOK /\ Past /\ ResetIsDue /\ DatesAgree
    BY DEF StatisticsInv
  <1> USE DEF InLock, DatesAgree, FilesAreOf, IsOf
  <1>1. CASE Idled
    BY <1>0, <1>1 DEF Idled, FilesKept, HistoryKept, history
  <1>2. CASE Failed
    <2>1. ASSUME missed = "no", lastUpdated # NoTime, Date[lastUpdated] = Date[clock]
          PROVE  FilesAreOf(lastUpdated)
      <3>1. CASE ~InLock
        BY <1>0, <2>1, <3>1
      <3>2. CASE poll.step \in {"reset first", "reset last"}
        BY <1>0, <2>1, <3>2, Days DEF ResetIsDue
      <3>3. CASE poll.step \in {"first", "last", "count", "stamp"}
        <4>1. Date[lastUpdated] = Date[poll.now]
          BY <1>0, <2>1, <3>3, Days
        <4> QED BY <1>0, <2>1, <3>3, <4>1
      <3> QED BY <3>1, <3>2, <3>3, <1>0, Times DEF Steps
    <2> QED BY <1>2, <2>1 DEF Failed, FilesKept, HistoryKept, history
  <1>3. CASE Restarted
    BY <1>0, <1>3 DEF Restarted, FilesKept, HistoryKept, history
  <1>4. CASE Began
    <2>1. CASE Crossed(lastUpdated, clock) /\ poll'.step = "reset first"
      BY <1>4, <2>1
    <2>2. CASE ~Crossed(lastUpdated, clock) /\ poll'.step = "first"
      <3>1. SUFFICES ASSUME missed' = "no" PROVE FilesAreOf(clock)
        BY <1>4, <2>2, <3>1 DEF Began, FilesKept
      <3>2. CASE lastUpdated = NoTime
        BY <1>0, <1>4, <2>2, <3>1, <3>2, FilesToday DEF Began
      <3>3. CASE lastUpdated # NoTime
        <4>1. Date[lastUpdated] = Date[clock]
          BY <1>0, <2>2, <3>3, Days
        <4> QED BY <1>0, <1>4, <2>2, <3>1, <3>3, <4>1 DEF Began
      <3> QED BY <3>2, <3>3
    <2> QED BY <1>4, <2>1, <2>2 DEF Began
  <1>5. CASE DidReset
    BY <1>0, <1>5 DEF DidReset
  <1>6. CASE DidSet
    BY <1>0, <1>6 DEF DidSet, PollKept, HistoryKept, FilesKept, history
  <1>7. CASE Stamp
    <2>1. Stamped
      BY <1>0, <1>7, StampEffect
    <2>2. ASSUME missed' = "no" PROVE FilesAreOf(clock)
      <3>1. missed = "no" /\ Date[poll.now] = Date[clock]
        BY <1>0, <2>1, <2>2, Days DEF Stamped
      <3> QED BY <1>0, <2>1, <3>1 DEF Stamped
    <2> QED BY <2>1, <2>2 DEF Stamped, FilesKept
  <1>8. CASE Tick
    <2>1. ASSUME lastUpdated # NoTime, Date[lastUpdated] = Date[clock'] PROVE Date[lastUpdated] = Date[clock]
      BY <1>0, <1>8, <2>1, TickDays
    <2> QED BY <1>0, <1>8, <2>1, TickOrder
  <1>9. CASE UNCHANGED vars
    BY <1>0, <1>9 DEF vars, service, history
  <1> QED BY <1>0, <1>1, <1>2, <1>3, <1>4, <1>5, <1>6, <1>7, <1>8, <1>9, Effects

LEMMA FoundStep == StatisticsInv /\ [Next]_vars => FoundIsWritten'
  <1> SUFFICES ASSUME StatisticsInv, [Next]_vars PROVE FoundIsWritten'
    OBVIOUS
  <1>0. TypeOK /\ Past /\ FoundIsWritten
    BY DEF StatisticsInv
  <1> USE DEF FoundIsWritten, Departure
  <1>1. CASE Idled \/ Failed \/ Restarted \/ Began \/ DidReset
    BY <1>1 DEF Idled, Failed, Restarted, Began, DidReset
  <1>2. CASE DidSet
    <2>1. poll.now # NoTime
      BY <1>0, <1>2 DEF DidSet, Past, InLock
    <2> QED BY <1>0, <1>2, <2>1 DEF DidSet, PollKept, FilesKept
  <1>3. CASE Stamp
    BY <1>0, <1>3, StampEffect DEF Stamped
  <1>4. CASE Tick \/ UNCHANGED vars
    BY <1>0, <1>4 DEF Tick, vars, service
  <1> QED BY <1>0, <1>1, <1>2, <1>3, <1>4, Effects

\* A time of the finished polls that the file of the first, or the last, device
\* must agree with.
SeenAgrees == Counts(seen) => first.file # NoTime /\ first.file <= seen
LeftAgrees == Counts(left) => last.file # NoTime /\ last.file >= left

LEMMA HistoryStep == StatisticsInv /\ [Next]_vars => HistoryAgrees'
  <1> SUFFICES ASSUME StatisticsInv, [Next]_vars, missed' = "no" PROVE SeenAgrees' /\ LeftAgrees'
    BY DEF HistoryAgrees, SeenAgrees, LeftAgrees
  <1>0. TypeOK /\ Past /\ ResetIsDue /\ HistoryIsOld /\ FoundIsWritten
        /\ (missed = "no" => SeenAgrees /\ LeftAgrees)
    BY DEF StatisticsInv, HistoryAgrees, SeenAgrees, LeftAgrees
  <1> USE DEF SeenAgrees, LeftAgrees, Counts, InLock
  <1>1. CASE Idled
    BY <1>0, <1>1 DEF Idled, FilesKept, HistoryKept, history
  <1>2. CASE Failed
    BY <1>0, <1>2 DEF Failed, FilesKept, HistoryKept, history
  <1>3. CASE Restarted
    BY <1>0, <1>3 DEF Restarted, FilesKept, HistoryKept, history
  <1>4. CASE Began
    <2>1. seen' = seen /\ left' = left /\ clock' = clock /\ poll'.now = clock
          /\ poll'.step \in {"reset first", "first"} /\ FilesKept
      BY <1>4 DEF Began
    <2>2. CASE Crossed(lastUpdated, clock)
      <3>1. (seen # NoTime => Date[seen] # Date[clock]) /\ (left # NoTime => Date[left] # Date[clock])
        BY <1>0, <2>2, OldDays
      <3> QED BY <2>1, <3>1
    <2>3. CASE ~Crossed(lastUpdated, clock)
      BY <1>0, <1>4, <2>1, <2>3 DEF Began, FilesKept
    <2> QED BY <2>2, <2>3
  <1>5. CASE DidReset
    <2>1. seen' = seen /\ left' = left /\ clock' = clock /\ poll'.now = poll.now
          /\ poll'.step \in {"reset last", "first"} /\ InLock
      BY <1>5 DEF DidReset
    <2>2. Crossed(lastUpdated, poll.now)
      BY <1>0, <1>5 DEF DidReset, ResetIsDue
    <2>3. /\ seen # NoTime => Date[seen] # Date[clock] /\ Date[seen] # Date[poll.now]
          /\ left # NoTime => Date[left] # Date[clock] /\ Date[left] # Date[poll.now]
      BY <1>0, <2>1, <2>2, OldDays
    <2> QED BY <2>1, <2>3
  <1>6. CASE DidSet
    <2>1. missed = "no" /\ SeenAgrees /\ LeftAgrees /\ InLock /\ InLock'
      BY <1>0, <1>6 DEF DidSet, PollKept, HistoryKept, history
    <2>2. seen' = seen /\ left' = left /\ clock' = clock /\ poll'.now = poll.now
      BY <1>6 DEF DidSet, PollKept, HistoryKept, history
    <2>3. (Counts(seen)' => Counts(seen)) /\ (Counts(left)' => Counts(left))
      BY <2>1, <2>2
    <2>4. Counts(seen) => first'.file = first.file
      BY <1>6, <2>1 DEF DidSet, FilesKept
    <2>5. Counts(left) => last'.file # NoTime /\ last'.file >= left
      <3>1. ASSUME left # NoTime PROVE poll.now # NoTime /\ poll.now >= left
        BY <1>0, <2>1, <3>1, Times DEF Past, AllBy, NotAfter, IsTime
      <3> QED BY <1>6, <2>1, <3>1 DEF DidSet, FilesKept
    <2> QED BY <2>1, <2>2, <2>3, <2>4, <2>5
  <1>7. CASE Stamp
    <2>1. Stamped /\ InLock /\ poll.now # NoTime
      BY <1>0, <1>7, StampEffect DEF Stamp, Past
    <2>2. missed = "no" /\ SeenAgrees /\ LeftAgrees
      BY <1>0, <2>1 DEF Stamped
    <2>3. ASSUME seen' # NoTime PROVE first.file # NoTime /\ first.file <= seen'
      <3>1. CASE OfThisPoll(seen)
        BY <2>1, <2>2, <3>1 DEF Stamped, OfThisPoll
      <3>2. CASE ~OfThisPoll(seen)
        <4>1. seen' = poll.now /\ poll.new > 0
          BY <2>1, <2>3, <3>2 DEF Stamped
        <4>2. first.file # NoTime
          BY <1>0, <2>1, <4>1 DEF FoundIsWritten, Stamped
        <4>3. NotAfter(first.file, poll.now)
          BY <1>0, <2>1 DEF Past, AllBy
        <4> QED BY <4>1, <4>2, <4>3 DEF NotAfter
      <3> QED BY <3>1, <3>2
    <2>4. ASSUME left' # NoTime PROVE last.file # NoTime /\ last.file >= left'
      <3>1. CASE Departure
        <4>1. left' = poll.now /\ last.file = poll.now
          BY <1>0, <2>1, <3>1 DEF FoundIsWritten, Stamped
        <4>2. poll.now \in Nat
          BY <1>0, <2>1, Times DEF IsTime
        <4> QED BY <2>1, <4>1, <4>2
      <3>2. CASE ~Departure
        BY <2>1, <2>2, <2>4, <3>2 DEF Stamped, OfThisPoll
      <3> QED BY <3>1, <3>2
    <2> QED BY <2>1, <2>3, <2>4 DEF Stamped, FilesKept
  <1>8. CASE Tick
    <2>1. (seen # NoTime /\ Date[seen] = Date[clock'] => Date[seen] = Date[clock])
          /\ (left # NoTime /\ Date[left] = Date[clock'] => Date[left] = Date[clock])
      BY <1>0, <1>8, TickDays
    <2> QED BY <1>0, <1>8, <2>1, TickOrder
  <1>9. CASE UNCHANGED vars
    BY <1>0, <1>9 DEF vars, service, history
  <1> QED BY <1>1, <1>2, <1>3, <1>4, <1>5, <1>6, <1>7, <1>8, <1>9, <1>0, Effects

LEMMA NextInv == StatisticsInv /\ [Next]_vars => StatisticsInv'
  BY Effects, PastStep, ResetIsDueStep, HistoryIsOldStep, DatesStep, HistoryStep, FoundStep DEF StatisticsInv

-------------------------------------------------------------------------------
(* Theorems                                                                *)

\* The inductive invariant holds for every calendar.
THEOREM StatisticsInvariant == Spec => []StatisticsInv
  <1>1. Init => StatisticsInv
    BY InitInv
  <1>2. StatisticsInv /\ [Next]_vars => StatisticsInv'
    BY NextInv
  <1> QED BY <1>1, <1>2, PTL DEF Spec

\* Nothing but the three causes leaves a time of another day in the two fields.
THEOREM OnlyThreeCauses == Spec => []ResetUnlessMissed
  <1>1. StatisticsInv => ResetUnlessMissed
    BY DEF StatisticsInv, DatesAgree, ResetUnlessMissed, UpToDate, InLock
  <1> QED BY <1>1, StatisticsInvariant, PTL

\* The first device is not later than the earliest poll of the day that saw one.
THEOREM FirstIsFirst == Spec => []FirstIsEarliest
  <1>1. StatisticsInv => FirstIsEarliest
    BY DEF StatisticsInv, HistoryAgrees, FirstIsEarliest, UpToDate, InLock, Counts
  <1> QED BY <1>1, StatisticsInvariant, PTL

\* The last device is not earlier than the last departure that a poll found.
THEOREM LastIsLast == Spec => []LastIsLatest
  <1>1. StatisticsInv => LastIsLatest
    BY DEF StatisticsInv, HistoryAgrees, LastIsLatest, UpToDate, InLock, Counts
  <1> QED BY <1>1, StatisticsInvariant, PTL

-------------------------------------------------------------------------------
(* WardenStore: lists                                                         *)

\* A set of numbers that is not empty has a least one.  (Its members up to n,
\* one of them, give finite intervals, which strict inclusion orders well.)
LEMMA Least == ASSUME NEW T, T \subseteq Nat, T # {} PROVE \E x \in T : \A y \in T : x <= y
  <1>1. PICK n \in T : TRUE
    OBVIOUS
  <1> DEFINE U == {0..k : k \in {j \in T : j <= n}}
  <1>2. U \subseteq SUBSET (0..n) /\ 0..n \in U
    BY <1>1
  <1>3. IsWellFoundedOn(StrictSubsetOrdering(0..n), SUBSET (0..n))
    <2>1. IsFiniteSet(0..n)
      BY <1>1, FS_Interval
    <2> QED BY <2>1, FS_StrictSubsetOrderingWellFounded, FS_FiniteSubsetsOfFinite
  <1>4. PICK x \in U : \A y \in U : <<y, x>> \notin StrictSubsetOrdering(0..n)
    <2> HIDE DEF U
    <2> QED BY <1>2, <1>3, WFMin
  <1>5. PICK k \in T : k <= n /\ x = 0..k
    BY <1>4
  <1>6. ASSUME NEW y \in T, ~(k <= y) PROVE FALSE
    <2>1. 0..y \in U
      BY <1>1, <1>5, <1>6
    <2>2. 0..y \subseteq x /\ 0..y # x
      BY <1>1, <1>5, <1>6
    <2>3. <<0..y, x>> \in StrictSubsetOrdering(0..n)
      BY <1>2, <1>4, <2>1, <2>2 DEF StrictSubsetOrdering
    <2> QED BY <1>4, <2>1, <2>3
  <1> QED BY <1>5, <1>6

\* Find gives the position of a warden of that name if the list has one.
LEMMA FindFinds ==
  ASSUME NEW list \in Seq(Warden), NEW n
  PROVE  /\ Has(list, n) => Find(list, n) \in DOMAIN list /\ Same(list[Find(list, n)].name, n)
         /\ ~Has(list, n) => \A i \in DOMAIN list : ~Same(list[i].name, n)
  <1> DEFINE I == {j \in 1..Len(list) : Same(list[j].name, n)}
  <1>1. Find(list, n) = IF I # {} THEN Min(I) ELSE 0
    BY DEF Find, SelectInSeq
  <1>2. ASSUME I # {} PROVE Min(I) \in I
    <2>1. \E x \in I : \A y \in I : x <= y
      <3>1. I \subseteq Nat
        OBVIOUS
      <3> HIDE DEF I
      <3> QED BY <1>2, <3>1, Least
    <2> QED BY <2>1 DEF Min
  <1> QED BY <1>1, <1>2 DEF Has

\* The answer of first_or_none is a warden's name or none.
LEMMA FirstIsName ==
  ASSUME NEW list \in Seq(Warden), NEW d
  PROVE  FirstOrNone(list, d) \in Name \cup {Nobody}
  <1> DEFINE I == {j \in 1..Len(list) : d \in list[j].devices}
             i == SelectInSeq(list, LAMBDA w : d \in w.devices)
  <1>1. i = IF I # {} THEN Min(I) ELSE 0
    BY DEF SelectInSeq
  <1>2. ASSUME I # {} PROVE Min(I) \in I
    <2>1. \E x \in I : \A y \in I : x <= y
      <3>1. I \subseteq Nat
        OBVIOUS
      <3> HIDE DEF I
      <3> QED BY <1>2, <3>1, Least
    <2> QED BY <2>1 DEF Min
  <1>3. i = 0 \/ (i \in 1..Len(list) /\ list[i].name \in Name)
    <2>1. i = 0 \/ i \in I
      BY <1>1, <1>2
    <2>2. \A j \in 1..Len(list) : list[j] \in Warden
      OBVIOUS
    <2> QED BY <2>1, <2>2 DEF Warden
  <1>4. FirstOrNone(list, d) = IF i = 0 THEN Nobody ELSE list[i].name
    BY DEF FirstOrNone
  <1> HIDE DEF i
  <1> QED BY <1>3, <1>4

LEMMA ListType == \A list : list \in Lists <=> list \in Seq(Warden) /\ Len(list) <= MaxWardens
  BY WardenAssumption DEF WardenAssumption, Lists, SeqOf

LEMMA NamesOf == \A list : Names(list) = {Lower[list[i].name] : i \in DOMAIN list}
  BY DEF Names, ToSet

LEMMA AppendNames ==
  ASSUME NEW s \in Seq(Warden), NEW w \in Warden
  PROVE  /\ Append(s, w) \in Seq(Warden) /\ Len(Append(s, w)) = Len(s) + 1
         /\ Names(Append(s, w)) = Names(s) \cup {Lower[w.name]}
         /\ Unique(s) /\ Lower[w.name] \notin Names(s) => Unique(Append(s, w))
  <1> DEFINE l == Append(s, w)
  <1>1. /\ l \in Seq(Warden) /\ Len(s) \in Nat /\ Len(l) = Len(s) + 1 /\ l[Len(s) + 1] = w
        /\ \A i \in 1..Len(s) : l[i] = s[i]
        /\ DOMAIN l = 1..(Len(s) + 1) /\ DOMAIN s = 1..Len(s)
    OBVIOUS
  <1> HIDE DEF l
  <1>2. Names(l) = Names(s) \cup {Lower[w.name]}
    <2>1. \A i \in DOMAIN l : l[i] = w \/ (i \in DOMAIN s /\ l[i] = s[i])
      BY <1>1
    <2>2. \A i \in DOMAIN s : i \in DOMAIN l /\ l[i] = s[i]
      BY <1>1
    <2>3. Len(s) + 1 \in DOMAIN l
      BY <1>1
    <2> QED BY <1>1, <2>1, <2>2, <2>3, NamesOf
  <1>3. Unique(s) /\ Lower[w.name] \notin Names(s) => Unique(l)
    BY <1>1 DEF Unique, Names, ToSet
  <1> QED BY <1>1, <1>2, <1>3 DEF l

\* Without keeps the wardens of all other names, and only those.  (The function
\* it is defined by exists: if one for the first m wardens did not, there were a
\* least such m.  What it gives for the first m is seen in the same way.)
LEMMA WithoutDrops ==
  ASSUME NEW n, wardens \in Seq(Warden)
  PROVE  /\ Without(n) \in Seq(Warden) /\ Len(Without(n)) <= Len(wardens)
         /\ Names(Without(n)) = Names(wardens) \ {Lower[n]}
         /\ Unique(wardens) => Unique(Without(n))
  <1> DEFINE L == Len(wardens)
             Longer(s, i) == IF Same(wardens[i].name, n) THEN s ELSE Append(s, wardens[i])
             IsOthers(g, m) == g = [i \in 0..m |-> IF i = 0 THEN <<>> ELSE Longer(g[i - 1], i)]
             Firsts(m) == {Lower[wardens[j].name] : j \in 1..m}
             Good(s, m) == /\ s \in Seq(Warden) /\ Len(s) <= m
                           /\ Names(s) = Firsts(m) \ {Lower[n]}
                           /\ Unique(wardens) => Unique(s)
  <1>1. L \in Nat /\ \A i \in 1..L : wardens[i] \in Warden
    OBVIOUS
  <1>2. \A m \in 0..L : \E g : IsOthers(g, m)
    <2> DEFINE T == {m \in 0..L : ~\E g : IsOthers(g, m)}
    <2>1. SUFFICES ASSUME T # {} PROVE FALSE
      OBVIOUS
    <2>2. PICK m \in T : \A k \in T : m <= k
      <3>1. T \subseteq Nat
        OBVIOUS
      <3> HIDE DEF T
      <3> QED BY <2>1, <3>1, Least
    <2>3. m # 0
      <3>1. IsOthers([i \in 0..0 |-> <<>>], 0)
        OBVIOUS
      <3> QED BY <2>2, <3>1
    <2>4. PICK g : IsOthers(g, m - 1)
      <3>1. m - 1 \in 0..L /\ m - 1 \notin T
        <4> m \in 0..L
          BY <2>2
        <4> HIDE DEF T
        <4> QED BY <1>1, <2>2, <2>3
      <3> HIDE DEF IsOthers
      <3> QED BY <3>1
    <2> DEFINE h == [i \in 0..m |-> IF i = m THEN Longer(g[m - 1], m) ELSE g[i]]
    <2>5. IsOthers(h, m)
      <3>1. \A i \in 0..(m - 1) : h[i] = g[i]
        BY <1>1, <2>2
      <3>2. ASSUME NEW i \in 0..m PROVE h[i] = IF i = 0 THEN <<>> ELSE Longer(h[i - 1], i)
        <4> m \in 1..L
          BY <1>1, <2>2, <2>3
        <4>1. CASE i = m
          BY <3>1, <4>1
        <4>2. CASE i # m
          <5>1. g[i] = IF i = 0 THEN <<>> ELSE Longer(g[i - 1], i)
            <6> HIDE DEF Longer
            <6> QED BY <1>1, <2>4, <4>2
          <5> HIDE DEF h
          <5> QED BY <3>1, <4>2, <5>1
        <4> QED BY <4>1, <4>2
      <3> QED BY <3>2
    <2> QED BY <2>2, <2>5
  <1>3. PICK g : IsOthers(g, L) /\ Without(n) = g[L]
    <2>1. \E g : IsOthers(g, L)
      <3> HIDE DEF IsOthers
      <3> QED BY <1>1, <1>2
    <2> QED BY <2>1, Zenon DEF Without
  <1>4. Names(wardens) = Firsts(L)
    BY <1>1 DEF Names, ToSet
  <1>5. \A m \in 0..L : Good(g[m], m)
    <2> DEFINE T == {m \in 0..L : ~Good(g[m], m)}
    <2>1. SUFFICES ASSUME T # {} PROVE FALSE
      OBVIOUS
    <2>2. PICK m \in T : \A k \in T : m <= k
      <3>1. T \subseteq Nat
        OBVIOUS
      <3> HIDE DEF T
      <3> QED BY <2>1, <3>1, Least
    <2>3. m # 0
      <3>1. Good(<<>>, 0)
        BY DEF Names, ToSet, Unique
      <3>2. g[0] = <<>>
        BY <1>1, <1>3
      <3> QED BY <2>2, <3>1, <3>2
    <2>4. m \in 1..L /\ Good(g[m - 1], m - 1) /\ g[m] = Longer(g[m - 1], m)
      <3>1. m \in 1..L
        BY <1>1, <2>2, <2>3
      <3>2. m - 1 \in 0..L /\ m - 1 \notin T
        <4> HIDE DEF T
        <4> QED BY <1>1, <2>2, <3>1
      <3>3. Good(g[m - 1], m - 1)
        BY <3>2
      <3>4. g[m] = Longer(g[m - 1], m)
        <4> HIDE DEF Longer
        <4> QED BY <1>1, <1>3, <3>1
      <3> QED BY <3>1, <3>3, <3>4
    <2>5. Firsts(m) = Firsts(m - 1) \cup {Lower[wardens[m].name]}
      BY <2>4
    <2>6. Good(g[m], m)
      <3> DEFINE s == g[m - 1]
                 w == wardens[m]
      <3>1. s \in Seq(Warden) /\ Len(s) <= m - 1 /\ Len(s) \in Nat /\ w \in Warden
            /\ Names(s) = Firsts(m - 1) \ {Lower[n]} /\ (Unique(wardens) => Unique(s))
        BY <1>1, <2>4
      <3>2. CASE Same(w.name, n)
        BY <2>4, <2>5, <3>1, <3>2 DEF Same
      <3>3. CASE ~Same(w.name, n)
        <4>1. g[m] = Append(s, w)
          BY <2>4, <3>3
        <4>2. Lower[w.name] \notin Names(s) \/ ~Unique(wardens)
          BY <1>1, <2>4, <3>1 DEF Unique
        <4>3. /\ Append(s, w) \in Seq(Warden) /\ Len(Append(s, w)) <= m
              /\ Names(Append(s, w)) = Names(s) \cup {Lower[w.name]}
              /\ Unique(wardens) => Unique(Append(s, w))
          <5> HIDE DEF s, w
          <5> QED BY <2>4, <3>1, <4>2, AppendNames
        <4>4. Names(g[m]) = Firsts(m) \ {Lower[n]}
          <5> HIDE DEF s, w, Firsts
          <5>1. Firsts(m) = Firsts(m - 1) \cup {Lower[w.name]}
            BY <2>5 DEF w
          <5> QED BY <3>1, <3>3, <4>1, <4>3, <5>1 DEF Same
        <4> QED BY <4>1, <4>3, <4>4
      <3> QED BY <3>2, <3>3
    <2> QED BY <2>2, <2>6
  <1> QED
    <2>1. Good(g[L], L)
      <3> HIDE DEF Good
      <3> QED BY <1>1, <1>5
    <2> QED BY <1>3, <1>4, <2>1

LEMMA HasByName == ASSUME NEW list \in Seq(Warden), NEW n PROVE Has(list, n) <=> Lower[n] \in Names(list)
  BY FindFinds, NamesOf DEF Same

\* Replacing the first warden of a name.
LEMMA ReplaceNames ==
  ASSUME NEW list \in Seq(Warden), NEW n, Has(list, n), NEW w \in Warden,
         NEW l, l = ReplaceAt(list, Find(list, n), w)
  PROVE  /\ l \in Seq(Warden) /\ Len(l) = Len(list)
         /\ Names(l) \subseteq Names(list) \cup {Lower[w.name]}
         /\ (Names(list) \ {Lower[n]}) \cup {Lower[w.name]} \subseteq Names(l)
         /\ Unique(list) /\ (Same(w.name, n) \/ ~Has(list, w.name)) => Unique(l)
  <1>1. PICK i \in DOMAIN list : i = Find(list, n) /\ Lower[list[i].name] = Lower[n]
    BY FindFinds DEF Same
  <1>2. l = [list EXCEPT ![i] = w]
    BY <1>1 DEF ReplaceAt
  <1>3. /\ l \in Seq(Warden) /\ Len(l) = Len(list) /\ DOMAIN l = DOMAIN list
        /\ l[i] = w /\ \A j \in DOMAIN list \ {i} : l[j] = list[j]
    BY <1>1, <1>2
  <1>4. Names(l) \subseteq Names(list) \cup {Lower[w.name]}
    BY <1>3, NamesOf
  <1>5. (Names(list) \ {Lower[n]}) \cup {Lower[w.name]} \subseteq Names(l)
    BY <1>1, <1>3, NamesOf
  <1>6. ASSUME Unique(list), Same(w.name, n) PROVE Unique(l)
    BY <1>1, <1>3, <1>6 DEF Unique, Same
  <1>7. ASSUME Unique(list), ~Has(list, w.name) PROVE Unique(l)
    <2>1. \A j \in DOMAIN list : Lower[list[j].name] # Lower[w.name]
      BY <1>7, HasByName, NamesOf
    <2> QED BY <1>1, <1>3, <1>7, <2>1 DEF Unique
  <1> QED BY <1>3, <1>4, <1>5, <1>6, <1>7

-------------------------------------------------------------------------------
(* WardenStore: the steps                                                     *)

\* Together the three invariants are inductive.
WardenSafe == WardenInv /\ StoredStaysStored /\ DeletedStaysDeleted

\* A poll in progress is told what the list says by now.
LEMMA ObserveStep ==
  ASSUME WardenSafe, wardens' \in Seq(Warden), Observe, UNCHANGED matching
  PROVE  matched' \in [Device -> SUBSET (Name \cup {Nobody})] /\ LookedUp'
  <1> USE DEF WardenSafe, WardenInv
  <1>1. \A d \in Device : FirstOrNone(wardens', d) \in Name \cup {Nobody}
    BY FirstIsName
  <1>2. \A d \in matching.connected :
            d \in Device /\ matched'[d] = matched[d] \cup {FirstOrNone(wardens', d)}
    BY DEF Observe, WardenTypeOK
  <1>3. matched' \in [Device -> SUBSET (Name \cup {Nobody})]
    BY <1>1 DEF Observe, WardenTypeOK
  <1>4. LookedUp'
    BY <1>2 DEF LookedUp
  <1> QED BY <1>3, <1>4

LEMMA SavedOrNot ==
  ASSUME WardenSafe, NEW list \in Lists, Saved(list) \/ Unsaved(list)
  PROVE  /\ wardens' = list /\ file' \in {list, file}
         /\ wardens' \in Lists /\ file' \in Lists /\ failed' \in 0..MaxFailed
  BY WardenAssumption DEF WardenAssumption, WardenSafe, WardenInv, WardenTypeOK, Saved, Unsaved

LEMMA AddKeeps == ASSUME WardenSafe, NEW w \in Warden, Add(w) PROVE WardenSafe'
  <1> USE DEF WardenSafe, WardenInv
  <1> DEFINE list == Append(wardens, w)
  <1>1. wardens \in Seq(Warden) /\ Len(wardens) < MaxWardens /\ Lower[w.name] \notin Names(wardens)
    BY ListType, HasByName DEF WardenTypeOK, Add
  <1>2. /\ list \in Seq(Warden) /\ list \in Lists
        /\ Names(list) = Names(wardens) \cup {Lower[w.name]}
        /\ Unique(wardens) => Unique(list)
    <2>1. Len(wardens) \in Nat /\ Len(list) = Len(wardens) + 1 /\ list \in Seq(Warden)
      BY <1>1, AppendNames
    <2>2. list \in Lists
      <3> HIDE DEF list
      <3> QED BY <1>1, <2>1, ListType, WardenAssumption DEF WardenAssumption
    <2> QED BY <1>1, <2>1, <2>2, AppendNames
  <1> HIDE DEF list
  <1>3. /\ wardens' = list /\ file' \in {list, file}
        /\ wardens' \in Lists /\ file' \in Lists /\ failed' \in 0..MaxFailed
    BY <1>2, SavedOrNot DEF Add, list
  <1>4. matched' \in [Device -> SUBSET (Name \cup {Nobody})] /\ LookedUp'
    BY <1>2, <1>3, ObserveStep DEF Add
  <1>5. WardenTypeOK'
    BY <1>3, <1>4 DEF WardenTypeOK, Add
  <1>6. UniqueUnlessRenamed'
    BY <1>2, <1>3 DEF UniqueUnlessRenamed, Add
  <1>7. StoredStaysStored'
    BY <1>2, <1>3 DEF StoredStaysStored, Add, Saved, Unsaved, list
  <1>8. DeletedStaysDeleted'
    BY <1>2, <1>3 DEF DeletedStaysDeleted, Add
  <1> QED BY <1>4, <1>5, <1>6, <1>7, <1>8

LEMMA DeleteKeeps == ASSUME WardenSafe, NEW n \in Name, Delete(n) PROVE WardenSafe'
  <1> USE DEF WardenSafe, WardenInv
  <1> DEFINE list == Without(n)
  <1>1. wardens \in Seq(Warden) /\ Len(wardens) <= MaxWardens
    BY ListType DEF WardenTypeOK
  <1>2. /\ list \in Seq(Warden) /\ list \in Lists
        /\ Names(list) = Names(wardens) \ {Lower[n]}
        /\ Unique(wardens) => Unique(list)
    <2>1. Len(list) \in Nat /\ Len(wardens) \in Nat
      BY <1>1, WithoutDrops
    <2> QED BY <1>1, <2>1, WithoutDrops, ListType, WardenAssumption DEF WardenAssumption
  <1> HIDE DEF list
  <1>3. /\ wardens' = list /\ file' \in {list, file}
        /\ wardens' \in Lists /\ file' \in Lists /\ failed' \in 0..MaxFailed
    BY <1>2, SavedOrNot DEF Delete, list
  <1>4. matched' \in [Device -> SUBSET (Name \cup {Nobody})] /\ LookedUp'
    BY <1>2, <1>3, ObserveStep DEF Delete
  <1>5. WardenTypeOK'
    BY <1>3, <1>4 DEF WardenTypeOK, Delete
  <1>6. UniqueUnlessRenamed'
    BY <1>2, <1>3 DEF UniqueUnlessRenamed, Delete
  <1>7. StoredStaysStored'
    BY <1>2, <1>3 DEF StoredStaysStored, Delete
  <1>8. DeletedStaysDeleted'
    BY <1>2, <1>3 DEF DeletedStaysDeleted, Delete, Saved, Unsaved, list
  <1> QED BY <1>4, <1>5, <1>6, <1>7, <1>8

LEMMA UpdateKeeps == ASSUME WardenSafe, NEW t \in Thread, Update(t) PROVE WardenSafe'
  <1> USE DEF WardenSafe, WardenInv
  <1> DEFINE n == put[t].name
             w == put[t].updated
             list == ReplaceAt(wardens, Find(wardens, n), w)
  <1>1. wardens \in Seq(Warden) /\ Len(wardens) <= MaxWardens /\ Has(wardens, n) /\ w \in Warden
    BY ListType DEF WardenTypeOK, Update
  <1>2. /\ list \in Seq(Warden) /\ list \in Lists
        /\ Names(list) \subseteq Names(wardens) \cup {Lower[w.name]}
        /\ (Names(wardens) \ {Lower[n]}) \cup {Lower[w.name]} \subseteq Names(list)
        /\ Unique(wardens) /\ (Same(w.name, n) \/ ~Has(wardens, w.name)) => Unique(list)
    <2> HIDE DEF n, w
    <2> QED BY <1>1, ReplaceNames, ListType
  <1>3. /\ wardens' = list /\ file' \in {list, file}
        /\ wardens' \in Lists /\ file' \in Lists /\ failed' \in 0..MaxFailed
    <2>1. Saved(list) \/ Unsaved(list)
      BY DEF Update
    <2> HIDE DEF list
    <2> QED BY <1>2, <2>1, SavedOrNot
  <1>4. matched' \in [Device -> SUBSET (Name \cup {Nobody})] /\ LookedUp'
    BY <1>2, <1>3, ObserveStep DEF Update
  <1>5. /\ put' \in [Thread -> [name : Name, updated : Warden] \cup {Idle}]
        /\ UNCHANGED <<matching, onSite>>
        /\ gone' = gone \ {Lower[w.name]}
        /\ clashed' = (clashed \/ (~Same(w.name, n) /\ Has(wardens, w.name)))
    BY DEF Update, WardenTypeOK
  <1>6. \/ file' = list /\ kept' = (kept \ {Lower[n]}) \cup {Lower[w.name]}
        \/ file' = file /\ kept' = IF ~Same(w.name, n) THEN kept \ {Lower[n]} ELSE kept
    BY DEF Update, Saved, Unsaved
  <1> HIDE DEF list, n, w
  <1>7. WardenTypeOK'
    BY <1>3, <1>4, <1>5 DEF WardenTypeOK
  <1>8. UniqueUnlessRenamed'
    BY <1>2, <1>3, <1>5 DEF UniqueUnlessRenamed
  <1>9. StoredStaysStored'
    BY <1>2, <1>3, <1>6 DEF StoredStaysStored, Same
  <1>10. DeletedStaysDeleted'
    BY <1>2, <1>3, <1>5 DEF DeletedStaysDeleted
  <1> QED BY <1>4, <1>7, <1>8, <1>9, <1>10

\* The other steps write to neither list nor history, but a restart, which
\* loads the file.
LEMMA ReloadKeeps == ASSUME WardenSafe, Reload PROVE WardenSafe'
  <1> USE DEF WardenSafe, WardenInv
  <1>1. WardenTypeOK'
    BY WardenAssumption DEF WardenAssumption, Reload, WardenTypeOK, NoPoll, Unmatched
  <1>2. UniqueUnlessRenamed' /\ StoredStaysStored' /\ DeletedStaysDeleted'
    BY DEF Reload, told, UniqueUnlessRenamed, StoredStaysStored, DeletedStaysDeleted
  <1>3. LookedUp'
    BY DEF Reload, LookedUp, NoPoll
  <1> QED BY <1>1, <1>2, <1>3

LEMMA ListsKept ==
  ASSUME WardenSafe, UNCHANGED <<store, told>>
  PROVE  UniqueUnlessRenamed' /\ StoredStaysStored' /\ DeletedStaysDeleted'
  BY DEF WardenSafe, WardenInv, store, told, UniqueUnlessRenamed, StoredStaysStored, DeletedStaysDeleted

LEMMA PutKeeps ==
  ASSUME WardenSafe, NEW t \in Thread,
         UpdateNotFound(t) \/ \E n, m \in Name, ds \in DeviceSets : ByName(t, n, m, ds)
  PROVE  WardenSafe'
  <1> USE DEF WardenSafe, WardenInv
  <1>1. UNCHANGED <<store, told, matching, onSite, matched>>
    BY DEF UpdateNotFound, ByName
  <1>2. put' \in [Thread -> [name : Name, updated : Warden] \cup {Idle}]
    <2>1. CASE UpdateNotFound(t)
      BY <2>1 DEF UpdateNotFound, WardenTypeOK
    <2>2. ASSUME NEW n \in Name, NEW m \in Name, NEW ds \in DeviceSets, ByName(t, n, m, ds)
          PROVE  put' \in [Thread -> [name : Name, updated : Warden] \cup {Idle}]
      <3> DEFINE existing == wardens[Find(wardens, n)]
      <3>1. existing \in Warden
        <4>1. wardens \in Seq(Warden)
          BY ListType DEF WardenTypeOK
        <4> QED BY <2>2, <4>1, FindFinds DEF ByName
      <3>2. PICK nm \in {m, existing.name}, dd \in {ds, existing.devices} :
                put' = [put EXCEPT ![t] = [name |-> n, updated |-> [name |-> nm, devices |-> dd]]]
        BY <2>2 DEF ByName
      <3> HIDE DEF existing
      <3>3. nm \in Name /\ dd \in DeviceSets
        BY <3>1 DEF Warden
      <3> QED BY <3>2, <3>3 DEF WardenTypeOK, Warden
    <2> QED BY <2>1, <2>2
  <1>3. WardenTypeOK' /\ LookedUp'
    BY <1>1, <1>2 DEF WardenTypeOK, LookedUp, store
  <1> QED BY <1>1, <1>3, ListsKept

LEMMA MatchingKeeps == ASSUME WardenSafe, MatchWardens PROVE WardenSafe'
  <1> USE DEF WardenSafe, WardenInv
  <1>1. UNCHANGED <<store, told, put>>
    BY DEF MatchWardens, FetchDevices, MatchDevice, SetOnSite, PollFails
  <1>2. \A d : FirstOrNone(wardens, d) \in Name \cup {Nobody}
    BY ListType, FirstIsName DEF WardenTypeOK
  <1>3. CASE \E devices \in SUBSET Device : FetchDevices(devices)
    BY <1>1, <1>2, <1>3, ListsKept DEF FetchDevices, WardenTypeOK, LookedUp, store
  <1>4. ASSUME NEW d \in Device, MatchDevice(d) PROVE WardenSafe'
    <2>1. /\ d \in matching.todo /\ UNCHANGED <<store, onSite, matched>>
          /\ matching'.step = matching.step /\ matching'.connected = matching.connected
          /\ matching'.todo = matching.todo \ {d}
          /\ matching'.found = matching.found \cup ({FirstOrNone(wardens, d)} \ {Nobody})
          /\ matching' \in [step : {"rest", "match"}, connected : SUBSET Device,
                            todo : SUBSET Device, found : SUBSET Name]
      BY <1>2, <1>4 DEF MatchDevice, WardenTypeOK
    <2>2. WardenTypeOK'
      BY <1>1, <2>1 DEF WardenTypeOK, store
    <2>3. LookedUp'
      BY <2>1 DEF LookedUp, store, WardenTypeOK
    <2> QED BY <1>1, <2>2, <2>3, ListsKept
  <1>5. CASE SetOnSite \/ PollFails
    BY <1>1, <1>5, ListsKept DEF SetOnSite, PollFails, WardenTypeOK, LookedUp, NoPoll, Unmatched, store
  <1> QED BY <1>3, <1>4, <1>5 DEF MatchWardens

LEMMA WardenStep == ASSUME WardenSafe, [WardenNext]_wardenVars PROVE WardenSafe'
  <1>1. CASE UNCHANGED wardenVars
    <2>1. WardenTypeOK' /\ LookedUp'
      BY <1>1 DEF wardenVars, store, WardenSafe, WardenInv, WardenTypeOK, LookedUp
    <2> QED BY <1>1, <2>1, ListsKept DEF wardenVars, WardenSafe, WardenInv
  <1> QED
    BY <1>1, AddKeeps, DeleteKeeps, UpdateKeeps, PutKeeps, MatchingKeeps, ReloadKeeps
    DEF WardenNext, Request

LEMMA WardenStart == ASSUME WardenInit PROVE WardenSafe
  <1>1. WardenTypeOK
    <2>1. <<>> \in Lists
      <3>1. <<>> \in Seq(Warden) /\ Len(<<>>) <= MaxWardens
        BY WardenAssumption DEF WardenAssumption
      <3> QED BY <3>1, ListType, Zenon
    <2> QED BY <2>1, WardenAssumption DEF WardenAssumption, WardenInit, WardenTypeOK, NoPoll, Unmatched
  <1>2. UniqueUnlessRenamed /\ StoredStaysStored /\ DeletedStaysDeleted /\ LookedUp
    BY DEF WardenInit, UniqueUnlessRenamed, Unique, StoredStaysStored, DeletedStaysDeleted, LookedUp, NoPoll
  <1> QED BY <1>1, <1>2 DEF WardenSafe, WardenInv

LEMMA AlwaysWardenSafe == WardenSpec => []WardenSafe
  BY WardenStart, WardenStep, PTL DEF WardenSpec

\* Names are unique unless a PUT renamed a warden to a taken one; the types.
THEOREM WardensInvariant == WardenSpec => []WardenInv
  BY AlwaysWardenSafe, PTL DEF WardenSafe

\* No failed save, restart or update in flight loses a warden a client was told
\* is stored.
THEOREM WardensAreKept == WardenSpec => []StoredStaysStored
  BY AlwaysWardenSafe, PTL DEF WardenSafe

\* None brings back a warden a client was told is deleted.
THEOREM WardensStayDeleted == WardenSpec => []DeletedStaysDeleted
  BY AlwaysWardenSafe, PTL DEF WardenSafe

\* Who is listed as on site was so during the poll, and who was is listed.
THEOREM OnSiteJustified == WardenSpec => OnSiteIsJustified
  <1>1. ASSUME WardenSafe
        PROVE  SetOnSite =>
                 /\ \A n \in onSite' : \E d \in matching.connected : n \in matched[d]
                 /\ \A d \in matching.connected : matched[d] \cap (onSite' \cup {Nobody}) # {}
    BY <1>1 DEF WardenSafe, WardenInv, LookedUp, SetOnSite
  <1> QED BY <1>1, AlwaysWardenSafe, PTL DEF OnSiteIsJustified
===============================================================================
