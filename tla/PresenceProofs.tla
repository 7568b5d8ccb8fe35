--------------------------- MODULE PresenceProofs ---------------------------
(***************************************************************************)
(* For any thresholds, any counts and any number of days: every arrival is  *)
(* announced, no day twice, and the published level is one that the         *)
(* thresholds in force give.  The first two need that the date remembered   *)
(* is never before a day that is done; the last, that each comparison the   *)
(* poll made was right about some thresholds in force since it counted.     *)
(***************************************************************************)
EXTENDS Presence, TLAPS

\* What the comparisons made so far say about the thresholds in force.
Compared ==
    /\ poll.step \in {"empty?", "few?", "many?", "set"} => thresholds \in inForce
    /\ poll.step \in {"few?", "many?"} => \E t \in inForce : poll.count >= t.nonEmpty
    /\ poll.step = "set" /\ NonEmptyUnchanged => \E t \in inForce : poll.new = LevelOf(t, poll.count)

USE PresenceAssumption DEF PresenceAssumption, Days, Thresholds, Levels, Steps

LEMMA InitInv == Init => PresenceInv /\ Compared
  <1> SUFFICES ASSUME Init PROVE PresenceInv /\ Compared
    OBVIOUS
  <1>1. TypeOK
    <2>1. poll \in [step : Steps, count : Count \cup {0}, prev : Levels, new : Levels]
      BY DEF Init, AtRest
    <2>2. thresholds \in Thresholds /\ inForce \subseteq Thresholds
      BY DEF Init
    <2>3. day \in Days /\ lastPush \in Days \cup {NoDay} /\ arrived \cup pushed \cup raised \subseteq Days
      BY DEF Init
    <2>4. patch \in Many \cup {Keep} /\ level \in Levels /\ error \in BOOLEAN /\ ready \in BOOLEAN
      BY DEF Init
    <2> QED BY <2>1, <2>2, <2>3, <2>4 DEF TypeOK
  <1>2. poll.step = "rest" /\ lastPush = NoDay /\ ~error /\ arrived = {} /\ pushed = {} /\ raised = {}
    BY DEF Init, AtRest
  <1> QED
    BY <1>1, <1>2 DEF PresenceInv, DateHasPush, DaysAreRemembered, ArrivalsAnnounced, Compared

-------------------------------------------------------------------------------
(* Arrivals and pushes                                                     *)

LEMMA ConfigPresence == ASSUME PresenceInv, Config PROVE PresenceInv'
  <1>1. TypeOK'
    BY DEF Config, PatchNonEmpty, PatchMany, PatchFails, Write, service, history, PresenceInv, TypeOK
  <1>2. UNCHANGED <<service, poll, day, arrived, pushed, raised>>
    BY DEF Config, PatchNonEmpty, PatchMany, PatchFails, Write, service, history
  <1> QED BY <1>1, <1>2 DEF PresenceInv, service, DateHasPush, DaysAreRemembered, ArrivalsAnnounced

\* The steps of a poll up to its push.
Detect == (\E c \in Count : PollCount(c)) \/ IsEmpty \/ IsFew \/ IsMany \/ SetLevel \/ PollFails

LEMMA DetectPresence == ASSUME PresenceInv, Detect PROVE PresenceInv'
  <1>1. TypeOK'
    <2> USE DEF PresenceInv, TypeOK, service, history, AtRest, Goto, Decide
    <2>1. ASSUME NEW c \in Count, PollCount(c) PROVE TypeOK'
      BY <2>1 DEF PollCount
    <2>2. CASE IsEmpty
      BY <2>2 DEF IsEmpty
    <2>3. CASE IsFew
      BY <2>3 DEF IsFew
    <2>4. CASE IsMany
      BY <2>4 DEF IsMany
    <2>5. CASE SetLevel
      BY <2>5 DEF SetLevel
    <2>6. CASE PollFails
      BY <2>6 DEF PollFails
    <2> QED BY <2>1, <2>2, <2>3, <2>4, <2>5, <2>6 DEF Detect
  <1>2. UNCHANGED <<lastPush, day, arrived, pushed, raised>>
    BY DEF Detect, PollCount, IsEmpty, IsFew, IsMany, SetLevel, PollFails, service, history
  <1>3. error' => level' = "empty"
    BY DEF Detect, PollCount, IsEmpty, IsFew, IsMany, SetLevel, PollFails, service, PresenceInv
  <1>4. poll.step # "send" /\ poll'.step # "send"
    <2>1. ASSUME NEW c \in Count, PollCount(c) PROVE poll.step # "send" /\ poll'.step # "send"
      <3>1. poll'.step = "empty?"
        BY <2>1 DEF PollCount, AtRest
      <3> QED BY <2>1, <3>1 DEF PollCount, AtRest
    <2>3. SetLevel => poll.step # "send" /\ poll'.step # "send"
      BY DEF SetLevel, PresenceInv, TypeOK
    <2>4. PollFails => poll.step # "send" /\ poll'.step # "send"
      BY DEF PollFails, AtRest
    <2>2. IsEmpty \/ IsFew \/ IsMany => poll.step # "send" /\ poll'.step # "send"
      BY DEF IsEmpty, IsFew, IsMany, Goto, Decide, PresenceInv, TypeOK
    <2> QED BY <2>1, <2>2, <2>3, <2>4 DEF Detect
  <1> QED BY <1>1, <1>2, <1>3, <1>4 DEF PresenceInv, DateHasPush, DaysAreRemembered, ArrivalsAnnounced

LEMMA NextPresence == PresenceInv /\ [Next]_vars => PresenceInv'
  <1> SUFFICES ASSUME PresenceInv, [Next]_vars PROVE PresenceInv'
    OBVIOUS
  <1> USE DEF PresenceInv, TypeOK, DateHasPush, DaysAreRemembered, ArrivalsAnnounced, service, history
  <1>1. CASE NoPush
    <2>1. Arrival => day \in pushed \cup raised
      BY <1>1 DEF NoPush
    <2> QED BY <1>1, <2>1 DEF NoPush, AtRest
  <1>2. CASE TryPush
    <2>1. lastPush' = day /\ poll'.step = "send" /\ arrived' = arrived \cup {day}
      BY <1>2 DEF TryPush, Remember, Goto
    <2>2. day \notin pushed \cup raised
      BY <1>2 DEF TryPush
    <2> QED BY <1>2, <2>1, <2>2 DEF TryPush, Remember, Goto
  <1>3. CASE Send
    BY <1>3 DEF Send, AtRest
  <1>4. CASE SendRaises
    BY <1>4 DEF SendRaises, AtRest
  <1>5. CASE NextDay
    BY <1>5 DEF NextDay
  <1>6. CASE Restart
    BY <1>6 DEF Restart, AtRest
  <1>7. CASE UNCHANGED vars
    BY <1>7 DEF vars
  <1> QED
    BY <1>1, <1>2, <1>3, <1>4, <1>5, <1>6, <1>7, ConfigPresence, DetectPresence DEF Next, Poll, Detect

\* Every arrival is announced, and the state around it is consistent.
THEOREM PresenceInvariant == Spec => []PresenceInv
  BY InitInv, NextPresence, PTL DEF Spec

\* No day is announced twice by one process.
THEOREM OnePushPerDay == Spec => OncePerDay
  <1>1. PresenceInv => [Send => lastPush \notin pushed]_vars
    BY DEF PresenceInv, DateHasPush, Send
  <1> QED BY <1>1, PresenceInvariant, PTL DEF OncePerDay

-------------------------------------------------------------------------------
(* The level                                                               *)

LEMMA NextCompared == PresenceInv /\ Compared /\ [Next]_vars => Compared'
  <1> SUFFICES ASSUME PresenceInv, Compared, [Next]_vars PROVE Compared'
    OBVIOUS
  <1> USE DEF Compared, NonEmptyUnchanged, service, history
  <1>1. CASE Config
    <2>1. inForce \subseteq inForce' /\ thresholds' \in inForce' \cup {thresholds} /\ poll' = poll
      BY <1>1 DEF Config, PatchNonEmpty, PatchMany, PatchFails, Write
    <2> QED BY <2>1
  <1>2. ASSUME NEW c \in Count, PollCount(c) PROVE Compared'
    BY <1>2 DEF PollCount, AtRest
  <1> DEFINE Fixed == inForce' = inForce /\ thresholds' = thresholds
  <1>3. CASE IsEmpty
    <2>1. Fixed /\ poll.count \in Nat /\ thresholds \in inForce
      BY <1>3 DEF IsEmpty, PresenceInv, TypeOK
    <2>2. CASE poll.count < thresholds.nonEmpty
      <3>1. poll'.step = "set" /\ poll'.new = "empty" /\ poll'.count = poll.count
        BY <1>3, <2>2 DEF IsEmpty, Decide, PresenceInv, TypeOK
      <3>2. LevelOf(thresholds, poll.count) = "empty"
        BY <2>2 DEF LevelOf
      <3> QED BY <2>1, <3>1, <3>2
    <2>3. CASE ~(poll.count < thresholds.nonEmpty)
      <3>1. poll'.step = "few?" /\ poll'.count = poll.count
        BY <1>3, <2>3 DEF IsEmpty, Goto, PresenceInv, TypeOK
      <3>2. poll.count >= thresholds.nonEmpty
        BY <2>1, <2>3 DEF PresenceInv, TypeOK
      <3> QED BY <2>1, <3>1, <3>2
    <2> QED BY <2>2, <2>3
  <1>4. CASE IsFew
    <2>1. Fixed /\ poll.count \in Nat /\ thresholds \in inForce
      BY <1>4 DEF IsFew, PresenceInv, TypeOK
    <2>2. PICK t \in inForce : poll.count >= t.nonEmpty
      BY <1>4 DEF IsFew
    <2>3. CASE poll.count >= thresholds.nonEmpty
      <3>1. poll'.step = "many?" /\ poll'.count = poll.count
        BY <1>4, <2>3 DEF IsFew, Goto, PresenceInv, TypeOK
      <3> QED BY <2>1, <2>3, <3>1
    <2>4. CASE ~(poll.count >= thresholds.nonEmpty)
      <3>1. poll'.step = "set"
        BY <1>4, <2>4 DEF IsFew, Decide, PresenceInv, TypeOK
      <3>2. ~NonEmptyUnchanged
        BY <2>1, <2>2, <2>4
      <3> QED BY <2>1, <3>1, <3>2
    <2> QED BY <2>3, <2>4
  <1>5. CASE IsMany
    <2>1. Fixed /\ poll.count \in Nat /\ thresholds \in inForce /\ thresholds \in [nonEmpty : NonEmpty, many : Many]
      BY <1>5 DEF IsMany, PresenceInv, TypeOK
    <2>2. poll'.step = "set" /\ poll'.count = poll.count
      BY <1>5 DEF IsMany, Goto, Decide, PresenceInv, TypeOK
    <2>3. poll'.new = IF poll.count < thresholds.many THEN "few" ELSE "many"
      BY <1>5 DEF IsMany, BelowMany, Decide, PresenceInv, TypeOK
    <2>4. PICK t \in inForce : poll.count >= t.nonEmpty
      BY <1>5 DEF IsMany
    <2>5. ASSUME NonEmptyUnchanged PROVE poll'.new = LevelOf(thresholds, poll.count)
      <3>1. t.nonEmpty = thresholds.nonEmpty /\ thresholds.nonEmpty \in Nat
        BY <2>1, <2>4, <2>5
      <3>2. ~(poll.count < thresholds.nonEmpty)
        BY <2>1, <2>4, <3>1
      <3> QED BY <2>3, <3>2 DEF LevelOf
    <2> QED BY <2>1, <2>2, <2>5
  <1>6. CASE SetLevel \/ NoPush \/ TryPush \/ Send \/ SendRaises \/ PollFails \/ Restart
    <2>1. poll'.step \in {"rest", "push", "send"}
      <3>1. SetLevel \/ TryPush => poll'.step \in {"push", "send"}
        BY DEF SetLevel, TryPush, Goto, PresenceInv, TypeOK
      <3>2. NoPush \/ Send \/ SendRaises \/ PollFails \/ Restart => poll'.step = "rest"
        BY DEF NoPush, Send, SendRaises, PollFails, Restart, AtRest
      <3> QED BY <1>6, <3>1, <3>2
    <2> QED BY <2>1
  <1>7. CASE NextDay \/ UNCHANGED vars
    BY <1>7 DEF NextDay, vars
  <1> QED BY <1>1, <1>2, <1>3, <1>4, <1>5, <1>6, <1>7 DEF Next, Poll

\* The published level is one that thresholds in force give.
THEOREM CurrentLevel == Spec => LevelIsCurrent
  <1>1. Spec => [](PresenceInv /\ Compared)
    BY InitInv, NextPresence, NextCompared, PTL DEF Spec
  <1>2. PresenceInv /\ Compared =>
          [SetLevel /\ NonEmptyUnchanged => \E t \in inForce : level' = LevelOf(t, poll.count)]_vars
    BY DEF Compared, SetLevel
  <1> QED BY <1>1, <1>2, PTL DEF LevelIsCurrent
===============================================================================
