------------------------------ MODULE Presence ------------------------------
(***************************************************************************)
(* PresenceLevelService and the PresenceThresholds it shares with the       *)
(* config endpoint through two files.  The poll counts devices, reads the   *)
(* thresholds one at a time, publishes a level and pushes the first arrival *)
(* of the day.  Push is configured and the threshold files exist: the race  *)
(* for the first write of such a file is the one of ApiKeyStore.            *)
(***************************************************************************)
EXTENDS Integers

CONSTANTS
    Count,     \* device counts the router may report
    NonEmpty,  \* values of min_non_empty_ct
    Many,      \* values of min_many_ct
    MaxDay,    \* bound: how many virtual days (5 AM to 5 AM) pass
    NoDay, Keep

ASSUME PresenceAssumption ==
    /\ Count \cup NonEmpty \cup Many \subseteq Nat
    /\ MaxDay \in Nat
    /\ NoDay \notin Nat

VARIABLES
    thresholds,  \* the two files
    patch,       \* min_many_ct that the PATCH in progress has still to write
    level,       \* self._presence_level
    error,       \* self._last_error is set
    ready,       \* self._push_initialized
    lastPush,    \* self._last_push_virtual_date
    poll,        \* the poll: its step, the count, and the old and new level
    day,         \* the virtual date
    inForce,     \* history: the thresholds in force since the poll counted
    arrived,     \* history: days on which a poll of this life, not its first,
                 \* found somebody after nobody
    pushed,      \* history: days for which this life sent a push
    raised       \* history: days for which a push raised

service == <<level, error, ready, lastPush>>
history == <<inForce, arrived, pushed, raised>>
vars == <<thresholds, patch, service, poll, day, history>>

Levels == {"empty", "few", "many"}
AtRest == [step |-> "rest", count |-> 0, prev |-> "empty", new |-> "empty"]

Init ==
    /\ thresholds \in [nonEmpty : NonEmpty, many : Many]
    /\ patch = Keep
    /\ level = "empty"
    /\ error = FALSE
    /\ ready = FALSE
    /\ lastPush = NoDay
    /\ poll = AtRest
    /\ day = 0
    /\ inForce = {}
    /\ arrived = {}
    /\ pushed = {}
    /\ raised = {}

-------------------------------------------------------------------------------
(* PATCH /api/internal/config, on the event loop                           *)

\* One file is replaced.
Write(new) ==
    /\ thresholds' = new
    /\ inForce' = inForce \cup {new}
    /\ UNCHANGED <<service, poll, day, arrived, pushed, raised>>

\* The request sets min_non_empty_ct, and min_many_ct after it unless m is Keep.
PatchNonEmpty(n, m) ==
    /\ patch = Keep
    /\ patch' = m
    /\ Write([thresholds EXCEPT !.nonEmpty = n])

\* The second write of such a request, or the only one.
PatchMany(m) ==
    /\ patch \in {Keep, m}
    /\ patch' = Keep
    /\ Write([thresholds EXCEPT !.many = m])

\* The second write fails: the request fails half done.
PatchFails ==
    /\ patch # Keep
    /\ patch' = Keep
    /\ UNCHANGED <<thresholds, service, poll, day, history>>

-------------------------------------------------------------------------------
(* _run_presence_detection                                                 *)

Goto(step) == poll' = [poll EXCEPT !.step = step]

\* The level is decided.
Decide(l) == poll' = [poll EXCEPT !.step = "set", !.new = l]

\* The router reports c devices that are not to be ignored.
PollCount(c) ==
    /\ poll = AtRest
    /\ poll' = [AtRest EXCEPT !.step = "empty?", !.count = c]
    /\ inForce' = {thresholds}
    /\ UNCHANGED <<thresholds, patch, service, day, arrived, pushed, raised>>

\* get_presence_level: each case reads what it compares with anew.
IsEmpty ==
    /\ poll.step = "empty?"
    /\ IF poll.count < thresholds.nonEmpty THEN Decide("empty") ELSE Goto("few?")
    /\ UNCHANGED <<thresholds, patch, service, day, history>>

IsFew ==
    /\ poll.step = "few?"
    /\ IF poll.count >= thresholds.nonEmpty THEN Goto("many?") ELSE Decide("many")
    /\ UNCHANGED <<thresholds, patch, service, day, history>>

\* Mutant: the bound of "few" is inclusive.
BelowManyInclusive == poll.count <= thresholds.many

BelowMany == poll.count < thresholds.many

IsMany ==
    /\ poll.step = "many?"
    /\ IF BelowMany THEN Decide("few") ELSE Decide("many")
    /\ UNCHANGED <<thresholds, patch, service, day, history>>

\* The new level is published, and the error of an earlier poll cleared.
SetLevel ==
    /\ poll.step = "set"
    /\ level' = poll.new
    /\ error' = FALSE
    /\ poll' = [poll EXCEPT !.step = "push", !.prev = level]
    /\ UNCHANGED <<thresholds, patch, ready, lastPush, day, history>>

\* The router, the reading of a threshold or the logout raises, the last one
\* when the level is already set.
PollFails ==
    /\ poll.step # "send"
    /\ level' = "empty"
    /\ error' = TRUE
    /\ poll' = AtRest
    /\ UNCHANGED <<thresholds, patch, ready, lastPush, day, history>>

-------------------------------------------------------------------------------
(* _try_send_first_active_push                                             *)

Arrival == ready /\ poll.prev = "empty" /\ poll.new # "empty"

\* Mutant: the date is not remembered.
RememberNothing == UNCHANGED lastPush

\* The virtual date of the push is remembered before the push is sent.
Remember == lastPush' = day

\* Mutant: the date is remembered whether or not anybody arrived.
NoPushRemembered ==
    /\ poll.step = "push"
    /\ ~Arrival \/ lastPush = day
    /\ ready' = TRUE
    /\ poll' = AtRest
    /\ lastPush' = day
    /\ arrived' = IF Arrival THEN arrived \cup {day} ELSE arrived
    /\ UNCHANGED <<thresholds, patch, level, error, day, inForce, pushed, raised>>

\* The first poll of a life, no arrival, or an arrival on a day that had one.
NoPush ==
    /\ poll.step = "push"
    /\ ~Arrival \/ lastPush = day
    /\ ready' = TRUE
    /\ poll' = AtRest
    /\ arrived' = IF Arrival THEN arrived \cup {day} ELSE arrived
    /\ UNCHANGED <<thresholds, patch, level, error, lastPush, day, inForce, pushed, raised>>

TryPush ==
    /\ poll.step = "push"
    /\ Arrival
    /\ lastPush # day
    /\ Remember
    /\ Goto("send")
    /\ arrived' = arrived \cup {day}
    /\ UNCHANGED <<thresholds, patch, level, error, ready, day, inForce, pushed, raised>>

\* The message is built, with the weather and the occupancy, and sent; a date
\* that has passed by now is not looked at again.
Send ==
    /\ poll.step = "send"
    /\ pushed' = pushed \cup {lastPush}
    /\ poll' = AtRest
    /\ UNCHANGED <<thresholds, patch, service, day, inForce, arrived, raised>>

\* Either one raises: logged, and not tried again today.
SendRaises ==
    /\ poll.step = "send"
    /\ raised' = raised \cup {lastPush}
    /\ poll' = AtRest
    /\ UNCHANGED <<thresholds, patch, service, day, inForce, arrived, pushed>>

-------------------------------------------------------------------------------
NextDay ==
    /\ day < MaxDay
    /\ day' = day + 1
    /\ UNCHANGED <<thresholds, patch, service, poll, history>>

\* The process starts again; only the threshold files outlive it.
Restart ==
    /\ patch' = Keep
    /\ level' = "empty"
    /\ error' = FALSE
    /\ ready' = FALSE
    /\ lastPush' = NoDay
    /\ poll' = AtRest
    /\ inForce' = {}
    /\ arrived' = {}
    /\ pushed' = {}
    /\ raised' = {}
    /\ UNCHANGED <<thresholds, day>>

Config ==
    \/ \E n \in NonEmpty, m \in Many \cup {Keep} : PatchNonEmpty(n, m)
    \/ \E m \in Many : PatchMany(m)
    \/ PatchFails

Poll ==
    \/ \E c \in Count : PollCount(c)
    \/ IsEmpty
    \/ IsFew
    \/ IsMany
    \/ SetLevel
    \/ PollFails
    \/ NoPush
    \/ TryPush
    \/ Send
    \/ SendRaises

Next == Config \/ Poll \/ NextDay \/ Restart

Spec == Init /\ [][Next]_vars

-------------------------------------------------------------------------------
(* Properties                                                              *)

Thresholds == [nonEmpty : NonEmpty, many : Many]
Steps == {"rest", "empty?", "few?", "many?", "set", "push", "send"}
Days == 0..MaxDay

\* Type invariant.
TypeOK ==
    /\ thresholds \in Thresholds
    /\ patch \in Many \cup {Keep}
    /\ level \in Levels
    /\ error \in BOOLEAN
    /\ ready \in BOOLEAN
    /\ lastPush \in Days \cup {NoDay}
    /\ poll \in [step : Steps, count : Count \cup {0}, prev : Levels, new : Levels]
    /\ day \in Days
    /\ inForce \subseteq Thresholds
    /\ arrived \cup pushed \cup raised \subseteq Days

\* The date remembered has had its push, unless that push is on its way.
DateHasPush ==
    /\ poll.step = "send" => lastPush # NoDay /\ lastPush \notin pushed \cup raised
    /\ poll.step # "send" /\ lastPush # NoDay => lastPush \in pushed \cup raised

\* The days that are done lie before the last one remembered, or are it.
DaysAreRemembered ==
    \A d \in pushed \cup raised : lastPush # NoDay /\ d <= lastPush

\* Every arrival is announced: whenever no push is on its way, each day on
\* which somebody arrived while the service was running has had its push, or
\* one attempt that raised.  A failed poll, which also counts as nobody, a
\* restart or a date that changes between the steps loses none.
ArrivalsAnnounced == poll.step # "send" => arrived \subseteq pushed \cup raised

\* The inductive invariant.
PresenceInv ==
    /\ TypeOK
    /\ (lastPush # NoDay => lastPush <= day)
    /\ (error => level = "empty")
    /\ DateHasPush
    /\ DaysAreRemembered
    /\ poll.step = "send" => arrived \subseteq pushed \cup raised \cup {lastPush}
    /\ ArrivalsAnnounced

\* One push per virtual day: no day gets a second one from the same process,
\* whatever the levels, failures and date changes between its polls.
OncePerDay == [][Send => lastPush \notin pushed]_vars

\* The level of a count under fixed thresholds.
LevelOf(t, c) == IF c < t.nonEmpty THEN "empty" ELSE IF c < t.many THEN "few" ELSE "many"

\* min_non_empty_ct has had one value since the poll counted.
NonEmptyUnchanged == \A t, u \in inForce : t.nonEmpty = u.nonEmpty

\* Although the poll reads the thresholds one by one, the level it publishes is
\* the one of its count under thresholds in force since it counted, as long as
\* nobody changes min_non_empty_ct meanwhile.
LevelIsCurrent ==
    [][SetLevel /\ NonEmptyUnchanged => \E t \in inForce : level' = LevelOf(t, poll.count)]_vars
===============================================================================
