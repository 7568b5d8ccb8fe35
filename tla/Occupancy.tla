------------------------------- MODULE Occupancy -------------------------------
(***************************************************************************)
(* OccupancyService: a poll reads the weekly plan and the event calendar of  *)
(* the club's site, row by row while the clock may pass midnight, and may     *)
(* fail in between; requests ask which events a day has and what they leave   *)
(* free.  A day is a number, 0 a Monday; of a time only the hour counts; of a *)
(* place, whether it is a field, everything ("komplett"), other or not given. *)
(***************************************************************************)
EXTENDS Integers, Sequences, FiniteSets, SequencesExt

CONSTANTS
    WeekLength, \* days of a week: 7 in the program
    Year,       \* 365 in the program
    MinEvents,  \* _MIN_WEEKLY_EVENTS
    NewYear,    \* the day on which the year changes
    LateHour,   \* _FULL_DAY_EVENT_END_TIME_THRESHOLD
    Plans,      \* weekly plans the site may show, as sequences of rows
    Calendars,  \* event calendars, likewise
    MaxDay,     \* bound: how far the clock runs
    MaxRound    \* bound: refreshes

Hours == 0..23

\* A row of the weekly plan, under the header of its day.  A time in free form may
\* name a day of its own, which dateparser looks for in the days to come.
PlanRows == [name : STRING, weekday : 0..(WeekLength - 1), later : Nat, from : Hours, to : Hours,
             place : {"none", "field", "other"}]

\* A row of the calendar has its date, or day and month only.
CalendarRows == [name : STRING, date : Int, dated : BOOLEAN, later : Nat, from : Hours, to : Hours,
                 place : {"none", "field", "everything", "other"}]

ASSUME OccupancyAssumption ==
    /\ {WeekLength, MinEvents, LateHour} \subseteq Nat \ {0}
    /\ Year \in Nat /\ Year >= WeekLength
    /\ NewYear \in Int
    /\ {MaxDay, MaxRound} \subseteq Nat
    /\ Plans \subseteq Seq(PlanRows) /\ Calendars \subseteq Seq(CalendarRows)

VARIABLES
    day,         \* today's date
    week,        \* _week_occupancy
    events,      \* _event_occupancy
    lastUpdated, \* _last_updated
    error,       \* _last_error is set
    refresh,     \* the poll: its step, the two pages, and what it has parsed of each
    round,       \* number of the refresh
    shown        \* history: the plan behind week, the days on which its parsing
                 \* began and ended, and the refreshes behind week and events

service == <<week, events, lastUpdated, error>>
occupancyVars == <<day, service, refresh, round, shown>>

AtRest == [step |-> "rest", plan |-> <<>>, calendar |-> <<>>, parsed |-> <<>>, began |-> 0,
           listed |-> <<>>]

-------------------------------------------------------------------------------
(* Parsing                                                                 *)

\* An event that ends after midnight ends at a small hour.
FullyIfLate(row) == IF row.to >= LateHour THEN "fully" ELSE "partially"

WeeklyType(row) ==
    CASE row.place = "none" -> "none"
      [] row.place = "field" -> "partially"
      [] OTHER -> FullyIfLate(row)

CalendarType(row) ==
    CASE row.place = "none" -> "none"
      [] row.place = "everything" -> FullyIfLate(row)
      [] OTHER -> "partially"

\* Mutant: the days that have passed this week are not moved to the next.
DateInThisWeek(weekday, today) == today + weekday - (today % WeekLength)

\* The next day of that name, from today on.
DateOf(weekday, today) == today + ((weekday - today) % WeekLength)

WeeklyOccupancy(row, today) ==
    [date |-> DateOf(row.weekday, today) + row.later, from |-> row.from, type |-> WeeklyType(row),
     source |-> "weekly plan", name |-> row.name]

\* The first day of the clock's year.
YearOf(today) == IF today >= NewYear THEN NewYear ELSE NewYear - Year

CalendarOccupancy(row, today) ==
    [date |-> row.later + row.date + (IF row.dated THEN 0 ELSE YearOf(today)), from |-> row.from,
     type |-> CalendarType(row), source |-> "event calendar", name |-> row.name]

EarlierDay(o, p) == o.date < p.date \/ (o.date = p.date /\ o.from < p.from)

\* The event at i goes before the one at j: it is earlier, or of two that begin
\* at the same time it comes first.
GoesBefore(s, i, j) == EarlierDay(s[i], s[j]) \/ (~EarlierDay(s[j], s[i]) /\ i < j)

\* sorted(..., key=begin), which keeps the order of equals: each event has as many
\* before it as go before it.
SortedByBegin(s) ==
    LET place(i) == Cardinality({j \in DOMAIN s : GoesBefore(s, j, i)}) + 1
    IN [k \in DOMAIN s |-> s[CHOOSE i \in DOMAIN s : place(i) = k]]

Weeks == Year \div WeekLength

Shifted(s, i) == [j \in DOMAIN s |-> [s[j] EXCEPT !.date = @ + WeekLength * i]]

\* _extend_to, of enough events: the plan repeated for a year, unless it has
\* more rows than a year has days.
Extended(s) ==
    IF Len(s) >= Year THEN s
    ELSE FlattenSeq([i \in 1..Weeks |-> Shifted(SortedByBegin(s), i - 1)])

-------------------------------------------------------------------------------
(* get_occupancy                                                           *)

OfDay(s, d) ==
    LET found[n \in 0..Len(s)] ==
            IF n = 0 THEN <<>>
            ELSE IF s[n].date = d THEN Append(found[n - 1], s[n]) ELSE found[n - 1]
    IN found[Len(s)]

\* A full-day event of the calendar overrules everything.
Overrules(o) == o.type = "fully" /\ o.source = "event calendar"

\* Mutant: the loop goes on after an overruling event.
AddAlways(answer, o) ==
    [events |-> IF Overrules(o) THEN <<o>> ELSE Append(answer.events, o),
     type   |-> IF o.type = "fully" THEN "fully" ELSE answer.type,
     source |-> IF o.source = "event calendar" THEN o.source ELSE answer.source,
     done   |-> FALSE]

\* One turn of the loop over the day's events.
AddEvent(answer, o) ==
    IF answer.done THEN answer
    ELSE [events |-> IF Overrules(o) THEN <<o>> ELSE Append(answer.events, o),
          type   |-> IF o.type = "fully" THEN "fully" ELSE answer.type,
          source |-> IF o.source = "event calendar" THEN o.source ELSE answer.source,
          done   |-> Overrules(o)]

GetOccupancy(d) ==
    LET start(type) == [events |-> <<>>, type |-> type, source |-> "weekly plan", done |-> FALSE]
        found == OfDay(week \o events, d)
    IN IF found = <<>> THEN start("none")
       ELSE FoldLeft(AddEvent, start("partially"), SortedByBegin(found))

-------------------------------------------------------------------------------
(* _run_get_latest_occupancy                                               *)

OccupancyInit ==
    /\ day = 0
    /\ week = <<>>
    /\ events = <<>>
    /\ lastUpdated = 0
    /\ error = FALSE
    /\ refresh = AtRest
    /\ round = 0
    /\ shown = [plan |-> <<>>, began |-> 0, ended |-> 0, week |-> 0, events |-> 0]

\* Both pages have been fetched; from here on the service's write lock is held.
Fetch ==
    /\ refresh.step = "rest"
    /\ round < MaxRound
    /\ round' = round + 1
    /\ \E p \in Plans, c \in Calendars :
          refresh' = [step |-> "plan", plan |-> p, calendar |-> c, parsed |-> <<>>, began |-> day, listed |-> <<>>]
    /\ UNCHANGED <<day, service, shown>>

Goto(step) == refresh' = [refresh EXCEPT !.step = step]

Remaining == Len(refresh.plan) - Len(refresh.parsed)

IsSkipped(row) == row.name = "" \/ row.place = "none"

\* The next row; one without an event or a place is skipped: it comes off the
\* page, so that the parsed rows are the first of what is left of it.
ParseNext ==
    LET i == Len(refresh.parsed) + 1
        row == refresh.plan[i]
    IN /\ refresh.step = "plan"
       /\ Remaining > 0
       /\ refresh' = IF IsSkipped(row)
                     THEN [refresh EXCEPT !.plan = RemoveAt(@, i)]
                     ELSE [refresh EXCEPT !.parsed = Append(@, WeeklyOccupancy(row, day))]
       /\ UNCHANGED <<day, service, round, shown>>

StoreWeek ==
    /\ refresh.step = "plan"
    /\ Remaining = 0
    /\ Len(refresh.parsed) >= Year \/ Len(refresh.parsed) >= MinEvents
    /\ week' = Extended(refresh.parsed)
    /\ Goto("calendar")
    /\ shown' = [shown EXCEPT !.plan = refresh.plan, !.began = refresh.began, !.ended = day, !.week = round]
    /\ UNCHANGED <<day, events, lastUpdated, error, round>>

ParseEvent ==
    /\ refresh.step = "calendar"
    /\ Len(refresh.listed) < Len(refresh.calendar)
    /\ refresh' = [refresh EXCEPT !.listed =
                      Append(@, CalendarOccupancy(refresh.calendar[Len(@) + 1], day))]
    /\ UNCHANGED <<day, service, round, shown>>

StoreEvents ==
    /\ refresh.step = "calendar"
    /\ Len(refresh.listed) = Len(refresh.calendar)
    /\ events' = refresh.listed
    /\ Goto("stamp")
    /\ shown' = [shown EXCEPT !.events = round]
    /\ UNCHANGED <<day, week, lastUpdated, error, round>>

Stamp ==
    /\ refresh.step = "stamp"
    /\ lastUpdated' = day
    /\ error' = FALSE
    /\ refresh' = AtRest
    /\ UNCHANGED <<day, week, events, round, shown>>

\* The site does not answer, a page does not look as expected, a date does not
\* parse, or the plan has too few events; the lock is given up.
Raises ==
    /\ refresh.step \in {"rest", "plan", "calendar"}
    /\ refresh' = [AtRest EXCEPT !.step = "failed"]
    /\ UNCHANGED <<day, service, round, shown>>

\* Mutant: the error of a poll that failed is only logged.
LogError ==
    /\ refresh.step = "failed"
    /\ refresh' = AtRest
    /\ UNCHANGED <<day, service, round, shown>>

RecordError ==
    /\ refresh.step = "failed"
    /\ error' = TRUE
    /\ refresh' = AtRest
    /\ UNCHANGED <<day, week, events, lastUpdated, round, shown>>

Midnight ==
    /\ day < MaxDay
    /\ day' = day + 1
    /\ UNCHANGED <<service, refresh, round, shown>>

Poll == Fetch \/ ParseNext \/ StoreWeek \/ ParseEvent \/ StoreEvents \/ Stamp \/ Raises \/ RecordError

OccupancyNext == Poll \/ Midnight

OccupancySpec == OccupancyInit /\ [][OccupancyNext]_occupancyVars

-------------------------------------------------------------------------------
(* Properties                                                              *)

Steps == {"rest", "plan", "calendar", "stamp", "failed"}
Types == {"none", "partially", "fully"}

\* What is listed of the weekly plan, and of the calendar.
Weekly == [date : Nat, from : Hours, type : Types \ {"none"}, source : {"weekly plan"}, name : STRING]
Special == [date : Int, from : Hours, type : Types, source : {"event calendar"}, name : STRING]

Days == 0..MaxDay
Rounds == 0..MaxRound

\* Type invariant.
OccupancyTypeOK ==
    /\ day \in Days /\ lastUpdated \in Days
    /\ week \in Seq(Weekly) /\ events \in Seq(Special)
    /\ error \in BOOLEAN
    /\ refresh \in [step : Steps, plan : Seq(PlanRows), calendar : Seq(CalendarRows),
                    parsed : Seq(Weekly), began : Days, listed : Seq(Special)]
    /\ round \in Rounds
    /\ shown \in [plan : Seq(PlanRows), began : Days, ended : Days, week : Rounds, events : Rounds]

\* A request can have the read lock.
Readable == refresh.step \in {"rest", "failed"}

\* The rows of a plan, each parsed on a day of its own.
ParsedOn(plan, on) == [i \in 1..Len(plan) |-> WeeklyOccupancy(plan[i], on[i])]

\* A plan with as many rows as a year has days is not repeated.
Repeated(plan) == IF Len(plan) >= Year THEN 1 ELSE Weeks

\* The first day that the list of a plan whose parsing began on that day may not cover.
End(plan, began) == began + WeekLength * Repeated(plan)

\* The list has exactly the events for a day that the plan has for its weekday.
Lists(list, plan, d) ==
    LET due == {i \in DOMAIN plan : plan[i].weekday = d % WeekLength}
        listed == {i \in DOMAIN list : list[i].date = d}
    IN /\ {list[i].name : i \in listed} = {plan[i].name : i \in due}
       /\ Cardinality(listed) = Cardinality(due)

\* No row of the plan names another day in its time.
NoneMoved(plan) == \A i \in DOMAIN plan : plan[i].later = 0

\* From the day on which its parsing ended, and to the end of the time that began
\* with the day on which it began (a year, or a week if the plan is not repeated),
\* each day has exactly the events that the plan has for its weekday: midnight
\* between two rows, on which the same weekday means another date, neither loses
\* an event nor doubles one.  (A row whose time names another day is on that day.)
PlanIsRight ==
    Readable /\ shown.week > 0 /\ NoneMoved(shown.plan) =>
        \A d \in shown.ended..(End(shown.plan, shown.began) - 1) : Lists(week, shown.plan, d)

\* What the documentation of get_occupancy says of its answer: the type is FULLY if
\* any event of the day is, the source is the calendar if any event comes from it;
\* the events are those of the day in their order, or the first that overrules them.
AnswerIsRight ==
    Readable =>
        \A d \in 0..(MaxDay + WeekLength) :
            LET answer == GetOccupancy(d)
                found == OfDay(week \o events, d)
                overruling == {o \in ToSet(found) : Overrules(o)}
            IN /\ answer.type = IF found = <<>> THEN "none"
                                ELSE IF \E o \in ToSet(found) : o.type = "fully" THEN "fully" ELSE "partially"
               /\ answer.source = "event calendar" <=> \E o \in ToSet(found) : o.source = "event calendar"
               /\ IF overruling = {}
                  THEN /\ ToSet(answer.events) = ToSet(found) /\ Len(answer.events) = Len(found)
                       /\ IsSorted(answer.events, LAMBDA o, p : ~EarlierDay(p, o))
                  ELSE /\ Len(answer.events) = 1 /\ answer.events[1] \in overruling
                       /\ \A o \in overruling : ~EarlierDay(o, answer.events[1])

\* The two lists may come from different refreshes, when the calendar of the later
\* one failed; a request that is shown no error has both from one refresh, except
\* in the moment before a failure is recorded.
ErrorIsShown ==
    /\ shown.events <= shown.week
    /\ refresh.step = "rest" /\ ~error => shown.week = shown.events /\ shown.week = round

-------------------------------------------------------------------------------
(* Why they hold                                                           *)

\* What the poll has parsed so far is the beginning of the plan.
ParsedSoFar ==
    refresh.step = "plan" =>
        /\ refresh.began <= day
        /\ Len(refresh.parsed) <= Len(refresh.plan)
        /\ \A i \in 1..Len(refresh.parsed) :
              \E t \in refresh.began..day : refresh.parsed[i] = WeeklyOccupancy(refresh.plan[i], t)

\* The list of the week is an extension of its plan, parsed within the days
\* on which parsing began and ended.
WeekIsParsed ==
    shown.week > 0 =>
        /\ shown.began <= shown.ended
        /\ \E on \in [1..Len(shown.plan) -> shown.began..shown.ended] :
              /\ ParsedOn(shown.plan, on) \in Seq(Weekly)
              /\ week = Extended(ParsedOn(shown.plan, on))

\* Which refreshes the lists are from while one is under way.
ListsSoFar ==
    /\ shown.week <= round
    /\ refresh.step \in {"calendar", "stamp"} => shown.week = round
    /\ refresh.step = "stamp" => shown.events = round

\* All together: an inductive invariant.
OccupancyInv == OccupancyTypeOK /\ ErrorIsShown /\ ListsSoFar /\ ParsedSoFar /\ WeekIsParsed
===============================================================================
