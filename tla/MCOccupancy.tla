------------------------------ MODULE MCOccupancy ------------------------------
(* A week of three days; plans that are out of order, have a row without a place,   *)
(* one without a name, one whose time names a later day, or too few rows; calendars *)
(* with an event that takes everything all day, between others, with two of them,   *)
(* and with one that ends after midnight and has no year.                           *)
EXTENDS Occupancy

Row(name, weekday, from, to, place) ==
    [name |-> name, weekday |-> weekday, later |-> 0, from |-> from, to |-> to, place |-> place]

Event(name, date, from, to, place) ==
    [name |-> name, date |-> date, dated |-> TRUE, later |-> 0, from |-> from, to |-> to, place |-> place]

Later(row, days) == [row EXCEPT !.later = days]
WithoutYear(row) == [row EXCEPT !.dated = FALSE]

MCPlans == {
    <<Row("beach", 0, 18, 20, "field"), Row("volley", 1, 18, 22, "other"), Row("kids", 2, 15, 17, "other")>>,
    <<Row("late", 2, 20, 22, "field"), Row("open", 1, 9, 12, "none"), Row("", 0, 8, 9, "field"),
      Row("early", 2, 8, 10, "field"), Row("camp", 0, 9, 20, "other")>>,
    <<Row("beach", 0, 18, 20, "field"), Later(Row("cup", 1, 10, 12, "other"), 1), Row("kids", 2, 15, 17, "other")>>,
    <<Row("alone", 1, 9, 12, "field")>>}

MCCalendars == {
    <<>>,
    <<Event("feast", 2, 12, 23, "everything"), Event("match", 2, 10, 12, "field"), Event("talk", 2, 14, 15, "field")>>,
    <<Event("cup", 1, 14, 22, "everything"), Event("cup2", 1, 9, 22, "everything"), Event("idle", 3, 9, 12, "none"),
      Event("matinee", 3, 9, 12, "everything"), WithoutYear(Event("ball", 0, 20, 1, "everything"))>>}
===============================================================================
