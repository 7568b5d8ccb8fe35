SPECIFICATION OccupancySpec
CONSTANTS
    WeekLength = 3
    Year = 7
    NewYear = 3
    MinEvents = 3
    LateHour = 19
    Plans <- MCPlans
    Calendars <- MCCalendars
    MaxDay = 4
    MaxRound = 3
INVARIANTS
    PlanIsRight
    AnswerIsRight
    OccupancyInv
