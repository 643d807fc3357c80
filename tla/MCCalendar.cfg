\* Six walks of a little more than four years.
SPECIFICATION WalkSpec
CONSTANTS
    Starts <- SomeStarts
    Times <- SomeTimes
    MaxDays = 1500
    MaxInt = 2147483647
INVARIANT DaysCounted
PROPERTY LaterReadsLater
CHECK_DEADLOCK FALSE
