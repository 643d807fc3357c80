\* A slack of two seconds and a default of three; limits at 8, 10 and 12.
\* The one invoke ends.
SPECIFICATION Spec
CONSTANTS
    Bounds <- SomeBounds
    Default = 3
    Slack = 2
    ClientTimeout = 2
    Word = 12
    TimerLimit = 8
    DurationLimit = 10
    MaxTime = 12
INVARIANTS AbortedMidWaitOnlyIf AgentsWaitAlike HeldOnce
CHECK_DEADLOCK FALSE
