\* One VRChat, two sessions on it, two screenshots; and, for the search, two starts
\* of VRChat and two lines written to each log.
SPECIFICATION BothSpec
CONSTANTS
    Nothing = Nothing
    MaxGames = 1
    MaxAttempts = 2
    MaxAsks = 2
    Pid = {"p1", "p2"}
    Account = {"a", "b"}
    Nobody = "nobody"
    Selected = "a"
    Tolerance = 2
    MaxFiles = 2
    Lag = 1
    Spacing = 2
    MaxClock = 3
    MaxWrites = 2
INVARIANT SessionLeavesNothing
INVARIANT SensesAreTheAttached
INVARIANT ScreenshotIsFresh
PROPERTY DeadSensorIsReplaced
PROPERTY FindsTheSelected
\* All sessions, or all starts, may be used up.
CHECK_DEADLOCK FALSE
