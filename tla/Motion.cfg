\* Two cues, one halt or stop, one output session and its loss.
SPECIFICATION Spec
CONSTANTS
    None = None
    CueKind = {"ardy", "finite"}
    MaxCues = 2
    MaxHalts = 1
    MaxSessions = 1
INVARIANT HaltSilences
INVARIANT ModelHasOneUser
PROPERTY CueEnds
CHECK_DEADLOCK FALSE
