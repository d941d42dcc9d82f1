\* Two actions on one connection that may break, and a watchdog that may find
\* the speech overdue.
SPECIFICATION FairSpec
CONSTANTS
    Action = {a1, a2}
    Session = {s1}
    None = None
    MayHang = FALSE
    MaxHalts = 0
    Horizon = 1
\* The connection is not replaced: everything may come to rest.
CHECK_DEADLOCK FALSE
INVARIANT SpeechIsOwned
PROPERTY EveryActionEnds
PROPERTY VoiceHasOneOwner
