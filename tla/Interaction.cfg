\* Two turns, one halt, one call at a time; an utterance takes one loud frame
\* to open, one quiet frame to close, and two loud ones to count.
SPECIFICATION Spec
CONSTANTS
    None = None
    Halter = Halter
    Autonomy = Autonomy
    StartTrigger = 1
    EndSilence = 1
    PreRoll = 0
    MinSpeech = 2
    MaxUtterance = 3
    MaxTurns = 2
    MaxHalts = 1
    MaxObservations = 1
    MaxActiveCalls = 1
INVARIANT HaltIsFinal
PROPERTY StaleTurnNeverActs
PROPERTY IdleOnlyInLastingQuiet
PROPERTY JobsEnd
