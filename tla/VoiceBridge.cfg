\* Two actions, two connections, one halt, a playback thread that may hang.
SPECIFICATION Spec
CONSTANTS
    Action = {a1, a2}
    Session = {s1, s2}
    None = None
    MayHang = TRUE
    MaxHalts = 1
    Horizon = 0
SYMMETRY Symmetry
\* Every session id may be used up.
CHECK_DEADLOCK FALSE
INVARIANT AcknowledgedFenceSilences
INVARIANT AcceptedSpeechFindsPlayerFree
INVARIANT CompletedWasPlayed
INVARIANT IdleBridgeAgrees
