\* Two actions, two connections, one halt.
SPECIFICATION Spec
CONSTANTS
    Action = {a1, a2}
    Session = {s1, s2}
    None = None
    MayHang = FALSE
    MaxHalts = 1
    Horizon = 0
SYMMETRY Symmetry
CHECK_DEADLOCK FALSE
PROPERTY LateSpeechIsDiscarded
