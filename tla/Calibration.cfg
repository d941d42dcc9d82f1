\* Two calibrations, an agent, three calls and a VRChat that comes and goes.
SPECIFICATION FairSpec
CONSTANTS
    c1 = c1
    c2 = c2
    s1 = s1
    Calibration = {c1, c2}
    Agent = {s1}
    AgentAction = act
    None = None
    MaxCalls = 3
    MaxEpoch = 1
\* The service may be closed and everything used up.
CHECK_DEADLOCK FALSE
INVARIANT ShownAsRecorded
INVARIANT AgentFindsRestored
PROPERTY CalibrationEnds
