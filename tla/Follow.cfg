\* Two perception processes and two packets of each; time for a delay, one
\* cycle of the search and the beginning of the next.  In the process that sends
\* them two people, two places, and a body given up when missed twice.
SPECIFICATION BothSpec
CONSTANTS
    None = None
    Session = {p1, p2}
    MaxSequence = 1
    MaxNow = 5
    Takeover = 1
    Stale = 1
    Delay = 1
    Sweep = 1
    RelocateTurn = 1
    RelocateForward = 1
    PulseInterval = 1
    Person = {player, other}
    Sought = player
    Nobody = Nobody
    player = player
    Place = {left, right}
    Misses = 2
SYMMETRY Symmetry
INVARIANT SearchIsEarned
INVARIANT StopStandsStill
PROPERTY ShowsWhomItFollows
CHECK_DEADLOCK FALSE
