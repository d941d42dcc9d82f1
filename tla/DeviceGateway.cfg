\* Two devices, one of which may fail to go neutral; two sessions, tokens that
\* can be reused, overtaken and refused, and frames that can be repeated.
SPECIFICATION Spec
CONSTANTS
    Resource = {pose, voice}
    Faulty = {voice}
    Session = {s1, s2}
    Action = {a1}
    Token = {0, 1, 2}
    Sequence = {0, 1}
    TTL = {1}
    Horizon = 1
    None = None
SYMMETRY Symmetry
INVARIANT OutputIsAccountedFor
PROPERTY Fenced
