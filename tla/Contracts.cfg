\* Chunks of up to four bytes; three heartbeats and chunks per connection; a
\* peer of this version and one of the version before; two images per turn;
\* one message from the Mac; a hand, a foot, an axis and two face parameters; two
\* set-ups by two clients, one of whom, or of their workers, may be killed, and one
\* edit of the files.
SPECIFICATION Spec
CONSTANTS
    None = "null"
    MaxChunk = 4
    Version = 2
    Peers = {1, 2}
    MaxSequence = 2
    Clip = "clip"
    Loop = "loop"
    MaxObservations = 2
    MaxMessages = 1
    Hand = {"left_hand"}
    Body = {"left_foot"}
    Axis = {"Vertical"}
    Face = {"smile", "yawn"}
    Caller = {"c1", "c2"}
    NoCaller = "none"
    MaxJobs = 2
    MaxJobKills = 1
    MaxEdits = 1
\* A companion of another version gets nowhere; a turn, a set-up and a program end.
CHECK_DEADLOCK FALSE
INVARIANT WhatIsSentIsTaken
INVARIANT StartsWhatItPlanned
INVARIANT EndsAtRest
PROPERTY GoneIsQuiet
INVARIANT OutputIsAsAsked
INVARIANT OneTaskAtATime
INVARIANT CompleteIsVerified
