\* Two clients, two starts of one service, one change of the profile, two kills.
SPECIFICATION Spec
CONSTANTS
    c1 = c1
    c2 = c2
    Nobody = Nobody
    Client = {c1, c2}
    MaxStarts = 2
    MaxCommits = 1
    MaxKills = 2
INVARIANT ServiceRunsOnce
INVARIANT StoppedIsStopped
INVARIANT RunsTheProfile
PROPERTY WorkerObeys
