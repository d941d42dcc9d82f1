\* Three requests for the voice, whose output calls may fail, and one for the
\* pose.
SPECIFICATION Spec
CONSTANTS
    pose = pose
    voice = voice
    v1 = v1
    v2 = v2
    v3 = v3
    p1 = p1
    None = None
    Resource = {pose, voice}
    Action = {v1, v2, v3, p1}
    ResourceOf <- MCResourceOf
    Lossy = {voice}
INVARIANT SupervisorIsSound
PROPERTY OneNewestOwner
