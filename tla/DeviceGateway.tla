---------------------------- MODULE DeviceGateway ----------------------------
(***************************************************************************)
(* vrc_ardy_agent/device_gateway.py: the one place that writes the VRChat  *)
(* devices.  Every public method runs under the gateway's lock, so each is *)
(* one action.  Callers are the bridge client's thread, the calibration    *)
(* service and its watchdog thread; they may pass any argument, so inputs  *)
(* range over whole sets.  A call that is refused changes only the drop    *)
(* counters and the heartbeat, which no decision reads: it is a stuttering *)
(* step, and the actions below are the calls that are not refused.         *)
(*                                                                         *)
(* A clock is read before the lock is taken, so the times a call works     *)
(* with are only bounded by the present.  Session ids are uuid4 on both    *)
(* sides (mac_bridge_server.py:85, calibration_session.py:55): a new       *)
(* session never reuses an id.                                             *)
(***************************************************************************)
EXTENDS Integers

CONSTANTS
    Resource,   \* ControlResource
    Session,    \* session ids
    Action,     \* action ids
    Faulty,     \* the resources whose sink may fail to go neutral
    Token,      \* lease tokens a caller may present
    Sequence,   \* sequence numbers an envelope may carry
    TTL,        \* lifetimes an envelope may carry, in clock units
    Horizon,    \* bound on the clock
    None        \* Python's None

Lease == [session : Session, token : Token, action : Action]
Frame == [lease : Lease, sequence : Int]

ASSUME GatewayAssumption ==
    /\ Faulty \subseteq Resource
    /\ Token \subseteq Int
    /\ Sequence \subseteq Int
    /\ TTL \subseteq Int
    /\ Horizon \in Nat
    /\ None \notin Session \cup Action \cup Int \cup Lease \cup Frame

VARIABLES
    session,    \* _session_id
    exclusive,  \* _exclusive_session
    resources,  \* _resources: one _ResourceState per resource
    device,     \* what the sink last did to the device: None is neutral
    now,        \* the monotonic clock
    opened,     \* history: the session ids used so far
    revoked     \* history: the leases that have lost each resource

vars == <<session, exclusive, resources, device, now, opened, revoked>>

ResourceState ==
    [token : Nat, action : Action \cup {None},
     sequence : Int, expires : Int \cup {None}]

\* Every variable has the type the code gives it.
TypeOK ==
    /\ session \in Session \cup {None}
    /\ exclusive \in Session \cup {None}
    /\ resources \in [Resource -> ResourceState]
    /\ device \in [Resource -> Frame \cup {None}]
    /\ now \in Nat
    /\ opened \subseteq Session
    /\ revoked \in [Resource -> SUBSET Lease]

----------------------------------------------------------------------------
\* Faulty variants of the definitions, each ahead of the one it would replace,
\* are named after it: a run that fails with one shows what its property is for.

\* _ResourceState's defaults
NewResourceState == [token |-> 0, action |-> None, sequence |-> -1, expires |-> None]

\* A resource whose owner is revoked keeps its token and its sequence number.
Disowned(state) ==
    [token |-> state.token, action |-> None, sequence |-> state.sequence, expires |-> None]

\* The lease a resource is held under.
Owner(r) ==
    IF session # None /\ resources[r].action # None
    THEN [session |-> session, token |-> resources[r].token,
          action |-> resources[r].action]
    ELSE None

Writer(r) == IF device[r] = None THEN None ELSE device[r].lease

\* History: the owners of the resources in R have lost them.
Retire(R) ==
    revoked' = [r \in Resource |->
                  IF r \in R THEN revoked[r] \cup ({Owner(r)} \ {None})
                             ELSE revoked[r]]

\* _safe_neutralize_locked on the resources in R; the sink raises for those in
\* failed, and their devices keep showing what they showed.
SafeNeutralize(R, failed) ==
    device' = [r \in Resource |-> IF r \in R \ failed THEN None ELSE device[r]]

Init ==
    /\ session = None
    /\ exclusive = None
    /\ resources = [r \in Resource |-> NewResourceState]
    /\ device = [r \in Resource |-> None]
    /\ now = 0
    /\ opened = {}
    /\ revoked = [r \in Resource |-> {}]

----------------------------------------------------------------------------
\* open_session once it has decided to replace the session
StartSession(s, failed) ==
    /\ s \notin opened
    /\ SafeNeutralize(Resource, failed)
    /\ session' = s
    /\ resources' = [r \in Resource |-> NewResourceState]
    /\ opened' = opened \cup {s}
    /\ Retire(Resource)
    /\ UNCHANGED now

\* Faulty: forgets that a calibration may be running.
OpenSessionAnyway(s, failed) ==
    /\ session # s
    /\ StartSession(s, failed)
    /\ UNCHANGED exclusive

OpenSession(s, failed) ==
    /\ exclusive \in {None, s}
    /\ session # s
    /\ StartSession(s, failed)
    /\ UNCHANGED exclusive

ClaimExclusiveSession(s, failed) ==
    /\ session = None
    /\ exclusive \in {None, s}
    /\ StartSession(s, failed)
    /\ exclusive' = s

ReleaseExclusiveSession(s) ==
    /\ exclusive = s
    /\ session = s
    /\ \A r \in Resource : resources[r].action = None
    /\ exclusive' = None
    /\ session' = None
    /\ UNCHANGED <<resources, device, now, opened, revoked>>

CloseSession(s, failed) ==
    /\ s = session
    /\ SafeNeutralize(Resource, failed)
    /\ resources' = [r \in Resource |-> Disowned(resources[r])]
    /\ session' = None
    /\ exclusive' = None
    /\ Retire(Resource)
    /\ UNCHANGED <<now, opened>>

----------------------------------------------------------------------------
\* Faulty: grants the present token once more.
AuthorizeVerdictReissued(s, r, t, a) ==
    IF s # session THEN "session"
    ELSE IF a = None \/ t <= 0 THEN "invalid"
    ELSE IF t < resources[r].token THEN "lease"
    ELSE "accepted"

\* What authorize answers
AuthorizeVerdict(s, r, t, a) ==
    IF s # session THEN "session"
    ELSE IF a = None \/ t <= 0 THEN "invalid"
    ELSE IF t = resources[r].token /\ a = resources[r].action THEN "again"
    ELSE IF t <= resources[r].token THEN "lease"
    ELSE "accepted"

\* "again" is accepted too and changes nothing.
Authorize(s, r, t, a) ==
    /\ AuthorizeVerdict(s, r, t, a) = "accepted"
    /\ resources' = [resources EXCEPT ![r] =
           [token |-> t, action |-> a, sequence |-> -1, expires |-> None]]
    /\ Retire({r})
    /\ UNCHANGED <<session, exclusive, device, now, opened>>

\* What neutralize answers, the sink's own failure aside
NeutralizeVerdict(s, r, t) ==
    IF s # session THEN "session"
    ELSE IF t < resources[r].token THEN "lease"
    ELSE "accepted"

\* A token equal to the current one revokes too (calibration_session.py:113).
Neutralize(s, r, t, failed) ==
    /\ NeutralizeVerdict(s, r, t) = "accepted"
    /\ resources' = [resources EXCEPT ![r] =
           [token |-> t, action |-> None, expires |-> None,
            sequence |-> IF t > @.token THEN -1 ELSE @.sequence]]
    /\ Retire({r})
    /\ SafeNeutralize({r}, failed)
    /\ UNCHANGED <<session, exclusive, now, opened>>

\* Faulty: takes frames of any lease.
EnvelopeVerdictUnfenced(s, r, t, a, q, ttl, received, at) ==
    IF s # session THEN "session"
    ELSE IF a = None \/ q < 0 \/ ttl <= 0 \/ at < received THEN "invalid"
    ELSE IF q <= resources[r].sequence THEN "sequence"
    ELSE IF at > received + ttl THEN "expired"
    ELSE "accepted"

\* apply_envelope's checks in their order; received and at are the caller's
\* two readings of the clock
EnvelopeVerdict(s, r, t, a, q, ttl, received, at) ==
    IF s # session THEN "session"
    ELSE IF a = None \/ q < 0 \/ ttl <= 0 \/ at < received THEN "invalid"
    ELSE IF t # resources[r].token \/ a # resources[r].action THEN "lease"
    ELSE IF q <= resources[r].sequence THEN "sequence"
    ELSE IF at > received + ttl THEN "expired"
    ELSE "accepted"

\* A sink that raises leaves everything as it was, so that is a refusal too.
ApplyEnvelope(s, r, t, a, q, ttl, received, at) ==
    /\ EnvelopeVerdict(s, r, t, a, q, ttl, received, at) = "accepted"
    /\ device' = [device EXCEPT ![r] =
           [lease |-> [session |-> s, token |-> t, action |-> a], sequence |-> q]]
    /\ resources' = [resources EXCEPT ![r] =
           [token |-> @.token, action |-> @.action,
            sequence |-> q, expires |-> received + ttl]]
    /\ UNCHANGED <<session, exclusive, now, opened, revoked>>

\* The resources poll_expired finds overdue at time at.
Overdue(at) ==
    {r \in Resource : /\ resources[r].action # None
                      /\ resources[r].expires # None
                      /\ at >= resources[r].expires}

\* Faulty: revokes without going neutral.
PollExpiredSilently(at, failed) ==
    /\ resources' = [r \in Resource |->
                       IF r \in Overdue(at) THEN Disowned(resources[r])
                                           ELSE resources[r]]
    /\ Retire(Overdue(at))
    /\ UNCHANGED <<session, exclusive, device, now, opened>>

PollExpired(at, failed) ==
    /\ resources' = [r \in Resource |->
                       IF r \in Overdue(at) THEN Disowned(resources[r])
                                           ELSE resources[r]]
    /\ SafeNeutralize(Overdue(at), failed)
    /\ Retire(Overdue(at))
    /\ UNCHANGED <<session, exclusive, now, opened>>

Tick ==
    /\ now < Horizon
    /\ now' = now + 1
    /\ UNCHANGED <<session, exclusive, resources, device, opened, revoked>>

Next ==
    \/ \E s \in Session, failed \in SUBSET Faulty :
         \/ OpenSession(s, failed)
         \/ ClaimExclusiveSession(s, failed)
         \/ CloseSession(s, failed)
    \/ \E s \in Session : ReleaseExclusiveSession(s)
    \/ \E s \in Session, r \in Resource, t \in Token, a \in Action \cup {None} :
         Authorize(s, r, t, a)
    \/ \E s \in Session, r \in Resource, t \in Token, failed \in SUBSET Faulty :
         Neutralize(s, r, t, failed)
    \/ \E s \in Session, r \in Resource, t \in Token, a \in Action \cup {None},
          q \in Sequence, ttl \in TTL, received \in 0..now, at \in 0..now :
         ApplyEnvelope(s, r, t, a, q, ttl, received, at)
    \/ \E at \in 0..now, failed \in SUBSET Faulty : PollExpired(at, failed)
    \/ Tick

Spec == Init /\ [][Next]_vars

----------------------------------------------------------------------------
\* A working device shows something only while a lease owns it, and what it
\* shows came from the open session under a lease no newer than the owner's:
\* closing, replacing, expiring and neutralizing all leave the device neutral
\* (device_gateway.py:105, 134, 187, 261).
UnownedIsNeutral ==
    \A r \in Resource \ Faulty :
        device[r] # None =>
            /\ Owner(r) # None
            /\ Writer(r).session = session
            /\ Writer(r).token <= resources[r].token

\* Output of the present owner always has a deadline the watchdog polls
\* (poll_expired skips a resource without one), and its sequence number is
\* the one later frames are compared with.
WatchdogCoversOwner ==
    \A r \in Resource :
        Owner(r) # None /\ Writer(r) = Owner(r) =>
            /\ resources[r].expires # None
            /\ device[r].sequence = resources[r].sequence

\* Property: what a device shows ends: it is a lease's of the open session, and its
\* owner's output has a deadline that the watchdog polls; whatever order sessions,
\* leases, frames and the watchdog come in, and if another device fails.
OutputIsAccountedFor == UnownedIsNeutral /\ WatchdogCoversOwner

\* A device never goes back to an earlier frame of the lease it shows, however
\* frames were queued or repeated (device_gateway.py:222).
FramesInOrder ==
    [][\A r \in Resource :
          /\ device[r] # None
          /\ device'[r] \notin {None, device[r]}
          /\ Writer(r)' = Writer(r)
          => device'[r].sequence > device[r].sequence]_vars

\* No agent session displaces a calibration: its session ends only by its own
\* release or close, to no session, with every working device neutral and the
\* exclusive claim given up (claim_exclusive_session's contract, lines 112-128).
CalibrationNotDisplaced ==
    [][exclusive # None /\ (session' # session \/ exclusive' # exclusive) =>
          /\ exclusive = session
          /\ session' = None
          /\ exclusive' = None
          /\ \A r \in Resource \ Faulty : device'[r] = None]_vars

\* The gateway implements FencedOutput: a lease that lost a resource never owns
\* or writes it again, whatever order messages come in (lines 218-221, 257-258).
Abstract == INSTANCE FencedOutput WITH
    Device <- Resource, Grant <- Lease, Nobody <- None,
    holder <- [r \in Resource |-> Owner(r)],
    writer <- [r \in Resource |-> Writer(r)],
    spent <- revoked

Fenced == Abstract!Spec
=============================================================================
