------------------------- MODULE DeviceGatewayProofs -------------------------
(***************************************************************************)
(* Proofs about the two ends of the bridge on Windows: DeviceGateway, for  *)
(* every set of resources, sessions, actions, tokens, sequence numbers and *)
(* lifetimes; and Sensors, for any number of VRChats, sessions, helpers    *)
(* and screenshots; and about Identity, for any number of clients, logs    *)
(* and accounts.                                                           *)
(***************************************************************************)
EXTENDS DeviceGateway, Sensors, Identity, FiniteSetTheorems, TLAPS

USE GatewayAssumption

\* A granted token is one a caller presented.
GrantedToken ==
    \A r \in Resource : resources[r].action # None => resources[r].token \in Token

TypeInv == TypeOK /\ GrantedToken

----------------------------------------------------------------------------
\* An owner is a lease: Owner never invents a token or an action.
LEMMA OwnerType ==
    ASSUME TypeInv
    PROVE  /\ \A r \in Resource : Owner(r) \in Lease \cup {None}
           /\ \A r \in Resource : Owner(r) # None <=> session # None /\ resources[r].action # None
<1>1. ASSUME NEW r \in Resource, session # None, resources[r].action # None
      PROVE  Owner(r) \in Lease /\ Owner(r) # None
  <2>1. /\ session \in Session
        /\ resources[r].action \in Action
        /\ resources[r].token \in Token
    BY <1>1 DEF TypeInv, TypeOK, ResourceState, GrantedToken
  <2>2. Owner(r) = [session |-> session, token |-> resources[r].token,
                    action |-> resources[r].action]
    BY <1>1 DEF Owner
  <2> QED
    BY <2>1, <2>2 DEF Lease
<1> QED
  BY <1>1 DEF Owner

\* Retire keeps the history of lost leases well typed.
LEMMA RetireType ==
    ASSUME TypeInv, NEW R, Retire(R)
    PROVE  revoked' \in [Resource -> SUBSET Lease]
  BY OwnerType DEF Retire, TypeInv, TypeOK

\* The checks an accepted call has passed.
LEMMA AuthorizeAccepted ==
    ASSUME NEW s, NEW r, NEW t \in Int, NEW a, AuthorizeVerdict(s, r, t, a) = "accepted"
    PROVE  s = session /\ a # None /\ t > 0 /\ ~(t <= resources[r].token)
<1>1. CASE s # session
  BY <1>1 DEF AuthorizeVerdict
<1>2. CASE s = session /\ (a = None \/ t <= 0)
  BY <1>2 DEF AuthorizeVerdict
<1>3. CASE s = session /\ a # None /\ ~(t <= 0) /\ t <= resources[r].token
  BY <1>3 DEF AuthorizeVerdict
<1> QED
  BY <1>1, <1>2, <1>3

\* The same for a frame.
LEMMA EnvelopeAccepted ==
    ASSUME NEW s, NEW r, NEW t, NEW a, NEW q \in Int, NEW ttl \in Int,
           NEW received \in Int, NEW at \in Int,
           EnvelopeVerdict(s, r, t, a, q, ttl, received, at) = "accepted"
    PROVE  /\ s = session /\ a # None /\ ttl > 0 /\ q >= 0
           /\ t = resources[r].token /\ a = resources[r].action
           /\ ~(q <= resources[r].sequence)
<1>1. CASE s # session
  BY <1>1 DEF EnvelopeVerdict
<1>2. CASE s = session /\ (a = None \/ q < 0 \/ ttl <= 0 \/ at < received)
  BY <1>2 DEF EnvelopeVerdict
<1>3. CASE /\ s = session /\ ~(a = None \/ q < 0 \/ ttl <= 0 \/ at < received)
           /\ t # resources[r].token \/ a # resources[r].action
  BY <1>3 DEF EnvelopeVerdict
<1>4. CASE /\ s = session /\ ~(a = None \/ q < 0 \/ ttl <= 0 \/ at < received)
           /\ t = resources[r].token /\ a = resources[r].action
           /\ q <= resources[r].sequence
  BY <1>4 DEF EnvelopeVerdict
<1> QED
  BY <1>1, <1>2, <1>3, <1>4

\* A new resource has its type.
LEMMA NewResourceType == NewResourceState \in ResourceState
  BY DEF NewResourceState, ResourceState

\* Each action keeps every variable in its type and every granted token among
\* the tokens callers present.
LEMMA TypeStep == TypeInv /\ [Next]_vars => TypeInv'
<1> SUFFICES ASSUME TypeInv, [Next]_vars PROVE TypeInv'
  OBVIOUS
<1> USE DEF TypeInv, TypeOK, GrantedToken
<1>1. ASSUME NEW s \in Session, NEW failed \in SUBSET Faulty, StartSession(s, failed)
      PROVE  /\ session' \in Session
             /\ resources' \in [Resource -> ResourceState]
             /\ device' \in [Resource -> Frame \cup {None}]
             /\ now' \in Nat
             /\ opened' \subseteq Session
             /\ revoked' \in [Resource -> SUBSET Lease]
             /\ GrantedToken'
  <2>1. revoked' \in [Resource -> SUBSET Lease]
    BY <1>1, RetireType DEF StartSession
  <2>2. \A r \in Resource : resources'[r] = NewResourceState
    BY <1>1 DEF StartSession
  <2> QED
    BY <1>1, <2>1, <2>2, NewResourceType DEF StartSession, SafeNeutralize, NewResourceState
<1>2. ASSUME NEW s \in Session, NEW failed \in SUBSET Faulty, OpenSession(s, failed)
      PROVE  TypeInv'
  BY <1>1, <1>2 DEF OpenSession
<1>3. ASSUME NEW s \in Session, NEW failed \in SUBSET Faulty, ClaimExclusiveSession(s, failed)
      PROVE  TypeInv'
  BY <1>1, <1>3 DEF ClaimExclusiveSession
<1>4. ASSUME NEW s \in Session, NEW failed \in SUBSET Faulty, CloseSession(s, failed)
      PROVE  TypeInv'
  <2>1. revoked' \in [Resource -> SUBSET Lease]
    BY <1>4, RetireType DEF CloseSession
  <2>2. resources' \in [Resource -> ResourceState]
    BY <1>4 DEF CloseSession, ResourceState, Disowned
  <2> QED
    BY <1>4, <2>1, <2>2 DEF CloseSession, SafeNeutralize, Disowned
<1>5. ASSUME NEW s \in Session, ReleaseExclusiveSession(s)
      PROVE  TypeInv'
  BY <1>5 DEF ReleaseExclusiveSession
<1>6. ASSUME NEW s \in Session, NEW r \in Resource, NEW t \in Token,
             NEW a \in Action \cup {None}, Authorize(s, r, t, a)
      PROVE  TypeInv'
  <2>1. a \in Action /\ t \in Nat
    <3>1. t \in Int /\ AuthorizeVerdict(s, r, t, a) = "accepted"
      BY <1>6 DEF Authorize
    <3>2. a # None /\ t > 0
      BY <3>1, AuthorizeAccepted
    <3> QED
      BY <3>1, <3>2
  <2>2. revoked' \in [Resource -> SUBSET Lease]
    BY <1>6, RetireType DEF Authorize
  <2>3. [token |-> t, action |-> a, sequence |-> -1, expires |-> None] \in ResourceState
    BY <2>1 DEF ResourceState
  <2> QED
    BY <1>6, <2>1, <2>2, <2>3 DEF Authorize
<1>7. ASSUME NEW s \in Session, NEW r \in Resource, NEW t \in Token,
             NEW failed \in SUBSET Faulty, Neutralize(s, r, t, failed)
      PROVE  TypeInv'
  <2>1. t \in Nat
    BY <1>7 DEF Neutralize, NeutralizeVerdict, ResourceState
  <2>2. revoked' \in [Resource -> SUBSET Lease]
    BY <1>7, RetireType DEF Neutralize
  <2>3. resources' \in [Resource -> ResourceState]
    BY <1>7, <2>1 DEF Neutralize, ResourceState
  <2> QED
    BY <1>7, <2>2, <2>3 DEF Neutralize, SafeNeutralize
<1>8. ASSUME NEW s \in Session, NEW r \in Resource, NEW t \in Token,
             NEW a \in Action \cup {None}, NEW q \in Sequence, NEW ttl \in TTL,
             NEW received \in 0..now, NEW at \in 0..now,
             ApplyEnvelope(s, r, t, a, q, ttl, received, at)
      PROVE  TypeInv'
  <2>1. a \in Action /\ q \in Int /\ received + ttl \in Int
    BY <1>8, EnvelopeAccepted DEF ApplyEnvelope
  <2>2. resources' \in [Resource -> ResourceState]
    BY <1>8, <2>1 DEF ApplyEnvelope, ResourceState
  <2>3. [lease |-> [session |-> s, token |-> t, action |-> a], sequence |-> q] \in Frame
    BY <2>1 DEF Frame, Lease
  <2> QED
    BY <1>8, <2>2, <2>3 DEF ApplyEnvelope
<1>9. ASSUME NEW at \in 0..now, NEW failed \in SUBSET Faulty, PollExpired(at, failed)
      PROVE  TypeInv'
  <2>1. revoked' \in [Resource -> SUBSET Lease]
    BY <1>9, RetireType DEF PollExpired
  <2>2. resources' \in [Resource -> ResourceState]
    BY <1>9 DEF PollExpired, ResourceState, Disowned
  <2> QED
    BY <1>9, <2>1, <2>2 DEF PollExpired, SafeNeutralize, Disowned
<1>10. CASE Tick
  BY <1>10 DEF Tick
<1>11. CASE UNCHANGED vars
  BY <1>11 DEF vars
<1> QED
  BY <1>2, <1>3, <1>4, <1>5, <1>6, <1>7, <1>8, <1>9, <1>10, <1>11 DEF Next

\* Type correctness of the gateway, and every granted token is a presented one.
THEOREM TypeCorrect == Spec => []TypeOK
<1>1. Init => TypeInv
  BY NewResourceType DEF Init, TypeInv, TypeOK, GrantedToken, NewResourceState
<1> QED
  BY <1>1, TypeStep, PTL DEF Spec, TypeInv

----------------------------------------------------------------------------
(***************************************************************************)
(* The strengthening.  The ids of sessions are never reused, so a lease of *)
(* an earlier session cannot match; within a session the token of a        *)
(* resource only grows, and a lease is granted above it.                   *)
(***************************************************************************)

\* An open session is known to history, and a claim is on the open session.
SessionInv ==
    /\ session # None => session \in opened
    /\ exclusive # None => exclusive = session

\* Whatever a device shows was written under a known session, and under a
\* token no newer than the present one if the session is still open.
WriterInv ==
    \A r \in Resource :
        device[r] # None =>
            /\ Writer(r).session \in opened
            /\ Writer(r).session = session => Writer(r).token <= resources[r].token

\* So was every revoked lease, and it is strictly older than a present owner.
RevokedInv ==
    \A r \in Resource : \A l \in revoked[r] :
        /\ l.session \in opened
        /\ l.session = session =>
              /\ l.token <= resources[r].token
              /\ Owner(r) # None => l.token < resources[r].token

Inv == /\ TypeInv
       /\ SessionInv
       /\ WriterInv
       /\ RevokedInv
       /\ UnownedIsNeutral
       /\ WatchdogCoversOwner

\* The gateway starts in a state of the invariant.
LEMMA InitInv == Init => Inv
  BY NewResourceType DEF Init, Inv, TypeInv, TypeOK, GrantedToken, SessionInv, WriterInv,
     RevokedInv, UnownedIsNeutral, WatchdogCoversOwner, NewResourceState, Owner, Writer

\* A lease in the new history was there before, or is an owner just retired.
LEMMA Retired ==
    ASSUME TypeInv, NEW R, Retire(R), NEW r \in Resource, NEW l \in revoked'[r]
    PROVE  \/ l \in revoked[r]
           \/ /\ session # None
              /\ l.session = session
              /\ l.token = resources[r].token
  BY DEF Retire, Owner, TypeInv, TypeOK

\* Starting a session under a fresh id.
LEMMA StartSessionInv ==
    ASSUME Inv, NEW s \in Session, NEW failed \in SUBSET Faulty,
           StartSession(s, failed), TypeInv', exclusive' \in {None, s}
    PROVE  Inv'
<1> USE DEF Inv
<1>1. /\ session' = s /\ s # None /\ s \notin opened /\ opened' = opened \cup {s}
      /\ \A r \in Resource : Owner(r)' = None
      /\ \A r \in Resource : device'[r] \in {None, device[r]}
      /\ \A r \in Resource \ Faulty : device'[r] = None
      /\ Retire(Resource)
  BY DEF StartSession, SafeNeutralize, NewResourceState, Owner
<1>2. SessionInv'
  BY <1>1 DEF SessionInv
<1>3. WriterInv'
  BY <1>1 DEF WriterInv, Writer
<1>4. RevokedInv'
  BY <1>1, Retired DEF RevokedInv, SessionInv
<1>5. UnownedIsNeutral'
  BY <1>1 DEF UnownedIsNeutral
<1>6. WatchdogCoversOwner'
  BY <1>1 DEF WatchdogCoversOwner
<1> QED
  BY <1>2, <1>3, <1>4, <1>5, <1>6

\* Revoking the owners of the resources in R, each left unowned under a token
\* no older than it had: close_session, neutralize and poll_expired do this.
LEMMA RevokeInv ==
    ASSUME Inv, TypeInv', NEW R \in SUBSET Resource, NEW failed \in SUBSET Faulty,
           Retire(R), SafeNeutralize(R, failed), opened' = opened,
           \/ session' = session /\ exclusive' = exclusive
           \/ R = Resource /\ session' = None /\ exclusive' = None,
           \A r \in R : resources'[r].action = None /\ resources'[r].token >= resources[r].token,
           \A r \in Resource \ R : resources'[r] = resources[r]
    PROVE  Inv'
<1> USE DEF Inv
<1>1. /\ \A r \in R : Owner(r)' = None
      /\ \A r \in Resource \ R : Owner(r)' = Owner(r) /\ device'[r] = device[r]
      /\ \A r \in Resource : device'[r] \in {None, device[r]}
      /\ \A r \in R \ Faulty : device'[r] = None
  BY DEF SafeNeutralize, Owner
<1>2. \A r \in Resource : resources[r].token \in Int /\ resources'[r].token \in Int
                          /\ resources'[r].token >= resources[r].token
  BY DEF TypeInv, TypeOK, ResourceState
<1>3. \A r \in Resource : device[r] # None => Writer(r).token \in Int
  BY DEF TypeInv, TypeOK, Frame, Lease, Writer
<1>4. \A r \in Resource : \A l \in revoked[r] : l.token \in Int
  BY DEF TypeInv, TypeOK, Lease
<1>5. SessionInv'
  BY DEF SessionInv
<1>6. WriterInv'
  <2> SUFFICES ASSUME NEW r \in Resource, device'[r] # None
               PROVE  /\ Writer(r)'.session \in opened'
                      /\ Writer(r)'.session = session' => Writer(r)'.token <= resources'[r].token
    BY DEF WriterInv
  <2>1. Writer(r)' = Writer(r) /\ device[r] # None
    BY <1>1 DEF Writer
  <2>2. Writer(r).session # None
    BY <2>1 DEF TypeInv, TypeOK, Frame, Lease, Writer
  <2> QED
    BY <1>2, <1>3, <2>1, <2>2 DEF WriterInv
<1>7. RevokedInv'
  <2> SUFFICES ASSUME NEW r \in Resource, NEW l \in revoked'[r]
               PROVE  /\ l.session \in opened'
                      /\ l.session = session' =>
                            /\ l.token <= resources'[r].token
                            /\ Owner(r)' # None => l.token < resources'[r].token
    BY DEF RevokedInv
  <2>1. l.session # None
    BY DEF TypeInv, TypeOK, Lease
  <2>2. CASE l \in revoked[r]
    BY <1>1, <1>2, <1>4, <2>1, <2>2 DEF RevokedInv
  <2>3. CASE l \notin revoked[r]
    <3>1. r \in R
      BY <2>3 DEF Retire, TypeInv, TypeOK
    <3>2. session # None /\ l.session = session /\ l.token = resources[r].token
      BY <2>3, Retired
    <3> QED
      BY <1>1, <1>2, <3>1, <3>2 DEF SessionInv
  <2> QED
    BY <2>2, <2>3
<1>8. UnownedIsNeutral'
  <2> SUFFICES ASSUME NEW r \in Resource \ Faulty, device'[r] # None
               PROVE  /\ Owner(r)' # None
                      /\ Writer(r)'.session = session'
                      /\ Writer(r)'.token <= resources'[r].token
    BY DEF UnownedIsNeutral
  <2>1. r \notin R
    BY <1>1
  <2> QED
    BY <1>1, <2>1 DEF UnownedIsNeutral, Writer, Owner
<1>9. WatchdogCoversOwner'
  BY <1>1 DEF WatchdogCoversOwner, Writer
<1> QED
  BY <1>5, <1>6, <1>7, <1>8, <1>9

\* A new lease is newer than the writer and than every lease revoked before.
LEMMA AuthorizeInv ==
    ASSUME Inv, TypeInv', NEW s \in Session, NEW r \in Resource, NEW t \in Token,
           NEW a \in Action \cup {None}, Authorize(s, r, t, a)
    PROVE  Inv'
<1> USE DEF Inv
<1>1. t \in Int /\ session = s /\ a # None /\ ~(t <= resources[r].token)
  <2>1. t \in Int /\ AuthorizeVerdict(s, r, t, a) = "accepted"
    BY DEF Authorize
  <2> QED
    BY <2>1, AuthorizeAccepted
<1>2. /\ resources'[r] = [token |-> t, action |-> a, sequence |-> -1, expires |-> None]
      /\ \A x \in Resource \ {r} : resources'[x] = resources[x]
      /\ device' = device /\ session' = session /\ opened' = opened /\ exclusive' = exclusive
      /\ Retire({r})
  BY DEF Authorize, TypeInv, TypeOK
<1>3. \A x \in Resource : resources[x].token \in Int
  BY DEF TypeInv, TypeOK, ResourceState
<1>4. \A x \in Resource : device[x] # None => Writer(x).token \in Int
  BY DEF TypeInv, TypeOK, Frame, Lease, Writer
<1>5. \A x \in Resource : \A l \in revoked[x] : l.token \in Int
  BY DEF TypeInv, TypeOK, Lease
<1>6. session # None
  BY <1>1
<1>7. /\ Owner(r)' = [session |-> s, token |-> t, action |-> a]
      /\ \A x \in Resource \ {r} : Owner(x)' = Owner(x)
      /\ \A x \in Resource : Writer(x)' = Writer(x)
  BY <1>1, <1>2, <1>6 DEF Owner, Writer
<1>8. Owner(r)' # None
  <2>1. Owner(r)' \in Lease
    BY <1>1, <1>7 DEF Lease
  <2> QED
    BY <2>1
<1>9. SessionInv'
  BY <1>2 DEF SessionInv
<1>10. WriterInv'
  BY <1>1, <1>2, <1>3, <1>4, <1>7 DEF WriterInv
<1>11. RevokedInv'
  <2> SUFFICES ASSUME NEW x \in Resource, NEW l \in revoked'[x]
               PROVE  /\ l.session \in opened'
                      /\ l.session = session' =>
                            /\ l.token <= resources'[x].token
                            /\ Owner(x)' # None => l.token < resources'[x].token
    BY DEF RevokedInv
  <2>1. CASE x = r
    BY <1>1, <1>2, <1>3, <1>5, <2>1, Retired DEF RevokedInv, SessionInv
  <2>2. CASE x # r
    <3>1. l \in revoked[x]
      BY <1>2, <2>2 DEF Retire, TypeInv, TypeOK
    <3> QED
      BY <1>2, <1>7, <2>2, <3>1 DEF RevokedInv
  <2> QED
    BY <2>1, <2>2
<1>12. UnownedIsNeutral'
  <2> SUFFICES ASSUME NEW x \in Resource \ Faulty, device'[x] # None
               PROVE  /\ Owner(x)' # None
                      /\ Writer(x)'.session = session'
                      /\ Writer(x)'.token <= resources'[x].token
    BY DEF UnownedIsNeutral
  <2>1. Writer(x).session = session /\ Writer(x).token <= resources[x].token /\ Owner(x) # None
    BY <1>2 DEF UnownedIsNeutral
  <2> QED
    BY <1>1, <1>2, <1>3, <1>4, <1>7, <1>8, <2>1
<1>13. WatchdogCoversOwner'
  <2> SUFFICES ASSUME NEW x \in Resource, Owner(x)' # None, Writer(x)' = Owner(x)'
               PROVE  /\ resources'[x].expires # None
                      /\ device'[x].sequence = resources'[x].sequence
    BY DEF WatchdogCoversOwner
  <2>1. x # r
    <3> SUFFICES ASSUME x = r PROVE FALSE
      OBVIOUS
    <3>1. device[r] # None
      BY <1>7, <1>8 DEF Writer
    <3>2. Writer(r).session = session /\ Writer(r).token = t
      BY <1>1, <1>7
    <3> QED
      BY <1>1, <1>3, <3>1, <3>2 DEF WriterInv
  <2> QED
    BY <1>2, <1>7, <2>1 DEF WatchdogCoversOwner
<1> QED
  BY <1>9, <1>10, <1>11, <1>12, <1>13

\* An accepted frame makes the owner the writer, with a deadline.
LEMMA ApplyInv ==
    ASSUME Inv, TypeInv', NEW s \in Session, NEW r \in Resource, NEW t \in Token,
           NEW a \in Action \cup {None}, NEW q \in Sequence, NEW ttl \in TTL,
           NEW received \in 0..now, NEW at \in 0..now,
           ApplyEnvelope(s, r, t, a, q, ttl, received, at)
    PROVE  /\ Inv'
           /\ Owner(r) # None
           /\ Writer(r)' = Owner(r)
           /\ \A x \in Resource : Owner(x)' = Owner(x)
           /\ \A x \in Resource \ {r} : device'[x] = device[x]
           /\ device'[r].sequence > resources[r].sequence
<1> USE DEF Inv
<1>1. /\ s = session /\ a # None
      /\ t = resources[r].token /\ a = resources[r].action
      /\ ~(q <= resources[r].sequence)
  <2>1. EnvelopeVerdict(s, r, t, a, q, ttl, received, at) = "accepted"
    BY DEF ApplyEnvelope
  <2>2. q \in Int /\ ttl \in Int
    OBVIOUS
  <2>3. received \in Int /\ at \in Int
    OBVIOUS
  <2> QED
    BY <2>1, <2>2, <2>3, EnvelopeAccepted
<1>2. /\ device'[r] = [lease |-> [session |-> s, token |-> t, action |-> a], sequence |-> q]
      /\ resources'[r] = [token |-> t, action |-> a, sequence |-> q, expires |-> received + ttl]
      /\ \A x \in Resource \ {r} : device'[x] = device[x] /\ resources'[x] = resources[x]
      /\ session' = session /\ opened' = opened /\ exclusive' = exclusive /\ revoked' = revoked
      /\ q \in Int
  <2>1. resources \in [Resource -> ResourceState] /\ device \in [Resource -> Frame \cup {None}]
    BY DEF TypeInv, TypeOK
  <2>2. device'[r] = [lease |-> [session |-> s, token |-> t, action |-> a], sequence |-> q]
    BY <2>1 DEF ApplyEnvelope
  <2>3. resources'[r] = [token |-> t, action |-> a, sequence |-> q, expires |-> received + ttl]
    BY <1>1, <2>1 DEF ApplyEnvelope
  <2>4. \A x \in Resource \ {r} : device'[x] = device[x] /\ resources'[x] = resources[x]
    BY <2>1 DEF ApplyEnvelope
  <2> QED
    BY <2>2, <2>3, <2>4 DEF ApplyEnvelope
<1>3. /\ Owner(r) = [session |-> s, token |-> t, action |-> a]
      /\ \A x \in Resource : Owner(x)' = Owner(x)
      /\ \A x \in Resource : resources'[x].token = resources[x].token
  <2>1. /\ resources'[r].token = resources[r].token /\ resources'[r].action = resources[r].action
        /\ s # None
    BY <1>1, <1>2
  <2>2. Owner(r) = [session |-> s, token |-> t, action |-> a] /\ Owner(r)' = Owner(r)
    BY <1>1, <1>2, <2>1 DEF Owner
  <2>3. \A x \in Resource \ {r} : Owner(x)' = Owner(x)
    BY <1>2 DEF Owner
  <2> QED
    BY <1>2, <2>1, <2>2, <2>3
<1>4. [session |-> s, token |-> t, action |-> a] # None
  <2>1. [session |-> s, token |-> t, action |-> a] \in Lease
    BY <1>1 DEF Lease
  <2> QED
    BY <2>1
<1>5. device'[r] # None
  <2>1. device'[r] \in Frame
    BY <1>1, <1>2 DEF Frame, Lease
  <2> QED
    BY <2>1
<1>6. Writer(r)' = Owner(r) /\ \A x \in Resource \ {r} : Writer(x)' = Writer(x)
  BY <1>2, <1>3, <1>5 DEF Writer
<1>7. SessionInv' /\ RevokedInv'
  BY <1>2, <1>3 DEF SessionInv, RevokedInv
<1>8. WriterInv'
  BY <1>1, <1>2, <1>3, <1>6 DEF WriterInv, SessionInv, TypeInv, TypeOK, ResourceState
<1>9. UnownedIsNeutral'
  <2>1. Owner(r)' # None /\ Writer(r)'.session = session' /\ Writer(r)'.token = resources'[r].token
    BY <1>1, <1>2, <1>3, <1>4, <1>6
  <2>2. resources[r].token \in Int
    BY DEF TypeInv, TypeOK, ResourceState
  <2> QED
    BY <1>2, <1>3, <1>6, <2>1, <2>2 DEF UnownedIsNeutral
<1>10. WatchdogCoversOwner'
  BY <1>2, <1>3, <1>6 DEF WatchdogCoversOwner
<1>11. device'[r].sequence > resources[r].sequence
  BY <1>1, <1>2 DEF TypeInv, TypeOK, ResourceState
<1> QED
  BY <1>2, <1>3, <1>4, <1>6, <1>7, <1>8, <1>9, <1>10, <1>11

\* The three calls that revoke owners.
LEMMA CloseSessionInv ==
    ASSUME Inv, TypeInv', NEW s \in Session, NEW failed \in SUBSET Faulty,
           CloseSession(s, failed)
    PROVE  Inv'
<1>1. \A r \in Resource :
         resources'[r].action = None /\ resources'[r].token = resources[r].token
  BY DEF CloseSession, Disowned
<1>2. \A r \in Resource : resources[r].token \in Nat
  BY DEF Inv, TypeInv, TypeOK, ResourceState
<1> QED
  BY <1>1, <1>2, RevokeInv DEF CloseSession

\* Neutralizing one resource.
LEMMA NeutralizeInv ==
    ASSUME Inv, TypeInv', NEW s \in Session, NEW r \in Resource, NEW t \in Token,
           NEW failed \in SUBSET Faulty, Neutralize(s, r, t, failed)
    PROVE  Inv'
<1>1. resources[r].token \in Int /\ t \in Int /\ ~(t < resources[r].token)
  BY DEF Neutralize, NeutralizeVerdict, Inv, TypeInv, TypeOK, ResourceState
<1>2. /\ resources'[r].action = None /\ resources'[r].token = t
      /\ \A x \in Resource \ {r} : resources'[x] = resources[x]
  BY DEF Neutralize, Inv, TypeInv, TypeOK
<1>3. Retire({r}) /\ SafeNeutralize({r}, failed)
  BY DEF Neutralize
<1> QED
  BY <1>1, <1>2, <1>3, RevokeInv DEF Neutralize

\* Expiring overdue resources.
LEMMA PollExpiredInv ==
    ASSUME Inv, TypeInv', NEW at \in 0..now, NEW failed \in SUBSET Faulty,
           PollExpired(at, failed)
    PROVE  Inv'
<1>1. /\ Overdue(at) \in SUBSET Resource
      /\ \A r \in Overdue(at) :
           resources'[r].action = None /\ resources'[r].token = resources[r].token
      /\ \A r \in Resource \ Overdue(at) : resources'[r] = resources[r]
  BY DEF PollExpired, Overdue, Disowned
<1>2. \A r \in Resource : resources[r].token \in Nat
  BY DEF Inv, TypeInv, TypeOK, ResourceState
<1> QED
  BY <1>1, <1>2, RevokeInv DEF PollExpired

\* Giving up a claim changes no resource; none is owned.
LEMMA ReleaseInv ==
    ASSUME Inv, TypeInv', NEW s \in Session, ReleaseExclusiveSession(s)
    PROVE  Inv' /\ \A r \in Resource : Owner(r) = None /\ Owner(r)' = None
<1>1. \A r \in Resource : Owner(r) = None /\ Owner(r)' = None
  BY DEF ReleaseExclusiveSession, Owner
<1>2. WriterInv'
  <2> SUFFICES ASSUME NEW r \in Resource, device[r] # None
               PROVE  Writer(r).session \in opened /\ Writer(r).session # None
    BY DEF WriterInv, Writer, ReleaseExclusiveSession
  <2>1. Writer(r) \in Lease
    BY DEF Inv, TypeInv, TypeOK, Frame, Writer
  <2> QED
    BY <2>1 DEF Inv, WriterInv, Lease
<1>3. RevokedInv'
  <2>1. \A r \in Resource : \A l \in revoked[r] : l.session # None
    BY DEF Inv, TypeInv, TypeOK, Lease
  <2> QED
    BY <2>1 DEF Inv, RevokedInv, ReleaseExclusiveSession
<1>4. SessionInv' /\ UnownedIsNeutral' /\ WatchdogCoversOwner'
  BY <1>1 DEF ReleaseExclusiveSession, Inv, SessionInv, UnownedIsNeutral, WatchdogCoversOwner
<1> QED
  BY <1>1, <1>2, <1>3, <1>4 DEF Inv

\* A step that leaves everything but the clock alone.
LEMMA IdleInv ==
    ASSUME Inv, TypeInv', UNCHANGED <<session, exclusive, resources, device, opened, revoked>>
    PROVE  Inv' /\ \A r \in Resource : Owner(r)' = Owner(r) /\ Writer(r)' = Writer(r)
  BY DEF Inv, SessionInv, WriterInv, RevokedInv, UnownedIsNeutral, WatchdogCoversOwner,
         Owner, Writer

\* The invariant is inductive.
LEMMA InvStep == Inv /\ [Next]_vars => Inv'
<1> SUFFICES ASSUME Inv, [Next]_vars PROVE Inv'
  OBVIOUS
<1>1. TypeInv'
  BY TypeStep DEF Inv
<1>2. ASSUME NEW s \in Session, NEW failed \in SUBSET Faulty,
             OpenSession(s, failed) \/ ClaimExclusiveSession(s, failed)
      PROVE  Inv'
  BY <1>1, <1>2, StartSessionInv DEF OpenSession, ClaimExclusiveSession
<1>3. ASSUME NEW s \in Session, NEW failed \in SUBSET Faulty, CloseSession(s, failed)
      PROVE  Inv'
  BY <1>1, <1>3, CloseSessionInv
<1>4. ASSUME NEW s \in Session, ReleaseExclusiveSession(s)
      PROVE  Inv'
  BY <1>1, <1>4, ReleaseInv
<1>5. ASSUME NEW s \in Session, NEW r \in Resource, NEW t \in Token,
             NEW a \in Action \cup {None}, Authorize(s, r, t, a)
      PROVE  Inv'
  BY <1>1, <1>5, AuthorizeInv
<1>6. ASSUME NEW s \in Session, NEW r \in Resource, NEW t \in Token,
             NEW failed \in SUBSET Faulty, Neutralize(s, r, t, failed)
      PROVE  Inv'
  BY <1>1, <1>6, NeutralizeInv
<1>7. ASSUME NEW s \in Session, NEW r \in Resource, NEW t \in Token,
             NEW a \in Action \cup {None}, NEW q \in Sequence, NEW ttl \in TTL,
             NEW received \in 0..now, NEW at \in 0..now,
             ApplyEnvelope(s, r, t, a, q, ttl, received, at)
      PROVE  Inv'
  BY <1>1, <1>7, ApplyInv
<1>8. ASSUME NEW at \in 0..now, NEW failed \in SUBSET Faulty, PollExpired(at, failed)
      PROVE  Inv'
  BY <1>1, <1>8, PollExpiredInv
<1>9. CASE Tick \/ UNCHANGED vars
  BY <1>1, <1>9, IdleInv DEF Tick, vars
<1> QED
  BY <1>2, <1>3, <1>4, <1>5, <1>6, <1>7, <1>8, <1>9 DEF Next

----------------------------------------------------------------------------
\* A working device is neutral unless a lease of the open session owns it, and
\* shows nothing written under a newer lease than the owner's.
THEOREM DevicesStaySafe == Spec => []UnownedIsNeutral
<1>1. Inv => UnownedIsNeutral
  BY DEF Inv
<1> QED
  BY InitInv, InvStep, <1>1, PTL DEF Spec

\* The present owner's output always has a deadline for the watchdog to poll.
THEOREM WatchdogIsArmed == Spec => []WatchdogCoversOwner
<1>1. Inv => WatchdogCoversOwner
  BY DEF Inv
<1> QED
  BY InitInv, InvStep, <1>1, PTL DEF Spec

\* Both together: nothing is shown that nobody will end.
THEOREM OutputIsSafe == Spec => []OutputIsAccountedFor
<1>1. Inv => OutputIsAccountedFor
  BY DEF Inv, OutputIsAccountedFor
<1> QED
  BY InitInv, InvStep, <1>1, PTL DEF Spec

----------------------------------------------------------------------------
\* No agent session displaces a calibration: opening or claiming another
\* session is refused while the claim stands, and the two calls that end it
\* leave every working device neutral.
THEOREM CalibrationIsExclusive == Spec => CalibrationNotDisplaced
<1> DEFINE Kept == exclusive # None /\ (session' # session \/ exclusive' # exclusive) =>
                      /\ exclusive = session
                      /\ session' = None
                      /\ exclusive' = None
                      /\ \A r \in Resource \ Faulty : device'[r] = None
<1>1. ASSUME Inv, Next PROVE Kept
  <2> SUFFICES ASSUME exclusive # None, session' # session \/ exclusive' # exclusive PROVE Kept
    OBVIOUS
  <2>0. exclusive = session /\ session # None
    BY <1>1 DEF Inv, SessionInv
  <2>1. ASSUME NEW s \in Session, NEW failed \in SUBSET Faulty,
               OpenSession(s, failed) \/ ClaimExclusiveSession(s, failed)
        PROVE  FALSE
    BY <2>0, <2>1 DEF OpenSession, ClaimExclusiveSession
  <2>2. ASSUME NEW s \in Session, NEW failed \in SUBSET Faulty, CloseSession(s, failed)
        PROVE  Kept
    BY <2>0, <2>2 DEF CloseSession, SafeNeutralize
  <2>3. ASSUME NEW s \in Session, ReleaseExclusiveSession(s)
        PROVE  Kept
    <3>1. \A r \in Resource \ Faulty : device'[r] = None
      BY <1>1, <2>3, ReleaseInv DEF Inv, UnownedIsNeutral, ReleaseExclusiveSession, Owner
    <3> QED
      BY <2>0, <2>3, <3>1 DEF ReleaseExclusiveSession
  <2>4. ASSUME NEW s, NEW r, NEW t, NEW a, NEW failed,
               Authorize(s, r, t, a) \/ Neutralize(s, r, t, failed)
        PROVE  FALSE
    BY <2>4 DEF Authorize, Neutralize
  <2>5. ASSUME NEW s, NEW r, NEW t, NEW a, NEW q, NEW ttl, NEW received, NEW at,
               ApplyEnvelope(s, r, t, a, q, ttl, received, at)
        PROVE  FALSE
    BY <2>5 DEF ApplyEnvelope
  <2>6. ASSUME NEW at, NEW failed, PollExpired(at, failed) \/ Tick
        PROVE  FALSE
    BY <2>6 DEF PollExpired, Tick
  <2> QED
    BY <1>1, <2>1, <2>2, <2>3, <2>4, <2>5, <2>6 DEF Next
<1>2. Inv /\ [Next]_vars => [Kept]_vars
  BY <1>1
<1> QED
  BY InitInv, InvStep, <1>2, PTL DEF Spec, CalibrationNotDisplaced

\* A device never shows an earlier frame of the lease it shows.
THEOREM FramesStayInOrder == Spec => FramesInOrder
<1> DEFINE InOrder == \A r \in Resource :
                         /\ device[r] # None
                         /\ device'[r] \notin {None, device[r]}
                         /\ Writer(r)' = Writer(r)
                         => device'[r].sequence > device[r].sequence
<1>1. ASSUME Inv, Next PROVE InOrder
  <2>1. ASSUME NEW s \in Session, NEW r \in Resource, NEW t \in Token,
               NEW a \in Action \cup {None}, NEW q \in Sequence, NEW ttl \in TTL,
               NEW received \in 0..now, NEW at \in 0..now,
               ApplyEnvelope(s, r, t, a, q, ttl, received, at)
        PROVE  InOrder
    <3>1. /\ Writer(r)' = Owner(r) /\ Owner(r) # None
          /\ \A x \in Resource \ {r} : device'[x] = device[x]
          /\ device'[r].sequence > resources[r].sequence
      BY <1>1, <2>1, ApplyInv, TypeStep DEF Inv
    <3>2. Writer(r)' = Writer(r) => device[r].sequence = resources[r].sequence
      BY <1>1, <3>1 DEF Inv, WatchdogCoversOwner
    <3> QED
      BY <3>1, <3>2
  <2>2. CASE \A r \in Resource : device'[r] \in {None, device[r]}
    BY <2>2
  <2>3. ASSUME NEW R, NEW failed, SafeNeutralize(R, failed)
        PROVE  InOrder
    BY <2>2, <2>3 DEF SafeNeutralize
  <2>4. ASSUME UNCHANGED device PROVE InOrder
    BY <2>2, <2>4
  <2>5. ASSUME NEW s, NEW failed,
               \/ OpenSession(s, failed) \/ ClaimExclusiveSession(s, failed)
               \/ CloseSession(s, failed)
        PROVE  InOrder
    BY <2>3, <2>5 DEF OpenSession, ClaimExclusiveSession, StartSession, CloseSession
  <2>6. ASSUME NEW s, NEW r, NEW t, NEW failed, Neutralize(s, r, t, failed)
        PROVE  InOrder
    BY <2>3, <2>6 DEF Neutralize
  <2>7. ASSUME NEW at, NEW failed, PollExpired(at, failed)
        PROVE  InOrder
    BY <2>3, <2>7 DEF PollExpired
  <2>8. ASSUME NEW s, NEW r, NEW t, NEW a,
               ReleaseExclusiveSession(s) \/ Authorize(s, r, t, a) \/ Tick
        PROVE  InOrder
    BY <2>4, <2>8 DEF ReleaseExclusiveSession, Authorize, Tick
  <2> QED
    BY <1>1, <2>1, <2>5, <2>6, <2>7, <2>8 DEF Next
<1>2. Inv /\ [Next]_vars => [InOrder]_vars
  BY <1>1
<1> QED
  BY InitInv, InvStep, <1>2, PTL DEF Spec, FramesInOrder

----------------------------------------------------------------------------
(***************************************************************************)
(* DeviceGateway implements FencedOutput.                                  *)
(***************************************************************************)

\* The holders and writers FencedOutput speaks of.
holderBar == [r \in Resource |-> Owner(r)]
writerBar == [r \in Resource |-> Writer(r)]

\* Initial states map to initial states.
LEMMA RefineInit == Init => Abstract!Init
  BY DEF Init, Abstract!Init, Owner, Writer

\* Calls that revoke owners, whichever way, are Revoke steps.
LEMMA RefineRevoke ==
    ASSUME TypeInv, NEW R \in SUBSET Resource, NEW failed \in SUBSET Faulty,
           Retire(R), SafeNeutralize(R, failed),
           \A r \in R : Owner(r)' = None,
           \A r \in Resource \ R : Owner(r)' = Owner(r)
    PROVE  Abstract!Next
<1>1. R \ failed \in SUBSET R
  OBVIOUS
<1>2. holderBar' = [r \in Resource |-> IF r \in R THEN None ELSE holderBar[r]]
  BY DEF holderBar
<1>3. writerBar' = [r \in Resource |-> IF r \in R \ failed THEN None ELSE writerBar[r]]
  BY DEF writerBar, Writer, SafeNeutralize
<1>4. revoked' = [r \in Resource |-> IF r \in R THEN revoked[r] \cup ({holderBar[r]} \ {None})
                                                ELSE revoked[r]]
  BY DEF Retire, holderBar
<1>5. Abstract!Revoke(R, R \ failed)
  BY <1>2, <1>3, <1>4 DEF Abstract!Revoke, Abstract!Spend, holderBar, writerBar
<1> QED
  BY <1>1, <1>5 DEF Abstract!Next

\* An accepted authorize issues a lease never revoked before.
LEMMA RefineAuthorize ==
    ASSUME Inv, NEW s \in Session, NEW r \in Resource, NEW t \in Token,
           NEW a \in Action \cup {None}, Authorize(s, r, t, a)
    PROVE  Abstract!Next
<1>1. t \in Int /\ session = s /\ a # None /\ ~(t <= resources[r].token)
  <2>1. t \in Int /\ AuthorizeVerdict(s, r, t, a) = "accepted"
    BY DEF Authorize
  <2> QED
    BY <2>1, AuthorizeAccepted
<1> DEFINE g == [session |-> s, token |-> t, action |-> a]
<1>2. g \in Lease
  BY <1>1 DEF Lease
<1>3. resources[r].token \in Int
  BY DEF Inv, TypeInv, TypeOK, ResourceState
<1>4. g # Owner(r)
  BY <1>1, <1>2, <1>3 DEF Owner
<1>5. g \notin revoked[r]
  BY <1>1, <1>3 DEF Inv, RevokedInv
<1>6. /\ Owner(r)' = g
      /\ \A x \in Resource \ {r} : Owner(x)' = Owner(x)
      /\ \A x \in Resource : Writer(x)' = Writer(x)
  BY <1>1 DEF Authorize, Inv, TypeInv, TypeOK, Owner, Writer
<1>7. holderBar' = [holderBar EXCEPT ![r] = g]
  BY <1>6 DEF holderBar
<1>8. writerBar' = writerBar
  BY <1>6 DEF writerBar
<1>9. revoked' = [x \in Resource |-> IF x \in {r} THEN revoked[x] \cup ({holderBar[x]} \ {None})
                                                  ELSE revoked[x]]
  BY DEF Authorize, Retire, holderBar
<1>10. g # holderBar[r]
  BY <1>4 DEF holderBar
<1>11. Abstract!Issue(r, g)
  BY <1>5, <1>7, <1>8, <1>9, <1>10 DEF Abstract!Issue, Abstract!Spend, holderBar, writerBar
<1> QED
  BY <1>2, <1>11 DEF Abstract!Next

\* An accepted frame is written by the owner.
LEMMA RefineApply ==
    ASSUME Inv, TypeInv', NEW s \in Session, NEW r \in Resource, NEW t \in Token,
           NEW a \in Action \cup {None}, NEW q \in Sequence, NEW ttl \in TTL,
           NEW received \in 0..now, NEW at \in 0..now,
           ApplyEnvelope(s, r, t, a, q, ttl, received, at)
    PROVE  Abstract!Next
<1>1. /\ Owner(r) # None
      /\ Writer(r)' = Owner(r)
      /\ \A x \in Resource : Owner(x)' = Owner(x)
      /\ \A x \in Resource \ {r} : Writer(x)' = Writer(x)
  BY ApplyInv DEF Writer
<1>2. holderBar' = holderBar /\ holderBar[r] # None
  BY <1>1 DEF holderBar
<1>3. writerBar' = [writerBar EXCEPT ![r] = holderBar[r]]
  BY <1>1 DEF writerBar, holderBar
<1>4. Abstract!Write(r)
  BY <1>2, <1>3 DEF Abstract!Write, ApplyEnvelope, holderBar, writerBar
<1> QED
  BY <1>4 DEF Abstract!Next

\* Calls that touch no lease are stuttering steps.
LEMMA RefineIdle ==
    ASSUME UNCHANGED <<device, revoked>>, \A r \in Resource : Owner(r)' = Owner(r)
    PROVE  UNCHANGED Abstract!vars
  BY DEF Abstract!vars, Writer

\* Every step maps to a step or a stutter.
LEMMA RefineStep == Inv /\ TypeInv' /\ [Next]_vars => [Abstract!Next]_(Abstract!vars)
<1> SUFFICES ASSUME Inv, TypeInv', [Next]_vars
             PROVE  Abstract!Next \/ UNCHANGED Abstract!vars
  OBVIOUS
<1>0. TypeInv
  BY DEF Inv
<1>1. ASSUME NEW s \in Session, NEW failed \in SUBSET Faulty,
             OpenSession(s, failed) \/ ClaimExclusiveSession(s, failed)
      PROVE  Abstract!Next
  <2>1. \A r \in Resource : Owner(r)' = None
    BY <1>1 DEF OpenSession, ClaimExclusiveSession, StartSession, NewResourceState, Owner
  <2>2. Retire(Resource) /\ SafeNeutralize(Resource, failed)
    BY <1>1 DEF OpenSession, ClaimExclusiveSession, StartSession
  <2> QED
    BY <1>0, <2>1, <2>2, RefineRevoke
<1>2. ASSUME NEW s \in Session, NEW failed \in SUBSET Faulty, CloseSession(s, failed)
      PROVE  Abstract!Next
  <2>1. \A r \in Resource : Owner(r)' = None
    BY <1>2 DEF CloseSession, Owner
  <2> QED
    BY <1>0, <1>2, <2>1, RefineRevoke DEF CloseSession
<1>3. ASSUME NEW s \in Session, ReleaseExclusiveSession(s)
      PROVE  UNCHANGED Abstract!vars
  BY <1>3, RefineIdle, ReleaseInv DEF ReleaseExclusiveSession
<1>4. ASSUME NEW s \in Session, NEW r \in Resource, NEW t \in Token,
             NEW a \in Action \cup {None}, Authorize(s, r, t, a)
      PROVE  Abstract!Next
  BY <1>4, RefineAuthorize
<1>5. ASSUME NEW s \in Session, NEW r \in Resource, NEW t \in Token,
             NEW failed \in SUBSET Faulty, Neutralize(s, r, t, failed)
      PROVE  Abstract!Next
  <2>1. Owner(r)' = None /\ \A x \in Resource \ {r} : Owner(x)' = Owner(x)
    BY <1>0, <1>5 DEF Neutralize, TypeInv, TypeOK, Owner
  <2>2. Retire({r}) /\ SafeNeutralize({r}, failed)
    BY <1>5 DEF Neutralize
  <2> QED
    BY <1>0, <2>1, <2>2, RefineRevoke
<1>6. ASSUME NEW s \in Session, NEW r \in Resource, NEW t \in Token,
             NEW a \in Action \cup {None}, NEW q \in Sequence, NEW ttl \in TTL,
             NEW received \in 0..now, NEW at \in 0..now,
             ApplyEnvelope(s, r, t, a, q, ttl, received, at)
      PROVE  Abstract!Next
  BY <1>6, RefineApply
<1>7. ASSUME NEW at \in 0..now, NEW failed \in SUBSET Faulty, PollExpired(at, failed)
      PROVE  Abstract!Next
  <2>1. /\ Overdue(at) \in SUBSET Resource
        /\ \A r \in Overdue(at) : Owner(r)' = None
        /\ \A r \in Resource \ Overdue(at) : Owner(r)' = Owner(r)
    BY <1>7 DEF PollExpired, Overdue, Disowned, Owner
  <2> QED
    BY <1>0, <1>7, <2>1, RefineRevoke DEF PollExpired
<1>8. CASE Tick \/ UNCHANGED vars
  BY <1>8, RefineIdle, IdleInv DEF Tick, vars
<1> QED
  BY <1>1, <1>2, <1>3, <1>4, <1>5, <1>6, <1>7, <1>8 DEF Next

\* A lease that lost a resource never owns it again and never writes it: the
\* gateway implements FencedOutput.
THEOREM GatewayIsFenced == Spec => Fenced
<1>1. Inv /\ [Next]_vars => TypeInv'
  BY TypeStep DEF Inv
<1> QED
  BY InitInv, InvStep, RefineInit, RefineStep, <1>1, PTL DEF Spec, Fenced, Abstract!Spec

----------------------------------------------------------------------------
HIDE GatewayAssumption

(***************************************************************************)
(* Sensors: the inductive invariant, part by part.                         *)
(***************************************************************************)
Identity == Nat \X Nat

Sources ==
    [helper : {"none", "alive", "dying", "dead"}, format : BOOLEAN, failed : BOOLEAN,
     running : BOOLEAN, closed : BOOLEAN, reader : {"none", "run", "publish", "done"}]

SupervisorPlaces ==
    {"resolve", "capture", "attach", "spawn", "startup", "verify", "watch", "detach",
     "closeAudio", "join", "closeCapture", "after", "gone"}

Kinds ==
    /\ games \in 0..MaxGames /\ game \in 0..games
    /\ stop \in BOOLEAN /\ epoch \in Nat
    /\ sup \in [at : SupervisorPlaces, attached : BOOLEAN]
    /\ attempt \in 0..MaxAttempts
    /\ id \in [Attempt -> Identity \cup {Nothing}]
    /\ capture \in [Attempt -> {"none", "on", "off"}]
    /\ frame \in [Attempt -> [stamp : Nat, new : BOOLEAN] \cup {Nothing}]
    /\ audio \in [Attempt -> Sources]
    /\ lock \in BOOLEAN /\ asked \in Nat /\ pending \in Nat
    /\ requests \in Seq(Nat)
    /\ shot \in [ask : Nat, of : Attempt] \cup {Nothing}
    /\ replies \in Seq([ask : Nat, stamp : Nat \cup {Nothing}])

\* The hub has the session at hand, and only while that is attached.
Hub ==
    /\ provider = IF sup.attached THEN attempt ELSE 0
    /\ sensor = IF sup.attached THEN id[attempt] ELSE Nothing
    /\ sup.attached => attempt # 0
    /\ sup.at \in {"spawn", "startup", "verify", "watch", "detach"} => sup.attached
    /\ sup.at \in {"resolve", "capture", "attach", "closeCapture", "after", "gone"} => ~sup.attached

\* Two sessions have the same id only if the earlier one did not get to run.
Epochs ==
    \A a \in Attempt :
      /\ a <= attempt <=> id[a] # Nothing
      /\ a <= attempt => id[a][2] <= epoch + 1
      /\ audio[a].reader # "none" => a <= attempt /\ id[a][2] <= epoch
      /\ \A b \in Attempt : a < b /\ b <= attempt /\ audio[a].reader # "none" => id[a][2] < id[b][2]

\* No session gets to run twice.
Starting == {"capture", "attach", "spawn", "startup", "verify"}

Counted ==
    /\ epoch <= attempt
    /\ sup.at \in Starting => epoch < attempt

\* Of the sessions before the one at hand nothing is left, and of that one what
\* its place says: a helper between its spawning and the close of the source, a
\* capture between its start and its close.
Leftovers ==
    /\ \A a \in Attempt :
         /\ a # attempt => audio[a].helper # "alive" /\ capture[a] # "on"
         /\ a > attempt => audio[a].helper = "none" /\ ~audio[a].closed
    /\ attempt # 0 =>
         /\ sup.at \in {"capture", "attach", "spawn"} =>
              audio[attempt].helper = "none" /\ ~audio[attempt].closed
         /\ audio[attempt].helper = "alive" =>
              /\ ~audio[attempt].closed
              /\ sup.at \in {"startup", "verify", "watch", "detach", "closeAudio"}
         /\ sup.at \in {"resolve", "capture", "after", "gone"} => capture[attempt] # "on"
         /\ sup.attached \/ sup.at = "attach" => capture[attempt] = "on"
    /\ sup.at \notin {"resolve", "gone"} => attempt # 0

\* A source that runs has a format.
Formats ==
    /\ \A a \in Attempt : audio[a].running => audio[a].format
    /\ sup.at = "verify" => audio[attempt].format

\* Whoever reads has the hub, and the hub keeps its session meanwhile.
Reading ==
    /\ lock <=> shot # Nothing
    /\ shot # Nothing => sup.attached /\ shot.of = attempt

\* A frame that is new since the shot began was captured after that was asked for,
\* and so was every frame that went out.
Stamps ==
    /\ \A i \in DOMAIN requests : requests[i] <= asked
    /\ \A a \in Attempt : frame[a] # Nothing => frame[a].stamp <= asked
    /\ shot # Nothing =>
         /\ shot.ask <= asked
         /\ \A a \in Attempt : a = shot.of /\ frame[a] # Nothing /\ frame[a].new => frame[a].stamp >= shot.ask
    /\ \A i \in DOMAIN replies : replies[i].stamp # Nothing => replies[i].stamp >= replies[i].ask

SensorsInv == Kinds /\ Hub /\ Epochs /\ Counted /\ Leftovers /\ Formats /\ Reading /\ Stamps

\* A helper and its threads change the source of their own session only: they
\* begin nothing, and what the source is found to be they leave to it.
HelperLeaves(a) ==
    /\ UNCHANGED <<gameVars, supVars, id, capture, frame, hubVars, shotVars>>
    /\ audio' = [audio EXCEPT ![a] = audio'[a]] /\ audio'[a] \in Sources
    /\ audio'[a].helper \in {audio[a].helper, "dead"}
    /\ audio[a].helper = "none" => audio'[a].helper = "none"
    /\ audio'[a].reader # "none" => audio[a].reader # "none"
    /\ audio'[a].running => audio[a].running
    /\ audio[a].format => audio'[a].format
    /\ audio'[a].closed = audio[a].closed

LEMMA HelperMoves ==
    ASSUME Kinds, NEW a \in Attempt, Helper(a)
    PROVE  HelperLeaves(a)
<1>a. audio[a] \in Sources /\ audio \in [Attempt -> Sources]
  BY DEF Kinds
<1>b. ASSUME NEW s \in Sources, Becomes(a, s), UNCHANGED hubVars,
             s.helper \in {audio[a].helper, "dead"}, audio[a].helper = "none" => s.helper = "none",
             s.reader # "none" => audio[a].reader # "none", s.running => audio[a].running,
             audio[a].format => s.format, s.closed = audio[a].closed
      PROVE  HelperLeaves(a)
  <2>1. audio' = [audio EXCEPT ![a] = s] /\ audio'[a] = s
    BY <1>a, <1>b DEF Becomes
  <2> QED
    BY <1>b, <2>1 DEF HelperLeaves, Becomes
<1>f. ASSUME NEW s \in Sources
      PROVE  /\ Failed(s) \in Sources /\ Failed(s).running = FALSE
             /\ Failed(s).helper = s.helper /\ Failed(s).reader = s.reader
             /\ Failed(s).format = s.format /\ Failed(s).closed = s.closed
  BY <1>f DEF Failed, Sources
<1>1. CASE HelperDies(a)
  <2>1. [audio[a] EXCEPT !.helper = "dead"] \in Sources
    BY <1>a DEF Sources
  <2> QED
    BY <1>a, <1>b, <1>1, <2>1 DEF HelperDies, Dead, Sources
<1>2. CASE HelperStarted(a)
  <2>1. [audio[a] EXCEPT !.format = TRUE] \in Sources
    BY <1>a DEF Sources
  <2> QED
    BY <1>a, <1>b, <1>2, <2>1 DEF HelperStarted, Sources
<1>3. CASE StatusFails(a) \/ MonitorFails(a)
  BY <1>a, <1>b, <1>f, <1>3 DEF StatusFails, MonitorFails
<1>4. ASSUME NEW reader \in {"run", "publish", "done"}, NEW s \in {audio[a], Failed(audio[a])},
             Becomes(a, [s EXCEPT !.reader = reader]), UNCHANGED hubVars, audio[a].reader # "none"
      PROVE  HelperLeaves(a)
  <2>1. s \in Sources /\ s.helper = audio[a].helper /\ s.format = audio[a].format
        /\ s.closed = audio[a].closed /\ (s.running => audio[a].running)
    BY <1>a, <1>f
  <2>2. [s EXCEPT !.reader = reader] \in Sources
    BY <2>1 DEF Sources
  <2> QED
    BY <1>b, <1>4, <2>1, <2>2 DEF Sources
<1>5. CASE ReadSound(a) \/ PublishAudio(a) \/ ReaderEnds(a)
  BY <1>4, <1>5 DEF ReadSound, PublishAudio, ReaderEnds
<1> QED
  BY <1>1, <1>2, <1>3, <1>5 DEF Helper

\* Nobody but the supervisor's thread attaches and detaches, and whoever asks for
\* or takes a screenshot has nothing to do with it.
LEMMA Bystanders ==
    /\ GameStarts \/ GameExits \/ Stop =>
         UNCHANGED <<sup, epoch, attempt, sessionVars, hubVars, shotVars>>
    /\ \A a \in Attempt : FrameArrives(a) =>
         UNCHANGED <<gameVars, supVars, id, capture, audio, hubVars, shotVars>>
    /\ Screenshot => UNCHANGED <<gameVars, supVars, id, capture, audio, sensor, provider>>
  BY DEF GameStarts, GameExits, Stop, FrameArrives, Screenshot, RequestScreenshot, RequestEnds,
         ReceiveScreenshot, ShotBegins, ShotEnds, ShotFails, ShotRefused,
         gameVars, supVars, sessionVars, hubVars, shotVars

\* What a step of the supervisor's thread does to the session at hand.
LEMMA SupervisorMoves ==
    ASSUME SensorsInv, Supervisor
    PROVE  /\ UNCHANGED <<gameVars, stop, lock, shotVars>>
           /\ sup.at # "resolve" => UNCHANGED <<attempt, id>> /\ attempt \in Attempt
           /\ ~CloseCapture => UNCHANGED frame
<1>1. sup.at # "resolve" /\ sup.at # "gone" => attempt \in Attempt
  BY SensorsAssumption DEF SensorsInv, Leftovers, Kinds, Attempt
<1>2. CASE Resolve \/ SupervisorEnds
  BY <1>2 DEF Resolve, SupervisorEnds, CloseCapture, sessionVars, hubVars, gameVars, shotVars
<1>3. CASE StartCapture \/ AttachSensor \/ SpawnHelper \/ Startup \/ Verify \/ Watch
  BY <1>1, <1>3 DEF StartCapture, AttachSensor, SpawnHelper, Startup, Verify, Watch,
     sessionVars, hubVars, gameVars, shotVars
<1>4. CASE DetachSensor \/ CloseAudio \/ JoinAudio \/ CloseCapture \/ SessionEnds
  BY <1>1, <1>4 DEF DetachSensor, CloseAudio, JoinAudio, CloseCapture, SessionEnds,
     sessionVars, hubVars, gameVars, shotVars
<1> QED
  BY <1>2, <1>3, <1>4 DEF Supervisor

LEMMA KindsStep ==
    ASSUME SensorsInv, SensorsNext
    PROVE  Kinds'
<1>0. /\ Kinds /\ MaxAttempts \in Nat /\ MaxGames \in Nat
      /\ game \in Nat /\ games \in Nat /\ attempt \in Nat
      /\ sup.at \notin {"resolve", "gone"} => attempt \in Attempt
      /\ provider \in Attempt \cup {0}
  BY SensorsAssumption DEF SensorsInv, Kinds, Leftovers, Hub, Attempt
<1>g. ASSUME NEW to \in SupervisorPlaces, Goes(to)
      PROVE  sup' \in [at : SupervisorPlaces, attached : BOOLEAN]
  BY <1>0, <1>g DEF Goes, Kinds
<1>s. ASSUME NEW a \in Attempt
      PROVE  audio[a] \in Sources /\ Failed(audio[a]) \in Sources
  BY <1>0, <1>s DEF Kinds, Sources, Failed
<1>r. ASSUME NEW ask \in Nat, NEW stamp \in Nat \cup {Nothing}, Reply(ask, stamp)
      PROVE  replies' \in Seq([ask : Nat, stamp : Nat \cup {Nothing}])
  <2>1. [ask |-> ask, stamp |-> stamp] \in [ask : Nat, stamp : Nat \cup {Nothing}]
    OBVIOUS
  <2> QED
    BY <1>0, <1>r, <2>1 DEF Reply, Kinds
<1>1. CASE GameStarts \/ GameExits \/ Stop
  <2>1. games' \in 0..MaxGames /\ game' \in 0..games'
    <3>1. CASE GameStarts
      BY <1>0, <3>1 DEF GameStarts, Kinds
    <3>2. CASE GameExits
      BY <1>0, <3>2 DEF GameExits, Kinds
    <3>3. CASE Stop
      BY <1>0, <3>3 DEF Stop, gameVars, Kinds
    <3> QED
      BY <1>1, <3>1, <3>2, <3>3
  <2>2. stop' \in BOOLEAN
    BY <1>0, <1>1 DEF GameStarts, GameExits, Stop, supVars, Kinds
  <2> QED
    BY <1>0, <1>1, <2>1, <2>2, Bystanders DEF Kinds, sessionVars, hubVars, shotVars
<1>2. CASE Resolve
  <2>1. <<game, epoch + 1>> \in Identity /\ attempt + 1 \in Attempt
    BY <1>0, <1>2 DEF Resolve, Kinds, Identity, Attempt
  <2> QED
    BY <1>0, <1>2, <1>g, <2>1 DEF Resolve, Kinds, SupervisorPlaces, gameVars, hubVars, shotVars
<1>3. CASE SupervisorEnds \/ Watch \/ SessionEnds
  BY <1>0, <1>3, <1>g DEF SupervisorEnds, Watch, SessionEnds, Kinds, SupervisorPlaces, sessionVars, gameVars,
     hubVars, shotVars
<1>4. CASE StartCapture \/ CloseCapture
  BY <1>0, <1>4, <1>g DEF StartCapture, CloseCapture, Kinds, SupervisorPlaces, gameVars, hubVars, shotVars
<1>5. CASE AttachSensor \/ DetachSensor
  BY <1>0, <1>5 DEF AttachSensor, DetachSensor, Kinds, SupervisorPlaces, sessionVars, gameVars, shotVars
<1>6. CASE SpawnHelper
  <2>1. [audio[attempt] EXCEPT !.helper = "alive"] \in Sources
    BY <1>0, <1>6, <1>s DEF SpawnHelper, Sources
  <2> QED
    BY <1>0, <1>6, <1>g, <2>1 DEF SpawnHelper, Audio, Kinds, SupervisorPlaces, gameVars, hubVars, shotVars
<1>7. CASE Startup
  BY <1>0, <1>7, <1>g, <1>s DEF Startup, Audio, Kinds, SupervisorPlaces, gameVars, hubVars, shotVars
<1>8. CASE Verify
  <2>1. [audio[attempt] EXCEPT !.running = TRUE, !.reader = "run"] \in Sources
    BY <1>0, <1>8, <1>s DEF Verify, Sources
  <2>2. sup' \in [at : SupervisorPlaces, attached : BOOLEAN]
    BY <1>8, <1>g DEF Verify, SupervisorPlaces
  <2>3. epoch' \in Nat
    BY <1>0, <1>8 DEF Verify, NextEpoch, Kinds
  <2>4. audio' \in [Attempt -> Sources]
    BY <1>0, <1>8, <1>s, <2>1 DEF Verify, Audio, Kinds
  <2> QED
    BY <1>0, <1>8, <2>2, <2>3, <2>4 DEF Verify, Kinds, gameVars, hubVars, shotVars
<1>9. CASE CloseAudio
  <2>1. ASSUME NEW h \in {audio[attempt].helper, "dead", "dying"}
        PROVE  [audio[attempt] EXCEPT !.closed = TRUE, !.helper = h, !.format = FALSE,
                                      !.failed = FALSE, !.running = FALSE] \in Sources
    BY <1>0, <1>9, <1>s DEF CloseAudio, Sources
  <2>2. audio' \in [Attempt -> Sources]
    <3>1. PICK h \in {audio[attempt].helper, "dead", "dying"} :
            Audio([audio[attempt] EXCEPT !.closed = TRUE, !.helper = h, !.format = FALSE,
                                         !.failed = FALSE, !.running = FALSE])
      BY <1>9 DEF CloseAudio
    <3> QED
      BY <1>0, <2>1, <3>1 DEF Audio, Kinds
  <2>3. sup' \in [at : SupervisorPlaces, attached : BOOLEAN]
    BY <1>9, <1>g DEF CloseAudio, SupervisorPlaces
  <2> QED
    BY <1>0, <1>9, <2>2, <2>3 DEF CloseAudio, Kinds, gameVars, hubVars, shotVars
<1>10. CASE JoinAudio
  BY <1>0, <1>10, <1>g DEF JoinAudio, AfterAudio, Kinds, SupervisorPlaces, sessionVars, gameVars, hubVars, shotVars
<1>11. ASSUME NEW a \in Attempt, Helper(a)
       PROVE  Kinds'
  <2>1. HelperLeaves(a)
    BY <1>0, <1>11, HelperMoves
  <2> QED
    BY <1>0, <1>11, <2>1 DEF HelperLeaves, Kinds, gameVars, supVars, hubVars, shotVars
<1>12. ASSUME NEW a \in Attempt, FrameArrives(a)
       PROVE  Kinds'
  BY <1>0, <1>12 DEF FrameArrives, Kinds, gameVars, supVars, hubVars, shotVars
<1>13. CASE RequestScreenshot \/ RequestEnds
  <2>1. requests' \in Seq(Nat) /\ replies' \in Seq([ask : Nat, stamp : Nat \cup {Nothing}])
    <3>1. CASE RequestScreenshot
      BY <1>0, <3>1 DEF RequestScreenshot, Kinds
    <3>2. CASE RequestEnds
      <4>1. <<>> \in Seq(Nat) /\ <<>> \in Seq([ask : Nat, stamp : Nat \cup {Nothing}])
        OBVIOUS
      <4> QED
        BY <1>0, <3>2, <4>1 DEF RequestEnds, Kinds
    <3> QED
      BY <1>13, <3>1, <3>2
  <2>2. asked' \in Nat /\ pending' \in Nat
    BY <1>0, <1>13 DEF RequestScreenshot, RequestEnds, Kinds
  <2> QED
    BY <1>0, <1>13, <2>1, <2>2 DEF RequestScreenshot, RequestEnds, Kinds, gameVars, supVars, hubVars,
       sessionVars
<1>14. CASE ReceiveScreenshot
  BY <1>0, <1>14 DEF ReceiveScreenshot, Kinds, gameVars, supVars, hubVars, sessionVars
<1>15. CASE ShotBegins
  <2>1. Head(requests) \in Nat /\ Tail(requests) \in Seq(Nat) /\ provider \in Attempt
    BY <1>0, <1>15 DEF ShotBegins, Kinds
  <2>2. frame' \in [Attempt -> [stamp : Nat, new : BOOLEAN] \cup {Nothing}]
    BY <1>0, <1>15, <2>1 DEF ShotBegins, Kinds
  <2> QED
    BY <1>0, <1>15, <2>1, <2>2 DEF ShotBegins, TakeLock, Kinds, gameVars, supVars
<1>16. CASE ShotEnds
  <2>1. frame[shot.of].stamp \in Nat /\ shot.ask \in Nat /\ shot.of \in Attempt
    BY <1>0, <1>16 DEF ShotEnds, ReadsFrame, Kinds
  <2>2. /\ replies' \in Seq([ask : Nat, stamp : Nat \cup {Nothing}])
        /\ frame' \in [Attempt -> [stamp : Nat, new : BOOLEAN] \cup {Nothing}]
    BY <1>0, <1>16, <1>r, <2>1 DEF ShotEnds, Kinds
  <2> QED
    BY <1>0, <1>16, <2>2 DEF ShotEnds, Kinds, gameVars, supVars
<1>17. CASE ShotFails
  <2>1. replies' \in Seq([ask : Nat, stamp : Nat \cup {Nothing}])
    BY <1>0, <1>17, <1>r DEF ShotFails, Kinds
  <2> QED
    BY <1>0, <1>17, <2>1 DEF ShotFails, Kinds, gameVars, supVars, sessionVars
<1>18. CASE ShotRefused
  <2>1. Head(requests) \in Nat /\ Tail(requests) \in Seq(Nat)
    BY <1>0, <1>18 DEF ShotRefused, Kinds
  <2> QED
    BY <1>0, <1>18, <1>r, <2>1 DEF ShotRefused, Kinds, gameVars, supVars, sessionVars, hubVars
<1> QED
  BY <1>1, <1>2, <1>3, <1>4, <1>5, <1>6, <1>7, <1>8, <1>9, <1>10, <1>11, <1>12, <1>13, <1>14, <1>15,
     <1>16, <1>17, <1>18 DEF SensorsNext, Supervisor, Screenshot

\* The hub has what its attaching and detaching say.
LEMMA HubStep ==
    ASSUME SensorsInv, SensorsNext
    PROVE  Hub'
<1>0. Hub /\ Kinds /\ attempt \in Nat /\ (sup.at \notin {"resolve", "gone"} => attempt # 0)
  BY SensorsAssumption DEF SensorsInv, Kinds, Leftovers
<1>1. CASE UNCHANGED <<sup, attempt, id, sensor, provider>>
  BY <1>0, <1>1 DEF Hub
<1>2. CASE Resolve
  BY <1>0, <1>2 DEF Resolve, Goes, Hub, Kinds, hubVars
<1>3. CASE SupervisorEnds \/ Watch \/ SessionEnds
  BY <1>0, <1>3 DEF SupervisorEnds, Watch, SessionEnds, Goes, Hub, Kinds, hubVars, sessionVars
<1>4. CASE StartCapture \/ CloseCapture
  BY <1>0, <1>4 DEF StartCapture, CloseCapture, Goes, Hub, Kinds, hubVars
<1>5. CASE AttachSensor
  BY <1>0, <1>5 DEF AttachSensor, Hub, Kinds, sessionVars
<1>6. CASE DetachSensor
  BY <1>0, <1>6 DEF DetachSensor, Hub, Kinds, sessionVars
<1>7. CASE SpawnHelper \/ Startup \/ Verify \/ CloseAudio
  BY <1>0, <1>7 DEF SpawnHelper, Startup, Verify, CloseAudio, Goes, Hub, Kinds, hubVars
<1>8. CASE JoinAudio
  BY <1>0, <1>8 DEF JoinAudio, AfterAudio, Goes, Hub, Kinds, hubVars, sessionVars
<1>9. ~Supervisor => UNCHANGED <<sup, attempt, id, sensor, provider>>
  BY <1>0, Bystanders, HelperMoves DEF SensorsNext, HelperLeaves, supVars, sessionVars, hubVars
<1> QED
  BY <1>1, <1>2, <1>3, <1>4, <1>5, <1>6, <1>7, <1>8, <1>9 DEF Supervisor

\* Only a session that runs has a thread that reads, and the next one is of a later
\* epoch.
LEMMA EpochsStep ==
    ASSUME SensorsInv, SensorsNext
    PROVE  Epochs'
<1>0. /\ Epochs /\ Kinds /\ attempt \in Nat /\ epoch \in Nat /\ game \in Nat
      /\ sup.at \notin {"resolve", "gone"} => attempt \in Attempt
      /\ Attempt \subseteq Nat
  BY SensorsAssumption DEF SensorsInv, Kinds, Leftovers, Attempt
<1>i. ASSUME NEW a \in Attempt, id[a] # Nothing
      PROVE  id[a][1] \in Nat /\ id[a][2] \in Nat
  BY <1>0, <1>i DEF Kinds, Identity
<1>a. ASSUME NEW a \in Attempt
      PROVE  audio[a] \in Sources /\ Failed(audio[a]).reader = audio[a].reader
  BY <1>0, <1>a DEF Kinds, Sources, Failed
<1>1. ASSUME UNCHANGED <<attempt, id, epoch>>,
             \A a \in Attempt : audio'[a].reader # "none" => audio[a].reader # "none"
      PROVE  Epochs'
  BY <1>0, <1>1 DEF Epochs
<1>2. CASE Resolve
  <2>1. /\ attempt' = attempt + 1 /\ attempt' \in Attempt /\ epoch' = epoch /\ audio' = audio
        /\ id'[attempt'] = <<game, epoch + 1>> /\ <<game, epoch + 1>> # Nothing
        /\ \A a \in Attempt : a # attempt' => id'[a] = id[a]
    <3>1. attempt' = attempt + 1 /\ attempt' \in Attempt /\ epoch' = epoch /\ audio' = audio
      BY <1>0, <1>2, SensorsAssumption DEF Resolve, Attempt
    <3>2. <<game, epoch + 1>> # Nothing
      BY <1>0, SensorsAssumption
    <3>3. id \in [Attempt -> Identity \cup {Nothing}]
          /\ id' = [id EXCEPT ![attempt'] = <<game, epoch + 1>>]
      BY <1>0, <1>2 DEF Resolve, Kinds
    <3> QED
      BY <3>1, <3>2, <3>3
  <2> QED
    <3>1. id'[attempt'][2] = epoch + 1
      BY <2>1
    <3>2. ASSUME NEW a \in Attempt
          PROVE  /\ a <= attempt' <=> id'[a] # Nothing
                 /\ a <= attempt' => id'[a][2] <= epoch + 1
                 /\ audio[a].reader # "none" => a <= attempt /\ id'[a] = id[a] /\ id[a][2] <= epoch
      <4>1. CASE a = attempt'
        <5>1. audio[a].reader = "none"
          BY <1>0, <2>1, <4>1 DEF Epochs
        <5>2. a <= attempt' /\ id'[a] # Nothing /\ id'[a][2] = epoch + 1
          BY <1>0, <2>1, <3>1, <4>1
        <5> QED
          BY <1>0, <5>1, <5>2
      <4>2. CASE a # attempt'
        <5>1. id'[a] = id[a] /\ (a <= attempt' <=> a <= attempt)
          BY <1>0, <2>1, <4>2
        <5> QED
          BY <1>0, <5>1 DEF Epochs
      <4> QED
        BY <4>1, <4>2
    <3>3. ASSUME NEW a \in Attempt, NEW b \in Attempt, a < b, b <= attempt', audio[a].reader # "none"
          PROVE  id'[a][2] < id'[b][2]
      <4>1. a <= attempt /\ id'[a] = id[a] /\ id[a][2] <= epoch /\ id[a][2] \in Nat
        BY <1>0, <1>i, <3>2, <3>3 DEF Epochs
      <4>2. CASE b = attempt'
        BY <1>0, <3>1, <4>1, <4>2
      <4>3. CASE b # attempt'
        <5>1. b <= attempt /\ id'[b] = id[b]
          BY <1>0, <2>1, <3>3, <4>3
        <5> QED
          BY <1>0, <3>3, <4>1, <5>1 DEF Epochs
      <4> QED
        BY <4>2, <4>3
    <3> QED
      BY <1>0, <2>1, <3>2, <3>3 DEF Epochs
<1>3. CASE Verify
  <2>1. /\ UNCHANGED <<attempt, id>> /\ attempt \in Attempt
        /\ \A a \in Attempt : a # attempt => audio'[a] = audio[a]
    BY <1>0, <1>3 DEF Verify, Audio, Kinds
  <2>2. CASE epoch' = epoch + 1
    <3>1. id[attempt][2] <= epoch + 1
      BY <1>0, <2>1 DEF Epochs
    <3>2. ASSUME NEW a \in Attempt
          PROVE  /\ a <= attempt => id[a][2] <= epoch + 1 + 1
                 /\ audio'[a].reader # "none" => a <= attempt /\ id[a][2] <= epoch + 1
      BY <1>0, <1>i, <2>1, <3>1, <3>2 DEF Epochs
    <3>3. ASSUME NEW a \in Attempt, NEW b \in Attempt, a < b, b <= attempt, audio'[a].reader # "none"
          PROVE  id[a][2] < id[b][2]
      BY <1>0, <2>1, <3>3 DEF Epochs
    <3> QED
      BY <1>0, <2>1, <2>2, <3>1, <3>2, <3>3 DEF Epochs
  <2>3. CASE epoch' = epoch /\ audio'[attempt].reader = audio[attempt].reader
    BY <1>0, <2>1, <2>3 DEF Epochs
  <2>4. epoch' = epoch \/ epoch' = epoch + 1
    BY <1>3 DEF Verify, NextEpoch
  <2>5. epoch' = epoch => audio'[attempt].reader = audio[attempt].reader
    BY <1>0, <1>a, <1>3, <2>1 DEF Verify, NextEpoch, Audio, Kinds
  <2> QED
    BY <2>2, <2>3, <2>4, <2>5
<1>4. CASE SpawnHelper \/ Startup \/ CloseAudio
  <2>1. UNCHANGED <<attempt, id, epoch>> /\ attempt \in Attempt
    BY <1>0, <1>4 DEF SpawnHelper, Startup, CloseAudio
  <2>2. \A a \in Attempt : audio'[a].reader # "none" => audio[a].reader # "none"
    <3>1. \A a \in Attempt : a # attempt => audio'[a] = audio[a]
      BY <1>0, <1>4, <2>1 DEF SpawnHelper, Startup, CloseAudio, Audio, Kinds
    <3>2. audio'[attempt].reader = audio[attempt].reader
      <4>1. CASE SpawnHelper
        BY <1>0, <1>a, <2>1, <4>1 DEF SpawnHelper, Audio, Kinds, Sources
      <4>2. CASE Startup
        BY <1>0, <1>a, <2>1, <4>2 DEF Startup, Audio, Kinds
      <4>3. CASE CloseAudio
        BY <1>0, <1>a, <2>1, <4>3 DEF CloseAudio, Audio, Kinds, Sources
      <4> QED
        BY <1>4, <4>1, <4>2, <4>3
    <3> QED
      BY <2>1, <3>1, <3>2
  <2> QED
    BY <1>1, <2>1, <2>2
<1>5. CASE SupervisorEnds \/ Watch \/ SessionEnds \/ StartCapture \/ CloseCapture \/ AttachSensor
           \/ DetachSensor \/ JoinAudio
  BY <1>1, <1>5 DEF SupervisorEnds, Watch, SessionEnds, StartCapture, CloseCapture, AttachSensor,
     DetachSensor, JoinAudio, sessionVars
<1>6. ASSUME NEW a \in Attempt, Helper(a)
      PROVE  Epochs'
  <2>1. HelperLeaves(a)
    BY <1>0, <1>6, HelperMoves
  <2> QED
    BY <1>0, <1>1, <2>1 DEF HelperLeaves, Kinds, supVars
<1>7. CASE GameStarts \/ GameExits \/ Stop \/ Screenshot \/ \E a \in Attempt : FrameArrives(a)
  BY <1>1, <1>7, Bystanders DEF supVars, sessionVars
<1> QED
  BY <1>2, <1>3, <1>4, <1>5, <1>6, <1>7 DEF SensorsNext, Supervisor

LEMMA CountedStep ==
    ASSUME SensorsInv, SensorsNext
    PROVE  Counted'
<1>0. /\ Counted /\ Kinds /\ attempt \in Nat /\ epoch \in Nat /\ sup.at \in SupervisorPlaces
  BY SensorsAssumption DEF SensorsInv, Kinds
<1>1. CASE UNCHANGED <<sup, attempt, epoch>>
  BY <1>1, <1>0 DEF Counted
<1>2. CASE Resolve
  BY <1>0, <1>2 DEF Resolve, Counted
<1>3. CASE Verify
  BY <1>0, <1>3 DEF Verify, NextEpoch, Goes, Counted, Starting, Kinds
<1>4. CASE StartCapture \/ SpawnHelper \/ Startup
  BY <1>0, <1>4 DEF StartCapture, SpawnHelper, Startup, Goes, Counted, Starting, Kinds
<1>5. CASE AttachSensor
  BY <1>0, <1>5 DEF AttachSensor, Counted, Starting, Kinds
<1>6. CASE SupervisorEnds \/ Watch \/ SessionEnds \/ CloseCapture \/ CloseAudio \/ JoinAudio
  BY <1>0, <1>6 DEF SupervisorEnds, Watch, SessionEnds, CloseCapture, CloseAudio, JoinAudio,
     AfterAudio, Goes, Counted, Starting, Kinds
<1>7. CASE DetachSensor
  BY <1>0, <1>7 DEF DetachSensor, Counted, Starting, Kinds
<1>8. ~Supervisor => UNCHANGED <<sup, attempt, epoch>>
  BY <1>0, Bystanders, HelperMoves DEF SensorsNext, HelperLeaves, supVars
<1> QED
  BY <1>1, <1>2, <1>3, <1>4, <1>5, <1>6, <1>7, <1>8 DEF Supervisor

\* What the start of a session does to its source, step by step.
AtHand ==
    /\ attempt \in Attempt /\ UNCHANGED <<attempt, capture>> /\ sup'.attached = sup.attached
    /\ \A a \in Attempt : a # attempt => audio'[a] = audio[a]
    /\ audio'[attempt].closed = audio[attempt].closed
    /\ audio'[attempt].format = audio[attempt].format

LEMMA AudioChanges ==
    ASSUME Kinds, attempt \in Attempt, UNCHANGED <<attempt, capture>>,
           NEW to, Goes(to), NEW s \in Sources, Audio(s),
           s.closed = audio[attempt].closed, s.format = audio[attempt].format
    PROVE  AtHand /\ sup'.at = to /\ audio'[attempt] = s
  BY DEF Kinds, Audio, Goes, AtHand

AfterSpawn ==
    /\ AtHand
    /\ \/ sup'.at = "startup" /\ audio'[attempt].running = audio[attempt].running
       \/ sup'.at = "detach" /\ audio' = audio

AfterStartup ==
    /\ AtHand
    /\ audio'[attempt].helper = audio[attempt].helper
    /\ \/ sup'.at = "verify" /\ audio' = audio /\ audio[attempt].format
       \/ sup'.at = "closeAudio" /\ (audio'[attempt].running => audio[attempt].running)

AfterVerify ==
    /\ AtHand
    /\ audio'[attempt].helper = audio[attempt].helper
    /\ sup'.at \in {"watch", "closeAudio"}

LEMMA SourceMoves ==
    ASSUME Kinds, sup.at \notin {"resolve", "gone"} => attempt \in Attempt
    PROVE  (SpawnHelper => AfterSpawn) /\ (Startup => AfterStartup) /\ (Verify => AfterVerify)
<1>1. ASSUME attempt \in Attempt
      PROVE  /\ audio[attempt] \in Sources
             /\ Failed(audio[attempt]) \in Sources
             /\ Failed(audio[attempt]).helper = audio[attempt].helper
             /\ Failed(audio[attempt]).closed = audio[attempt].closed
             /\ Failed(audio[attempt]).format = audio[attempt].format
             /\ Failed(audio[attempt]).running = FALSE
  BY <1>1 DEF Kinds, Sources, Failed
<1>2. ASSUME SpawnHelper
      PROVE  AfterSpawn
  <2>0. attempt \in Attempt /\ UNCHANGED <<attempt, capture>>
    BY <1>2 DEF SpawnHelper
  <2> DEFINE s == [audio[attempt] EXCEPT !.helper = "alive"]
  <2>1. CASE Audio(s) /\ Goes("startup")
    <3>1. s \in Sources /\ s.closed = audio[attempt].closed /\ s.format = audio[attempt].format
          /\ s.running = audio[attempt].running
      BY <1>1, <2>0 DEF Sources
    <3> HIDE DEF s
    <3> QED
      BY <2>0, <2>1, <3>1, AudioChanges DEF AfterSpawn
  <2>2. CASE Goes("detach") /\ UNCHANGED audio
    BY <2>0, <2>2 DEF AfterSpawn, AtHand, Goes, Kinds
  <2> QED
    BY <1>2, <2>1, <2>2 DEF SpawnHelper
<1>3. ASSUME Startup
      PROVE  AfterStartup
  <2>0. attempt \in Attempt /\ UNCHANGED <<attempt, capture>>
    BY <1>3 DEF Startup
  <2>1. CASE Audio(Failed(audio[attempt])) /\ Goes("closeAudio")
    BY <1>1, <2>0, <2>1, AudioChanges DEF AfterStartup
  <2>2. CASE UNCHANGED audio /\ Goes("closeAudio")
    BY <2>0, <2>2 DEF AfterStartup, AtHand, Goes, Kinds
  <2>3. CASE UNCHANGED audio /\ Goes("verify") /\ audio[attempt].format
    BY <2>0, <2>3 DEF AfterStartup, AtHand, Goes, Kinds
  <2> QED
    BY <1>3, <2>1, <2>2, <2>3 DEF Startup
<1>4. ASSUME Verify
      PROVE  AfterVerify
  <2>0. attempt \in Attempt /\ UNCHANGED <<attempt, capture>>
    BY <1>4 DEF Verify
  <2> DEFINE s == [audio[attempt] EXCEPT !.running = TRUE, !.reader = "run"]
  <2>1. CASE Audio(s) /\ Goes("watch")
    <3>1. s \in Sources /\ s.closed = audio[attempt].closed /\ s.format = audio[attempt].format
          /\ s.helper = audio[attempt].helper
      BY <1>1, <2>0 DEF Sources
    <3> HIDE DEF s
    <3> QED
      BY <2>0, <2>1, <3>1, AudioChanges DEF AfterVerify
  <2>2. CASE Audio(Failed(audio[attempt])) /\ Goes("closeAudio")
    BY <1>1, <2>0, <2>2, AudioChanges DEF AfterVerify
  <2> QED
    BY <1>4, <2>1, <2>2 DEF Verify
<1> QED
  BY <1>2, <1>3, <1>4

\* The part of Leftovers about the session at hand, after a step.
Leaving ==
    /\ sup'.at \in {"capture", "attach", "spawn"} =>
         audio'[attempt].helper = "none" /\ ~audio'[attempt].closed
    /\ audio'[attempt].helper = "alive" =>
         /\ ~audio'[attempt].closed
         /\ sup'.at \in {"startup", "verify", "watch", "detach", "closeAudio"}
    /\ sup'.at \in {"resolve", "capture", "after", "gone"} => capture'[attempt] # "on"
    /\ sup'.attached \/ sup'.at = "attach" => capture'[attempt] = "on"

\* A session ends with its helper dead or killed and its capture off, whatever raised.
LEMMA LeftoversStep ==
    ASSUME SensorsInv, SensorsNext
    PROVE  Leftovers'
<1>0. /\ Leftovers /\ Hub /\ Kinds /\ attempt \in Nat /\ Attempt \subseteq Nat \ {0}
      /\ sup.at \notin {"resolve", "gone"} => attempt \in Attempt
      /\ sup.at \in SupervisorPlaces /\ sup.attached \in BOOLEAN
  BY SensorsAssumption DEF SensorsInv, Kinds, Leftovers, Attempt
<1>a. ASSUME NEW a \in Attempt
      PROVE  audio[a] \in Sources
  BY <1>0, <1>a DEF Kinds
\* At a step that leaves the session at hand, what becomes of that is all there is to see.
<1>h. ASSUME attempt \in Attempt, attempt' = attempt,
             \A a \in Attempt : a # attempt => audio'[a] = audio[a] /\ capture'[a] = capture[a],
             Leaving
      PROVE  Leftovers'
  <2>1. ASSUME NEW a \in Attempt
        PROVE  /\ a # attempt => audio'[a].helper # "alive" /\ capture'[a] # "on"
               /\ a > attempt => audio'[a].helper = "none" /\ ~audio'[a].closed
    BY <1>0, <1>h, <2>1 DEF Leftovers
  <2> QED
    BY <1>0, <1>h, <2>1 DEF Leftovers, Leaving, Dead
<1>1. CASE UNCHANGED <<sup, attempt, audio, capture>>
  BY <1>0, <1>1 DEF Leftovers, Dead
<1>2. CASE Resolve
  <2>1. /\ attempt' = attempt + 1 /\ attempt' \in Attempt /\ UNCHANGED <<audio, capture>>
        /\ sup' = [sup EXCEPT !.at = "capture"] /\ ~sup.attached
    BY <1>0, <1>2, SensorsAssumption DEF Resolve, Goes, Hub, Attempt
  <2>2. \A a \in Attempt : audio[a].helper # "alive" /\ capture[a] # "on"
    BY <1>0, <1>2 DEF Resolve, Leftovers, Dead
  <2>3. audio[attempt'].helper = "none" /\ ~audio[attempt'].closed
    BY <1>0, <2>1 DEF Leftovers
  <2>4. sup'.at = "capture" /\ ~sup'.attached
    BY <1>0, <2>1 DEF Kinds
  <2>5. \A a \in Attempt : a > attempt' => audio[a].helper = "none" /\ ~audio[a].closed
    BY <1>0, <2>1 DEF Leftovers
  <2> QED
    BY <1>0, <2>1, <2>2, <2>3, <2>4, <2>5 DEF Leftovers, Dead
<1>3. CASE SupervisorEnds
  BY <1>0, <1>3 DEF SupervisorEnds, Goes, Leftovers, Kinds, Dead, sessionVars
<1>4. CASE StartCapture
  BY <1>0, <1>h, <1>4 DEF StartCapture, Goes, Leaving, Leftovers, Hub, Kinds
<1>5. CASE AttachSensor
  BY <1>0, <1>h, <1>5 DEF AttachSensor, Leaving, Leftovers, Hub, Kinds, sessionVars
<1>6. CASE SpawnHelper
  BY <1>0, <1>h, <1>6, SourceMoves DEF SpawnHelper, AfterSpawn, AtHand, Leaving, Leftovers, Hub, Dead
<1>7. CASE Startup
  BY <1>0, <1>h, <1>7, SourceMoves DEF Startup, AfterStartup, AtHand, Leaving, Leftovers, Hub, Dead
<1>8. CASE Verify
  BY <1>0, <1>h, <1>8, SourceMoves DEF Verify, AfterVerify, AtHand, Leaving, Leftovers, Hub, Dead
<1>9. CASE Watch \/ SessionEnds
  BY <1>0, <1>h, <1>9 DEF Watch, SessionEnds, Goes, Leaving, Leftovers, Hub, Kinds, sessionVars
<1>10. CASE DetachSensor
  BY <1>0, <1>h, <1>10 DEF DetachSensor, Leaving, Leftovers, Hub, Kinds, sessionVars
<1>11. CASE CloseAudio
  <2>1. attempt \in Attempt /\ attempt' = attempt /\ UNCHANGED capture
        /\ sup' = [sup EXCEPT !.at = "join"]
    BY <1>0, <1>11 DEF CloseAudio, Goes
  <2>2. sup'.at = "join" /\ sup'.attached = sup.attached
    BY <1>0, <2>1 DEF Kinds
  <2>3. /\ \A a \in Attempt : a # attempt => audio'[a] = audio[a]
        /\ audio'[attempt].helper \in {"none", "dead", "dying"}
    <3>1. PICK h \in {"none", "dead", "dying"} :
            Audio([audio[attempt] EXCEPT !.closed = TRUE, !.helper = h,
                                         !.format = FALSE, !.failed = FALSE, !.running = FALSE])
      BY <1>0, <1>11 DEF CloseAudio, Dead
    <3> QED
      BY <1>0, <1>a, <2>1, <3>1 DEF Audio, Kinds, Sources
  <2>4. Leaving
    BY <1>0, <2>1, <2>2, <2>3 DEF Leaving, Leftovers, Hub
  <2> QED
    BY <1>h, <2>1, <2>3, <2>4
<1>12. CASE JoinAudio
  BY <1>0, <1>h, <1>12 DEF JoinAudio, AfterAudio, Goes, Leaving, Leftovers, Hub, Kinds, sessionVars
<1>13. CASE CloseCapture
  BY <1>0, <1>h, <1>13 DEF CloseCapture, Goes, Leaving, Leftovers, Hub, Kinds
<1>14. ASSUME NEW a \in Attempt, Helper(a)
       PROVE  Leftovers'
  <2>1. HelperLeaves(a)
    BY <1>0, <1>14, HelperMoves
  <2>2. /\ UNCHANGED <<sup, attempt, capture>>
        /\ \A b \in Attempt : audio'[b].helper \in {audio[b].helper, "dead"}
                              /\ audio'[b].closed = audio[b].closed
                              /\ (audio[b].helper = "none" => audio'[b].helper = "none")
    BY <1>0, <1>a, <2>1 DEF HelperLeaves, Kinds, supVars
  <2>3. \A b \in Attempt : audio'[b].helper = "alive" => audio[b].helper = "alive"
    BY <2>2
  <2>4. /\ \A b \in Attempt :
              /\ b # attempt => audio'[b].helper # "alive" /\ capture[b] # "on"
              /\ b > attempt => audio'[b].helper = "none" /\ ~audio'[b].closed
    BY <1>0, <2>2, <2>3 DEF Leftovers, Dead
  <2>5. attempt # 0 => attempt \in Attempt
    BY SensorsAssumption DEF SensorsInv, Kinds, Attempt
  <2> QED
    BY <1>0, <2>2, <2>3, <2>4, <2>5 DEF Leftovers
<1>15. CASE GameStarts \/ GameExits \/ Stop \/ Screenshot \/ \E a \in Attempt : FrameArrives(a)
  BY <1>1, <1>15, Bystanders DEF supVars, sessionVars
<1> QED
  BY <1>2, <1>3, <1>4, <1>5, <1>6, <1>7, <1>8, <1>9, <1>10, <1>11, <1>12, <1>13, <1>14, <1>15
     DEF SensorsNext, Supervisor

\* What runs has said its format.
LEMMA FormatsStep ==
    ASSUME SensorsInv, SensorsNext
    PROVE  Formats'
<1>0. /\ Formats /\ Kinds
      /\ sup.at \notin {"resolve", "gone"} => attempt \in Attempt
      /\ sup.at \in SupervisorPlaces
  BY SensorsAssumption DEF SensorsInv, Kinds, Leftovers, Attempt
<1>a. ASSUME NEW a \in Attempt
      PROVE  audio[a] \in Sources
  BY <1>0, <1>a DEF Kinds
<1>1. CASE UNCHANGED audio /\ sup'.at # "verify"
  BY <1>0, <1>1 DEF Formats
<1>2. CASE UNCHANGED <<sup, attempt, audio>>
  BY <1>0, <1>2 DEF Formats
<1>3. CASE Resolve \/ SupervisorEnds \/ StartCapture \/ Watch \/ JoinAudio \/ CloseCapture \/ SessionEnds
  BY <1>0, <1>1, <1>3 DEF Resolve, SupervisorEnds, StartCapture, Watch, JoinAudio, AfterAudio,
     CloseCapture, SessionEnds, Goes, Kinds, sessionVars
<1>4. CASE AttachSensor \/ DetachSensor
  BY <1>0, <1>1, <1>4 DEF AttachSensor, DetachSensor, Kinds, sessionVars
<1>5. CASE SpawnHelper
  BY <1>0, <1>5, SourceMoves DEF SpawnHelper, AfterSpawn, AtHand, Formats
<1>6. CASE Startup
  BY <1>0, <1>6, SourceMoves DEF Startup, AfterStartup, AtHand, Formats
<1>7. CASE Verify
  BY <1>0, <1>7, SourceMoves DEF Verify, AfterVerify, AtHand, Formats
<1>8. CASE CloseAudio
  BY <1>0, <1>a, <1>8 DEF CloseAudio, Audio, Goes, Formats, Kinds, Sources
<1>9. ASSUME NEW a \in Attempt, Helper(a)
      PROVE  Formats'
  <2>1. HelperLeaves(a)
    BY <1>0, <1>9, HelperMoves
  <2> QED
    BY <1>0, <2>1 DEF HelperLeaves, Formats, Kinds, supVars
<1>10. CASE GameStarts \/ GameExits \/ Stop \/ Screenshot \/ \E a \in Attempt : FrameArrives(a)
  BY <1>2, <1>10, Bystanders DEF supVars, sessionVars
<1> QED
  BY <1>3, <1>4, <1>5, <1>6, <1>7, <1>8, <1>9, <1>10 DEF SensorsNext, Supervisor

\* The hub's lock keeps the session whose capture is read.
LEMMA ReadingStep ==
    ASSUME SensorsInv, SensorsNext
    PROVE  Reading'
<1>0. Reading /\ Hub /\ Kinds
  BY DEF SensorsInv
<1>1. CASE UNCHANGED <<lock, shot>> /\ (shot # Nothing => UNCHANGED <<attempt, sup>>)
  BY <1>0, <1>1 DEF Reading
<1>2. CASE Supervisor
  <2>1. UNCHANGED <<lock, shot>>
    BY <1>2, SupervisorMoves DEF shotVars
  <2>2. CASE Resolve \/ AttachSensor \/ DetachSensor
    BY <1>0, <2>1, <2>2 DEF Resolve, AttachSensor, DetachSensor, Hub, Reading
  <2>3. CASE ~(Resolve \/ AttachSensor \/ DetachSensor)
    <3>1. UNCHANGED attempt /\ sup'.attached = sup.attached
      BY <1>0, <1>2, <2>3 DEF Supervisor, SupervisorEnds, StartCapture, SpawnHelper, Startup, Verify,
         Watch, CloseAudio, JoinAudio, CloseCapture, SessionEnds, Goes, Kinds
    <3> QED
      BY <1>0, <2>1, <3>1 DEF Reading
  <2> QED
    BY <2>2, <2>3
<1>3. CASE ShotBegins
  <2>1. UNCHANGED <<sup, attempt>> /\ sup.attached /\ provider = attempt
    BY <1>0, <1>3 DEF ShotBegins, Hub, supVars
  <2>2. lock' = TRUE /\ shot' = [ask |-> Head(requests), of |-> provider]
    BY <1>3 DEF ShotBegins, TakeLock
  <2>3. Head(requests) \in Nat /\ provider \in Nat
    BY <1>0, <1>3, <2>1 DEF ShotBegins, Kinds
  <2>4. shot' # Nothing
    BY <2>2, <2>3, SensorsAssumption
  <2> QED
    BY <2>1, <2>2, <2>4 DEF Reading
<1>4. CASE ShotEnds \/ ShotFails
  BY <1>0, <1>4 DEF ShotEnds, ShotFails, Reading
<1>5. CASE RequestScreenshot \/ RequestEnds \/ ReceiveScreenshot \/ ShotRefused
  BY <1>1, <1>5 DEF RequestScreenshot, RequestEnds, ReceiveScreenshot, ShotRefused, supVars, hubVars
<1>6. ASSUME NEW a \in Attempt, Helper(a)
      PROVE  Reading'
  BY <1>0, <1>1, <1>6, HelperMoves DEF HelperLeaves, supVars, hubVars, shotVars
<1>7. CASE GameStarts \/ GameExits \/ Stop \/ \E a \in Attempt : FrameArrives(a)
  BY <1>1, <1>7, Bystanders DEF supVars, hubVars, shotVars
<1> QED
  BY <1>2, <1>3, <1>4, <1>5, <1>6, <1>7 DEF SensorsNext, Screenshot

\* A frame has the last request for its stamp, and one that a shot reads is newer
\* than the shot.
LEMMA StampsStep ==
    ASSUME SensorsInv, SensorsNext
    PROVE  Stamps'
<1>0. Stamps /\ Kinds /\ asked \in Nat
  BY DEF SensorsInv, Kinds
<1>1. CASE UNCHANGED <<asked, requests, frame, shot, replies>>
  BY <1>0, <1>1 DEF Stamps
<1>2. CASE CloseCapture
  <2>1. /\ UNCHANGED <<asked, requests, shot, replies>>
        /\ \A a \in Attempt : frame'[a] # Nothing => frame'[a] = frame[a]
    BY <1>0, <1>2 DEF CloseCapture, shotVars, Kinds
  <2> QED
    BY <1>0, <2>1 DEF Stamps
<1>3. CASE Supervisor /\ ~CloseCapture
  BY <1>1, <1>3, SupervisorMoves DEF shotVars
<1>4. ASSUME NEW a \in Attempt, FrameArrives(a)
      PROVE  Stamps'
  <2>1. /\ UNCHANGED <<asked, requests, shot, replies>>
        /\ frame'[a] = [stamp |-> asked, new |-> TRUE]
        /\ \A b \in Attempt : b # a => frame'[b] = frame[b]
    BY <1>0, <1>4 DEF FrameArrives, shotVars, Kinds
  <2>2. frame'[a].stamp = asked
    BY <2>1
  <2> QED
    BY <1>0, <2>1, <2>2 DEF Stamps
<1>5. ASSUME NEW a \in Attempt, Helper(a)
      PROVE  Stamps'
  BY <1>0, <1>1, <1>5, HelperMoves DEF HelperLeaves, shotVars
<1>6. CASE GameStarts \/ GameExits \/ Stop
  BY <1>1, <1>6, Bystanders DEF shotVars, sessionVars
<1>7. CASE RequestScreenshot
  <2>1. /\ asked' = asked + 1 /\ requests' = Append(requests, asked + 1)
        /\ UNCHANGED <<frame, shot, replies>>
    BY <1>7 DEF RequestScreenshot, sessionVars
  <2>2. \A i \in DOMAIN requests' : requests'[i] <= asked'
    BY <1>0, <2>1 DEF Stamps, Kinds
  <2>3. shot # Nothing => shot.ask \in Nat
    BY <1>0 DEF Kinds
  <2>4. \A a \in Attempt : frame[a] # Nothing => frame[a].stamp \in Nat
    BY <1>0 DEF Kinds
  <2> QED
    BY <1>0, <2>1, <2>2, <2>3, <2>4 DEF Stamps
<1>8. CASE RequestEnds
  BY <1>0, <1>8 DEF RequestEnds, Stamps, sessionVars
<1>9. CASE ReceiveScreenshot
  <2>1. UNCHANGED <<asked, requests, frame, shot>> /\ replies # <<>> /\ replies' = Tail(replies)
    BY <1>9 DEF ReceiveScreenshot, sessionVars
  <2>2. \A i \in DOMAIN replies' : i + 1 \in DOMAIN replies /\ replies'[i] = replies[i + 1]
    BY <1>0, <2>1 DEF Kinds
  <2> QED
    BY <1>0, <2>1, <2>2 DEF Stamps
<1>q. ASSUME requests # <<>>
      PROVE  /\ Head(requests) \in Nat /\ Head(requests) <= asked
             /\ \A i \in DOMAIN Tail(requests) : Tail(requests)[i] <= asked
  BY <1>0, <1>q DEF Stamps, Kinds
<1>r. ASSUME NEW ask \in Nat, NEW stamp \in Nat \cup {Nothing}, Reply(ask, stamp),
             stamp # Nothing => stamp >= ask
      PROVE  \A i \in DOMAIN replies' : replies'[i].stamp # Nothing => replies'[i].stamp >= replies'[i].ask
  <2>1. replies' = Append(replies, [ask |-> ask, stamp |-> stamp])
    BY <1>r DEF Reply
  <2>2. \A i \in DOMAIN replies' :
             (i \in DOMAIN replies /\ replies'[i] = replies[i])
             \/ replies'[i] = [ask |-> ask, stamp |-> stamp]
    <3> DEFINE S == [ask : Nat, stamp : Nat \cup {Nothing}]
               new == [ask |-> ask, stamp |-> stamp]
    <3>1. replies \in Seq(S) /\ new \in S /\ replies' = Append(replies, new)
      BY <1>0, <2>1 DEF Kinds
    <3> HIDE DEF S, new
    <3>2. \A i \in DOMAIN replies' : (i \in DOMAIN replies /\ replies'[i] = replies[i]) \/ replies'[i] = new
      BY <3>1
    <3> QED
      BY <3>2 DEF new
  <2> QED
    BY <1>0, <1>r, <2>2 DEF Stamps
<1>10. CASE ShotBegins
  <2>1. /\ shot' = [ask |-> Head(requests), of |-> provider] /\ requests' = Tail(requests)
        /\ requests # <<>> /\ UNCHANGED <<asked, replies>>
    BY <1>10 DEF ShotBegins
  <2>2. shot'.ask = Head(requests) /\ shot'.of = provider
    BY <2>1
  <2>3. ASSUME NEW a \in Attempt, frame'[a] # Nothing
        PROVE  frame'[a].stamp <= asked /\ (a = provider => ~frame'[a].new)
    <3>1. CASE a # provider
      BY <1>0, <1>10, <2>3, <3>1 DEF ShotBegins, Stamps, Kinds
    <3>2. CASE a = provider /\ frame[a] = Nothing
      BY <1>0, <1>10, <2>3, <3>2 DEF ShotBegins
    <3>3. CASE a = provider /\ frame[a] # Nothing
      <4>1. frame[a] \in [stamp : Nat, new : BOOLEAN] /\ frame[a].stamp <= asked
        BY <1>0, <3>3 DEF Stamps, Kinds
      <4>2. frame'[a] = [frame[a] EXCEPT !.new = FALSE]
        BY <1>0, <1>10, <3>3 DEF ShotBegins, Kinds
      <4> QED
        BY <3>3, <4>1, <4>2
    <3> QED
      BY <3>1, <3>2, <3>3
  <2> QED
    BY <1>0, <1>q, <2>1, <2>2, <2>3 DEF Stamps
<1>11. CASE ShotEnds
  <2>1. /\ UNCHANGED <<asked, requests>> /\ shot # Nothing /\ shot' = Nothing
        /\ frame[shot.of] # Nothing /\ frame[shot.of].new
        /\ Reply(shot.ask, frame[shot.of].stamp)
    BY <1>11 DEF ShotEnds, ReadsFrame
  <2>2. /\ shot.ask \in Nat /\ shot.of \in Attempt /\ frame[shot.of].stamp \in Nat
        /\ frame[shot.of].stamp >= shot.ask
    BY <1>0, <2>1 DEF Stamps, Kinds
  <2>3. \A a \in Attempt : frame'[a] # Nothing => frame'[a] = frame[a]
    BY <1>0, <1>11, <2>2 DEF ShotEnds, Kinds
  <2> QED
    BY <1>0, <1>r, <2>1, <2>2, <2>3 DEF Stamps
<1>12. CASE ShotFails
  <2>1. shot.ask \in Nat
    BY <1>0, <1>12 DEF ShotFails, Kinds
  <2> QED
    BY <1>0, <1>12, <1>r, <2>1 DEF ShotFails, Stamps, sessionVars
<1>13. CASE ShotRefused
  BY <1>0, <1>13, <1>q, <1>r DEF ShotRefused, Stamps, sessionVars
<1> QED
  BY <1>2, <1>3, <1>4, <1>5, <1>6, <1>7, <1>8, <1>9, <1>10, <1>11, <1>12, <1>13
     DEF SensorsNext, Screenshot

\* The eight parts hold in every state the senses reach.
THEOREM SensorsInvHolds == SensorsSpec => []SensorsInv
<1>1. SensorsInit => SensorsInv
  <2> SUFFICES ASSUME SensorsInit
               PROVE  SensorsInv
    OBVIOUS
  <2>0. {MaxGames, MaxAttempts} \subseteq Nat /\ 0 \notin Attempt /\ NewAudio \in Sources
        /\ NewAudio.reader = "none" /\ NewAudio.helper = "none" /\ NewAudio.closed = FALSE
        /\ NewAudio.running = FALSE
    BY SensorsAssumption DEF NewAudio, Sources, Attempt
  <2>1. Kinds
    <3>1. <<>> \in Seq(Nat) /\ <<>> \in Seq([ask : Nat, stamp : Nat \cup {Nothing}])
      OBVIOUS
    <3>2. sup \in [at : SupervisorPlaces, attached : BOOLEAN]
      BY DEF SensorsInit, SupervisorPlaces
    <3>3. /\ id \in [Attempt -> Identity \cup {Nothing}]
          /\ capture \in [Attempt -> {"none", "on", "off"}]
          /\ frame \in [Attempt -> [stamp : Nat, new : BOOLEAN] \cup {Nothing}]
          /\ audio \in [Attempt -> Sources]
      BY <2>0 DEF SensorsInit
    <3>4. games \in 0..MaxGames /\ game \in 0..games /\ attempt \in 0..MaxAttempts
      BY <2>0 DEF SensorsInit
    <3> QED
      BY <3>1, <3>2, <3>3, <3>4 DEF SensorsInit, Kinds
  <2>2. Hub
    BY DEF SensorsInit, Hub
  <2>3. Epochs /\ Counted
    BY <2>0 DEF SensorsInit, Epochs, Counted, Starting, Attempt
  <2>4. Leftovers
    BY <2>0 DEF SensorsInit, Leftovers, Dead
  <2>5. Formats /\ Reading /\ Stamps
    BY <2>0 DEF SensorsInit, Formats, Reading, Stamps
  <2> QED
    BY <2>1, <2>2, <2>3, <2>4, <2>5 DEF SensorsInv
<1>2. ASSUME SensorsInv, SensorsNext
      PROVE  SensorsInv'
  BY <1>2, KindsStep, HubStep, EpochsStep, CountedStep, LeftoversStep, FormatsStep, ReadingStep,
     StampsStep DEF SensorsInv
<1>3. SensorsInv /\ UNCHANGED sensorsVars => SensorsInv'
  BY DEF sensorsVars, gameVars, supVars, sessionVars, hubVars, shotVars, SensorsInv, Kinds, Hub,
         Epochs, Counted, Leftovers, Formats, Reading, Stamps, Dead
<1> QED
  BY <1>1, <1>2, <1>3, PTL DEF SensorsSpec

\* The type invariant of the senses (windows_companion_supervisor.py,
\* windows_input_hub.py, windows_process_audio.py).
THEOREM SensorsTypeCorrect == SensorsSpec => []SensorsTypeOK
<1>1. SensorsInv => SensorsTypeOK
  <2> SUFFICES ASSUME SensorsInv
               PROVE  SensorsTypeOK
    OBVIOUS
  <2>1. Kinds /\ Hub /\ Counted /\ Formats /\ Reading
    BY DEF SensorsInv
  <2>2. /\ sensor = IF provider = 0 THEN Nothing ELSE id[provider]
        /\ sup.at = "watch" => provider = attempt
    BY <2>1 DEF Hub
  <2>3. \A a \in Attempt :
          /\ capture[a] \in {"none", "on", "off"}
          /\ audio[a].helper \in {"none", "alive", "dying", "dead"}
          /\ audio[a].running => audio[a].format
    BY <2>1 DEF Kinds, Sources, Formats
  <2>4. epoch \in 0..attempt /\ attempt \in 0..MaxAttempts
    BY <2>1, SensorsAssumption DEF Kinds, Counted
  <2> QED
    BY <2>1, <2>2, <2>3, <2>4 DEF SensorsTypeOK, Kinds, SupervisorPlaces, Reading
<1> QED
  BY <1>1, SensorsInvHolds, PTL

\* Of all the sessions whose threads are still alive only the attached one is
\* heard, and a screenshot reads a capture that is open (windows_input_hub.py).
THEOREM OnlyTheAttachedIsSensed == SensorsSpec => []SensesAreTheAttached
<1>1. SensorsInv => SensesAreTheAttached
  <2> SUFFICES ASSUME SensorsInv
               PROVE  SensesAreTheAttached
    OBVIOUS
  <2>0. /\ Kinds /\ Hub /\ Epochs /\ Leftovers /\ Reading
        /\ attempt # 0 => attempt \in Attempt
        /\ Attempt \subseteq Nat /\ attempt \in Nat
    BY SensorsAssumption DEF SensorsInv, Kinds, Attempt
  <2>1. ASSUME NEW a \in Attempt, audio[a].reader = "publish", id[a] = sensor
        PROVE  a = provider
    <3>1. a <= attempt /\ id[a] # Nothing
      BY <2>0, <2>1 DEF Epochs
    <3>2. sup.attached /\ provider = attempt /\ id[a] = id[attempt] /\ attempt \in Attempt
      BY <2>0, <2>1, <3>1 DEF Hub
    <3>3. ~(a < attempt)
      <4>1. id[a][2] \in Nat
        BY <2>0, <3>1 DEF Kinds, Identity
      <4> QED
        BY <2>0, <2>1, <3>2, <4>1 DEF Epochs
    <3> QED
      BY <2>0, <3>1, <3>2, <3>3
  <2>2. shot # Nothing => capture[shot.of] = "on"
    BY <2>0 DEF Reading, Leftovers, Hub
  <2> QED
    BY <2>1, <2>2 DEF SensesAreTheAttached, Passes
<1> QED
  BY <1>1, SensorsInvHolds, PTL

\* A session that is over has left no capture, no place in the hub and no helper
\* but one that was killed, whatever failed in its start or its end
\* (windows_sensor_session.py).
THEOREM NothingIsLeft == SensorsSpec => []SessionLeavesNothing
<1>1. SensorsInv => SessionLeavesNothing
  <2> SUFFICES ASSUME SensorsInv, sup.at \in {"resolve", "gone"}
               PROVE  provider = 0 /\ \A a \in Attempt : audio[a].helper # "alive" /\ capture[a] # "on"
    BY DEF SessionLeavesNothing
  <2>1. Hub /\ Leftovers /\ 0 \notin Attempt
    BY DEF SensorsInv, Attempt
  <2> QED
    BY <2>1 DEF Hub, Leftovers, Dead
<1> QED
  BY <1>1, SensorsInvHolds, PTL

\* The screenshot the Mac waits for was captured after it was asked for
\* (windows_screenshot.py, mac_input_transport.py).
THEOREM ScreenshotsAreFresh == SensorsSpec => []ScreenshotIsFresh
<1>1. SensorsInv => ScreenshotIsFresh
  BY DEF SensorsInv, Stamps, ScreenshotIsFresh
<1> QED
  BY <1>1, SensorsInvHolds, PTL

----------------------------------------------------------------------------
(***************************************************************************)
(* Identity: what the logs tell of the clients, and what is remembered of  *)
(* them.                                                                   *)
(***************************************************************************)
IdentitySpec == IdentityInit /\ [][IdentityNext]_identityVars

Log == [pid : Pid, start : Nat, stamp : Nat, account : Account \cup {Nobody}, size : Nat]
Remembers == [start : Nat, stamp : Nat, size : Nat, account : Account \cup {Nobody}]

\* Each log is named soon after its client's start, and no two clients start so soon
\* after one another that a log could be the other's.
LogsApart ==
    /\ logs \subseteq Log /\ IsFiniteSet(logs)
    /\ \A log \in logs : log.stamp - log.start \in 0..Lag
    /\ \A l, m \in logs : l # m =>
         /\ l.start # m.start /\ l.stamp # m.stamp
         /\ l.start >= m.start + Spacing \/ m.start >= l.start + Spacing

\* What is remembered of a log is what it says, unless it has been written to since.
CacheHolds ==
    /\ cache \subseteq Remembers
    /\ \A c \in cache : \E log \in logs :
         /\ log.start = c.start /\ c.size <= log.size
         /\ c.size = log.size => c.account = log.account

Lookups == looked.pids \subseteq Pid /\ DOMAIN looked.starts \subseteq Pid

IdentityInv == LogsApart /\ CacheHolds /\ Lookups

AsWritten(log) ==
    [start |-> log.start, stamp |-> log.stamp, size |-> log.size, account |-> log.account]

\* The accounts that are worked with are those in the logs.
LEMMA SessionsAre ==
    ASSUME IdentityInv
    PROVE  Sessions = {AsWritten(log) : log \in Newest}
<1>1. ASSUME NEW log \in Newest
      PROVE  LET old == {c \in cache : c.start = log.start /\ c.size = log.size}
             IN  (IF old # {} THEN (CHOOSE c \in old : TRUE).account ELSE log.account) = log.account
  <2> DEFINE old == {c \in cache : c.start = log.start /\ c.size = log.size}
  <2>1. ASSUME NEW c \in old
        PROVE  c.account = log.account
    <3>1. log \in logs
      BY DEF Newest
    <3>2. PICK m \in logs : m.start = c.start /\ (c.size = m.size => c.account = m.account)
      BY <2>1 DEF IdentityInv, CacheHolds
    <3>3. m = log
      BY <2>1, <3>1, <3>2 DEF IdentityInv, LogsApart
    <3> QED
      BY <2>1, <3>2, <3>3
  <2>2. CASE old = {}
    BY <2>2
  <2>3. CASE old # {}
    <3>1. (CHOOSE c \in old : TRUE) \in old
      BY <2>3
    <3> QED
      BY <2>1, <2>3, <3>1
  <2> QED
    BY <2>2, <2>3
<1> QED
  BY <1>1 DEF Sessions, AsWritten

LEMMA LaunchKeeps ==
    ASSUME IdentityInv, NEW pid \in Pid, Launch(pid)
    PROVE  IdentityInv'
<1>1. PICK start \in 1..MaxClock : \E stamp \in start..(start + Lag) :
        /\ \A log \in logs : start >= log.start + Spacing /\ stamp # log.stamp
        /\ logs' = logs \cup {[pid |-> pid, start |-> start, stamp |-> stamp,
                               account |-> Nobody, size |-> 0]}
  BY DEF Launch
<1>2. PICK stamp \in start..(start + Lag) :
        /\ \A log \in logs : start >= log.start + Spacing /\ stamp # log.stamp
        /\ logs' = logs \cup {[pid |-> pid, start |-> start, stamp |-> stamp,
                               account |-> Nobody, size |-> 0]}
  BY <1>1
<1> DEFINE new == [pid |-> pid, start |-> start, stamp |-> stamp, account |-> Nobody, size |-> 0]
<1>3. /\ Lag \in Nat /\ Spacing \in Nat /\ Spacing >= 2 * Lag /\ MaxClock \in Nat
      /\ start \in Nat /\ stamp \in Nat /\ stamp - start \in 0..Lag
  BY IdentityAssumption
<1>4. new \in Log /\ new.start = start /\ new.stamp = stamp
  BY <1>3 DEF Log
<1>5. ASSUME NEW log \in logs
      PROVE  start # log.start /\ stamp # log.stamp /\ start >= log.start + Spacing
  <2>1. /\ log.start \in Nat /\ log.stamp \in Nat /\ log.stamp - log.start \in 0..Lag
    BY <1>5 DEF IdentityInv, LogsApart, Log
  <2>2. start >= log.start + Spacing /\ stamp # log.stamp
    BY <1>2, <1>5
  <2> QED
    BY <1>3, <2>1, <2>2
<1> HIDE DEF new
<1>6. logs' = logs \cup {new}
  BY <1>2 DEF new
<1>7. LogsApart'
  <2>1. logs' \subseteq Log /\ IsFiniteSet(logs')
    BY <1>4, <1>6, FS_AddElement DEF IdentityInv, LogsApart
  <2>2. \A log \in logs' : log.stamp - log.start \in 0..Lag
    BY <1>3, <1>4, <1>6 DEF IdentityInv, LogsApart
  <2>3. ASSUME NEW l \in logs', NEW m \in logs', l # m
        PROVE  /\ l.start # m.start /\ l.stamp # m.stamp
               /\ l.start >= m.start + Spacing \/ m.start >= l.start + Spacing
    BY <1>4, <1>5, <1>6, <2>3 DEF IdentityInv, LogsApart
  <2> QED
    BY <2>1, <2>2, <2>3 DEF LogsApart
<1>8. CacheHolds'
  BY <1>6 DEF IdentityInv, CacheHolds, Launch
<1> QED
  BY <1>7, <1>8 DEF IdentityInv, Lookups, Launch

LEMMA WriteKeeps ==
    ASSUME IdentityInv, NEW log \in logs, WriteLog(log)
    PROVE  IdentityInv'
<1>1. PICK account \in Account \cup {log.account} :
        logs' = (logs \ {log}) \cup {[log EXCEPT !.size = @ + 1, !.account = account]}
  BY DEF WriteLog
<1>2. log \in Log /\ log.size \in Nat
  BY DEF IdentityInv, LogsApart, Log
<1> DEFINE new == [log EXCEPT !.size = @ + 1, !.account = account]
<1>3. new \in Log /\ new.start = log.start /\ new.stamp = log.stamp /\ new.size = log.size + 1
  <2>1. account \in Account \cup {Nobody} /\ log.size + 1 \in Nat
    BY <1>2 DEF Log
  <2>2. \A n \in Nat : [log EXCEPT !.size = n, !.account = account] \in Log
    BY <1>2, <2>1 DEF Log
  <2>3. new = [log EXCEPT !.size = log.size + 1, !.account = account]
    OBVIOUS
  <2> QED
    BY <1>2, <2>1, <2>2, <2>3 DEF Log
<1>4. logs' = (logs \ {log}) \cup {new}
  BY <1>1
<1> HIDE DEF new
<1>5. LogsApart'
  <2>1. logs' \subseteq Log
    BY <1>3, <1>4 DEF IdentityInv, LogsApart
  <2>2. IsFiniteSet(logs')
    BY <1>4, FS_AddElement, FS_RemoveElement DEF IdentityInv, LogsApart
  <2>3. \A l \in logs' : l.stamp - l.start \in 0..Lag
    BY <1>3, <1>4 DEF IdentityInv, LogsApart
  <2>4. ASSUME NEW l \in logs', NEW m \in logs', l # m
        PROVE  /\ l.start # m.start /\ l.stamp # m.stamp
               /\ l.start >= m.start + Spacing \/ m.start >= l.start + Spacing
    BY <1>3, <1>4, <2>4 DEF IdentityInv, LogsApart
  <2> QED
    BY <2>1, <2>2, <2>3, <2>4 DEF LogsApart
<1>6. ASSUME NEW c \in cache
      PROVE  \E l \in logs' : /\ l.start = c.start /\ c.size <= l.size
                              /\ c.size = l.size => c.account = l.account
  <2>1. PICK l \in logs : /\ l.start = c.start /\ c.size <= l.size
                          /\ c.size = l.size => c.account = l.account
    BY <1>6 DEF IdentityInv, CacheHolds
  <2>2. c.size \in Nat
    BY <1>6 DEF IdentityInv, CacheHolds, Remembers
  <2>3. CASE l = log
    BY <1>2, <1>3, <1>4, <2>1, <2>2, <2>3
  <2>4. CASE l # log
    BY <1>4, <2>1, <2>4
  <2> QED
    BY <2>3, <2>4
<1> QED
  BY <1>5, <1>6 DEF IdentityInv, CacheHolds, Lookups, WriteLog

LEMMA MatchKeeps ==
    ASSUME IdentityInv, MatchLogs
    PROVE  IdentityInv'
<1>1. cache' = {AsWritten(log) : log \in Newest} /\ logs' = logs
  BY SessionsAre DEF MatchLogs
<1>2. Newest \subseteq logs
  BY DEF Newest
<1>3. ASSUME NEW log \in logs
      PROVE  AsWritten(log) \in Remembers /\ log.size <= log.size
  BY <1>3 DEF AsWritten, Remembers, IdentityInv, LogsApart, Log
<1>4. CacheHolds'
  BY <1>1, <1>2, <1>3 DEF CacheHolds, AsWritten
<1>5. Lookups'
  BY DEF MatchLogs, Idle, Lookups
<1> QED
  BY <1>1, <1>4, <1>5 DEF IdentityInv, LogsApart

\* The inductive invariant: the logs are apart, and what is remembered of them holds.
THEOREM IdentityInvHolds == IdentitySpec => []IdentityInv
<1>1. IdentityInit => IdentityInv
  BY FS_EmptySet DEF IdentityInit, IdentityInv, LogsApart, CacheHolds, Lookups, Idle
<1>2. IdentityInv /\ IdentityNext => IdentityInv'
  <2> SUFFICES ASSUME IdentityInv, IdentityNext
               PROVE  IdentityInv'
    OBVIOUS
  <2>1. CASE \E pid \in Pid : Launch(pid)
    BY <2>1, LaunchKeeps
  <2>2. CASE \E log \in logs : WriteLog(log)
    BY <2>2, WriteKeeps
  <2>3. CASE MatchLogs
    BY <2>3, MatchKeeps
  <2>4. CASE (\E pid \in Pid : Quit(pid)) \/ LoseClient
    BY <2>4 DEF Quit, LoseClient, IdentityInv, LogsApart, CacheHolds, Lookups
  <2>5. CASE Enumerate \/ ReadStarts
    BY <2>5 DEF Enumerate, ReadStarts, IdentityInv, LogsApart, CacheHolds, Lookups
  <2> QED
    BY <2>1, <2>2, <2>3, <2>4, <2>5 DEF IdentityNext
<1>3. IdentityInv /\ UNCHANGED identityVars => IdentityInv'
  BY DEF IdentityInv, LogsApart, CacheHolds, Lookups, identityVars
<1> QED
  BY <1>1, <1>2, <1>3, PTL DEF IdentitySpec

LEMMA NearestAreFinite ==
    ASSUME IdentityInv, NEW start
    PROVE  IsFiniteSet(Nearest(start, Sessions))
<1>1. Newest \in SUBSET logs /\ IsFiniteSet(logs)
  BY DEF Newest, IdentityInv, LogsApart
<1>2. IsFiniteSet(Newest)
  BY <1>1, FS_Subset
<1> DEFINE f == [log \in Newest |-> AsWritten(log)]
<1>3. f \in Surjection(Newest, Sessions)
  BY SessionsAre DEF Surjection
<1>4. IsFiniteSet(Sessions)
  BY <1>2, <1>3, FS_Surjection
<1>5. Nearest(start, Sessions) \in SUBSET Sessions
  BY DEF Nearest
<1> QED
  BY <1>4, <1>5, FS_Subset

\* Of the logs that name an account none is nearer to a client's start than its own;
\* so if one alone is the nearest, it is that one.
LEMMA NearestIsOwn ==
    ASSUME IdentityInv, NEW log \in Newest, log.account # Nobody,
           ~(Cardinality(Nearest(log.start, Sessions)) > 1)
    PROVE  Nearest(log.start, Sessions) = {AsWritten(log)}
<1>1. log \in logs
  BY DEF Newest
<1>2. ASSUME NEW m \in logs
      PROVE  /\ m.start \in Nat /\ m.stamp \in Nat /\ m.stamp - m.start \in 0..Lag
             /\ m # log => m.start >= log.start + Spacing \/ log.start >= m.start + Spacing
  BY <1>1, <1>2 DEF IdentityInv, LogsApart, Log
<1>3. Lag \in Nat /\ Spacing \in Nat /\ Tolerance \in Nat /\ Spacing >= 2 * Lag /\ Tolerance >= Lag
  BY IdentityAssumption
<1>4. Distance(log.stamp, log.start) \in 0..Lag
  BY <1>1, <1>2, <1>3 DEF Distance
<1>5. ASSUME NEW m \in logs
      PROVE  Distance(log.stamp, log.start) <= Distance(m.stamp, log.start)
  <2>1. CASE m = log
    BY <1>4, <2>1
  <2>2. CASE m # log
    <3>1. m.stamp >= log.start + Lag \/ m.stamp <= log.start - Lag
      BY <1>1, <1>2, <1>3, <1>5, <2>2
    <3>2. Distance(m.stamp, log.start) \in Nat /\ Distance(m.stamp, log.start) >= Lag
      BY <1>1, <1>2, <1>3, <1>5, <3>1 DEF Distance
    <3> QED
      BY <1>3, <1>4, <3>2
  <2> QED
    BY <2>1, <2>2
<1>6. Newest \subseteq logs
  BY DEF Newest
<1>7. AsWritten(log) \in Nearest(log.start, Sessions)
  <2>1. /\ AsWritten(log) \in Sessions /\ AsWritten(log).account # Nobody
        /\ AsWritten(log).stamp = log.stamp
    BY SessionsAre DEF AsWritten
  <2>2. Distance(log.stamp, log.start) <= Tolerance
    BY <1>3, <1>4
  <2>3. \A s \in Sessions : Distance(log.stamp, log.start) <= Distance(s.stamp, log.start)
    BY <1>5, <1>6, SessionsAre DEF AsWritten
  <2> QED
    BY <2>1, <2>2, <2>3 DEF Nearest
<1>8. IsFiniteSet(Nearest(log.start, Sessions))
  BY NearestAreFinite
<1>9. Cardinality(Nearest(log.start, Sessions)) = 1
  BY <1>7, <1>8, FS_CardinalityType, FS_EmptySet
<1> QED
  BY <1>7, <1>8, <1>9, FS_Singleton

\* What it settles for is the account that was asked for: no client whose log names
\* another account is taken, and none whose log names this one is passed over
\* (windows_vrchat_identity.py).
THEOREM TheSelectedIsFound == IdentitySpec => FindsTheSelected
<1> DEFINE Right ==
             found' # found /\ found' # NoClient =>
               \A p \in DOMAIN looked.starts : \A log \in OwnLogs(p) :
                   log.account # Nobody => (log.account = Selected <=> p = found'.pid)
<1>1. IdentityInv /\ IdentityNext => Right
  <2> SUFFICES ASSUME IdentityInv, IdentityNext, found' # found, found' # NoClient,
                      NEW p \in DOMAIN looked.starts, NEW log \in Newest,
                      log.start = looked.starts[p], log.account # Nobody
               PROVE  log.account = Selected <=> p = found'.pid
    BY DEF OwnLogs
  <2>1. MatchLogs
    BY DEF IdentityNext, Launch, Quit, WriteLog, Enumerate, ReadStarts, LoseClient
  <2>2. /\ \A q \in DOMAIN looked.starts : ~(Cardinality(Nearest(looked.starts[q], Sessions)) > 1)
        /\ Cardinality(Matches) = 1 /\ found'.pid = (CHOOSE q \in Matches : TRUE)
    BY <2>1 DEF MatchLogs
  <2>3. Matches \in SUBSET Pid /\ IsFiniteSet(Pid)
    BY IdentityAssumption DEF Matches, IdentityInv, Lookups
  <2>4. \E q : Matches = {q}
    BY <2>2, <2>3, FS_Subset, FS_Singleton
  <2>5. found'.pid \in Matches /\ \A q \in Matches : q = found'.pid
    BY <2>2, <2>4
  <2>6. Nearest(looked.starts[p], Sessions) = {AsWritten(log)}
    BY <2>2, NearestIsOwn
  <2>7. p \in Matches <=> AsWritten(log).account = Selected
    BY <2>6 DEF Matches
  <2> QED
    BY <2>5, <2>7 DEF AsWritten
<1>2. IdentityInv /\ [IdentityNext]_identityVars => [Right]_identityVars
  BY <1>1
<1> QED
  BY <1>2, IdentityInvHolds, PTL DEF IdentitySpec, FindsTheSelected
=============================================================================
