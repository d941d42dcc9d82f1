-------------------------- MODULE CalibrationProofs --------------------------
(***************************************************************************)
(* Proofs about Calibration, for any number of calibrations, agents, calls *)
(* and VRChat targets; and about Programs, for any number of messages.     *)
(***************************************************************************)
EXTENDS Calibration, Programs, TLAPS

USE CalibrationAssumption

Recorded == Frame(record.token, record.revision)

\* The variables have their types, and so do the counters behind them; whoever
\* has the pose has it under the only token there is.
Granted == resources[Pose].action # None => resources[Pose].token = 1

Types == TypeOK /\ epochs \in Nat /\ calls \in 0..MaxCalls /\ Granted

\* Who has the gateway: a calibration's session is the exclusive one, and it is
\* open exactly while the record has not been restored.
Holders ==
    /\ session \in Calibration => exclusive = session
    /\ session \notin Calibration => exclusive = None
    /\ session \in Calibration => record # None /\ ~record.restored
    /\ record # None /\ ~record.restored => record.token = session
    /\ Active => ~record.restored

\* What the method under way was begun for.
Underway ==
    op # None =>
        /\ op.stage = "claim" <=> ~Active
        /\ op.stage \in {"claim", "authorize", "apply", "flush"} =>
             op.ending = "failed" /\ op.caller = "client"
        /\ op.ending = "confirmed" => op.caller = "client"
        /\ op.caller = "client" => request # None

\* One thread writes at a time, for as long as the output works, and the
\* calibration's only where it waits for a write.
Locking ==
    /\ io["output"] = None \/ io["calibration"] = None
    /\ ~running => Unlocked
    /\ io["calibration"] # None => At("flush") \/ At("safe")

\* Whose pose the target is.
Aimed ==
    /\ session = None => target = None
    /\ session \in Agent /\ target # None => target.by = session
    /\ Active /\ op = None /\ running => target = Recorded
    /\ At("flush") => target = Recorded
    /\ At("safe") \/ At("release") => target = None

\* What the device shows or is about to, as long as the output works.
Writing ==
    running =>
        /\ target = None => Written = {None}
        /\ session \in Agent => \A f \in Written \ {None} : f.by = session
        /\ Active /\ op = None => Written = {Recorded}
        /\ io["calibration"] # None => io["calibration"].frame = target

\* The recorded pose was on the device before anybody can confirm it.
Seeing ==
    /\ Active /\ op = None => Recorded \in seen
    /\ op # None /\ op.ending = "confirmed" => Recorded \in seen
    /\ record # None /\ record.state = "confirmed" => Recorded \in seen /\ record.restored

\* No call gives the gateway more than one frame: a call whose method is past
\* its frame is spent.
Spent ==
    op # None /\ op.caller = "client" /\ op.stage \in {"flush", "restore", "safe", "release"}

Counting ==
    /\ sequence <= calls
    /\ request # None /\ ~Spent => sequence < calls

\* The inductive invariant
IInv == Types /\ Holders /\ Underway /\ Locking /\ Aimed /\ Writing /\ Seeing /\ Counting

----------------------------------------------------------------------------
\* The steps a tracker can take
TrackerAims == \E f \in Frames \ {None} : Aim(f)
TrackerGoesSafe == \E failed \in SUBSET {Pose} : GoSafe(failed)
TrackerReads == \E w \in Writer : FlushReads(w)
TrackerWrites == \E w \in Writer : FlushWrites(w)
TrackerEnds ==
    /\ running /\ Unlocked
    /\ target' = None /\ revision' = revision + 1 /\ running' = FALSE
    /\ shown' \in {None, shown}
    /\ UNCHANGED <<applied, io, seen>>

TrackerTypes ==
    /\ target \in Frames /\ shown \in Frames /\ seen \subseteq Frames
    /\ revision \in Nat /\ applied \in Int /\ running \in BOOLEAN
    /\ io \in [Writer -> Writes \cup {None}]

\* Every step of the tracker keeps its types.
LEMMA TrackerStep ==
    ASSUME TrackerTypes,
           TrackerAims \/ TrackerGoesSafe \/ TrackerReads \/ TrackerWrites \/ TrackerEnds \/ UNCHANGED trackerVars
    PROVE  TrackerTypes'
<1> None \in Frames
  BY DEF Frames
<1>1. CASE TrackerAims
  BY <1>1 DEF TrackerAims, Aim, TrackerTypes
<1>2. CASE TrackerGoesSafe
  <2>1. PICK failed \in SUBSET {Pose} : GoSafe(failed)
    BY <1>2 DEF TrackerGoesSafe
  <2>2. running' \in BOOLEAN
    <3>1. CASE running' = (failed = {})
      BY <3>1
    <3>2. CASE UNCHANGED running
      BY <3>2 DEF TrackerTypes
    <3> QED
      BY <2>1, <3>1, <3>2 DEF GoSafe
  <2>3. target' \in Frames /\ revision' \in Nat /\ UNCHANGED <<applied, io, seen>>
    BY <2>1 DEF GoSafe, TrackerTypes
  <2>4. shown' \in {None, shown}
    BY <2>1 DEF GoSafe
  <2> QED
    BY <2>2, <2>3, <2>4 DEF TrackerTypes
<1>3. CASE TrackerReads
  <2>1. PICK w \in Writer : FlushReads(w)
    BY <1>3 DEF TrackerReads
  <2>2. [frame |-> target, revision |-> revision] \in Writes
    BY DEF TrackerTypes, Writes
  <2> QED
    BY <2>1, <2>2 DEF FlushReads, TrackerTypes
<1>4. CASE TrackerWrites
  <2>1. PICK w \in Writer : FlushWrites(w)
    BY <1>4 DEF TrackerWrites
  <2>2. io[w] \in Writes
    BY <2>1 DEF FlushWrites, TrackerTypes
  <2>3. io[w].frame \in Frames /\ io[w].revision \in Nat
    BY <2>2 DEF Writes
  <2>4. running' \in BOOLEAN
    BY <2>1 DEF FlushWrites, TrackerTypes
  <2> QED
    BY <2>1, <2>3, <2>4 DEF FlushWrites, TrackerTypes
<1>5. CASE TrackerEnds
  <2>1. running' \in BOOLEAN
    BY <1>5 DEF TrackerEnds
  <2> QED
    BY <1>5, <2>1 DEF TrackerEnds, TrackerTypes
<1>6. CASE UNCHANGED trackerVars
  BY <1>6 DEF trackerVars, TrackerTypes
<1> QED
  BY <1>1, <1>2, <1>3, <1>4, <1>5, <1>6

----------------------------------------------------------------------------
GatewayTypes == Gateway!TypeOK /\ Granted

\* An owner of the pose is a lease.
LEMMA OwnerType ==
    ASSUME GatewayTypes
    PROVE  Gateway!Owner(Pose) \in Gateway!Lease \cup {None}
<1>1. ASSUME session # None, resources[Pose].action # None
      PROVE  Gateway!Owner(Pose) \in Gateway!Lease
  <2>1. /\ session \in Calibration \cup Agent
        /\ resources[Pose].action \in Calibration \cup {AgentAction}
        /\ resources[Pose].token = 1
    BY <1>1 DEF GatewayTypes, Gateway!TypeOK, Gateway!ResourceState, Granted
  <2> QED
    BY <1>1, <2>1 DEF Gateway!Owner, Gateway!Lease
<1> QED
  BY <1>1 DEF Gateway!Owner

\* Steps of the gateway, as the calibration and the agent take them
GatewayStep ==
    \/ \E s \in Calibration \cup Agent, failed \in SUBSET {Pose} :
         \/ Gateway!OpenSession(s, failed)
         \/ Gateway!ClaimExclusiveSession(s, failed)
         \/ Gateway!CloseSession(s, failed)
         \/ Gateway!Neutralize(s, Pose, 1, failed)
    \/ \E s \in Calibration \cup Agent :
         \/ Gateway!ReleaseExclusiveSession(s)
         \/ \E a \in Calibration \cup {AgentAction} :
              \/ Gateway!Authorize(s, Pose, 1, a)
              \/ \E q \in 0..MaxCalls : Gateway!ApplyEnvelope(s, Pose, 1, a, q, 1, now, now)
    \/ UNCHANGED gatewayVars

\* The gateway keeps its types.
LEMMA GatewayStepTypes ==
    ASSUME GatewayTypes, GatewayStep
    PROVE  GatewayTypes'
<1> USE DEF GatewayTypes
<1>a. ASSUME NEW R, Gateway!Retire(R)
      PROVE  revoked' \in [{Pose} -> SUBSET Gateway!Lease]
  BY <1>a, OwnerType DEF Gateway!Retire, Gateway!TypeOK
<1>b. Gateway!NewResourceState \in Gateway!ResourceState
  BY DEF Gateway!NewResourceState, Gateway!ResourceState
<1>c. resources[Pose] \in Gateway!ResourceState
  BY DEF Gateway!TypeOK
<1>1. ASSUME NEW s \in Calibration \cup Agent, NEW failed,
             Gateway!StartSession(s, failed), exclusive' \in {s, exclusive}
      PROVE  GatewayTypes'
  <2>1. /\ session' \in Calibration \cup Agent
        /\ exclusive' \in Calibration \cup Agent \cup {None}
        /\ now' \in Nat
        /\ opened' \subseteq Calibration \cup Agent
    BY <1>1 DEF Gateway!StartSession, Gateway!TypeOK
  <2>2. resources' \in [{Pose} -> Gateway!ResourceState] /\ Granted'
    BY <1>1, <1>b DEF Gateway!StartSession, Granted, Gateway!NewResourceState
  <2>3. device' \in [{Pose} -> Gateway!Frame \cup {None}]
    BY <1>1 DEF Gateway!StartSession, Gateway!SafeNeutralize, Gateway!TypeOK
  <2> QED
    BY <1>1, <1>a, <2>1, <2>2, <2>3 DEF Gateway!StartSession, Gateway!TypeOK
<1>2. ASSUME NEW s, NEW failed, Gateway!CloseSession(s, failed)
      PROVE  GatewayTypes'
  <2>1. Gateway!Disowned(resources[Pose]) \in Gateway!ResourceState
    BY <1>c DEF Gateway!Disowned, Gateway!ResourceState
  <2>2. resources' \in [{Pose} -> Gateway!ResourceState] /\ Granted'
    BY <1>2, <2>1 DEF Gateway!CloseSession, Granted, Gateway!Disowned
  <2>3. device' \in [{Pose} -> Gateway!Frame \cup {None}]
    BY <1>2 DEF Gateway!CloseSession, Gateway!SafeNeutralize, Gateway!TypeOK
  <2> QED
    BY <1>2, <1>a, <2>2, <2>3 DEF Gateway!CloseSession, Gateway!TypeOK
<1>3. ASSUME NEW s, NEW failed, Gateway!Neutralize(s, Pose, 1, failed)
      PROVE  GatewayTypes'
  <2> DEFINE N == [token |-> 1, action |-> None, expires |-> None,
                   sequence |-> IF 1 > resources[Pose].token THEN -1
                                                             ELSE resources[Pose].sequence]
  <2>1. N \in Gateway!ResourceState
    BY <1>c DEF Gateway!ResourceState
  <2>2. resources' = [resources EXCEPT ![Pose] = N]
    BY <1>3 DEF Gateway!Neutralize
  <2>3. resources' \in [{Pose} -> Gateway!ResourceState] /\ resources'[Pose] = N
    BY <2>1, <2>2 DEF Gateway!TypeOK
  <2>4. Granted'
    BY <2>3 DEF Granted
  <2>5. device' \in [{Pose} -> Gateway!Frame \cup {None}]
    BY <1>3 DEF Gateway!Neutralize, Gateway!SafeNeutralize, Gateway!TypeOK
  <2> QED
    BY <1>3, <1>a, <2>3, <2>4, <2>5 DEF Gateway!Neutralize, Gateway!TypeOK
<1>4. ASSUME NEW s, Gateway!ReleaseExclusiveSession(s)
      PROVE  GatewayTypes'
  BY <1>4 DEF Gateway!ReleaseExclusiveSession, Gateway!TypeOK, Granted
<1>5. ASSUME NEW s, NEW a \in Calibration \cup {AgentAction}, Gateway!Authorize(s, Pose, 1, a)
      PROVE  GatewayTypes'
  <2> DEFINE N == [token |-> 1, action |-> a, sequence |-> -1, expires |-> None]
  <2>1. N \in Gateway!ResourceState
    BY DEF Gateway!ResourceState
  <2>2. resources' = [resources EXCEPT ![Pose] = N]
    BY <1>5 DEF Gateway!Authorize
  <2>3. resources' \in [{Pose} -> Gateway!ResourceState] /\ resources'[Pose] = N
    BY <2>1, <2>2 DEF Gateway!TypeOK
  <2>4. Granted'
    BY <2>3 DEF Granted
  <2> QED
    BY <1>5, <1>a, <2>3, <2>4 DEF Gateway!Authorize, Gateway!TypeOK
<1>6. ASSUME NEW s \in Calibration \cup Agent, NEW a \in Calibration \cup {AgentAction},
             NEW q \in 0..MaxCalls, Gateway!ApplyEnvelope(s, Pose, 1, a, q, 1, now, now)
      PROVE  GatewayTypes'
  <2> DEFINE N == [token |-> resources[Pose].token, action |-> resources[Pose].action,
                   sequence |-> q, expires |-> now + 1]
             L == [session |-> s, token |-> 1, action |-> a]
             F == [lease |-> L, sequence |-> q]
  <2>1. N \in Gateway!ResourceState
    BY <1>c DEF Gateway!ResourceState, Gateway!TypeOK
  <2>2. L \in Gateway!Lease
    BY DEF Gateway!Lease
  <2> HIDE DEF L
  <2>3. F \in Gateway!Frame
    BY <2>2 DEF Gateway!Frame
  <2> HIDE DEF F
  <2>4. resources' = [resources EXCEPT ![Pose] = N] /\ device' = [device EXCEPT ![Pose] = F]
    BY <1>6 DEF Gateway!ApplyEnvelope, F, L
  <2>5. resources' \in [{Pose} -> Gateway!ResourceState] /\ resources'[Pose] = N
    BY <2>1, <2>4 DEF Gateway!TypeOK
  <2>6. Granted'
    BY <2>5 DEF Granted
  <2>7. device' \in [{Pose} -> Gateway!Frame \cup {None}]
    BY <2>3, <2>4 DEF Gateway!TypeOK
  <2> QED
    BY <1>6, <2>5, <2>6, <2>7 DEF Gateway!ApplyEnvelope, Gateway!TypeOK
<1>7. CASE UNCHANGED gatewayVars
  BY <1>7 DEF gatewayVars, Gateway!TypeOK, Granted
<1> QED
  BY <1>1, <1>2, <1>3, <1>4, <1>5, <1>6, <1>7
  DEF GatewayStep, Gateway!OpenSession, Gateway!ClaimExclusiveSession

----------------------------------------------------------------------------
\* The steps of the program, by what they are to the method under way
Steady == (\E kind \in Call : Ask(kind)) \/ Refused \/ RepeatStart \/ VrchatChanges \/ TimePasses
Begins == Start \/ Update \/ Heartbeat \/ Finish \/ Poll \/ Close

\* Everything that happens is one of them.
LEMMA Steps == Next <=> Steady \/ Begins \/ Continue \/ Output \/ BridgeClient \/ DevicesClose
  BY DEF Next, Steady, Begins, Wizard

Stages == {"claim", "authorize", "apply", "flush", "restore", "safe", "release"}

\* A method that goes on to a stage is the same method.
LEMMA Staged ==
    ASSUME Types, NEW stage \in Stages, op # None, op' = [op EXCEPT !.stage = stage]
    PROVE  /\ op' \in Methods /\ op' # None
           /\ op'.stage = stage /\ op'.ending = op.ending /\ op'.caller = op.caller
<1>1. op \in Methods
  BY DEF Types, TypeOK
<1>2. op' \in Methods
  BY <1>1 DEF Methods, Stages
<1>3. op'.stage = stage /\ op'.ending = op.ending /\ op'.caller = op.caller
  BY <1>1 DEF Methods
<1> QED
  BY <1>2, <1>3

\* A method that begins is what it says.
LEMMA Begun ==
    ASSUME NEW stage \in Stages, NEW ending \in {"confirmed", "canceled", "expired", "failed"},
           NEW caller \in {"client", "watchdog", "close"},
           op' = Method(stage, ending, caller)
    PROVE  /\ op' \in Methods /\ op' # None
           /\ op'.stage = stage /\ op'.ending = ending /\ op'.caller = caller
<1>1. op' \in Methods
  BY DEF Method, Methods, Stages
<1>2. op'.stage = stage /\ op'.ending = ending /\ op'.caller = caller
  BY DEF Method
<1> QED
  BY <1>1, <1>2

\* A calibration that ends keeps its token and revision.
LEMMA EndedFields ==
    ASSUME Types, record # None, NEW restored \in BOOLEAN,
           NEW state \in {"active", "confirmed", "canceled", "expired", "failed"},
           record' = Ended(state, restored)
    PROVE  /\ record' \in Records /\ record' # None
           /\ record'.token = record.token /\ record'.revision = record.revision
           /\ record'.state = state /\ record'.restored = restored
<1>1. record \in Records
  BY DEF Types, TypeOK
<1>2. record' \in Records
  BY <1>1 DEF Ended, Records
<1>3. record'.token = record.token /\ record'.revision = record.revision
  BY <1>1 DEF Ended, Records
<1>4. record'.state = state /\ record'.restored = restored
  BY <1>1 DEF Ended, Records
<1> QED
  BY <1>2, <1>3, <1>4

\* A calibration that is updated differs in its revision.
LEMMA UpdatedFields ==
    ASSUME Types, record # None, record' = [record EXCEPT !.revision = @ + 1]
    PROVE  /\ record' \in Records /\ record' # None
           /\ record'.token = record.token /\ record'.state = record.state
           /\ record'.restored = record.restored
<1>1. record \in Records
  BY DEF Types, TypeOK
<1>2. record' \in Records
  BY <1>1 DEF Records
<1>3. record'.token = record.token /\ record'.state = record.state /\ record'.restored = record.restored
  BY <1>1 DEF Records
<1> QED
  BY <1>2, <1>3

\* A new calibration is the token's.
LEMMA ClaimedFields ==
    ASSUME NEW c \in Calibration,
           record' = [token |-> c, state |-> "active", revision |-> 0, restored |-> FALSE]
    PROVE  /\ record' \in Records /\ record' # None
           /\ record'.token = c /\ record'.state = "active" /\ record'.restored = FALSE
<1>1. record' \in Records
  BY DEF Records
<1>2. record'.token = c /\ record'.state = "active" /\ record'.restored = FALSE
  OBVIOUS
<1> QED
  BY <1>1, <1>2

\* A frame carries what it was made of.
LEMMA FrameFields ==
    ASSUME NEW by \in Calibration \cup Agent, NEW n \in Nat
    PROVE  Frame(by, n) \in Frames \ {None} /\ Frame(by, n).by = by
  BY DEF Frame, Frames

\* Past the claim a method works on a calibration that has the gateway.
LEMMA Possession ==
    ASSUME IInv, Active
    PROVE  /\ record \in Records /\ record.token \in Calibration
           /\ session = record.token /\ exclusive = session
<1>1. record \in Records /\ record # None /\ ~record.restored
  BY DEF IInv, Types, TypeOK, Holders, Active
<1>2. record.token \in Calibration
  BY <1>1 DEF Records
<1> QED
  BY <1>1, <1>2 DEF IInv, Holders

\* A method that begins does so with nothing else under way.
LEMMA BeginStep ==
    ASSUME IInv, Begins
    PROVE  /\ op = None
           /\ UNCHANGED <<trackerVars, gatewayVars, historyVars, sequence, request, calls>>
           /\ \/ op' = None /\ ~Active /\ UNCHANGED record
              \/ /\ op' \in Methods /\ op' # None
                 /\ op'.caller = "client" => request # None
                 /\ op'.ending = "confirmed" => op'.caller = "client"
                 /\ \/ /\ op'.stage = "claim" /\ ~Active /\ UNCHANGED record
                       /\ op'.ending = "failed" /\ op'.caller = "client"
                    \/ /\ op'.stage = "apply" /\ Active
                       /\ op'.ending = "failed" /\ op'.caller = "client"
                       /\ record' \in {record, [record EXCEPT !.revision = @ + 1]}
                    \/ op'.stage = "restore" /\ Active /\ UNCHANGED record
<1>1. /\ op = None
      /\ UNCHANGED <<trackerVars, gatewayVars, historyVars, sequence, request, calls>>
  BY DEF Begins, Start, Update, Heartbeat, Finish, Poll, Close, Called, apiVars
<1> DEFINE Fresh == op' \in Methods /\ op' # None
           Client == op'.ending = "failed" /\ op'.caller = "client" /\ request # None
<1>2. CASE Start
  <2>1. request # None /\ ~Active /\ UNCHANGED record
    BY <1>2 DEF Start, Called
  <2>2. Fresh /\ Client /\ op'.stage = "claim"
    BY <1>2, <2>1, Begun DEF Start, Stages
  <2> QED
    BY <1>1, <2>1, <2>2
<1>3. CASE Update \/ Heartbeat
  <2>1. /\ request # None /\ Active
        /\ record' \in {record, [record EXCEPT !.revision = @ + 1]}
    BY <1>3 DEF Update, Heartbeat, Called
  <2>2. op' = Method("apply", "failed", "client")
    BY <1>3 DEF Update, Heartbeat
  <2>3. Fresh /\ Client /\ op'.stage = "apply"
    BY <2>1, <2>2, Begun DEF Stages
  <2> QED
    BY <1>1, <2>1, <2>3
<1>4. CASE Finish \/ Poll \/ (Close /\ Active)
  <2>1. Active /\ UNCHANGED record
    BY <1>4 DEF Finish, Poll, Close
  <2>2. \/ \E ending \in {"confirmed", "canceled"} : op' = Method("restore", ending, "client")
        \/ op' = Method("restore", "expired", "watchdog")
        \/ op' = Method("restore", "canceled", "close")
    BY <1>4 DEF Finish, Poll, Close
  <2>3. Finish => request # None
    BY DEF Finish, Called
  <2>4. (Poll \/ Close) /\ ~Finish => op' \in {Method("restore", "expired", "watchdog"),
                                               Method("restore", "canceled", "close")}
    BY <1>4 DEF Poll, Close
  <2>5. Fresh /\ op'.stage = "restore" /\ (op'.ending = "confirmed" => op'.caller = "client")
    BY <2>2, Begun DEF Stages
  <2>6. op'.caller = "client" => request # None
    <3>1. CASE Finish
      BY <3>1, <2>3
    <3>2. CASE ~Finish
      BY <3>2, <1>4, <2>4, Begun DEF Stages
    <3> QED
      BY <3>1, <3>2
  <2> QED
    BY <1>1, <2>1, <2>5, <2>6
<1>5. CASE Close /\ ~Active
  BY <1>1, <1>5 DEF Close
<1> QED
  BY <1>2, <1>3, <1>4, <1>5 DEF Begins

\* What leaves the method alone
LEMMA SteadyStep ==
    ASSUME IInv, Steady
    PROVE  /\ UNCHANGED <<record, op, sequence, closed, trackerVars, gatewayVars, historyVars>>
           /\ request' # None =>
                \/ UNCHANGED <<request, calls>>
                \/ request = None /\ calls' = calls + 1
           /\ calls' >= calls
           /\ request # None /\ request' = None => op = None
<1>0. calls \in Nat
  BY DEF IInv, Types
<1>1. CASE \E kind \in Call : Ask(kind)
  BY <1>0, <1>1 DEF Ask
<1>2. CASE Refused
  BY <1>0, <1>2 DEF Refused, Called
<1>3. CASE RepeatStart
  BY <1>0, <1>3 DEF RepeatStart, Called
<1>4. CASE VrchatChanges
  BY <1>0, <1>4 DEF VrchatChanges, apiVars
<1>5. CASE TimePasses
  BY <1>0, <1>5 DEF TimePasses, apiVars
<1> QED
  BY <1>1, <1>2, <1>3, <1>4, <1>5 DEF Steady

----------------------------------------------------------------------------
\* Past the claim a method is about an active calibration.
LEMMA Staffed ==
    ASSUME IInv, NEW stage \in Stages \ {"claim"}, At(stage)
    PROVE  Active
  BY DEF IInv, Underway, At, Stages

\* The tracker only does what it can.
LEMMA TrackerActs ==
    ASSUME IInv, Next
    PROVE  \/ TrackerAims \/ TrackerGoesSafe \/ TrackerReads \/ TrackerWrites \/ TrackerEnds
           \/ UNCHANGED trackerVars
<1>1. CASE Steady \/ Begins
  BY <1>1, SteadyStep, BeginStep
<1>2. CASE Continue
  <2>1. CASE \E failed \in SUBSET {Pose} : (\E c \in Calibration : Claim(c, failed)) \/ Restore(failed)
    BY <2>1 DEF Claim, Restore, TrackerGoesSafe
  <2>2. CASE ClaimRefused \/ Authorize \/ Release
    BY <2>2 DEF ClaimRefused, Authorize, Release
  <2>3. CASE Apply
    <3>1. Active
      BY <2>3, Staffed DEF Apply, Stages
    <3>2. record.token \in Calibration /\ record.revision \in Nat
      BY <3>1, Possession DEF Records
    <3>3. Frame(record.token, record.revision) \in Frames \ {None}
      BY <3>2, FrameFields
    <3> QED
      BY <2>3, <3>3 DEF Apply, TrackerAims
  <2>4. CASE Flush \/ RestoreFlush
    BY <2>4 DEF Flush, RestoreFlush, TrackerReads, TrackerWrites, Writer
  <2> QED
    BY <1>2, <2>1, <2>2, <2>3, <2>4 DEF Continue
<1>3. CASE Output
  BY <1>3 DEF Output, TrackerReads, TrackerWrites, Writer
<1>4. CASE BridgeClient
  <2>1. PICK s \in Agent :
          \/ \E failed \in SUBSET {Pose} :
               AgentOpens(s, failed) \/ AgentStops(s, failed) \/ AgentCloses(s, failed)
          \/ AgentAuthorizes(s)
          \/ AgentMoves(s)
    BY <1>4 DEF BridgeClient
  <2>2. CASE AgentMoves(s)
    BY <2>2, FrameFields DEF AgentMoves, TrackerAims
  <2>3. CASE AgentAuthorizes(s)
    BY <2>3 DEF AgentAuthorizes
  <2> QED
    BY <2>1, <2>2, <2>3 DEF AgentOpens, AgentStops, AgentCloses, TrackerGoesSafe
<1>5. CASE DevicesClose
  BY <1>5 DEF DevicesClose, TrackerEnds
<1> QED
  BY <1>1, <1>2, <1>3, <1>4, <1>5, Steps

\* Nor is the gateway called in any other way.
LEMMA GatewayActs ==
    ASSUME IInv, Next
    PROVE  GatewayStep
<1>1. CASE Steady \/ Begins
  BY <1>1, SteadyStep, BeginStep DEF GatewayStep
<1>2. CASE Continue
  <2>1. CASE \E c \in Calibration, failed \in SUBSET {Pose} : Claim(c, failed)
    BY <2>1 DEF Claim, GatewayStep
  <2>2. CASE ClaimRefused \/ Flush \/ RestoreFlush
    BY <2>2 DEF ClaimRefused, Flush, RestoreFlush, GatewayStep
  <2>3. CASE Authorize \/ Apply \/ (\E failed \in SUBSET {Pose} : Restore(failed)) \/ Release
    <3>1. Active
      BY <2>3, Staffed DEF Authorize, Apply, Restore, Release, Stages
    <3>2. record.token \in Calibration
      BY <3>1, Possession
    <3>3. CASE Authorize
      BY <3>2, <3>3 DEF Authorize, GatewayStep
    <3>4. CASE Apply
      <4>1. sequence \in Nat /\ calls \in 0..MaxCalls
        BY DEF IInv, Types, TypeOK
      <4>2. sequence < calls
        BY <3>4 DEF IInv, Underway, Counting, Spent, Apply, At
      <4>3. sequence \in 0..MaxCalls
        BY <4>1, <4>2
      <4> QED
        BY <3>2, <3>4, <4>3 DEF Apply, GatewayStep
    <3>5. CASE \E failed \in SUBSET {Pose} : Restore(failed)
      BY <3>2, <3>5 DEF Restore, GatewayStep
    <3>6. CASE Release
      BY <3>2, <3>6 DEF Release, GatewayStep
    <3> QED
      BY <2>3, <3>3, <3>4, <3>5, <3>6
  <2> QED
    BY <1>2, <2>1, <2>2, <2>3 DEF Continue
<1>3. CASE Output \/ DevicesClose
  BY <1>3 DEF Output, DevicesClose, GatewayStep
<1>4. CASE BridgeClient
  <2>1. PICK s \in Agent :
          \/ \E failed \in SUBSET {Pose} :
               AgentOpens(s, failed) \/ AgentStops(s, failed) \/ AgentCloses(s, failed)
          \/ AgentAuthorizes(s)
          \/ AgentMoves(s)
    BY <1>4 DEF BridgeClient
  <2>2. CASE AgentMoves(s)
    BY <2>2 DEF AgentMoves, GatewayStep
  <2>3. CASE AgentAuthorizes(s)
    BY <2>3 DEF AgentAuthorizes, GatewayStep
  <2>4. CASE \E failed \in SUBSET {Pose} :
               AgentOpens(s, failed) \/ AgentStops(s, failed) \/ AgentCloses(s, failed)
    BY <2>4 DEF AgentOpens, AgentStops, AgentCloses, GatewayStep
  <2> QED
    BY <2>1, <2>2, <2>3, <2>4
<1> QED
  BY <1>1, <1>2, <1>3, <1>4, Steps

\* What each step makes of the record: what relates it to the session.
RecordKept == UNCHANGED <<record, session, exclusive>>
RecordUpdated ==
    /\ Active /\ record' = [record EXCEPT !.revision = @ + 1]
    /\ UNCHANGED <<session, exclusive>>
RecordClaimed ==
    \E c \in Calibration :
        /\ session = None /\ session' = c /\ exclusive' = c /\ At("claim")
        /\ record' = [token |-> c, state |-> "active", revision |-> 0, restored |-> FALSE]
RecordFailed ==
    /\ At("restore") \/ At("safe") \/ At("release")
    /\ record' = Ended("failed", FALSE) /\ UNCHANGED <<session, exclusive>>
RecordReleased ==
    /\ At("release") /\ record' = Ended(op.ending, TRUE)
    /\ session' = None /\ exclusive' = None
AgentCame ==
    \E s \in Agent :
        /\ exclusive \in {None, s} /\ session' = s
        /\ UNCHANGED <<record, exclusive, op>>
AgentWent ==
    /\ session \in Agent /\ session' = None /\ exclusive' = None
    /\ UNCHANGED <<record, op>>

\* There is nothing else.
LEMMA RecordActs ==
    ASSUME IInv, Next
    PROVE  \/ RecordKept \/ RecordUpdated \/ RecordClaimed \/ RecordFailed \/ RecordReleased
           \/ AgentCame \/ AgentWent
<1>1. CASE Steady
  BY <1>1, SteadyStep DEF RecordKept, gatewayVars
<1>2. CASE Begins
  BY <1>2, BeginStep DEF RecordKept, RecordUpdated, gatewayVars
<1>3. CASE Continue
  <2>1. CASE \E c \in Calibration, failed \in SUBSET {Pose} : Claim(c, failed)
    BY <2>1 DEF Claim, Gateway!ClaimExclusiveSession, Gateway!StartSession, RecordClaimed
  <2>2. CASE ClaimRefused \/ Flush
    BY <2>2 DEF ClaimRefused, Flush, gatewayVars, RecordKept
  <2>3. CASE Authorize
    BY <2>3 DEF Authorize, Gateway!Authorize, RecordKept
  <2>4. CASE Apply
    BY <2>4 DEF Apply, Gateway!ApplyEnvelope, gatewayVars, RecordKept
  <2>5. CASE \E failed \in SUBSET {Pose} : Restore(failed)
    BY <2>5 DEF Restore, Gateway!Neutralize, RecordKept, RecordFailed
  <2>6. CASE RestoreFlush
    BY <2>6 DEF RestoreFlush, gatewayVars, RecordKept, RecordFailed
  <2>7. CASE Release
    BY <2>7 DEF Release, Gateway!ReleaseExclusiveSession, gatewayVars, RecordFailed, RecordReleased
  <2> QED
    BY <1>3, <2>1, <2>2, <2>3, <2>4, <2>5, <2>6, <2>7 DEF Continue
<1>4. CASE Output \/ DevicesClose
  BY <1>4 DEF Output, DevicesClose, Elsewhere, gatewayVars, RecordKept
<1>5. CASE BridgeClient
  <2>1. PICK s \in Agent :
          \/ \E failed \in SUBSET {Pose} :
               AgentOpens(s, failed) \/ AgentStops(s, failed) \/ AgentCloses(s, failed)
          \/ AgentAuthorizes(s)
          \/ AgentMoves(s)
    BY <1>5 DEF BridgeClient
  <2>2. CASE AgentMoves(s) \/ AgentAuthorizes(s)
    BY <2>2 DEF AgentMoves, AgentAuthorizes, Gateway!ApplyEnvelope, Gateway!Authorize,
                Elsewhere, RecordKept
  <2>3. CASE \E failed \in SUBSET {Pose} : AgentStops(s, failed)
    BY <2>3 DEF AgentStops, Gateway!Neutralize, Elsewhere, RecordKept
  <2>4. CASE \E failed \in SUBSET {Pose} : AgentOpens(s, failed)
    BY <2>4 DEF AgentOpens, Gateway!OpenSession, Gateway!StartSession, Elsewhere, AgentCame
  <2>5. CASE \E failed \in SUBSET {Pose} : AgentCloses(s, failed)
    BY <2>5 DEF AgentCloses, Gateway!CloseSession, Elsewhere, AgentWent
  <2> QED
    BY <2>1, <2>2, <2>3, <2>4, <2>5
<1> QED
  BY <1>1, <1>2, <1>3, <1>4, <1>5, Steps

\* Who has the gateway is settled by every step.
LEMMA HoldersStep ==
    ASSUME IInv, Next
    PROVE  Holders'
<1> USE DEF Holders
<1>0. Holders /\ Types
  BY DEF IInv
<1>1. CASE RecordKept
  BY <1>0, <1>1 DEF RecordKept, Active
<1>2. CASE RecordUpdated
  BY <1>0, <1>2, UpdatedFields DEF RecordUpdated, Active
<1>3. CASE RecordClaimed
  BY <1>0, <1>3, ClaimedFields DEF RecordClaimed, Active
<1>4. CASE RecordFailed
  <2>1. Active
    BY <1>4, Staffed DEF RecordFailed, Stages
  <2> QED
    BY <1>0, <1>4, <2>1, Possession, EndedFields DEF RecordFailed, Active
<1>5. CASE RecordReleased
  <2>1. Active /\ op \in Methods
    BY <1>0, <1>5, Staffed DEF RecordReleased, Stages, Types, TypeOK, At
  <2>2. op.ending \in {"confirmed", "canceled", "expired", "failed"}
    BY <2>1 DEF Methods
  <2>3. record'.restored = TRUE /\ record'.state # "active"
    BY <1>0, <1>5, <2>1, <2>2, EndedFields DEF RecordReleased, Active
  <2> QED
    BY <1>5, <2>3 DEF RecordReleased, Active
<1>6. CASE AgentCame
  <2>1. PICK s \in Agent : exclusive \in {None, s} /\ session' = s
    BY <1>6 DEF AgentCame
  <2>2. session \notin Calibration /\ exclusive = None
    BY <1>0, <2>1
  <2>3. record # None => record.restored
    <3>1. record # None => record.token \in Calibration
      BY <1>0 DEF Types, TypeOK, Records
    <3> QED
      BY <1>0, <2>2, <3>1
  <2> QED
    BY <1>0, <1>6, <2>1, <2>2, <2>3 DEF AgentCame, Active
<1>7. CASE AgentWent
  <2>1. record # None => record.restored
    <3>1. record # None => record.token \in Calibration
      BY <1>0 DEF Types, TypeOK, Records
    <3> QED
      BY <1>0, <1>7, <3>1 DEF AgentWent
  <2> QED
    BY <1>0, <1>7, <2>1 DEF AgentWent, Active
<1> QED
  BY <1>1, <1>2, <1>3, <1>4, <1>5, <1>6, <1>7, RecordActs

----------------------------------------------------------------------------
\* What the holder of the lock makes of its method
MethodWaits == UNCHANGED <<record, op, request, sequence, calls>>
MethodClaims ==
    /\ At("claim")
    /\ \E c \in Calibration :
         record' = [token |-> c, state |-> "active", revision |-> 0, restored |-> FALSE]
    /\ sequence' = 0
    /\ op' = [op EXCEPT !.stage = "authorize"]
    /\ UNCHANGED <<request, calls>>
MethodGoesOn ==
    \E stage \in Stages \ {"claim", "authorize"} :
        /\ op # None /\ op.stage # "claim"
        /\ stage = "apply" => At("authorize")
        /\ stage = "flush" => At("apply")
        /\ sequence' = IF stage = "flush" THEN sequence + 1 ELSE sequence
        /\ op' = [op EXCEPT !.stage = stage]
        /\ UNCHANGED <<record, request, calls>>
MethodReturns ==
    /\ op # None
    /\ Return
    /\ UNCHANGED <<sequence, calls>>
    /\ \/ At("claim") /\ UNCHANGED record
       \/ At("flush") /\ UNCHANGED record
       \/ (At("restore") \/ At("safe") \/ At("release")) /\ record' = Ended("failed", FALSE)
       \/ At("release") /\ record' = Ended(op.ending, TRUE)

\* There is nothing else.
LEMMA MethodActs ==
    ASSUME IInv, Continue
    PROVE  MethodWaits \/ MethodClaims \/ MethodGoesOn \/ MethodReturns
<1> USE DEF Stages
<1>1. CASE \E c \in Calibration, failed \in SUBSET {Pose} : Claim(c, failed)
  BY <1>1 DEF Claim, apiVars, MethodClaims
<1>2. CASE ClaimRefused
  BY <1>2 DEF ClaimRefused, MethodReturns, At
<1>3. CASE Authorize
  BY <1>3 DEF Authorize, At, apiVars, MethodGoesOn
<1>4. CASE Apply
  <2>1. At("apply") /\ UNCHANGED <<record, request, calls>>
    BY <1>4 DEF Apply, apiVars
  <2>2. \/ op' = [op EXCEPT !.stage = "flush"] /\ sequence' = sequence + 1
        \/ op' = [op EXCEPT !.stage = "restore"] /\ UNCHANGED sequence
    BY <1>4 DEF Apply
  <2> QED
    BY <2>1, <2>2 DEF MethodGoesOn, At
<1>5. CASE Flush
  <2>1. At("flush") /\ UNCHANGED <<record, sequence, calls>>
    BY <1>5 DEF Flush
  <2>2. \/ UNCHANGED <<op, request>>
        \/ Return
        \/ op' = [op EXCEPT !.stage = "restore"] /\ UNCHANGED request
    BY <1>5 DEF Flush
  <2> QED
    BY <2>1, <2>2 DEF MethodWaits, MethodReturns, MethodGoesOn, At
<1>6. CASE \E failed \in SUBSET {Pose} : Restore(failed)
  <2>1. At("restore") /\ UNCHANGED <<sequence, calls>>
    BY <1>6 DEF Restore
  <2>2. \/ op' = [op EXCEPT !.stage = "safe"] /\ UNCHANGED <<record, request>>
        \/ record' = Ended("failed", FALSE) /\ Return
    BY <1>6 DEF Restore
  <2> QED
    BY <2>1, <2>2 DEF MethodReturns, MethodGoesOn, At
<1>7. CASE RestoreFlush
  <2>1. At("safe") /\ UNCHANGED <<sequence, calls>>
    BY <1>7 DEF RestoreFlush
  <2>2. \/ UNCHANGED <<op, record, request>>
        \/ op' = [op EXCEPT !.stage = "release"] /\ UNCHANGED <<record, request>>
        \/ record' = Ended("failed", FALSE) /\ Return
    BY <1>7 DEF RestoreFlush
  <2> QED
    BY <2>1, <2>2 DEF MethodWaits, MethodReturns, MethodGoesOn, At
<1>8. CASE Release
  BY <1>8 DEF Release, MethodReturns, At
<1> QED
  BY <1>1, <1>2, <1>3, <1>4, <1>5, <1>6, <1>7, <1>8 DEF Continue

\* Nobody but the calibration's own threads touches its method.
LEMMA OthersStep ==
    ASSUME Output \/ BridgeClient \/ DevicesClose
    PROVE  UNCHANGED <<record, op, request, sequence, calls, overdue, closed, epochVars,
                       bound, historyVars>>
<1>1. CASE Output \/ DevicesClose
  BY <1>1 DEF Output, DevicesClose, Elsewhere, apiVars
<1>2. CASE BridgeClient
  BY <1>2 DEF BridgeClient, AgentOpens, AgentStops, AgentCloses, AgentAuthorizes, AgentMoves,
              Elsewhere, apiVars
<1> QED
  BY <1>1, <1>2

\* A method stays what it was begun for.
LEMMA UnderwayStep ==
    ASSUME IInv, Next
    PROVE  Underway'
<1> USE DEF Underway
<1>0. Types /\ Underway /\ Holders
  BY DEF IInv
<1>1. CASE Steady
  BY <1>0, <1>1, SteadyStep DEF Active
<1>2. CASE Begins
  <2>1. CASE op' = None
    BY <2>1
  <2>2. CASE op' # None /\ record' = [record EXCEPT !.revision = @ + 1] /\ Active
    BY <1>0, <1>2, <2>2, BeginStep, UpdatedFields DEF Active
  <2>3. CASE op' # None /\ UNCHANGED record
    BY <1>0, <1>2, <2>3, BeginStep DEF Active
  <2> QED
    BY <1>2, <2>1, <2>2, <2>3, BeginStep
<1>3. CASE MethodWaits
  BY <1>0, <1>3 DEF MethodWaits, Active
<1>4. CASE MethodClaims
  BY <1>0, <1>4, Staged, ClaimedFields DEF MethodClaims, Active, At, Stages
<1>5. CASE MethodGoesOn
  BY <1>0, <1>5, Staged DEF MethodGoesOn, Active, At, Stages
<1>6. CASE MethodReturns
  BY <1>6 DEF MethodReturns, Return
<1>7. CASE Output \/ BridgeClient \/ DevicesClose
  BY <1>0, <1>7, OthersStep DEF Active
<1> QED
  BY <1>1, <1>2, <1>3, <1>4, <1>5, <1>6, <1>7, Steps, MethodActs

\* No call is given a second frame.
LEMMA CountingStep ==
    ASSUME IInv, Next
    PROVE  Counting'
<1> USE DEF Counting
<1>0. /\ Types /\ Underway /\ Counting
      /\ sequence \in Nat /\ calls \in Nat
  BY DEF IInv, Types, TypeOK
<1>1. CASE Steady
  <2>1. calls' \in Nat
    BY <1>0, <1>1 DEF Steady, Ask, Refused, RepeatStart, VrchatChanges, TimePasses, apiVars
  <2> QED
    BY <1>0, <1>1, <2>1, SteadyStep DEF Spent
<1>2. CASE Begins
  BY <1>0, <1>2, BeginStep DEF Spent
<1>3. CASE MethodWaits
  BY <1>0, <1>3 DEF MethodWaits, Spent
<1>4. CASE MethodClaims
  <2>1. At("claim") /\ ~Spent /\ request # None
    BY <1>0, <1>4 DEF MethodClaims, Spent, At, Underway
  <2> QED
    BY <1>0, <1>4, <2>1 DEF MethodClaims
<1>5. CASE MethodGoesOn
  <2>1. PICK stage \in Stages \ {"claim", "authorize"} :
          /\ op # None /\ op.stage # "claim"
          /\ stage = "apply" => At("authorize")
          /\ stage = "flush" => At("apply")
          /\ sequence' = IF stage = "flush" THEN sequence + 1 ELSE sequence
          /\ op' = [op EXCEPT !.stage = stage]
          /\ UNCHANGED <<record, request, calls>>
    BY <1>5 DEF MethodGoesOn
  <2>2. /\ op' # None /\ op'.stage = stage /\ op'.caller = op.caller
    BY <1>0, <2>1, Staged
  <2>3. CASE stage = "flush"
    <3>1. ~Spent /\ request # None /\ op.caller = "client"
      BY <1>0, <2>1, <2>3 DEF Spent, At, Underway
    <3>2. Spent'
      BY <2>2, <2>3, <3>1 DEF Spent
    <3> QED
      BY <1>0, <2>1, <2>3, <3>1, <3>2
  <2>4. CASE stage # "flush"
    <3>1. ~Spent' => ~Spent
      BY <2>1, <2>2, <2>4 DEF Spent, Stages, At
    <3> QED
      BY <1>0, <2>1, <2>4, <3>1
  <2> QED
    BY <2>3, <2>4
<1>6. CASE MethodReturns
  BY <1>0, <1>6 DEF MethodReturns, Return, Spent
<1>7. CASE Output \/ BridgeClient \/ DevicesClose
  BY <1>0, <1>7, OthersStep DEF Spent
<1> QED
  BY <1>1, <1>2, <1>3, <1>4, <1>5, <1>6, <1>7, Steps, MethodActs

\* Every variable keeps its type.
LEMMA TypesStep ==
    ASSUME IInv, Next
    PROVE  Types'
<1>0. Types /\ Holders /\ Underway
  BY DEF IInv
<1>1. TrackerTypes'
  BY <1>0, TrackerActs, TrackerStep DEF Types, TypeOK, TrackerTypes
<1>2. GatewayTypes'
  BY <1>0, GatewayActs, GatewayStepTypes DEF Types, TypeOK, GatewayTypes
<1>3. record' \in Records \cup {None}
  <2>0. record \in Records \cup {None}
    BY <1>0 DEF Types, TypeOK
  <2>1. CASE RecordUpdated
    BY <1>0, <2>1, UpdatedFields DEF RecordUpdated, Active
  <2>2. CASE RecordClaimed
    BY <2>2, ClaimedFields DEF RecordClaimed
  <2>3. CASE RecordFailed
    <3>1. Active
      BY <2>3, Staffed DEF RecordFailed, Stages
    <3> QED
      BY <1>0, <2>3, <3>1, EndedFields DEF RecordFailed, Active
  <2>4. CASE RecordReleased
    <3>1. Active /\ op \in Methods
      BY <1>0, <2>4, Staffed DEF RecordReleased, Stages, Types, TypeOK, At
    <3>2. op.ending \in {"confirmed", "canceled", "expired", "failed"}
      BY <3>1 DEF Methods
    <3> QED
      BY <1>0, <2>4, <3>1, <3>2, EndedFields DEF RecordReleased, Active
  <2> QED
    BY <2>0, <2>1, <2>2, <2>3, <2>4, RecordActs DEF RecordKept, AgentCame, AgentWent
<1>4. op' \in Methods \cup {None}
  <2>0. op \in Methods \cup {None}
    BY <1>0 DEF Types, TypeOK
  <2>1. CASE Begins
    BY <2>1, BeginStep
  <2>2. CASE MethodClaims \/ MethodGoesOn
    BY <1>0, <2>2, Staged DEF MethodClaims, MethodGoesOn, At, Stages
  <2> QED
    BY <2>0, <2>1, <2>2, Steps, SteadyStep, MethodActs, OthersStep
    DEF MethodWaits, MethodReturns, Return
<1>5. sequence' \in Nat
  <2>0. sequence \in Nat
    BY <1>0 DEF Types, TypeOK
  <2>1. CASE MethodGoesOn
    <3>1. sequence' \in {sequence, sequence + 1}
      BY <2>1 DEF MethodGoesOn
    <3> QED
      BY <2>0, <3>1
  <2>2. CASE MethodWaits \/ MethodReturns \/ MethodClaims
    <3>1. CASE MethodWaits
      BY <2>0, <3>1 DEF MethodWaits
    <3>2. CASE MethodReturns
      BY <2>0, <3>2 DEF MethodReturns
    <3>3. CASE MethodClaims
      <4>1. sequence' = 0
        BY <3>3 DEF MethodClaims
      <4> QED
        BY <4>1
    <3> QED
      BY <2>2, <3>1, <3>2, <3>3
  <2>3. CASE Steady \/ Begins \/ Output \/ BridgeClient \/ DevicesClose
    BY <2>0, <2>3, SteadyStep, BeginStep, OthersStep
  <2> QED
    BY <2>0, <2>1, <2>2, <2>3, Steps, MethodActs
<1>6. overdue' \in BOOLEAN /\ closed' \in BOOLEAN
  <2>0. overdue \in BOOLEAN /\ closed \in BOOLEAN
    BY <1>0 DEF Types, TypeOK
  <2>1. CASE Steady
    BY <2>0, <2>1 DEF Steady, Ask, Refused, RepeatStart, VrchatChanges, TimePasses
  <2>2. CASE Begins
    BY <2>0, <2>2 DEF Begins, Start, Update, Heartbeat, Finish, Poll, Close
  <2>3. CASE Continue
    BY <2>0, <2>3 DEF Continue, Claim, ClaimRefused, Authorize, Apply, Flush, Restore,
                      RestoreFlush, Release
  <2>4. CASE Output \/ BridgeClient \/ DevicesClose
    BY <2>0, <2>4, OthersStep
  <2> QED
    BY <2>1, <2>2, <2>3, <2>4, Steps
<1>7. /\ epoch' \in Epochs /\ bound' \in Epochs /\ begun' \in Epochs /\ confirmedOn' \in Epochs
      /\ epochs' \in Nat /\ request' \in Requests \cup {None} /\ calls' \in 0..MaxCalls
  <2>0. /\ epoch \in Epochs /\ bound \in Epochs /\ begun \in Epochs /\ confirmedOn \in Epochs
        /\ epochs \in Nat /\ request \in Requests \cup {None} /\ calls \in 0..MaxCalls
        /\ None \in Epochs
    BY <1>0 DEF Types, TypeOK, Epochs
  <2>1. request # None => request.epoch \in Epochs
    BY <2>0 DEF Requests
  <2>2. CASE \E kind \in Call : Ask(kind)
    BY <2>0, <2>2 DEF Ask, Requests, epochVars, historyVars
  <2>3. CASE VrchatChanges
    <3>1. UNCHANGED <<bound, request, calls, begun, confirmedOn>>
      BY <2>3 DEF VrchatChanges, apiVars, historyVars
    <3>2. epoch' \in Epochs /\ epochs' \in Nat
      <4>1. CASE epoch = None
        BY <2>0, <2>3, <4>1 DEF VrchatChanges, Epochs
      <4>2. CASE epoch # None
        BY <2>0, <2>3, <4>2 DEF VrchatChanges
      <4> QED
        BY <4>1, <4>2
    <3> QED
      BY <2>0, <3>1, <3>2
  <2>4. CASE Refused \/ RepeatStart \/ TimePasses
    BY <2>0, <2>1, <2>4 DEF Refused, RepeatStart, TimePasses, Called, apiVars, epochVars, historyVars
  <2>5. CASE Begins
    BY <2>0, <2>5 DEF Begins, Start, Update, Heartbeat, Finish, Poll, Close,
                      apiVars, epochVars, historyVars
  <2>6. CASE \E c \in Calibration, failed \in SUBSET {Pose} : Claim(c, failed)
    <3>1. request # None
      BY <1>0, <2>6 DEF Claim, Underway, At
    <3> QED
      BY <2>0, <2>1, <2>6, <3>1 DEF Claim, apiVars, epochVars
  <2>7. CASE Flush
    <3>1. request # None
      BY <1>0, <2>7 DEF Flush, Underway, At
    <3> QED
      BY <2>0, <2>1, <2>7, <3>1 DEF Flush, Return, epochVars, historyVars
  <2>8. CASE Release
    <3>1. UNCHANGED <<bound, calls, epochs, epoch, begun>> /\ request' \in {None, request}
      BY <2>8 DEF Release, Return, epochVars
    <3>2. confirmedOn' \in Epochs
      <4>1. CASE UNCHANGED confirmedOn
        BY <2>0, <4>1
      <4>2. CASE request # None /\ confirmedOn' = request.epoch
        BY <2>1, <4>2
      <4>3. op.ending = "confirmed" => request # None
        BY <1>0, <2>8 DEF Release, At, Underway
      <4> QED
        BY <2>8, <4>1, <4>2, <4>3 DEF Release
    <3> QED
      BY <2>0, <3>1, <3>2
  <2>9. CASE \/ ClaimRefused \/ Authorize \/ Apply \/ RestoreFlush
             \/ \E failed \in SUBSET {Pose} : Restore(failed)
    BY <2>0, <2>9 DEF ClaimRefused, Authorize, Apply, RestoreFlush, Restore, Return,
                      apiVars, epochVars, historyVars
  <2>10. CASE Output \/ BridgeClient \/ DevicesClose
    BY <2>0, <2>10, OthersStep DEF epochVars, historyVars
  <2> QED
    BY <2>2, <2>3, <2>4, <2>5, <2>6, <2>7, <2>8, <2>9, <2>10, Steps DEF Steady, Continue
<1> QED
  BY <1>1, <1>2, <1>3, <1>4, <1>5, <1>6, <1>7
  DEF Types, TypeOK, TrackerTypes, GatewayTypes

----------------------------------------------------------------------------
\* What is shown and what is about to be
LEMMA WrittenIs ==
    ASSUME NEW f
    PROVE  f \in Written <=> f = shown \/ \E w \in Writer : io[w] # None /\ f = io[w].frame
  BY DEF Written

\* Nothing is about to be when nobody is inside the I/O lock.
LEMMA WrittenQuietly ==
    ASSUME Unlocked
    PROVE  Written = {shown}
  BY DEF Written, Unlocked

\* Going safe leaves nothing of what was there, if the output works.
LEMMA SafeFacts ==
    ASSUME IInv, NEW failed, GoSafe(failed)
    PROVE  /\ target' = None /\ UNCHANGED <<io, seen>>
           /\ Unlocked /\ Unlocked'
           /\ running' => running /\ Written' = {None}
<1>1. Unlocked
  BY DEF GoSafe, IInv, Locking
<1>2. target' = None /\ UNCHANGED <<io, seen>> /\ Unlocked'
  BY <1>1 DEF GoSafe, Unlocked
<1>3. ASSUME running'
      PROVE  running /\ shown' = None
  BY <1>3 DEF GoSafe
<1>4. Written' = {shown'}
  BY <1>2 DEF Written, Unlocked
<1> QED
  BY <1>1, <1>2, <1>3, <1>4

\* A thread that reads the target is the only writer.
LEMMA ReadFacts ==
    ASSUME IInv, NEW w \in Writer, FlushReads(w)
    PROVE  /\ running /\ UNCHANGED <<target, running, shown, seen>>
           /\ io'[w] # None /\ io'[w].frame = target
           /\ \A v \in Writer \ {w} : io'[v] = None
           /\ Written = {shown} /\ Written' = {shown, target}
<1>1. /\ running /\ UNCHANGED <<target, running, shown, seen>> /\ Unlocked
      /\ io' = [io EXCEPT ![w] = [frame |-> target, revision |-> revision]]
  BY DEF FlushReads
<1>2. [frame |-> target, revision |-> revision] \in Writes
  BY DEF IInv, Types, TypeOK, Writes
<1>3. io \in [Writer -> Writes \cup {None}]
  BY DEF IInv, Types, TypeOK
<1>4. io'[w] = [frame |-> target, revision |-> revision] /\ io'[w] # None
  BY <1>1, <1>2, <1>3
<1>5. io'[w].frame = target
  BY <1>4
<1>6. \A v \in Writer \ {w} : io'[v] = None
  BY <1>1, <1>3 DEF Unlocked
<1>7. Written' = {shown, target}
  BY <1>1, <1>4, <1>5, <1>6 DEF Written
<1> QED
  BY <1>1, <1>4, <1>5, <1>6, <1>7, WrittenQuietly

\* And so is one that writes it.
LEMMA WriteFacts ==
    ASSUME IInv, NEW w \in Writer, FlushWrites(w)
    PROVE  /\ running /\ UNCHANGED target /\ Unlocked'
           /\ io[w] # None /\ io[w].frame \in Written
           /\ running' => Written' = {io[w].frame} /\ io[w].frame \in seen'
           /\ seen \subseteq seen'
<1>1. io[w] # None /\ running /\ UNCHANGED target
  BY DEF IInv, Locking, Unlocked, FlushWrites
<1>2. io \in [Writer -> Writes \cup {None}]
  BY DEF IInv, Types, TypeOK
<1>3. \A v \in Writer \ {w} : io[v] = None
  BY <1>1 DEF IInv, Locking, Writer
<1>4. Unlocked'
  BY <1>2, <1>3 DEF FlushWrites, Unlocked
<1>5. io[w].frame \in Written
  BY <1>1 DEF Written
<1>6. Written' = {shown'}
  BY <1>4 DEF Written, Unlocked
<1>7. seen \subseteq seen' /\ (running' => shown' = io[w].frame /\ shown' \in seen')
  BY <1>1 DEF FlushWrites
<1> QED
  BY <1>1, <1>4, <1>5, <1>6, <1>7

\* An agent does nothing to the gateway while a calibration is active.
LEMMA AgentWaits ==
    ASSUME IInv, BridgeClient
    PROVE  /\ ~Active /\ ~Active'
           /\ io["calibration"] = None
           /\ ~At("flush") /\ ~At("safe") /\ ~At("release")
<1>1. PICK s \in Agent :
          \/ \E failed \in SUBSET {Pose} :
               AgentOpens(s, failed) \/ AgentStops(s, failed) \/ AgentCloses(s, failed)
          \/ AgentAuthorizes(s)
          \/ AgentMoves(s)
  BY DEF BridgeClient
<1>2. s = session \/ exclusive \in {None, s}
  <2>1. CASE \E failed \in SUBSET {Pose} : AgentOpens(s, failed)
    BY <2>1 DEF AgentOpens, Gateway!OpenSession
  <2>2. CASE \E failed \in SUBSET {Pose} : AgentStops(s, failed)
    <3>1. Gateway!NeutralizeVerdict(s, Pose, 1) = "accepted"
      BY <2>2 DEF AgentStops, Gateway!Neutralize
    <3> QED
      BY <3>1 DEF Gateway!NeutralizeVerdict
  <2>3. CASE \E failed \in SUBSET {Pose} : AgentCloses(s, failed)
    BY <2>3 DEF AgentCloses, Gateway!CloseSession
  <2>4. CASE AgentAuthorizes(s)
    <3>1. Gateway!AuthorizeVerdict(s, Pose, 1, AgentAction) = "accepted"
      BY <2>4 DEF AgentAuthorizes, Gateway!Authorize
    <3> QED
      BY <3>1 DEF Gateway!AuthorizeVerdict
  <2>5. CASE AgentMoves(s)
    <3>1. Gateway!EnvelopeVerdict(s, Pose, 1, AgentAction, 0, 1, now, now) = "accepted"
      BY <2>5 DEF AgentMoves, Gateway!ApplyEnvelope
    <3> QED
      BY <3>1 DEF Gateway!EnvelopeVerdict
  <2> QED
    BY <1>1, <2>1, <2>2, <2>3, <2>4, <2>5
<1>3. ~Active
  BY <1>2, Possession
<1>4. ~At("flush") /\ ~At("safe") /\ ~At("release")
  BY <1>3, Staffed DEF Stages
<1> QED
  BY <1>3, <1>4, OthersStep DEF Active, IInv, Locking

----------------------------------------------------------------------------
\* What the agent's client does to the tracker and to the session
AgentSafe ==
    /\ \E failed \in SUBSET {Pose} : GoSafe(failed)
    /\ session' = None \/ session' \in Agent
AgentAims ==
    /\ session \in Agent /\ Aim(Frame(session, 0))
    /\ UNCHANGED session
AgentQuiet == UNCHANGED <<trackerVars, session>>

\* It does nothing else.
LEMMA AgentActs ==
    ASSUME IInv, BridgeClient
    PROVE  AgentSafe \/ AgentAims \/ AgentQuiet
<1>1. PICK s \in Agent :
          \/ \E failed \in SUBSET {Pose} :
               AgentOpens(s, failed) \/ AgentStops(s, failed) \/ AgentCloses(s, failed)
          \/ AgentAuthorizes(s)
          \/ AgentMoves(s)
  BY DEF BridgeClient
<1>2. CASE \E failed \in SUBSET {Pose} : AgentOpens(s, failed)
  BY <1>2 DEF AgentOpens, Gateway!OpenSession, Gateway!StartSession, AgentSafe
<1>3. CASE \E failed \in SUBSET {Pose} : AgentStops(s, failed)
  <2>1. PICK failed \in SUBSET {Pose} : AgentStops(s, failed)
    BY <1>3
  <2>2. Gateway!NeutralizeVerdict(s, Pose, 1) = "accepted"
    BY <2>1 DEF AgentStops, Gateway!Neutralize
  <2>3. s = session
    BY <2>2 DEF Gateway!NeutralizeVerdict
  <2> QED
    BY <2>1, <2>3 DEF AgentStops, Gateway!Neutralize, AgentSafe
<1>4. CASE \E failed \in SUBSET {Pose} : AgentCloses(s, failed)
  BY <1>4 DEF AgentCloses, Gateway!CloseSession, AgentSafe
<1>5. CASE AgentAuthorizes(s)
  BY <1>5 DEF AgentAuthorizes, Gateway!Authorize, AgentQuiet
<1>6. CASE AgentMoves(s)
  <2>1. Gateway!EnvelopeVerdict(s, Pose, 1, AgentAction, 0, 1, now, now) = "accepted"
    BY <1>6 DEF AgentMoves, Gateway!ApplyEnvelope
  <2>2. s = session
    BY <2>1 DEF Gateway!EnvelopeVerdict
  <2> QED
    BY <1>6, <2>2 DEF AgentMoves, Gateway!ApplyEnvelope, AgentAims
<1> QED
  BY <1>1, <1>2, <1>3, <1>4, <1>5, <1>6

\* The I/O lock stays one thread's.
LEMMA LockingStep ==
    ASSUME IInv, Next
    PROVE  Locking'
<1> USE DEF Locking
<1>0. Locking /\ Underway
  BY DEF IInv
<1>a. ASSUME \E failed \in SUBSET {Pose} : GoSafe(failed)
      PROVE  Locking'
  <2>1. Unlocked'
    BY <1>a, SafeFacts
  <2> QED
    BY <2>1 DEF Unlocked, Writer
<1>b. ASSUME \E w \in Writer : FlushWrites(w)
      PROVE  Locking'
  <2>1. Unlocked'
    BY <1>b, WriteFacts
  <2> QED
    BY <2>1 DEF Unlocked, Writer
<1>c. ASSUME FlushReads("output")
      PROVE  Locking'
  BY <1>c, ReadFacts DEF Writer
<1>d. ASSUME FlushReads("calibration"), UNCHANGED op, At("flush") \/ At("safe")
      PROVE  Locking'
  BY <1>d, ReadFacts DEF Writer, At
<1>e. ASSUME UNCHANGED <<io, running>>, UNCHANGED op \/ io["calibration"] = None
      PROVE  Locking'
  BY <1>0, <1>e DEF Unlocked, At
<1>1. CASE Steady
  BY <1>1, <1>e, SteadyStep DEF trackerVars
<1>2. CASE Begins
  <2>1. io["calibration"] = None
    BY <1>0, <1>2, BeginStep DEF At
  <2> QED
    BY <1>2, <1>e, <2>1, BeginStep DEF trackerVars
<1>3. CASE Continue
  <2>1. CASE \E failed \in SUBSET {Pose} : (\E c \in Calibration : Claim(c, failed)) \/ Restore(failed)
    BY <1>a, <2>1 DEF Claim, Restore
  <2>2. CASE ClaimRefused \/ Authorize \/ Release \/ Apply
    <3>1. io["calibration"] = None
      BY <1>0, <2>2 DEF ClaimRefused, Authorize, Release, Apply, At
    <3>2. UNCHANGED <<io, running>>
      BY <2>2 DEF ClaimRefused, Authorize, Release, Apply, Aim, trackerVars
    <3> QED
      BY <1>e, <3>1, <3>2
  <2>3. CASE Flush \/ RestoreFlush
    <3>1. At("flush") \/ At("safe")
      BY <2>3 DEF Flush, RestoreFlush
    <3>2. \/ FlushReads("calibration") /\ UNCHANGED op
          \/ FlushWrites("calibration")
          \/ io["calibration"] = None /\ UNCHANGED trackerVars
      BY <2>3 DEF Flush, RestoreFlush
    <3> QED
      BY <1>b, <1>d, <1>e, <3>1, <3>2 DEF Writer, trackerVars
  <2> QED
    BY <1>3, <2>1, <2>2, <2>3 DEF Continue
<1>4. CASE Output
  BY <1>4, <1>b, <1>c DEF Output, Writer
<1>5. CASE BridgeClient
  BY <1>5, <1>a, <1>e, AgentActs, OthersStep DEF AgentSafe, AgentAims, AgentQuiet, Aim, trackerVars
<1>6. CASE DevicesClose
  BY <1>6 DEF DevicesClose, Unlocked, Writer
<1> QED
  BY <1>1, <1>2, <1>3, <1>4, <1>5, <1>6, Steps

\* The target is the pose of whoever has the gateway.
LEMMA AimedStep ==
    ASSUME IInv, Next
    PROVE  Aimed'
<1> USE DEF Aimed
<1>0. Aimed /\ Underway /\ Holders /\ Types /\ Holders' /\ Underway'
  BY HoldersStep, UnderwayStep DEF IInv
\* Where a method is neither waiting for a write nor letting go
<1> DEFINE Idle == ~At("flush") /\ ~At("safe") /\ ~At("release")
<1>a. ASSUME target' = None, Idle', ~(Active' /\ op' = None /\ running')
      PROVE  Aimed'
  BY <1>a
<1>1. CASE Steady
  BY <1>0, <1>1, SteadyStep DEF trackerVars, gatewayVars, Active, At, Recorded
<1>2. CASE Begins
  <2>1. Idle'
    BY <1>2, BeginStep DEF At
  <2>2. UNCHANGED <<target, session>>
    BY <1>2, BeginStep DEF trackerVars, gatewayVars
  <2>3. ~(Active' /\ op' = None)
    BY <1>2, BeginStep DEF Active
  <2> QED
    BY <1>0, <2>1, <2>2, <2>3
<1>3. CASE \E c \in Calibration, failed \in SUBSET {Pose} : Claim(c, failed)
  <2>1. target' = None /\ op # None /\ op' = [op EXCEPT !.stage = "authorize"]
    BY <1>3, SafeFacts DEF Claim, At
  <2>2. op' # None /\ op'.stage = "authorize"
    BY <1>0, <2>1, Staged DEF Stages
  <2> QED
    BY <1>a, <2>1, <2>2 DEF At
<1>4. CASE ClaimRefused
  <2>1. UNCHANGED <<target, session, record>> /\ op' = None /\ At("claim")
    BY <1>4 DEF ClaimRefused, trackerVars, gatewayVars, Return
  <2>2. ~Active'
    BY <1>0, <2>1 DEF Underway, At, Active
  <2> QED
    BY <1>0, <2>1, <2>2 DEF At
<1>5. CASE Authorize
  <2>1. UNCHANGED <<target, session, record>> /\ op # None /\ op' = [op EXCEPT !.stage = "apply"]
    BY <1>5 DEF Authorize, trackerVars, Gateway!Authorize, At
  <2>2. op' # None /\ op'.stage = "apply"
    BY <1>0, <2>1, Staged DEF Stages
  <2> QED
    BY <1>0, <2>1, <2>2 DEF At
<1>6. CASE Apply
  <2>0. Active /\ op # None /\ UNCHANGED <<session, record>>
    BY <1>6, Staffed DEF Apply, At, Stages, Gateway!ApplyEnvelope, gatewayVars
  <2>1. CASE running
    <3>1. /\ target' = Recorded /\ op' = [op EXCEPT !.stage = "flush"]
      BY <1>6, <2>1 DEF Apply, Aim, Recorded
    <3>2. op' # None /\ op'.stage = "flush"
      BY <1>0, <2>0, <3>1, Staged DEF Stages
    <3>3. session \in Calibration
      BY <2>0, Possession
    <3> QED
      BY <2>0, <3>1, <3>2, <3>3 DEF At, Recorded
  <2>2. CASE ~running
    <3>1. UNCHANGED target /\ op' = [op EXCEPT !.stage = "restore"]
      BY <1>6, <2>2 DEF Apply, trackerVars
    <3>2. op' # None /\ op'.stage = "restore"
      BY <1>0, <2>0, <3>1, Staged DEF Stages
    <3> QED
      BY <1>0, <2>0, <3>1, <3>2 DEF At
  <2> QED
    BY <2>1, <2>2
<1>7. CASE Flush
  <2>0. At("flush") /\ op # None /\ UNCHANGED <<session, record>>
    BY <1>7 DEF Flush, At, gatewayVars
  <2>1. UNCHANGED target
    BY <1>7, ReadFacts, WriteFacts DEF Flush, trackerVars, Writer
  <2>2. CASE UNCHANGED op
    BY <1>0, <2>0, <2>1, <2>2 DEF At, Recorded
  <2>3. CASE op' = None
    BY <1>0, <2>0, <2>1, <2>3 DEF At, Recorded
  <2>4. CASE op' = [op EXCEPT !.stage = "restore"]
    <3>1. op' # None /\ op'.stage = "restore"
      BY <1>0, <2>0, <2>4, Staged DEF Stages
    <3> QED
      BY <1>0, <2>0, <2>1, <3>1 DEF At
  <2> QED
    BY <1>7, <2>2, <2>3, <2>4 DEF Flush, Return
<1>8. CASE \E failed \in SUBSET {Pose} : Restore(failed)
  <2>1. target' = None /\ op # None
    BY <1>8, SafeFacts DEF Restore, At
  <2>2. CASE op' = [op EXCEPT !.stage = "safe"]
    <3>1. op' # None /\ op'.stage = "safe"
      BY <1>0, <2>1, <2>2, Staged DEF Stages
    <3> QED
      BY <2>1, <3>1 DEF At
  <2>3. CASE op' = None /\ record' = Ended("failed", FALSE)
    <3>1. record # None
      BY <1>8, Staffed DEF Restore, Stages, Active
    <3>2. ~Active'
      BY <1>0, <2>3, <3>1, EndedFields DEF Active
    <3> QED
      BY <1>a, <2>1, <2>3, <3>2 DEF At
  <2> QED
    BY <1>8, <2>2, <2>3 DEF Restore, Return
<1>9. CASE RestoreFlush
  <2>0. At("safe") /\ op # None
    BY <1>9 DEF RestoreFlush, At
  <2>1. target' = None
    BY <1>0, <1>9, <2>0, ReadFacts, WriteFacts DEF RestoreFlush, trackerVars, Writer
  <2>2. CASE UNCHANGED op
    BY <2>0, <2>1, <2>2 DEF At
  <2>3. CASE op' = [op EXCEPT !.stage = "release"]
    <3>1. op' # None /\ op'.stage = "release"
      BY <1>0, <2>0, <2>3, Staged DEF Stages
    <3> QED
      BY <2>1, <3>1 DEF At
  <2>4. CASE op' = None /\ record' = Ended("failed", FALSE)
    <3>1. record # None
      BY <2>0, Staffed DEF Stages, Active
    <3>2. ~Active'
      BY <1>0, <2>4, <3>1, EndedFields DEF Active
    <3> QED
      BY <1>a, <2>1, <2>4, <3>2 DEF At
  <2> QED
    BY <1>9, <2>2, <2>3, <2>4 DEF RestoreFlush, Return
<1>10. CASE Release
  <2>1. /\ At("release") /\ op # None /\ op' = None /\ UNCHANGED target
        /\ \E state \in {op.ending, "failed"}, restored \in BOOLEAN : record' = Ended(state, restored)
    BY <1>10 DEF Release, trackerVars, Return, At
  <2>2. record # None /\ op \in Methods
    BY <1>0, <2>1, Staffed DEF Stages, Active, Types, TypeOK
  <2>3. op.ending \in {"confirmed", "canceled", "expired", "failed"}
    BY <2>2 DEF Methods
  <2>4. ~Active'
    BY <1>0, <2>1, <2>2, <2>3, EndedFields DEF Active
  <2>5. target' = None
    BY <1>0, <2>1
  <2> QED
    BY <1>a, <2>1, <2>4, <2>5 DEF At
<1>11. CASE Output
  <2>1. UNCHANGED <<target, session, record, op>>
    BY <1>11, ReadFacts, WriteFacts DEF Output, Writer, gatewayVars
  <2>2. running' => running
    BY <1>11, ReadFacts, WriteFacts DEF Output, Writer
  <2> QED
    BY <1>0, <2>1, <2>2 DEF Active, At, Recorded
<1>12. CASE BridgeClient
  <2>1. ~Active' /\ Idle'
    BY <1>12, AgentWaits, OthersStep DEF At
  <2>2. CASE AgentSafe
    BY <2>1, <2>2, <1>a, SafeFacts DEF AgentSafe
  <2>3. CASE AgentAims
    <3>1. Frame(session, 0).by = session
      BY <2>3, FrameFields DEF AgentAims
    <3> QED
      BY <2>1, <2>3, <3>1 DEF AgentAims, Aim
  <2>4. CASE AgentQuiet
    BY <1>0, <2>1, <2>4 DEF AgentQuiet, trackerVars
  <2> QED
    BY <1>12, <2>2, <2>3, <2>4, AgentActs
<1>13. CASE DevicesClose
  BY <1>13, <1>a DEF DevicesClose, At, Elsewhere
<1> QED
  BY <1>1, <1>2, <1>3, <1>4, <1>5, <1>6, <1>7, <1>8, <1>9, <1>10, <1>11, <1>12, <1>13, Steps
  DEF Continue

\* Once a calibration is active and nothing is under way, either its first or
\* next frame has just been written or nothing was changed.
LEMMA Settled ==
    ASSUME IInv, Next, Active', op' = None
    PROVE  /\ Active /\ UNCHANGED record
           /\ \/ op = None /\ (Output \/ UNCHANGED trackerVars \/ DevicesClose)
              \/ At("flush") /\ FlushWrites("calibration") /\ running'
<1>0. Types /\ Underway
  BY DEF IInv
<1>1. CASE Steady
  BY <1>1, SteadyStep DEF Active
<1>2. CASE Begins
  BY <1>2, BeginStep DEF Active
<1>3. CASE Continue
  <2>1. ~MethodClaims /\ ~MethodGoesOn
    BY <1>0, Staged DEF MethodClaims, MethodGoesOn, At, Stages
  <2>2. op # None
    BY <1>3 DEF Continue, Claim, ClaimRefused, Authorize, Apply, Flush, Restore, RestoreFlush,
                Release, At
  <2>3. MethodReturns
    BY <1>3, <2>1, <2>2, MethodActs DEF MethodWaits
  <2>4. ~(record' = Ended("failed", FALSE) /\ (At("restore") \/ At("safe") \/ At("release")))
    <3>1. ASSUME At("restore") \/ At("safe") \/ At("release"), record' = Ended("failed", FALSE)
          PROVE  FALSE
      <4>1. record # None
        BY <3>1, Staffed DEF Stages, Active
      <4> QED
        BY <1>0, <3>1, <4>1, EndedFields DEF Active
    <3> QED
      BY <3>1
  <2>5. ~(At("release") /\ record' = Ended(op.ending, TRUE))
    <3>1. ASSUME At("release"), record' = Ended(op.ending, TRUE)
          PROVE  FALSE
      <4>1. record # None /\ op \in Methods
        BY <1>0, <2>2, <3>1, Staffed DEF Stages, Active, Types, TypeOK
      <4>2. op.ending \in {"confirmed", "canceled", "expired", "failed"}
        BY <4>1 DEF Methods
      <4> QED
        BY <1>0, <3>1, <4>1, <4>2, EndedFields DEF Active
    <3> QED
      BY <3>1
  <2>6. UNCHANGED record /\ (At("claim") \/ At("flush"))
    BY <2>3, <2>4, <2>5 DEF MethodReturns
  <2>7. Active /\ At("flush")
    BY <1>0, <2>6 DEF Active, Underway, At
  <2>8. Flush
    BY <1>3, <2>7 DEF Continue, Claim, ClaimRefused, Authorize, Apply, Restore, RestoreFlush,
                      Release, At
  <2>9. FlushWrites("calibration") /\ running'
    <3>1. ~(op' = [op EXCEPT !.stage = "restore"])
      BY <1>0, <2>2, Staged DEF Stages
    <3> QED
      BY <2>2, <2>8, <3>1 DEF Flush
  <2> QED
    BY <2>6, <2>7, <2>9
<1>4. CASE Output \/ DevicesClose
  BY <1>4, OthersStep DEF Active
<1>5. CASE BridgeClient
  BY <1>5, AgentWaits
<1> QED
  BY <1>1, <1>2, <1>3, <1>4, <1>5, Steps

\* The session changes only over a safe frame.
LEMMA SessionStep ==
    ASSUME IInv, Next, session' \in Agent
    PROVE  \/ \E failed \in SUBSET {Pose} : GoSafe(failed)
           \/ /\ UNCHANGED session
              /\ \/ UNCHANGED trackerVars \/ TrackerReads \/ TrackerWrites \/ TrackerEnds
                 \/ Aim(Frame(session, 0))
<1>1. CASE Steady \/ Begins
  BY <1>1, SteadyStep, BeginStep DEF gatewayVars
<1>2. CASE BridgeClient
  BY <1>2, AgentActs DEF AgentSafe, AgentAims, AgentQuiet
<1>3. CASE Continue
  <2>1. CASE \E failed \in SUBSET {Pose} : (\E c \in Calibration : Claim(c, failed)) \/ Restore(failed)
    BY <2>1 DEF Claim, Restore
  <2>2. CASE ClaimRefused
    BY <2>2 DEF ClaimRefused, gatewayVars
  <2>3. CASE Authorize \/ Apply
    <3>1. Active
      BY <2>3, Staffed DEF Authorize, Apply, Stages
    <3>2. UNCHANGED session
      BY <2>3 DEF Authorize, Apply, Gateway!Authorize, Gateway!ApplyEnvelope, gatewayVars
    <3> QED
      BY <3>1, <3>2, Possession
  <2>4. CASE Flush \/ RestoreFlush
    BY <2>4 DEF Flush, RestoreFlush, gatewayVars, TrackerReads, TrackerWrites, Writer
  <2>5. CASE Release
    <3>1. session' = None \/ UNCHANGED session
      BY <2>5 DEF Release, Gateway!ReleaseExclusiveSession, gatewayVars
    <3>2. UNCHANGED trackerVars
      BY <2>5 DEF Release
    <3> QED
      BY <3>1, <3>2
  <2> QED
    BY <1>3, <2>1, <2>2, <2>3, <2>4, <2>5 DEF Continue
<1>4. CASE Output
  BY <1>4 DEF Output, gatewayVars, TrackerReads, TrackerWrites, Writer
<1>5. CASE DevicesClose
  BY <1>5 DEF DevicesClose, gatewayVars, TrackerEnds
<1> QED
  BY <1>1, <1>2, <1>3, <1>4, <1>5, Steps

\* What is on its way to the device stays what it should be.
LEMMA WritingStep ==
    ASSUME IInv, Next
    PROVE  Writing'
<1>0. Writing /\ Aimed /\ Underway /\ Locking /\ Types
  BY DEF IInv
<1>1. ASSUME running'
      PROVE  running
  <2>1. TrackerAims \/ TrackerGoesSafe \/ TrackerReads \/ TrackerWrites \/ TrackerEnds
        \/ UNCHANGED trackerVars
    BY TrackerActs
  <2> QED
    BY <1>1, <2>1, SafeFacts, ReadFacts, WriteFacts
    DEF TrackerAims, Aim, TrackerGoesSafe, TrackerReads, TrackerWrites, TrackerEnds, trackerVars
<1>a. ASSUME UNCHANGED <<io, shown>>
      PROVE  Written' = Written
  BY <1>a DEF Written
<1>2. ASSUME running', target' = None
      PROVE  Written' = {None}
  <2>1. target = None => Written = {None} /\ shown = None
    BY <1>0, <1>1, <1>2, WrittenIs DEF Writing
  <2>2. CASE TrackerAims
    BY <1>2, <2>2 DEF TrackerAims, Aim
  <2>3. CASE TrackerGoesSafe
    BY <1>2, <2>3, SafeFacts DEF TrackerGoesSafe
  <2>4. CASE TrackerReads
    BY <1>2, <2>1, <2>4, ReadFacts DEF TrackerReads
  <2>5. CASE TrackerWrites
    BY <1>2, <2>1, <2>5, WriteFacts DEF TrackerWrites
  <2>6. CASE TrackerEnds
    BY <1>2, <2>6 DEF TrackerEnds
  <2>7. CASE UNCHANGED trackerVars
    BY <1>2, <1>a, <2>1, <2>7 DEF trackerVars
  <2> QED
    BY <2>2, <2>3, <2>4, <2>5, <2>6, <2>7, TrackerActs
<1>3. ASSUME running', session' \in Agent, NEW f \in Written' \ {None}
      PROVE  f.by = session'
  <2>1. CASE \E failed \in SUBSET {Pose} : GoSafe(failed)
    BY <1>3, <2>1, SafeFacts
  <2>2. CASE UNCHANGED session
    <3>1. \A g \in Written \ {None} : g.by = session
      BY <1>0, <1>1, <1>3, <2>2 DEF Writing
    <3>2. CASE UNCHANGED trackerVars \/ Aim(Frame(session, 0))
      BY <1>3, <1>a, <2>2, <3>1, <3>2 DEF trackerVars, Aim
    <3>3. CASE TrackerReads
      BY <1>0, <1>3, <2>2, <3>1, <3>3, ReadFacts DEF TrackerReads, Aimed
    <3>4. CASE TrackerWrites
      BY <1>3, <2>2, <3>1, <3>4, WriteFacts DEF TrackerWrites
    <3>5. CASE TrackerEnds
      BY <1>3, <3>5 DEF TrackerEnds
    <3>6. CASE \E failed \in SUBSET {Pose} : GoSafe(failed)
      BY <2>1, <3>6
    <3> QED
      BY <1>3, <3>2, <3>3, <3>4, <3>5, <3>6, SessionStep
  <2> QED
    BY <1>3, <2>1, <2>2, SessionStep
<1>4. ASSUME running', Active', op' = None
      PROVE  Written' = {Recorded'}
  <2>1. Active /\ Recorded' = Recorded
    BY <1>4, Settled DEF Recorded
  <2>2. CASE op = None
    <3>1. Written = {Recorded} /\ target = Recorded /\ shown = Recorded
      BY <1>0, <1>1, <1>4, <2>1, <2>2, WrittenIs DEF Writing, Aimed
    <3>2. CASE Output
      BY <1>4, <2>1, <3>1, <3>2, ReadFacts, WriteFacts DEF Output, Writer
    <3>3. CASE UNCHANGED trackerVars
      BY <1>a, <2>1, <3>1, <3>3 DEF trackerVars
    <3>4. CASE DevicesClose
      BY <1>4, <3>4 DEF DevicesClose
    <3> QED
      BY <1>4, <2>2, <3>2, <3>3, <3>4, Settled DEF At
  <2>3. CASE At("flush") /\ FlushWrites("calibration")
    <3>1. io["calibration"].frame = Recorded
      BY <1>0, <1>1, <1>4, <2>3, WriteFacts DEF Writing, Aimed, Writer
    <3> QED
      BY <1>4, <2>1, <2>3, <3>1, WriteFacts DEF Writer
  <2> QED
    BY <1>4, <2>2, <2>3, Settled
<1>5. ASSUME running', io'["calibration"] # None
      PROVE  io'["calibration"].frame = target'
  <2>1. CASE TrackerGoesSafe \/ TrackerWrites
    BY <1>5, <2>1, SafeFacts, WriteFacts DEF TrackerGoesSafe, TrackerWrites, Unlocked, Writer
  <2>2. CASE TrackerReads
    BY <1>5, <2>2, ReadFacts DEF TrackerReads, Writer
  <2>3. CASE UNCHANGED trackerVars
    BY <1>0, <1>1, <1>5, <2>3 DEF trackerVars, Writing
  <2>4. CASE TrackerEnds
    BY <1>5, <2>4 DEF TrackerEnds
  <2>5. CASE TrackerAims
    <3>1. UNCHANGED io
      BY <2>5 DEF TrackerAims, Aim
    <3>2. At("flush") \/ At("safe")
      BY <1>0, <1>5, <3>1 DEF Locking
    <3>3. At("flush")' \/ At("safe")'
      BY <1>5, LockingStep DEF Locking
    <3>4. Active /\ op # None
      BY <3>2, Staffed DEF Stages, At
    <3>5. ~BridgeClient /\ ~Begins /\ ~DevicesClose
      BY <3>2, <3>4, AgentWaits, BeginStep DEF DevicesClose
    <3>6. UNCHANGED trackerVars \/ TrackerReads \/ TrackerWrites
      <4>1. CASE Steady
        BY <4>1, SteadyStep
      <4>2. CASE Output
        BY <4>2 DEF Output, TrackerReads, TrackerWrites, Writer
      <4>3. CASE Continue
        BY <3>2, <4>3 DEF Continue, Claim, ClaimRefused, Authorize, Apply, Flush, Restore,
                          RestoreFlush, Release, At, TrackerReads, TrackerWrites, Writer
      <4> QED
        BY <3>5, <4>1, <4>2, <4>3, Steps
    <3> QED
      BY <2>1, <2>2, <2>3, <3>6
  <2> QED
    BY <2>1, <2>2, <2>3, <2>4, <2>5, TrackerActs
<1> QED
  BY <1>2, <1>3, <1>4, <1>5 DEF Writing

\* What can be confirmed was on the device.
LEMMA SeeingStep ==
    ASSUME IInv, Next
    PROVE  Seeing'
<1>0. Seeing /\ Aimed /\ Writing /\ Underway /\ Holders /\ Types /\ Types' /\ Underway'
  BY TypesStep, UnderwayStep DEF IInv
<1>1. seen \subseteq seen'
  BY TrackerActs, SafeFacts, ReadFacts, WriteFacts
  DEF TrackerAims, Aim, TrackerGoesSafe, TrackerReads, TrackerWrites, TrackerEnds, trackerVars
<1>2. ASSUME Active', op' = None
      PROVE  Recorded' \in seen'
  <2>1. Active /\ Recorded' = Recorded
    BY <1>2, Settled DEF Recorded
  <2>2. CASE op = None
    BY <1>0, <1>1, <2>1, <2>2 DEF Seeing
  <2>3. CASE At("flush") /\ FlushWrites("calibration") /\ running'
    <3>1. io["calibration"].frame = Recorded
      BY <1>0, <2>3, WriteFacts DEF Writing, Aimed, Writer
    <3> QED
      BY <2>1, <2>3, <3>1, WriteFacts DEF Writer
  <2> QED
    BY <1>2, <2>2, <2>3, Settled
<1>3. ASSUME op' # None, op'.ending = "confirmed"
      PROVE  Recorded' \in seen'
  <2>1. CASE UNCHANGED <<op, record>>
    BY <1>0, <1>1, <1>3, <2>1 DEF Seeing, Recorded
  <2>2. CASE Begins
    BY <1>0, <1>1, <1>3, <2>2, BeginStep DEF Seeing, Recorded
  <2>3. CASE MethodClaims
    BY <1>0, <1>3, <2>3, Staged DEF MethodClaims, Underway, At, Stages
  <2>4. CASE MethodGoesOn
    BY <1>0, <1>1, <1>3, <2>4, Staged DEF MethodGoesOn, Seeing, Recorded, At, Stages
  <2>5. CASE MethodReturns
    BY <1>3, <2>5 DEF MethodReturns, Return
  <2> QED
    BY <2>1, <2>2, <2>3, <2>4, <2>5, Steps, SteadyStep, OthersStep, MethodActs DEF MethodWaits
<1>4. ASSUME record' # None, record'.state = "confirmed"
      PROVE  Recorded' \in seen' /\ record'.restored
  <2>1. CASE UNCHANGED record
    BY <1>0, <1>1, <1>4, <2>1 DEF Seeing, Recorded
  <2>2. CASE RecordUpdated
    BY <1>0, <1>4, <2>2, UpdatedFields DEF RecordUpdated, Active
  <2>3. CASE RecordClaimed
    BY <1>4, <2>3, ClaimedFields DEF RecordClaimed
  <2>4. CASE RecordFailed
    <3>1. Active
      BY <2>4, Staffed DEF RecordFailed, Stages
    <3> QED
      BY <1>0, <1>4, <2>4, <3>1, EndedFields DEF RecordFailed, Active
  <2>5. CASE RecordReleased
    <3>1. Active /\ op \in Methods /\ op # None
      BY <1>0, <2>5, Staffed DEF RecordReleased, Stages, Types, TypeOK, At
    <3>2. op.ending \in {"confirmed", "canceled", "expired", "failed"}
      BY <3>1 DEF Methods
    <3>3. /\ record'.token = record.token /\ record'.revision = record.revision
          /\ record'.state = op.ending /\ record'.restored
      BY <1>0, <2>5, <3>1, <3>2, EndedFields DEF RecordReleased, Active
    <3> QED
      BY <1>0, <1>1, <1>4, <3>1, <3>3 DEF Seeing, Recorded
  <2> QED
    BY <2>1, <2>2, <2>3, <2>4, <2>5, RecordActs DEF RecordKept, AgentCame, AgentWent
<1> QED
  BY <1>2, <1>3, <1>4 DEF Seeing

----------------------------------------------------------------------------
\* The service starts safe, with nobody connected.
LEMMA InitInv == Init => IInv
<1> SUFFICES ASSUME Init PROVE IInv
  OBVIOUS
<1> USE DEF Init
<1>1. Types
  <2>1. TrackerTypes
    BY DEF TrackerTypes, Frames
  <2>2. GatewayTypes
    BY DEF GatewayTypes, Gateway!TypeOK, Granted, Gateway!Init, Gateway!NewResourceState,
           Gateway!ResourceState
  <2>3. None \in Epochs /\ calls \in 0..MaxCalls /\ epochs \in Nat /\ sequence \in Nat
    BY DEF Epochs
  <2> QED
    BY <2>1, <2>2, <2>3 DEF Types, TypeOK, TrackerTypes, GatewayTypes
<1>2. Unlocked /\ Written = {None}
  <2>1. Unlocked
    BY DEF Unlocked
  <2> QED
    BY <2>1, WrittenQuietly
<1>3. Holders /\ Underway /\ Aimed /\ Seeing /\ Counting
  BY DEF Holders, Underway, Aimed, Seeing, Counting, Gateway!Init, Active, At, Spent
<1>4. Locking /\ Writing
  BY <1>2, <1>3 DEF Locking, Writing, Unlocked, Writer, Active, Gateway!Init
<1> QED
  BY <1>1, <1>3, <1>4 DEF IInv

\* A step in which nothing happens keeps what holds of a state.
LEMMA Stutter ==
    ASSUME IInv, UNCHANGED vars
    PROVE  IInv'
<1> USE DEF vars, trackerVars, apiVars, epochVars, gatewayVars, historyVars
<1>1. Types'
  BY DEF IInv, Types, TypeOK, Gateway!TypeOK, Granted
<1>2. Written' = Written /\ Recorded' = Recorded /\ Active' = Active
  BY DEF Written, Recorded, Active
<1>3. Holders' /\ Underway' /\ Locking' /\ Counting'
  BY <1>2 DEF IInv, Holders, Underway, Locking, Counting, Unlocked, Spent, At
<1>4. Aimed' /\ Writing' /\ Seeing'
  BY <1>2 DEF IInv, Aimed, Writing, Seeing, At
<1> QED
  BY <1>1, <1>3, <1>4 DEF IInv

\* The inductive invariant: who has the gateway, what the method under way is
\* for, who is inside the I/O lock and what it read there, whatever calls,
\* agents, failures and VRChat targets there are.
THEOREM InvHolds == Spec => []IInv
<1>1. IInv /\ [Next]_vars => IInv'
  BY Stutter, TypesStep, HoldersStep, UnderwayStep, LockingStep, AimedStep, WritingStep,
     SeeingStep, CountingStep DEF IInv
<1> QED
  BY InitInv, <1>1, PTL DEF Spec

\* Every variable of the calibration, the tracker and the gateway has its type.
THEOREM TypeCorrect == Spec => []TypeOK
<1>1. IInv => TypeOK
  BY DEF IInv, Types
<1> QED
  BY InvHolds, <1>1, PTL

\* What the device shows, and what is about to be written to it, is the wizard's
\* pose between two calls and the safe frame when nobody is connected; a
\* confirmed pose was on the device (calibration_session.py:71-77, 99-123,
\* tracker_device_controller.py:132-155, 235-256).
THEOREM WhatIsRecordedIsShown == Spec => []ShownAsRecorded
<1>1. IInv => ActiveIsShown
  BY DEF IInv, Writing, Seeing, Recorded, ActiveIsShown
<1>2. IInv => QuietIsSafe
  BY DEF IInv, Writing, Aimed, QuietIsSafe
<1>3. IInv => ShownAsRecorded
  BY <1>1, <1>2 DEF ShownAsRecorded
<1> QED
  BY InvHolds, <1>3, PTL

\* An agent gets the output only from a calibration that was restored, and never
\* with a calibration's frame on its way to the device
\* (calibration_session.py:110-123).
THEOREM AgentIsLetInSafely == Spec => []AgentFindsRestored
<1>1. ASSUME IInv, session \in Agent
      PROVE  record # None => record.restored
  <2>1. record # None => record.token \in Calibration
    BY <1>1 DEF IInv, Types, TypeOK, Records
  <2> QED
    BY <1>1, <2>1 DEF IInv, Holders
<1>2. IInv => AgentFindsRestored
  BY <1>1 DEF IInv, Writing, AgentFindsRestored
<1> QED
  BY InvHolds, <1>2, PTL

\* A calibration and the agent's client call the gateway only in the ways
\* DeviceGateway describes: every step is one of its steps or leaves it alone.
THEOREM GatewayIsUsedAsSpecified == Spec => Gateway!Spec
<1>1. Init => Gateway!Init
  BY DEF Init
<1>2. ASSUME IInv, Next
      PROVE  Gateway!Next \/ UNCHANGED Gateway!vars
  <2>0. now \in Nat /\ now \in 0..now
    BY <1>2 DEF IInv, Types, TypeOK, Gateway!TypeOK
  <2>1. GatewayStep
    BY <1>2, GatewayActs
  <2>2. CASE \E s \in Calibration \cup Agent, failed \in SUBSET {Pose} :
               \/ Gateway!OpenSession(s, failed)
               \/ Gateway!ClaimExclusiveSession(s, failed)
               \/ Gateway!CloseSession(s, failed)
               \/ Gateway!Neutralize(s, Pose, 1, failed)
    BY <2>2 DEF Gateway!Next
  <2>3. CASE \E s \in Calibration \cup Agent : Gateway!ReleaseExclusiveSession(s)
    BY <2>3 DEF Gateway!Next
  <2>4. CASE \E s \in Calibration \cup Agent, a \in Calibration \cup {AgentAction} :
               Gateway!Authorize(s, Pose, 1, a)
    BY <2>4 DEF Gateway!Next
  <2>5. CASE \E s \in Calibration \cup Agent, a \in Calibration \cup {AgentAction},
                q \in 0..MaxCalls : Gateway!ApplyEnvelope(s, Pose, 1, a, q, 1, now, now)
    BY <2>0, <2>5 DEF Gateway!Next
  <2>6. CASE UNCHANGED gatewayVars
    BY <2>6 DEF gatewayVars, Gateway!vars
  <2> QED
    BY <2>1, <2>2, <2>3, <2>4, <2>5, <2>6 DEF GatewayStep
<1>3. IInv /\ [Next]_vars => [Gateway!Next]_(Gateway!vars)
  <2>1. UNCHANGED vars => UNCHANGED Gateway!vars
    BY DEF vars, gatewayVars, Gateway!vars
  <2> QED
    BY <1>2, <2>1
<1> QED
  BY InvHolds, <1>1, <1>3, PTL DEF Spec, Gateway!Spec

\* No agent takes the gateway from a calibration: its session ends only by its
\* own release, to no session, and the claim goes with it
\* (device_gateway.py:112-128, calibration_session.py:116-123).
THEOREM NobodyDisplacesIt == Spec => Gateway!CalibrationNotDisplaced
<1> DEFINE Keeps == exclusive # None /\ (session' # session \/ exclusive' # exclusive) =>
                      /\ exclusive = session
                      /\ session' = None
                      /\ exclusive' = None
                      /\ \A r \in {Pose} \ {Pose} : device'[r] = None
<1>1. ASSUME IInv, Next
      PROVE  Keeps
  <2>1. exclusive # None => exclusive = session /\ session \in Calibration
    BY <1>1 DEF IInv, Holders
  <2>2. exclusive \notin Agent
    BY <2>1
  <2>3. CASE RecordKept \/ RecordUpdated \/ RecordFailed
    BY <2>3 DEF RecordKept, RecordUpdated, RecordFailed
  <2>4. CASE RecordClaimed
    BY <2>1, <2>4 DEF RecordClaimed
  <2>5. CASE RecordReleased
    BY <2>1, <2>5 DEF RecordReleased
  <2>6. CASE AgentCame
    BY <2>1, <2>2, <2>6 DEF AgentCame
  <2>7. CASE AgentWent
    BY <2>1, <2>7 DEF AgentWent
  <2> QED
    BY <1>1, <2>3, <2>4, <2>5, <2>6, <2>7, RecordActs
<1>2. UNCHANGED vars => Keeps
  BY DEF vars, gatewayVars
<1>3. IInv /\ [Next]_vars => [Keeps]_(Gateway!vars)
  BY <1>1, <1>2
<1> QED
  BY InvHolds, <1>3, PTL DEF Spec, Gateway!CalibrationNotDisplaced

----------------------------------------------------------------------------
HIDE CalibrationAssumption

(***************************************************************************)
(* The programs: once the Windows program is to end, either something went *)
(* wrong, or the trackers are off and the controller that moved them does  *)
(* not run any more.                                                       *)
(***************************************************************************)
ProgramsSpec == ProgramsInit /\ [][ProgramsNext]_programVars

Controllers ==
    [running : BOOLEAN, closed : BOOLEAN, loop : {"none", "run", "done"}, target : {"safe", "action"}]

Mishap == late \cap {"tracker", "control"} # {}
Off == vmt = "off" /\ ~tracker.running

Sayings == {"pose", "say", "rest"}
Letters ==
    /\ net \in Seq(Sayings)
    /\ bridge = "handling" => message \in Sayings

ProgramsInv ==
    /\ tracker \in Controllers /\ Letters
    /\ main \in {"exit", "over"} => Mishap \/ Off

\* What no step undoes: that something went wrong, and that the trackers are off.
Onwards ==
    /\ tracker' \in Controllers
    /\ late \subseteq late'
    /\ ~tracker.running /\ main # "devices" => ~tracker'.running /\ (vmt = "off" => vmt' = "off")

LEMMA ControllerIs ==
    ASSUME tracker \in Controllers
    PROVE  /\ \A b \in BOOLEAN :
                /\ [tracker EXCEPT !.running = b] \in Controllers
                /\ [tracker EXCEPT !.running = b].running = b
                /\ [tracker EXCEPT !.closed = b] \in Controllers
                /\ [tracker EXCEPT !.closed = b].running = tracker.running
           /\ \A t \in {"safe", "action"} :
                /\ [tracker EXCEPT !.target = t] \in Controllers
                /\ [tracker EXCEPT !.target = t].running = tracker.running
                /\ [tracker EXCEPT !.target = t, !.running = FALSE] \in Controllers
                /\ ~[tracker EXCEPT !.target = t, !.running = FALSE].running
           /\ Rest \in Controllers /\ Rest.running = tracker.running
           /\ [tracker EXCEPT !.running = FALSE, !.loop = "done"] \in Controllers
           /\ ~[tracker EXCEPT !.running = FALSE, !.loop = "done"].running
           /\ [tracker EXCEPT !.loop = "done"] \in Controllers
           /\ [tracker EXCEPT !.loop = "done"].running = tracker.running
           /\ [tracker EXCEPT !.running = TRUE, !.loop = "run"] \in Controllers
           /\ NewTracker \in Controllers /\ ~NewTracker.running
  BY DEF Controllers, Rest, NewTracker

LEMMA Goings ==
    ASSUME ProgramsInv, ProgramsNext
    PROVE  Onwards
<1>0. /\ tracker \in Controllers /\ tracker.running \in BOOLEAN
      /\ UNCHANGED <<tracker, late, vmt>> => Onwards
  BY DEF ProgramsInv, Onwards, Controllers
<1>r. WriteRest => Onwards
  BY <1>0, ControllerIs DEF WriteRest, Write, Late, Onwards
<1>t. tracker' = Rest /\ UNCHANGED <<late, vmt>> => Onwards
  BY <1>0, ControllerIs DEF Onwards
<1>1. CASE MainNext
  <2>1. CASE StartTracker
    BY <1>0, <2>1, ControllerIs DEF StartTracker, Late, Onwards
  <2>2. CASE \/ StartBridge \/ StartSensors \/ StartControl \/ LeaveLoop \/ StopControl
             \/ StopSensors \/ StopBridge \/ JoinBridge \/ RestVoice \/ JoinPlayer
    BY <1>0, <2>2
       DEF StartBridge, StartSensors, StartControl, LeaveLoop, StopControl, StopSensors, StopBridge,
           JoinBridge, RestVoice, JoinPlayer, Late, deviceVars, Onwards
  <2>3. CASE CloseCalibration
    <3>1. CASE tracker.running /\ tracker' = [tracker EXCEPT !.target = "safe"] /\ UNCHANGED late
      BY <1>0, <3>1, ControllerIs DEF Onwards
    <3>2. CASE /\ tracker' = [tracker EXCEPT !.target = "safe", !.running = FALSE]
               /\ Late("tracker") /\ UNCHANGED vmt
      BY <1>0, <3>2, ControllerIs DEF Late, Onwards
    <3>3. CASE UNCHANGED <<tracker, vmt, late>>
      BY <1>0, <3>3
    <3> QED
      BY <2>3, <3>1, <3>2, <3>3 DEF CloseCalibration
  <2>4. CASE RestPose \/ WriteRestPose
    BY <1>r, <1>t, <2>4 DEF RestPose, WriteRestPose
  <2>5. CASE CloseTracker
    BY <1>0, <2>5, ControllerIs DEF CloseTracker, Onwards
  <2>6. CASE JoinTracker
    BY <1>0, <2>6, ControllerIs DEF JoinTracker, Late, Onwards
  <2>7. CASE Exit
    BY <1>0, <2>7, ControllerIs DEF Exit, Onwards
  <2> QED
    BY <1>1, <2>1, <2>2, <2>3, <2>4, <2>5, <2>6, <2>7 DEF MainNext
<1>2. CASE BridgeNext
  <2>1. CASE Dial \/ Connect \/ EndSession \/ TakeMessage \/ Hushed
    BY <1>0, <2>1
       DEF Dial, Connect, EndSession, TakeMessage, Hushed, Late, deviceVars, windowsVars, Onwards
  <2>2. CASE Handle
    <3>1. tracker' = tracker \/ tracker' = [tracker EXCEPT !.target = "action"]
      BY <2>2 DEF Handle, ProgramsInv, Letters, Sayings
    <3> QED
      BY <1>0, <2>2, <3>1, ControllerIs DEF Handle, windowsVars, Onwards
  <2>3. CASE RestSession \/ WriteSession
    BY <1>r, <1>t, <2>3 DEF RestSession, WriteSession, windowsVars
  <2> QED
    BY <1>2, <2>1, <2>2, <2>3 DEF BridgeNext
<1>3. CASE MacNext \/ MacKilled \/ LinkLost \/ PlayerEnds \/ AskCalibration
  BY <1>0, <1>3
     DEF MacNext, StartMotion, StartBridgeServer, StartMacControl, Starts, BridgeServerEnds, MacSends,
         MacLeavesLoop, MacHalts, MacStopsBridge, MacKilled, LinkLost, PlayerEnds, AskCalibration,
         windowsVars, deviceVars
<1>4. CASE TrackerTick
  BY <1>0, <1>4 DEF TrackerTick, windowsVars, Onwards
<1>5. CASE TrackerFails \/ TrackerLoopEnds
  BY <1>0, <1>5, ControllerIs DEF TrackerFails, TrackerLoopEnds, Late, windowsVars, Onwards
<1>6. CASE StartCalibration \/ EndCalibration
  BY <1>0, <1>6, ControllerIs DEF StartCalibration, EndCalibration, Onwards
<1> QED
  BY <1>1, <1>2, <1>3, <1>4, <1>5, <1>6 DEF ProgramsNext

\* The bridge's thread handles what the Mac sends, nothing else.
LEMMA LettersStep ==
    ASSUME ProgramsInv, ProgramsNext
    PROVE  Letters'
<1>0. Letters
  BY DEF ProgramsInv
<1>1. CASE UNCHANGED <<net, bridge, message>>
  BY <1>0, <1>1 DEF Letters
<1>2. CASE UNCHANGED <<net, message>> /\ bridge' # "handling"
  BY <1>0, <1>2 DEF Letters
<1>3. CASE net' = <<>> /\ bridge' # "handling"
  BY <1>3 DEF Letters
<1>4. CASE TakeMessage
  BY <1>0, <1>4 DEF TakeMessage, Letters
<1>5. CASE MacSends \/ MacHalts
  BY <1>0, <1>5 DEF MacSends, MacHalts, Letters, Sayings, bridgeVars
<1>6. CASE Handle
  BY <1>0, <1>6 DEF Handle, Goes, Letters, Sayings, linkVars
<1>7. CASE BridgeNext /\ ~TakeMessage /\ ~Handle
  BY <1>2, <1>3, <1>7
     DEF BridgeNext, Dial, Connect, Reaches, EndSession, RestSession, WriteSession, Hushed, Goes,
         linkVars
<1>8. CASE MainNext
  BY <1>1, <1>2, <1>3, <1>8
     DEF MainNext, StartTracker, StartBridge, StartSensors, StartControl, LeaveLoop, StopControl,
         StopSensors, CloseCalibration, StopBridge, JoinBridge, RestPose, WriteRestPose, RestVoice,
         JoinPlayer, CloseTracker, JoinTracker, Exit, bridgeVars, linkVars
<1>9. CASE MacNext /\ ~MacSends /\ ~MacHalts
  BY <1>1, <1>9
     DEF MacNext, StartMotion, StartBridgeServer, StartMacControl, Starts, BridgeServerEnds,
         MacLeavesLoop, MacStopsBridge, bridgeVars, linkVars
<1>10. ~(MainNext \/ BridgeNext \/ MacNext) => UNCHANGED <<net, bridge, message>>
  BY DEF ProgramsNext, TrackerTick, TrackerFails, TrackerLoopEnds, PlayerEnds, AskCalibration,
         StartCalibration, EndCalibration, MacKilled, LinkLost, bridgeVars, linkVars
<1> QED
  BY <1>1, <1>4, <1>5, <1>6, <1>7, <1>8, <1>9, <1>10

\* Only two ways lead to the end: past the trackers, which are off then if nothing
\* went wrong, and past a control server that raised.
LEMMA WaysOut ==
    ASSUME ProgramsInv, ProgramsNext, main' \in {"exit", "over"}
    PROVE  main \in {"exit", "over"} \/ (Mishap \/ Off)'
<1>0. tracker \in Controllers
  BY DEF ProgramsInv
<1>1. CASE StopControl \/ JoinTracker
  BY <1>0, <1>1, ControllerIs DEF StopControl, JoinTracker, Late, To, Mishap, Off
<1>2. CASE UNCHANGED main
  BY <1>2
<1>3. CASE MainNext /\ ~StopControl /\ ~JoinTracker
  BY <1>3
     DEF MainNext, StartTracker, StartBridge, StartSensors, StartControl, LeaveLoop, StopSensors,
         CloseCalibration, StopBridge, JoinBridge, RestPose, WriteRestPose, RestVoice, JoinPlayer,
         CloseTracker, Exit, GivesUp, To
<1>4. ~MainNext => UNCHANGED main
  BY DEF ProgramsNext, BridgeNext, MacNext, TrackerTick, TrackerFails, TrackerLoopEnds, PlayerEnds,
         AskCalibration, StartCalibration, EndCalibration, MacKilled, LinkLost, Dial, Connect,
         EndSession, TakeMessage, Handle, RestSession, WriteSession, Hushed, StartMotion,
         StartBridgeServer, StartMacControl, Starts, BridgeServerEnds, MacSends, MacLeavesLoop,
         MacHalts, MacStopsBridge, windowsVars
<1> QED
  BY <1>1, <1>2, <1>3, <1>4

\* Once the Windows program is on its way out, nothing switches the trackers on
\* again: not the loop, not the bridge's thread, not a calibration.
THEOREM ProgramsInvHolds == ProgramsSpec => []ProgramsInv
<1>1. ProgramsInit => ProgramsInv
  BY DEF ProgramsInit, ProgramsInv, NewTracker, Controllers, Letters
<1>2. ProgramsInv /\ ProgramsNext => ProgramsInv'
  <2> SUFFICES ASSUME ProgramsInv, ProgramsNext
               PROVE  ProgramsInv'
    OBVIOUS
  <2>1. Onwards
    BY Goings
  <2>2. ASSUME main \in {"exit", "over"}
        PROVE  (Mishap \/ Off)'
    BY <2>1, <2>2 DEF ProgramsInv, Onwards, Mishap, Off
  <2> QED
    BY <2>1, <2>2, LettersStep, WaysOut DEF ProgramsInv, Onwards
<1>3. ProgramsInv /\ UNCHANGED programVars => ProgramsInv'
  BY DEF ProgramsInv, Mishap, Off, Letters, programVars, windowsVars, deviceVars, bridgeVars, linkVars
<1> QED
  BY <1>1, <1>2, <1>3, PTL DEF ProgramsSpec

\* The Windows program never ends with the avatar in an action's pose: it has
\* switched the trackers off, unless they could not be written or the control server
\* raised (scripts/run_windows_companion.py, tracker_device_controller.py).
THEOREM ProgramEndsAtRest == ProgramsSpec => []EndsAtRest
<1>1. ProgramsInv => EndsAtRest
  BY DEF ProgramsInv, EndsAtRest, Mishap, Off
<1> QED
  BY <1>1, ProgramsInvHolds, PTL
=============================================================================
