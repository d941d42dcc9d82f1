-------------------------- MODULE CharacterSupervisor --------------------------
(***************************************************************************)
(* vrc_ardy_agent/character_supervisor.py with control_resources.py: at    *)
(* most one action per output resource, the newest request wins, and an    *)
(* action that is stopped is fenced before it is told so.                  *)
(*                                                                         *)
(* Every method holds the condition's re-entrant lock throughout, the      *)
(* output authority's calls included, so each is one action.  The threads  *)
(* are the dialogue and HTTP threads that call apply_bundle and halt_all,  *)
(* and one thread per started action, which runs its executor and then     *)
(* finishes.  What an executor does in between, except announcing that it  *)
(* runs, is VoiceBridge's subject.                                         *)
(***************************************************************************)
EXTENDS Integers, FiniteSets

CONSTANTS
    Resource,       \* the managed control resources
    Action,         \* action ids; each is requested once
    ResourceOf,     \* the resource an action needs
    Lossy,          \* the resources where telling the output to go neutral may fail
    None            \* Python's None

ASSUME SupervisorAssumption ==
    /\ ResourceOf \in [Action -> Resource]
    /\ Lossy \subseteq Resource
    /\ None \notin Action

VARIABLES
    token,      \* ControlResourceManager._tokens
    owner,      \* ControlResourceManager._owners
    current,    \* _current: the action whose thread runs, per resource
    pending,    \* _pending: the action that waits for it to stop
    state,      \* ActionState of every action; "new" before its request
    lease,      \* the token of an action's lease, 0 until it has one
    cancelled,  \* the actions whose cancel_event is set
    output,     \* the last lease the output authority was told of
    latest      \* history: the last action requested and not halted

vars == <<token, owner, current, pending, state, lease, cancelled, output, latest>>

Live == {"preparing", "running", "stopping"}
Final == {"completed", "cancelled", "failed"}
ActionState == {"new", "pending"} \cup Live \cup Final

\* Every variable has the type the code gives it.
TypeOK ==
    /\ token \in [Resource -> Nat]
    /\ owner \in [Resource -> Action \cup {None}]
    /\ current \in [Resource -> Action \cup {None}]
    /\ pending \in [Resource -> Action \cup {None}]
    /\ state \in [Action -> ActionState]
    /\ lease \in [Action -> Nat]
    /\ cancelled \subseteq Action
    /\ output \in [Resource -> [token : Nat, action : Action \cup {None}]]
    /\ latest \in [Resource -> Action \cup {None}]

Init ==
    /\ token = [r \in Resource |-> 0]
    /\ owner = [r \in Resource |-> None]
    /\ current = [r \in Resource |-> None]
    /\ pending = [r \in Resource |-> None]
    /\ state = [a \in Action |-> "new"]
    /\ lease = [a \in Action |-> 0]
    /\ cancelled = {}
    /\ output = [r \in Resource |-> [token |-> 0, action |-> None]]
    /\ latest = [r \in Resource |-> None]

----------------------------------------------------------------------------
Needs(A, r) == \E a \in A : ResourceOf[a] = r
ActionFor(A, r) == CHOOSE a \in A : ResourceOf[a] = r
OnePerResource(A) == \A a, b \in A : ResourceOf[a] = ResourceOf[b] => a = b

(***************************************************************************)
(* The resource manager and the output authority over one method: the      *)
(* owners of the resources in fenced are invalidated, then the actions in  *)
(* started acquire theirs, of which the output refuses to authorize those  *)
(* in refused and they are invalidated in turn.  Every invalidation sends  *)
(* the output neutral, which fails for the resources in mute; late are the *)
(* refused authorizations that took effect although their answer was lost. *)
(***************************************************************************)

\* Faulty variants of the definitions, each ahead of the one it would replace,
\* are named after it: a run that fails with one shows what its property is for.

TokenAfter(fenced, started, refused, r) ==
    token[r] + (IF r \in fenced THEN 1 ELSE 0)
             + (IF Needs(started, r) THEN 1 ELSE 0)
             + (IF Needs(refused, r) THEN 1 ELSE 0)

\* Faulty: a fence takes a new token and leaves the owner.
OwnerAfterUnfenced(fenced, started, refused, r) ==
    IF Needs(started \ refused, r) THEN ActionFor(started, r)
    ELSE IF Needs(refused, r) THEN None
    ELSE owner[r]

OwnerAfter(fenced, started, refused, r) ==
    IF Needs(started \ refused, r) THEN ActionFor(started, r)
    ELSE IF r \in fenced \/ Needs(refused, r) THEN None
    ELSE owner[r]

OutputAfter(fenced, started, refused, mute, late, r) ==
    IF Needs(started \ refused, r) \/ ((r \in fenced \/ Needs(refused, r)) /\ r \notin mute)
    THEN [token |-> TokenAfter(fenced, started, refused, r),
          action |-> OwnerAfter(fenced, started, refused, r)]
    ELSE IF Needs(late, r)
    THEN [token |-> TokenAfter(fenced, started, {}, r), action |-> ActionFor(late, r)]
    ELSE output[r]

Reassign(fenced, started, refused, mute, late) ==
    /\ token' = [r \in Resource |-> TokenAfter(fenced, started, refused, r)]
    /\ owner' = [r \in Resource |-> OwnerAfter(fenced, started, refused, r)]
    /\ output' = [r \in Resource |-> OutputAfter(fenced, started, refused, mute, late, r)]
    /\ lease' = [a \in Action |->
                   IF a \in started THEN TokenAfter(fenced, started, {}, ResourceOf[a])
                                    ELSE lease[a]]

\* The resources whose running action a request or a halt has to stop.
Stoppable(R) == {r \in R : current[r] # None /\ state[current[r]] # "stopping"}

\* The actions that own or await the resources in R, None aside.
Currents(R) == {current[r] : r \in R} \ {None}
Pendings(R) == {pending[r] : r \in R} \ {None}

----------------------------------------------------------------------------
(***************************************************************************)
(* apply_bundle: one or two new actions on different resources.  One whose *)
(* resource is free starts; any other stops the action there and waits for *)
(* it, in place of the one that waited before.                             *)
(***************************************************************************)
ApplyBundle(A, refused, mute, late) ==
    LET R == {ResourceOf[a] : a \in A}
        fenced == Stoppable(R)
        started == {a \in A : current[ResourceOf[a]] = None}
    IN
    /\ A # {} /\ OnePerResource(A)
    /\ \A a \in A : state[a] = "new"
    /\ refused \subseteq started /\ late \subseteq refused
    /\ mute \subseteq Lossy
    /\ Reassign(fenced, started, refused, mute, late)
    /\ current' = [r \in Resource |->
                     IF Needs(started \ refused, r) THEN ActionFor(A, r) ELSE current[r]]
    /\ pending' = [r \in Resource |->
                     IF Needs(started, r) THEN None
                     ELSE IF r \in R THEN ActionFor(A, r) ELSE pending[r]]
    /\ state' = [a \in Action |->
                   IF a \in refused THEN "failed"
                   ELSE IF a \in started THEN "preparing"
                   ELSE IF a \in A THEN "pending"
                   ELSE IF a \in Pendings(R) THEN "cancelled"
                   ELSE IF a \in Currents(fenced) THEN "stopping"
                   ELSE state[a]]
    /\ cancelled' = cancelled \cup Currents(fenced)
    /\ latest' = [r \in Resource |-> IF r \in R THEN ActionFor(A, r) ELSE latest[r]]

\* Faulty: stops what runs and forgets what waits.
HaltAllRunning(mute) ==
    LET fenced == Stoppable(Resource) IN
    /\ mute \subseteq Lossy
    /\ Reassign(fenced, {}, {}, mute, {})
    /\ state' = [a \in Action |-> IF a \in Currents(fenced) THEN "stopping" ELSE state[a]]
    /\ cancelled' = cancelled \cup Currents(fenced)
    /\ latest' = [r \in Resource |-> None]
    /\ UNCHANGED <<current, pending>>

(***************************************************************************)
(* halt_all: what waits is cancelled, what runs is stopped, and a resource *)
(* without an action is sent neutral again under its present token.        *)
(***************************************************************************)
HaltAll(mute) ==
    LET fenced == Stoppable(Resource) IN
    /\ mute \subseteq Lossy
    /\ token' = [r \in Resource |-> TokenAfter(fenced, {}, {}, r)]
    /\ owner' = [r \in Resource |-> OwnerAfter(fenced, {}, {}, r)]
    /\ output' = [r \in Resource |->
                    IF r \notin mute /\ (r \in fenced \/ current[r] = None)
                    THEN [token |-> TokenAfter(fenced, {}, {}, r), action |-> None]
                    ELSE output[r]]
    /\ pending' = [r \in Resource |-> None]
    /\ state' = [a \in Action |->
                   IF a \in Pendings(Resource) THEN "cancelled"
                   ELSE IF a \in Currents(fenced) THEN "stopping"
                   ELSE state[a]]
    /\ cancelled' = cancelled \cup Currents(fenced)
    /\ latest' = [r \in Resource |-> None]
    /\ UNCHANGED <<current, lease>>

\* _mark_running, called by an executor at any time and more than once
MarkRunning(a) ==
    /\ current[ResourceOf[a]] = a
    /\ state[a] = "preparing"
    /\ a \notin cancelled
    /\ state' = [state EXCEPT ![a] = "running"]
    /\ UNCHANGED <<token, owner, current, pending, lease, cancelled, output, latest>>

\* What an action comes to whose executor returned or raised
Outcome(a, raised) ==
    IF raised THEN "failed" ELSE IF a \in cancelled THEN "cancelled" ELSE "completed"

(***************************************************************************)
(* _finish_handle: the executor of a returned or raised.  An action that   *)
(* was not being stopped is fenced now; the one that waited starts.        *)
(***************************************************************************)
FinishHandle(a, raised, refused, mute, late) ==
    LET r == ResourceOf[a]
        fenced == Stoppable({r})
        started == Pendings({r})
    IN
    /\ current[r] = a
    /\ refused \subseteq started /\ late \subseteq refused
    /\ mute \subseteq Lossy
    /\ Reassign(fenced, started, refused, mute, late)
    /\ current' = [current EXCEPT ![r] =
                     IF started = refused THEN None ELSE pending[r]]
    /\ pending' = [pending EXCEPT ![r] = None]
    /\ state' = [b \in Action |->
                   IF b = a THEN Outcome(a, raised)
                   ELSE IF b \in refused THEN "failed"
                   ELSE IF b \in started THEN "preparing"
                   ELSE state[b]]
    /\ UNCHANGED <<cancelled, latest>>

Finish(a) ==
    /\ current[ResourceOf[a]] = a
    /\ \E raised \in BOOLEAN, refused \in SUBSET Pendings({ResourceOf[a]}) :
         \E late \in SUBSET refused, mute \in SUBSET Lossy :
             FinishHandle(a, raised, refused, mute, late)

Next ==
    \/ \E A \in SUBSET {a \in Action : state[a] = "new"} :
         /\ Cardinality(A) <= 2
         /\ \E refused \in SUBSET A : \E late \in SUBSET refused, mute \in SUBSET Lossy :
              ApplyBundle(A, refused, mute, late)
    \/ \E mute \in SUBSET Lossy : HaltAll(mute)
    \/ \E a \in Action : MarkRunning(a)
    \/ \E a \in Action : Finish(a)

\* An executor's thread always returns (its waits have timeouts) and then
\* finishes; nothing obliges anyone to request or to halt.
Fairness == \A a \in Action : WF_vars(Finish(a))

Spec == Init /\ [][Next]_vars
FairSpec == Spec /\ Fairness

----------------------------------------------------------------------------
\* A resource is owned exactly while its action runs unstopped, under the
\* action's own lease.  So acquire never finds it busy and invalidate never
\* finds another owner, errors that would leave a half-changed supervisor
\* (control_resources.py:31, 45).
OwnerRunsUnstopped ==
    \A r \in Resource :
        /\ owner[r] = IF current[r] # None /\ state[current[r]] # "stopping"
                      THEN current[r] ELSE None
        /\ owner[r] # None => lease[owner[r]] = token[r]

\* An action waits only behind one that is being stopped, so its turn comes.
WaitsBehindStopping ==
    \A r \in Resource :
        pending[r] # None => current[r] # None /\ state[current[r]] = "stopping"

\* An action that was told to stop was fenced first: the resource has moved to
\* a newer token (character_supervisor.py:430).
CancelledIsFenced ==
    \A a \in cancelled : lease[a] < token[ResourceOf[a]]

\* Whatever runs unstopped or waits is the newest request since the last halt.
NewestRequestWins ==
    \A r \in Resource : {owner[r], pending[r]} \subseteq {None, latest[r]}

\* The output is never told of a newer lease than the manager's; it honours
\* another action than the owner only where telling it to go neutral failed,
\* and then under an older token, which the next call overrides.
OutputFollowsOwner ==
    \A r \in Resource :
        /\ output[r].token <= token[r]
        /\ r \notin Lossy => output[r] = [token |-> token[r], action |-> owner[r]]
        /\ output[r].action \notin {None, owner[r]} => output[r].token < token[r]

\* Property: requests, halts and ends, in any order and with output calls that fail,
\* leave every resource with one owner, the newest request, which alone the output
\* honours; those it replaced were fenced before they were told to stop, and none
\* waits that nothing will start (character_supervisor.py:297-357, 424-451).
SupervisorIsSound ==
    /\ OwnerRunsUnstopped
    /\ WaitsBehindStopping
    /\ CancelledIsFenced
    /\ NewestRequestWins
    /\ OutputFollowsOwner

\* The requests whose time is over: those that ended, and those that have lost
\* their resource, though their threads may still run.
Spent == {a \in Action : state[a] \in Final \/ (lease[a] # 0 /\ owner[ResourceOf[a]] # a)}

\* The abstract specification, whoever waits or else owns being the newest request.
Newest == INSTANCE NewestOwner WITH
    Claimant <- Action, Nobody <- None,
    wanted <- [r \in Resource |-> IF pending[r] # None THEN pending[r] ELSE owner[r]],
    spent <- Spent, told <- cancelled

\* Property: the supervisor implements NewestOwner: whatever order requests, halts
\* and ends come in, and if output calls fail, no action that was replaced, halted,
\* refused or has ended ever owns its resource again, and none is told to stop
\* before it has lost it (character_supervisor.py:424-451).
OneNewestOwner == Newest!Spec

\* An action that ended stays as it ended, and one told to stop never counts
\* as completed.
EndsOnce ==
    [][\A a \in Action :
          /\ state[a] \in Final => state'[a] = state[a]
          /\ a \in cancelled => a \in cancelled' /\ state'[a] # "completed"]_vars

\* Every action that was requested ends, those that wait included.
EveryActionEnds ==
    \A a \in Action : state[a] # "new" ~> state[a] \in Final
=============================================================================
