---------------------- MODULE CharacterSupervisorProofs ----------------------
(***************************************************************************)
(* Proofs about CharacterSupervisor, for every set of resources and of     *)
(* actions; and that it implements NewestOwner.                            *)
(***************************************************************************)
EXTENDS CharacterSupervisor, TLAPS

USE SupervisorAssumption

\* An action that runs or waits does so on its own resource, in a state that
\* says so.
Placed ==
    \A r \in Resource :
        /\ current[r] # None =>
             ResourceOf[current[r]] = r /\ state[current[r]] \in Live
        /\ pending[r] # None =>
             ResourceOf[pending[r]] = r /\ state[pending[r]] = "pending"

\* An action told to stop is stopping or has ended otherwise than completed.
StopInv ==
    \A a \in cancelled : state[a] \in {"stopping", "cancelled", "failed"}

Inv ==
    /\ TypeOK
    /\ Placed
    /\ StopInv
    /\ OwnerRunsUnstopped
    /\ WaitsBehindStopping
    /\ CancelledIsFenced
    /\ NewestRequestWins
    /\ OutputFollowsOwner

\* Action a needs resource r.
On(a, r) == ResourceOf[a] = r

\* What the output authority was told last.
Told(t, a) == [token |-> t, action |-> a]

\* The fields of that record.
LEMMA ToldFields ==
    \A t, a : Told(t, a).token = t /\ Told(t, a).action = a
  BY DEF Told

----------------------------------------------------------------------------
\* ActionFor finds the only action of A on a resource.
LEMMA ActionForResource ==
    ASSUME NEW A \in SUBSET Action, NEW r \in Resource, Needs(A, r)
    PROVE  ActionFor(A, r) \in A /\ ResourceOf[ActionFor(A, r)] = r
  BY DEF Needs, ActionFor

\* In a bundle with one action per resource, it finds the given one.
LEMMA ActionForUnique ==
    ASSUME NEW A \in SUBSET Action, OnePerResource(A), NEW a \in A
    PROVE  /\ Needs(A, ResourceOf[a])
           /\ ActionFor(A, ResourceOf[a]) = a
<1>1. ResourceOf[a] \in Resource /\ Needs(A, ResourceOf[a])
  BY DEF Needs
<1> QED
  BY <1>1, ActionForResource DEF OnePerResource

\* A part of such a bundle is one too.
LEMMA PartOnePerResource ==
    ASSUME NEW A \in SUBSET Action, OnePerResource(A), NEW B \in SUBSET A
    PROVE  OnePerResource(B)
  BY DEF OnePerResource

\* At most one action waits for a resource.
LEMMA PendingsOfOne ==
    ASSUME TypeOK, Placed, NEW r \in Resource
    PROVE  /\ Pendings({r}) \in SUBSET Action
           /\ OnePerResource(Pendings({r}))
           /\ pending[r] = None => Pendings({r}) = {}
           /\ pending[r] # None => Pendings({r}) = {pending[r]}
           /\ \A a \in Pendings({r}) : a = pending[r] /\ ResourceOf[a] = r
  BY DEF Pendings, OnePerResource, TypeOK, Placed

(***************************************************************************)
(* What Reassign does to one resource: nothing where nothing is fenced or  *)
(* started, a fence alone, a start, and a start that is refused.           *)
(***************************************************************************)
\* A resource that is neither fenced nor started.
LEMMA ReassignUntouched ==
    ASSUME TypeOK, NEW fenced, NEW started, NEW refused \in SUBSET started, NEW mute,
           NEW late \in SUBSET refused, Reassign(fenced, started, refused, mute, late),
           NEW r \in Resource, r \notin fenced, ~Needs(started, r)
    PROVE  token'[r] = token[r] /\ owner'[r] = owner[r] /\ output'[r] = output[r]
<1>1. ~Needs(refused, r) /\ ~Needs(started \ refused, r) /\ ~Needs(late, r)
  BY DEF Needs
<1> QED
  BY <1>1 DEF Reassign, TokenAfter, OwnerAfter, OutputAfter, TypeOK

\* A resource that is fenced and where nothing starts.
LEMMA ReassignFenced ==
    ASSUME TypeOK, NEW fenced, NEW started, NEW refused \in SUBSET started, NEW mute,
           NEW late \in SUBSET refused, Reassign(fenced, started, refused, mute, late),
           NEW r \in Resource, r \in fenced, ~Needs(started, r)
    PROVE  /\ token'[r] = token[r] + 1
           /\ owner'[r] = None
           /\ \/ output'[r] = Told(token[r] + 1, None)
              \/ r \in mute /\ output'[r] = output[r]
<1>1. ~Needs(refused, r) /\ ~Needs(started \ refused, r) /\ ~Needs(late, r)
  BY DEF Needs
<1> QED
  BY <1>1 DEF Reassign, TokenAfter, OwnerAfter, OutputAfter, Told, TypeOK

\* A resource whose new owner the output authorizes.
LEMMA ReassignStarted ==
    ASSUME TypeOK, NEW fenced, NEW started \in SUBSET Action, OnePerResource(started),
           NEW refused \in SUBSET started, NEW mute,
           NEW late \in SUBSET refused, Reassign(fenced, started, refused, mute, late),
           NEW a \in started \ refused, NEW r \in Resource, On(a, r), r \notin fenced
    PROVE  /\ token'[r] = token[r] + 1
           /\ owner'[r] = a
           /\ lease'[a] = token'[r]
           /\ output'[r] = Told(token'[r], a)
<1>1. r = ResourceOf[a] /\ a \in Action /\ token[r] \in Nat
  BY DEF TypeOK, On
<1>2. Needs(started \ refused, r) /\ Needs(started, r) /\ ~Needs(refused, r) /\ ~Needs({}, r)
  BY <1>1 DEF Needs, OnePerResource
<1>3. ActionFor(started, r) = a
  BY <1>1, ActionForUnique
<1> QED
  BY <1>1, <1>2, <1>3 DEF Reassign, TokenAfter, OwnerAfter, OutputAfter, Told

\* A resource whose new owner the output refuses.
LEMMA ReassignRefused ==
    ASSUME TypeOK, NEW fenced, NEW started \in SUBSET Action, OnePerResource(started),
           NEW refused \in SUBSET started, NEW mute,
           NEW late \in SUBSET refused, Reassign(fenced, started, refused, mute, late),
           NEW a \in refused, NEW r \in Resource, On(a, r), r \notin fenced
    PROVE  /\ token'[r] = token[r] + 2
           /\ owner'[r] = None
           /\ lease'[a] = token[r] + 1
           /\ \/ output'[r] = Told(token'[r], None)
              \/ /\ r \in mute
                 /\ \/ output'[r] = output[r]
                    \/ output'[r] = Told(token[r] + 1, a)
<1>1. r = ResourceOf[a] /\ a \in Action /\ token[r] \in Nat
  BY DEF TypeOK, On
<1>2. ~Needs(started \ refused, r) /\ Needs(started, r) /\ Needs(refused, r) /\ ~Needs({}, r)
  BY <1>1 DEF Needs, OnePerResource
<1>3. Needs(late, r) => ActionFor(late, r) = a
  <2> SUFFICES ASSUME Needs(late, r) PROVE ActionFor(late, r) = a
    OBVIOUS
  <2>1. ActionFor(late, r) \in late /\ ResourceOf[ActionFor(late, r)] = r
    BY ActionForResource
  <2> QED
    BY <1>1, <2>1 DEF OnePerResource
<1> QED
  BY <1>1, <1>2, <1>3 DEF Reassign, TokenAfter, OwnerAfter, OutputAfter, Told

\* Reassign gives leases to those it starts only.
LEMMA ReassignLease ==
    ASSUME NEW fenced, NEW started, NEW refused, NEW mute, NEW late,
           Reassign(fenced, started, refused, mute, late),
           NEW a \in Action, a \notin started
    PROVE  lease'[a] = lease[a]
  BY DEF Reassign

\* Reassign keeps tokens, owners, leases and the output in their types.
LEMMA ReassignType ==
    ASSUME TypeOK, NEW fenced, NEW started \in SUBSET Action,
           NEW refused \in SUBSET started, NEW mute, NEW late \in SUBSET refused,
           Reassign(fenced, started, refused, mute, late)
    PROVE  /\ token' \in [Resource -> Nat]
           /\ owner' \in [Resource -> Action \cup {None}]
           /\ lease' \in [Action -> Nat]
           /\ output' \in [Resource -> [token : Nat, action : Action \cup {None}]]
<1>1. \A r \in Resource : \A refusals : TokenAfter(fenced, started, refusals, r) \in Nat
  BY DEF TokenAfter, TypeOK
<1>2. \A r \in Resource : OwnerAfter(fenced, started, refused, r) \in Action \cup {None}
  <2> SUFFICES ASSUME NEW r \in Resource
               PROVE  OwnerAfter(fenced, started, refused, r) \in Action \cup {None}
    OBVIOUS
  <2>1. Needs(started \ refused, r) => Needs(started, r)
    BY DEF Needs
  <2>2. Needs(started \ refused, r) => ActionFor(started, r) \in Action
    BY <2>1, ActionForResource
  <2> QED
    BY <2>2 DEF OwnerAfter, TypeOK
<1>3. \A r \in Resource : Needs(late, r) => ActionFor(late, r) \in Action
  BY ActionForResource
<1>4. \A r \in Resource : OutputAfter(fenced, started, refused, mute, late, r)
                              \in [token : Nat, action : Action \cup {None}]
  BY <1>1, <1>2, <1>3 DEF OutputAfter, TypeOK
<1>5. lease' \in [Action -> Nat]
  BY <1>1 DEF Reassign, TypeOK
<1> QED
  BY <1>1, <1>2, <1>4, <1>5 DEF Reassign

----------------------------------------------------------------------------
\* The supervisor starts in a state of the invariant.
LEMMA InitInv == Init => Inv
  BY DEF Init, Inv, TypeOK, Placed, StopInv, OwnerRunsUnstopped, WaitsBehindStopping,
         CancelledIsFenced, NewestRequestWins, OutputFollowsOwner, ActionState

(***************************************************************************)
(* apply_bundle.                                                           *)
(***************************************************************************)
\* The parts of a bundle step.
LEMMA BundleFacts ==
    ASSUME Inv, NEW A \in SUBSET Action, NEW refused, NEW mute, NEW late,
           ApplyBundle(A, refused, mute, late)
    PROVE  LET R == {ResourceOf[a] : a \in A}
               fenced == Stoppable(R)
               started == {a \in A : current[ResourceOf[a]] = None}
           IN  /\ R \in SUBSET Resource
               /\ started \in SUBSET Action /\ refused \in SUBSET started
               /\ late \in SUBSET refused /\ mute \in SUBSET Lossy
               /\ OnePerResource(A) /\ OnePerResource(started)
               /\ Reassign(fenced, started, refused, mute, late)
               /\ \A a \in started : ResourceOf[a] \notin fenced
  BY DEF ApplyBundle, Stoppable, OnePerResource

\* A bundle keeps every variable in its type.
LEMMA BundleType ==
    ASSUME Inv, NEW A \in SUBSET Action, NEW refused, NEW mute, NEW late,
           ApplyBundle(A, refused, mute, late)
    PROVE  TypeOK'
<1> DEFINE R == {ResourceOf[a] : a \in A}
           fenced == Stoppable(R)
           started == {a \in A : current[ResourceOf[a]] = None}
<1>0. TypeOK
  BY DEF Inv
<1>1. /\ token' \in [Resource -> Nat]
      /\ owner' \in [Resource -> Action \cup {None}]
      /\ lease' \in [Action -> Nat]
      /\ output' \in [Resource -> [token : Nat, action : Action \cup {None}]]
  <2>1. /\ started \in SUBSET Action /\ refused \in SUBSET started /\ late \in SUBSET refused
        /\ Reassign(fenced, started, refused, mute, late)
    BY BundleFacts
  <2> HIDE DEF fenced, started
  <2> QED
    BY <1>0, <2>1, ReassignType
<1>2. \A r \in Resource : Needs(A, r) => ActionFor(A, r) \in Action
  BY ActionForResource
<1>3. \A r \in Resource : r \in R => Needs(A, r)
  BY DEF Needs
<1>4. \A r \in Resource : Needs(started \ refused, r) => Needs(A, r)
  BY DEF Needs
<1>5. current' \in [Resource -> Action \cup {None}]
  BY <1>0, <1>2, <1>4 DEF ApplyBundle, TypeOK
<1>6. pending' \in [Resource -> Action \cup {None}]
  BY <1>0, <1>2, <1>3 DEF ApplyBundle, TypeOK
<1>7. latest' \in [Resource -> Action \cup {None}]
  BY <1>0, <1>2, <1>3 DEF ApplyBundle, TypeOK
<1>8. state' \in [Action -> ActionState]
  BY <1>0 DEF ApplyBundle, TypeOK, ActionState, Live, Final
<1>9. cancelled' \subseteq Action
  BY <1>0 DEF ApplyBundle, TypeOK, Stoppable, Currents
<1> QED
  BY <1>1, <1>5, <1>6, <1>7, <1>8, <1>9 DEF TypeOK

\* What becomes of an action that runs, waits or has ended.
LEMMA BundleStates ==
    ASSUME Inv, NEW A \in SUBSET Action, NEW refused, NEW mute, NEW late,
           ApplyBundle(A, refused, mute, late)
    PROVE  /\ \A b \in Action : state[b] \in Final => state'[b] = state[b]
           /\ \A r \in Resource : (\A a \in A : ~On(a, r)) =>
                /\ current[r] # None => state'[current[r]] = state[current[r]]
                /\ pending[r] # None => state'[pending[r]] = "pending"
           /\ \A r \in Resource, a \in A : On(a, r) =>
                /\ current[r] # None => state'[current[r]] = "stopping"
                /\ current[r] # None /\ a \notin refused => state'[a] = "pending"
                /\ current[r] = None /\ a \notin refused => state'[a] = "preparing"
           /\ \A b \in Action : b \notin A =>
                \/ state'[b] = state[b]
                \/ state[b] = "pending" /\ state'[b] = "cancelled"
                \/ state[b] \in Live /\ state'[b] = "stopping" /\ b \in cancelled'
<1> DEFINE R == {ResourceOf[a] : a \in A}
           fenced == Stoppable(R)
           started == {a \in A : current[ResourceOf[a]] = None}
<1>0. TypeOK /\ Placed /\ R \in SUBSET Resource /\ refused \in SUBSET A /\ A \in SUBSET Action
  BY BundleFacts DEF Inv
<1>1. \A b \in Action : state'[b] =
          IF b \in refused THEN "failed"
          ELSE IF b \in started THEN "preparing"
          ELSE IF b \in A THEN "pending"
          ELSE IF b \in Pendings(R) THEN "cancelled"
          ELSE IF b \in Currents(fenced) THEN "stopping"
          ELSE state[b]
  BY DEF ApplyBundle
<1>2. \A a \in A : state[a] = "new"
  BY DEF ApplyBundle
<1>3. /\ \A b \in Pendings(R) : state[b] = "pending" /\ ResourceOf[b] \in R
      /\ \A b \in Currents(fenced) : state[b] \in Live /\ ResourceOf[b] \in R
  BY <1>0 DEF Pendings, Currents, Stoppable, Placed
<1>4. cancelled' = cancelled \cup Currents(fenced)
  BY DEF ApplyBundle
<1>5. \A b \in Action : state[b] \in Final => state'[b] = state[b]
  BY <1>0, <1>1, <1>2, <1>3 DEF Final, Live
<1>6. ASSUME NEW r \in Resource \ R, current[r] # None
      PROVE  state'[current[r]] = state[current[r]]
  <2>1. current[r] \in Action /\ ResourceOf[current[r]] = r /\ state[current[r]] \in Live
    BY <1>0, <1>6 DEF TypeOK, Placed
  <2> QED
    BY <1>0, <1>1, <1>2, <1>3, <2>1 DEF Live
<1>7. ASSUME NEW r \in R, current[r] # None
      PROVE  state'[current[r]] = "stopping"
  <2>1. current[r] \in Action /\ state[current[r]] \in Live
    BY <1>0, <1>7 DEF TypeOK, Placed
  <2>2. current[r] \notin A /\ current[r] \notin Pendings(R)
    BY <1>2, <1>3, <2>1 DEF Live
  <2>3. state[current[r]] # "stopping" => current[r] \in Currents(fenced)
    BY <1>7 DEF Currents, Stoppable
  <2> QED
    BY <1>0, <1>1, <2>1, <2>2, <2>3
<1>8. ASSUME NEW r \in Resource \ R, pending[r] # None
      PROVE  state'[pending[r]] = "pending"
  <2>1. pending[r] \in Action /\ ResourceOf[pending[r]] = r /\ state[pending[r]] = "pending"
    BY <1>0, <1>8 DEF TypeOK, Placed
  <2>2. pending[r] \notin A /\ pending[r] \notin Pendings(R) /\ pending[r] \notin Currents(fenced)
    BY <1>2, <1>3, <2>1
  <2> QED
    BY <1>0, <1>1, <2>1, <2>2
<1>9. ASSUME NEW a \in A, a \notin refused
      PROVE  /\ current[ResourceOf[a]] # None => state'[a] = "pending"
             /\ current[ResourceOf[a]] = None => state'[a] = "preparing"
  BY <1>0, <1>1, <1>9
<1>10. \A b \in Action : b \notin A =>
          \/ state'[b] = state[b]
          \/ state[b] = "pending" /\ state'[b] = "cancelled"
          \/ state[b] \in Live /\ state'[b] = "stopping" /\ b \in cancelled'
  BY <1>0, <1>1, <1>3, <1>4
<1>11. /\ \A r \in Resource : (\A a \in A : ~On(a, r)) => r \notin R
       /\ \A r \in Resource, a \in A : On(a, r) => r \in R /\ r = ResourceOf[a]
  BY DEF On
<1> HIDE DEF R, fenced, started
<1> QED
  BY <1>5, <1>6, <1>7, <1>8, <1>9, <1>10, <1>11

\* A resource no action of the bundle needs keeps everything.
LEMMA BundleElsewhere ==
    ASSUME Inv, NEW A \in SUBSET Action, NEW refused, NEW mute, NEW late,
           ApplyBundle(A, refused, mute, late),
           NEW r \in Resource, \A a \in A : ~On(a, r)
    PROVE  /\ token'[r] = token[r] /\ owner'[r] = owner[r] /\ output'[r] = output[r]
           /\ current'[r] = current[r] /\ pending'[r] = pending[r] /\ latest'[r] = latest[r]
<1> DEFINE R == {ResourceOf[a] : a \in A}
           fenced == Stoppable(R)
           started == {a \in A : current[ResourceOf[a]] = None}
<1>0. TypeOK
  BY DEF Inv
<1>1. /\ refused \in SUBSET started /\ late \in SUBSET refused
      /\ Reassign(fenced, started, refused, mute, late)
  BY DEF ApplyBundle
<1>2. r \notin fenced /\ ~Needs(started, r) /\ ~Needs(started \ refused, r)
  BY DEF Stoppable, Needs, On
<1>3. token'[r] = token[r] /\ owner'[r] = owner[r] /\ output'[r] = output[r]
  <2> HIDE DEF fenced, started
  <2> QED
    BY <1>0, <1>1, <1>2, ReassignUntouched
<1>4. current' = [x \in Resource |->
                   IF Needs(started \ refused, x) THEN ActionFor(A, x) ELSE current[x]]
  BY DEF ApplyBundle
<1>5. pending'[r] = IF Needs(started, r) THEN None
                    ELSE IF r \in R THEN ActionFor(A, r) ELSE pending[r]
  BY DEF ApplyBundle
<1>6. latest'[r] = IF r \in R THEN ActionFor(A, r) ELSE latest[r]
  BY DEF ApplyBundle
<1>7. r \notin R
  BY DEF On
<1> HIDE DEF fenced, started, R
<1> QED
  BY <1>2, <1>3, <1>4, <1>5, <1>6, <1>7

\* An action of the bundle that finds its resource free starts or is refused.
LEMMA BundleStarted ==
    ASSUME Inv, NEW A \in SUBSET Action, NEW refused, NEW mute, NEW late,
           ApplyBundle(A, refused, mute, late),
           NEW a \in A, NEW r \in Resource, On(a, r), current[r] = None
    PROVE  /\ pending'[r] = None /\ latest'[r] = a
           /\ \/ /\ a \notin refused /\ current'[r] = a
                 /\ token'[r] = token[r] + 1 /\ owner'[r] = a /\ lease'[a] = token'[r]
                 /\ output'[r] = Told(token'[r], a)
              \/ /\ a \in refused /\ current'[r] = None
                 /\ token'[r] = token[r] + 2 /\ owner'[r] = None /\ lease'[a] = token[r] + 1
                 /\ \/ output'[r] = Told(token'[r], None)
                    \/ /\ r \in Lossy
                       /\ \/ output'[r] = output[r]
                          \/ output'[r] = Told(token[r] + 1, a)
<1> DEFINE R == {ResourceOf[b] : b \in A}
           fenced == Stoppable(R)
           started == {b \in A : current[ResourceOf[b]] = None}
<1>1. /\ TypeOK /\ refused \in SUBSET started /\ late \in SUBSET refused
      /\ started \in SUBSET Action /\ OnePerResource(started) /\ OnePerResource(A)
      /\ mute \in SUBSET Lossy
      /\ Reassign(fenced, started, refused, mute, late)
  BY BundleFacts DEF Inv
<1>2. r = ResourceOf[a] /\ r \in R /\ a \in started /\ r \notin fenced
  BY DEF Stoppable, On
<1>3. ActionFor(A, r) = a
  BY <1>1, <1>2, ActionForUnique
<1>4. Needs(started, r) /\ (Needs(started \ refused, r) <=> a \notin refused)
  BY <1>1, <1>2 DEF Needs, OnePerResource
<1>5. pending'[r] = None /\ latest'[r] = a
  BY <1>2, <1>3, <1>4 DEF ApplyBundle
<1>6. current'[r] = IF a \in refused THEN None ELSE a
  BY <1>2, <1>3, <1>4 DEF ApplyBundle
<1>7. CASE a \notin refused
  <2> HIDE DEF fenced, started, R
  <2>1. /\ token'[r] = token[r] + 1 /\ owner'[r] = a /\ lease'[a] = token'[r]
        /\ output'[r] = Told(token'[r], a)
    BY <1>1, <1>2, <1>7, ReassignStarted
  <2> QED
    BY <1>5, <1>6, <1>7, <2>1
<1>8. CASE a \in refused
  <2> HIDE DEF fenced, started, R
  <2>1. /\ token'[r] = token[r] + 2 /\ owner'[r] = None /\ lease'[a] = token[r] + 1
        /\ \/ output'[r] = Told(token'[r], None)
           \/ /\ r \in mute
              /\ \/ output'[r] = output[r]
                 \/ output'[r] = Told(token[r] + 1, a)
    BY <1>1, <1>2, <1>8, ReassignRefused
  <2> QED
    BY <1>1, <1>5, <1>6, <1>8, <2>1
<1> QED
  BY <1>7, <1>8

\* An action of the bundle whose resource is taken waits, behind one that is
\* being stopped and that no longer owns the resource.
LEMMA BundleWaiting ==
    ASSUME Inv, NEW A \in SUBSET Action, NEW refused, NEW mute, NEW late,
           ApplyBundle(A, refused, mute, late),
           NEW a \in A, NEW r \in Resource, On(a, r), current[r] # None
    PROVE  /\ a \notin refused /\ current'[r] = current[r]
           /\ pending'[r] = a /\ latest'[r] = a
           /\ state'[current[r]] = "stopping" /\ owner'[r] = None
           /\ \/ /\ r \notin Stoppable(Resource)
                 /\ token'[r] = token[r] /\ owner[r] = None /\ output'[r] = output[r]
              \/ /\ r \in Stoppable(Resource)
                 /\ token'[r] = token[r] + 1
                 /\ \/ output'[r] = Told(token[r] + 1, None)
                    \/ r \in Lossy /\ output'[r] = output[r]
<1> DEFINE R == {ResourceOf[b] : b \in A}
           fenced == Stoppable(R)
           started == {b \in A : current[ResourceOf[b]] = None}
<1>0. TypeOK
  BY DEF Inv
<1>1. /\ refused \in SUBSET started /\ late \in SUBSET refused
      /\ OnePerResource(A) /\ mute \in SUBSET Lossy
      /\ Reassign(fenced, started, refused, mute, late)
  BY DEF ApplyBundle
<1>2. /\ r = ResourceOf[a] /\ r \in R /\ a \notin started
      /\ r \in fenced <=> r \in Stoppable(Resource)
  BY DEF Stoppable, On
<1>3. ActionFor(A, r) = a
  BY <1>1, <1>2, ActionForUnique
<1>4. ~Needs(started, r) /\ ~Needs(started \ refused, r)
  <2>1. ASSUME NEW b \in started PROVE ResourceOf[b] # r
    OBVIOUS
  <2> HIDE DEF started
  <2> QED
    BY <2>1 DEF Needs
<1>5. current'[r] = current[r] /\ pending'[r] = a /\ latest'[r] = a
  <2>1. /\ current' = [x \in Resource |->
                       IF Needs(started \ refused, x) THEN ActionFor(A, x) ELSE current[x]]
        /\ pending' = [x \in Resource |->
                       IF Needs(started, x) THEN None
                       ELSE IF x \in R THEN ActionFor(A, x) ELSE pending[x]]
        /\ latest' = [x \in Resource |-> IF x \in R THEN ActionFor(A, x) ELSE latest[x]]
    BY DEF ApplyBundle
  <2> HIDE DEF started, R
  <2> QED
    BY <1>2, <1>3, <1>4, <2>1
<1>6. state'[current[r]] = "stopping"
  BY BundleStates
<1>7. CASE r \in fenced
  <2> HIDE DEF fenced, started, R
  <2>1. /\ token'[r] = token[r] + 1 /\ owner'[r] = None
        /\ \/ output'[r] = Told(token[r] + 1, None)
           \/ r \in mute /\ output'[r] = output[r]
    BY <1>0, <1>1, <1>2, <1>4, <1>7, ReassignFenced
  <2> QED
    BY <1>1, <1>2, <1>5, <1>6, <1>7, <2>1
<1>8. CASE r \notin fenced
  <2>1. owner[r] = None
    BY <1>2, <1>8 DEF Inv, OwnerRunsUnstopped, Stoppable
  <2> HIDE DEF fenced, started, R
  <2>2. token'[r] = token[r] /\ owner'[r] = owner[r] /\ output'[r] = output[r]
    BY <1>0, <1>1, <1>2, <1>4, <1>8, ReassignUntouched
  <2> QED
    BY <1>1, <1>2, <1>5, <1>6, <1>8, <2>1, <2>2
<1> QED
  BY <1>7, <1>8

\* Whatever runs or waits after a bundle does so in its place.
LEMMA BundlePlaced ==
    ASSUME Inv, NEW A \in SUBSET Action, NEW refused, NEW mute, NEW late,
           ApplyBundle(A, refused, mute, late)
    PROVE  Placed' /\ WaitsBehindStopping'
<1> DEFINE R == {ResourceOf[a] : a \in A}
<1> SUFFICES ASSUME NEW r \in Resource
             PROVE  /\ current'[r] # None =>
                         ResourceOf[current'[r]] = r /\ state'[current'[r]] \in Live
                    /\ pending'[r] # None =>
                         ResourceOf[pending'[r]] = r /\ state'[pending'[r]] = "pending"
                    /\ pending'[r] # None =>
                         current'[r] # None /\ state'[current'[r]] = "stopping"
  BY DEF Placed, WaitsBehindStopping
<1>0. TypeOK /\ Placed /\ WaitsBehindStopping
  BY DEF Inv
<1>1. CASE \A a \in A : ~On(a, r)
  <2>1. current'[r] = current[r] /\ pending'[r] = pending[r]
    BY <1>1, BundleElsewhere
  <2>2. current[r] # None => state'[current[r]] = state[current[r]]
    BY <1>1, BundleStates
  <2>3. pending[r] # None => state'[pending[r]] = "pending"
    BY <1>1, BundleStates
  <2> QED
    BY <1>0, <2>1, <2>2, <2>3 DEF Placed, WaitsBehindStopping
<1>2. ASSUME NEW a \in A, On(a, r), current[r] = None
      PROVE  /\ pending'[r] = None
             /\ current'[r] # None => current'[r] = a /\ state'[a] = "preparing"
  <2>1. pending'[r] = None /\ (current'[r] = None \/ (current'[r] = a /\ a \notin refused))
    BY <1>2, BundleStarted
  <2>2. a \notin refused => state'[a] = "preparing"
    BY <1>2, BundleStates
  <2> QED
    BY <2>1, <2>2
<1>3. ASSUME NEW a \in A, On(a, r), current[r] # None
      PROVE  /\ current'[r] = current[r] /\ state'[current[r]] = "stopping"
             /\ pending'[r] = a /\ state'[a] = "pending"
  <2>1. /\ current'[r] = current[r] /\ state'[current[r]] = "stopping"
        /\ pending'[r] = a /\ a \notin refused
    BY <1>3, BundleWaiting
  <2>2. a \notin refused => state'[a] = "pending"
    BY <1>3, BundleStates
  <2> QED
    BY <2>1, <2>2
<1>4. CASE \E a \in A : On(a, r)
  <2>1. PICK a \in A : On(a, r)
    BY <1>4
  <2>2. a \in Action /\ a # None /\ ResourceOf[a] = r
    BY <2>1 DEF On
  <2>3. CASE current[r] = None
    BY <1>2, <2>1, <2>2, <2>3 DEF Live
  <2>4. CASE current[r] # None
    <3>1. ResourceOf[current[r]] = r
      BY <1>0, <2>4 DEF Placed
    <3> QED
      BY <1>3, <2>1, <2>2, <2>4, <3>1 DEF Live
  <2> QED
    BY <2>3, <2>4
<1> QED
  BY <1>1, <1>4

\* A bundle keeps ownership exact and leaves nobody waiting idly.
LEMMA BundleOwner ==
    ASSUME Inv, NEW A \in SUBSET Action, NEW refused, NEW mute, NEW late,
           ApplyBundle(A, refused, mute, late)
    PROVE  OwnerRunsUnstopped' /\ NewestRequestWins'
<1> DEFINE R == {ResourceOf[a] : a \in A}
           started == {a \in A : current[ResourceOf[a]] = None}
<1> SUFFICES ASSUME NEW r \in Resource
             PROVE  /\ owner'[r] = IF current'[r] # None /\ state'[current'[r]] # "stopping"
                                   THEN current'[r] ELSE None
                    /\ owner'[r] # None => lease'[owner'[r]] = token'[r]
                    /\ {owner'[r], pending'[r]} \subseteq {None, latest'[r]}
  BY DEF OwnerRunsUnstopped, NewestRequestWins
<1>0. TypeOK /\ OwnerRunsUnstopped /\ NewestRequestWins /\ Placed
  BY DEF Inv
<1>1. CASE \A a \in A : ~On(a, r)
  <2>1. /\ owner'[r] = owner[r] /\ token'[r] = token[r]
        /\ current'[r] = current[r] /\ pending'[r] = pending[r] /\ latest'[r] = latest[r]
    BY <1>1, BundleElsewhere
  <2>2. current[r] # None => state'[current[r]] = state[current[r]]
    BY <1>1, BundleStates
  <2>3. owner[r] # None => owner[r] \in Action /\ ResourceOf[owner[r]] = r
    BY <1>0 DEF OwnerRunsUnstopped, Placed, TypeOK
  <2>4. Reassign(Stoppable(R), started, refused, mute, late)
    BY DEF ApplyBundle
  <2>5. owner[r] # None => lease'[owner[r]] = lease[owner[r]]
    <3>1. owner[r] # None => owner[r] \notin started
      BY <1>1, <2>3 DEF On
    <3> QED
      BY <2>3, <2>4, <3>1, ReassignLease
  <2> QED
    BY <1>0, <2>1, <2>2, <2>5 DEF OwnerRunsUnstopped, NewestRequestWins
<1>2. ASSUME NEW a \in A, On(a, r), current[r] = None
      PROVE  /\ pending'[r] = None
             /\ \/ /\ current'[r] = a /\ state'[a] = "preparing"
                   /\ owner'[r] = a /\ lease'[a] = token'[r] /\ latest'[r] = a
                \/ current'[r] = None /\ owner'[r] = None
  <2>1. /\ pending'[r] = None
        /\ \/ /\ a \notin refused /\ current'[r] = a
              /\ owner'[r] = a /\ lease'[a] = token'[r] /\ latest'[r] = a
           \/ current'[r] = None /\ owner'[r] = None
    BY <1>2, BundleStarted
  <2>2. a \notin refused => state'[a] = "preparing"
    BY <1>2, BundleStates
  <2> QED
    BY <2>1, <2>2
<1>3. ASSUME NEW a \in A, On(a, r), current[r] # None
      PROVE  /\ current'[r] = current[r] /\ state'[current[r]] = "stopping"
             /\ owner'[r] = None /\ pending'[r] = latest'[r]
  BY <1>3, BundleWaiting
<1>4. r \in R => \E a \in A : On(a, r)
  BY DEF On
<1>5. None \notin A
  OBVIOUS
<1> HIDE DEF R
<1> QED
  BY <1>1, <1>2, <1>3, <1>4, <1>5

\* A bundle stops actions by fencing them first.
LEMMA BundleStop ==
    ASSUME Inv, NEW A \in SUBSET Action, NEW refused, NEW mute, NEW late,
           ApplyBundle(A, refused, mute, late)
    PROVE  StopInv' /\ CancelledIsFenced'
<1> DEFINE R == {ResourceOf[a] : a \in A}
           fenced == Stoppable(R)
           started == {a \in A : current[ResourceOf[a]] = None}
<1>0. TypeOK /\ StopInv /\ CancelledIsFenced /\ OwnerRunsUnstopped /\ Placed
  BY DEF Inv
<1>1. /\ cancelled' = cancelled \cup Currents(fenced)
      /\ \A a \in A : state[a] = "new"
      /\ Reassign(fenced, started, refused, mute, late)
  BY DEF ApplyBundle
<1>2. \A r \in Resource : token'[r] \in Nat /\ token'[r] >= token[r]
  <2> SUFFICES ASSUME NEW r \in Resource PROVE token'[r] \in Nat /\ token'[r] >= token[r]
    OBVIOUS
  <2>1. token[r] \in Nat /\ token'[r] \in Nat
    BY <1>0, BundleType DEF TypeOK
  <2>2. (\A a \in A : ~On(a, r)) => token'[r] = token[r]
    BY BundleElsewhere
  <2>3. ASSUME NEW a \in A, On(a, r)
        PROVE  token'[r] \in {token[r], token[r] + 1, token[r] + 2}
    BY <2>3, BundleStarted, BundleWaiting
  <2> QED
    BY <2>1, <2>2, <2>3
<1>3. ASSUME NEW c \in cancelled
      PROVE  /\ state'[c] \in {"stopping", "cancelled", "failed"}
             /\ lease'[c] < token'[ResourceOf[c]]
  <2>1. /\ c \in Action /\ state[c] \in {"stopping", "cancelled", "failed"}
        /\ lease[c] \in Nat /\ token[ResourceOf[c]] \in Nat
        /\ lease[c] < token[ResourceOf[c]]
    BY <1>0 DEF TypeOK, StopInv, CancelledIsFenced
  <2>2. c \notin A
    BY <1>1, <2>1
  <2>3. \/ state'[c] = state[c]
        \/ state[c] \in Live /\ state'[c] = "stopping"
    BY <2>1, <2>2, BundleStates
  <2>4. lease'[c] = lease[c]
    <3> HIDE DEF fenced
    <3> QED
      BY <1>1, <2>1, <2>2, ReassignLease
  <2> QED
    BY <1>2, <2>1, <2>3, <2>4
<1>4. ASSUME NEW r \in fenced, NEW c, c = current[r]
      PROVE  /\ state'[c] \in {"stopping", "cancelled", "failed"}
             /\ lease'[c] < token'[ResourceOf[c]]
  <2>1. /\ r \in R /\ r \in Resource /\ current[r] # None /\ r \in Stoppable(Resource)
        /\ state[c] # "stopping"
    BY <1>4 DEF Stoppable
  <2>2. /\ c \in Action /\ ResourceOf[c] = r /\ owner[r] = c /\ lease[c] = token[r]
        /\ token[r] \in Nat /\ state[c] \in Live
    BY <1>0, <1>4, <2>1 DEF TypeOK, Placed, OwnerRunsUnstopped
  <2>3. PICK a \in A : On(a, r)
    BY <2>1 DEF On
  <2>4. token'[r] = token[r] + 1 /\ state'[c] = "stopping"
    BY <1>4, <2>1, <2>3, BundleWaiting
  <2>5. lease'[c] = lease[c]
    <3>1. c \notin started
      BY <1>1, <2>2 DEF Live
    <3> HIDE DEF fenced, started
    <3> QED
      BY <1>1, <2>2, <3>1, ReassignLease
  <2> QED
    BY <2>2, <2>4, <2>5
<1>5. \A c \in Currents(fenced) : \E r \in fenced : c = current[r]
  BY DEF Currents
<1> HIDE DEF fenced
<1> QED
  BY <1>1, <1>3, <1>4, <1>5 DEF StopInv, CancelledIsFenced

\* A bundle leaves the newest request in charge and the output not ahead.
LEMMA BundleOutput ==
    ASSUME Inv, NEW A \in SUBSET Action, NEW refused, NEW mute, NEW late,
           ApplyBundle(A, refused, mute, late)
    PROVE  OutputFollowsOwner'
<1> DEFINE R == {ResourceOf[a] : a \in A}
<1> SUFFICES ASSUME NEW r \in Resource
             PROVE  /\ output'[r].token <= token'[r]
                    /\ r \notin Lossy => output'[r] = Told(token'[r], owner'[r])
                    /\ output'[r].action \notin {None, owner'[r]} => output'[r].token < token'[r]
  BY DEF OutputFollowsOwner, Told
<1>0. /\ TypeOK /\ token[r] \in Nat /\ output[r].token \in Nat
      /\ output[r].token <= token[r]
      /\ r \notin Lossy => output[r] = Told(token[r], owner[r])
      /\ output[r].action \notin {None, owner[r]} => output[r].token < token[r]
  BY DEF Inv, TypeOK, OutputFollowsOwner, Told
<1>1. CASE \A a \in A : ~On(a, r)
  BY <1>0, <1>1, BundleElsewhere
<1>2. ASSUME NEW a \in A, On(a, r), current[r] = None
      PROVE  \/ /\ token'[r] = token[r] + 1 /\ owner'[r] = a
                /\ output'[r] = Told(token'[r], a)
             \/ /\ token'[r] = token[r] + 2 /\ owner'[r] = None
                /\ \/ output'[r] = Told(token'[r], None)
                   \/ /\ r \in Lossy
                      /\ \/ output'[r] = output[r]
                         \/ output'[r] = Told(token[r] + 1, a)
  BY <1>2, BundleStarted
<1>3. ASSUME NEW a \in A, On(a, r), current[r] # None
      PROVE  /\ owner'[r] = None
             /\ \/ token'[r] = token[r] /\ owner[r] = None /\ output'[r] = output[r]
                \/ /\ token'[r] = token[r] + 1
                   /\ \/ output'[r] = Told(token[r] + 1, None)
                      \/ r \in Lossy /\ output'[r] = output[r]
  BY <1>3, BundleWaiting
<1>4. CASE \E a \in A : On(a, r)
  <2>1. PICK a \in A : On(a, r)
    BY <1>4
  <2>2. CASE current[r] = None
    BY <1>0, <1>2, <2>1, <2>2, ToldFields
  <2>3. CASE current[r] # None
    BY <1>0, <1>3, <2>1, <2>3, ToldFields
  <2> QED
    BY <2>2, <2>3
<1> QED
  BY <1>1, <1>4

\* A bundle keeps the invariant.
LEMMA BundleInv ==
    ASSUME Inv, NEW A \in SUBSET Action, NEW refused, NEW mute, NEW late,
           ApplyBundle(A, refused, mute, late)
    PROVE  Inv'
  BY BundleType, BundlePlaced, BundleOwner, BundleStop, BundleOutput DEF Inv

----------------------------------------------------------------------------
(***************************************************************************)
(* halt_all.                                                               *)
(***************************************************************************)
\* What a halt does to one resource.
LEMMA HaltResource ==
    ASSUME Inv, NEW mute, HaltAll(mute), NEW r \in Resource
    PROVE  /\ pending'[r] = None /\ latest'[r] = None /\ current'[r] = current[r]
           /\ owner'[r] = None
           /\ \/ /\ r \in Stoppable(Resource) /\ token'[r] = token[r] + 1
                 /\ output'[r] = Told(token[r] + 1, None) \/ (r \in Lossy /\ output'[r] = output[r])
              \/ /\ r \notin Stoppable(Resource) /\ token'[r] = token[r] /\ owner[r] = None
                 /\ output'[r] = Told(token[r], None) \/ output'[r] = output[r]
<1>1. token[r] \in Nat
  BY DEF Inv, TypeOK
<1>2. r \notin Stoppable(Resource) => owner[r] = None
  BY DEF Inv, OwnerRunsUnstopped, Stoppable
<1>3. ~Needs({}, r) /\ ~Needs({} \ {}, r)
  BY DEF Needs
<1>4. /\ TokenAfter(Stoppable(Resource), {}, {}, r) =
             token[r] + (IF r \in Stoppable(Resource) THEN 1 ELSE 0)
      /\ OwnerAfter(Stoppable(Resource), {}, {}, r) =
             IF r \in Stoppable(Resource) THEN None ELSE owner[r]
  BY <1>1, <1>3 DEF TokenAfter, OwnerAfter
<1>5. /\ token'[r] = TokenAfter(Stoppable(Resource), {}, {}, r)
      /\ owner'[r] = OwnerAfter(Stoppable(Resource), {}, {}, r)
      /\ output'[r] = IF r \notin mute /\ (r \in Stoppable(Resource) \/ current[r] = None)
                      THEN Told(TokenAfter(Stoppable(Resource), {}, {}, r), None)
                      ELSE output[r]
      /\ pending'[r] = None /\ latest'[r] = None /\ current'[r] = current[r]
      /\ mute \subseteq Lossy
  BY DEF HaltAll, Told
<1> QED
  BY <1>1, <1>2, <1>4, <1>5

\* What a halt does to the actions.
LEMMA HaltStates ==
    ASSUME Inv, NEW mute, HaltAll(mute)
    PROVE  /\ \A r \in Resource : current[r] # None => state'[current[r]] = "stopping"
           /\ \A b \in Action :
                \/ state'[b] = state[b]
                \/ state[b] = "pending" /\ state'[b] = "cancelled"
                \/ state[b] \in Live /\ state'[b] = "stopping"
           /\ \A b \in cancelled' \ cancelled : \E r \in Stoppable(Resource) : b = current[r]
           /\ cancelled \subseteq cancelled' /\ cancelled' \subseteq Action
<1> DEFINE fenced == Stoppable(Resource)
<1>0. TypeOK /\ Placed
  BY DEF Inv
<1>1. /\ \A b \in Action : state'[b] = IF b \in Pendings(Resource) THEN "cancelled"
                                       ELSE IF b \in Currents(fenced) THEN "stopping"
                                       ELSE state[b]
      /\ cancelled' = cancelled \cup Currents(fenced)
  BY DEF HaltAll
<1>2. /\ \A b \in Pendings(Resource) : state[b] = "pending"
      /\ \A b \in Currents(fenced) : /\ b \in Action /\ state[b] \in Live
                                     /\ \E r \in fenced : b = current[r]
  BY <1>0 DEF Pendings, Currents, Stoppable, Placed, TypeOK
<1>3. ASSUME NEW r \in Resource, current[r] # None
      PROVE  state'[current[r]] = "stopping"
  <2>1. current[r] \in Action /\ state[current[r]] \in Live
    BY <1>0, <1>3 DEF TypeOK, Placed
  <2>2. current[r] \notin Pendings(Resource)
    BY <1>2, <2>1 DEF Live
  <2>3. state[current[r]] # "stopping" => current[r] \in Currents(fenced)
    BY <1>3 DEF Currents, Stoppable
  <2> QED
    BY <1>1, <2>1, <2>2, <2>3
<1>4. cancelled \subseteq Action
  BY <1>0 DEF TypeOK
<1> HIDE DEF fenced
<1>5. \A b \in cancelled' \ cancelled : \E r \in fenced : b = current[r]
  BY <1>1, <1>2
<1>6. cancelled' \subseteq Action
  BY <1>1, <1>2, <1>4
<1> QED
  BY <1>1, <1>2, <1>3, <1>5, <1>6 DEF fenced

\* A halt keeps the invariant.
LEMMA HaltInv ==
    ASSUME Inv, NEW mute, HaltAll(mute)
    PROVE  Inv'
<1>0. /\ TypeOK /\ Placed /\ StopInv /\ OwnerRunsUnstopped /\ CancelledIsFenced
      /\ OutputFollowsOwner
  BY DEF Inv
<1>1. lease' = lease /\ current' = current
  BY DEF HaltAll
<1>2. \A r \in Resource : token'[r] \in Nat /\ token'[r] >= token[r]
  BY <1>0, HaltResource DEF TypeOK
<1>3. TypeOK'
  <2>1. token' \in [Resource -> Nat] /\ owner' \in [Resource -> Action \cup {None}]
    <3>1. DOMAIN token' = Resource /\ token' = [r \in Resource |-> token'[r]]
      BY DEF HaltAll
    <3>2. DOMAIN owner' = Resource /\ owner' = [r \in Resource |-> owner'[r]]
      BY DEF HaltAll
    <3> QED
      BY <1>2, <3>1, <3>2, HaltResource
  <2>2. output' \in [Resource -> [token : Nat, action : Action \cup {None}]]
    <3>1. output' = [r \in Resource |-> output'[r]]
      BY DEF HaltAll
    <3>2. ASSUME NEW r \in Resource
          PROVE  output'[r] \in [token : Nat, action : Action \cup {None}]
      <4>1. /\ token[r] \in Nat /\ output[r] \in [token : Nat, action : Action \cup {None}]
            /\ Told(token[r], None) \in [token : Nat, action : Action \cup {None}]
            /\ Told(token[r] + 1, None) \in [token : Nat, action : Action \cup {None}]
        BY <1>0 DEF TypeOK, Told
      <4> QED
        BY <4>1, HaltResource
    <3> QED
      BY <3>1, <3>2
  <2>3. /\ pending' \in [Resource -> Action \cup {None}]
        /\ latest' \in [Resource -> Action \cup {None}]
    BY DEF HaltAll
  <2>4. state' \in [Action -> ActionState]
    BY <1>0 DEF HaltAll, TypeOK, ActionState, Live, Final
  <2> QED
    BY <1>0, <1>1, <2>1, <2>2, <2>3, <2>4, HaltStates DEF TypeOK
<1>4. Placed' /\ WaitsBehindStopping'
  BY <1>0, <1>1, HaltResource, HaltStates DEF Placed, WaitsBehindStopping, Live
<1>5. OwnerRunsUnstopped' /\ NewestRequestWins'
  <2> SUFFICES ASSUME NEW r \in Resource
               PROVE  /\ owner'[r] = None /\ pending'[r] = None
                      /\ current'[r] # None => state'[current'[r]] = "stopping"
    BY DEF OwnerRunsUnstopped, NewestRequestWins
  <2> QED
    BY <1>1, HaltResource, HaltStates
<1>6. StopInv' /\ CancelledIsFenced'
  <2>1. ASSUME NEW c \in cancelled
        PROVE  /\ state'[c] \in {"stopping", "cancelled", "failed"}
               /\ lease'[c] < token'[ResourceOf[c]]
    <3>1. /\ c \in Action /\ state[c] \in {"stopping", "cancelled", "failed"}
          /\ lease[c] \in Nat /\ token[ResourceOf[c]] \in Nat
          /\ lease[c] < token[ResourceOf[c]]
      BY <1>0 DEF TypeOK, StopInv, CancelledIsFenced
    <3>2. state'[c] = state[c] \/ state'[c] = "stopping"
      BY <3>1, HaltStates
    <3> QED
      BY <1>1, <1>2, <3>1, <3>2
  <2>2. ASSUME NEW r \in Stoppable(Resource), NEW c, c = current[r]
        PROVE  /\ state'[c] \in {"stopping", "cancelled", "failed"}
               /\ lease'[c] < token'[ResourceOf[c]]
    <3>1. /\ r \in Resource /\ current[r] # None /\ state[c] # "stopping"
      BY <2>2 DEF Stoppable
    <3>2. /\ c \in Action /\ ResourceOf[c] = r /\ lease[c] = token[r] /\ token[r] \in Nat
      BY <1>0, <2>2, <3>1 DEF TypeOK, Placed, OwnerRunsUnstopped
    <3>3. token'[r] = token[r] + 1 /\ state'[c] = "stopping"
      BY <2>2, <3>1, HaltResource, HaltStates
    <3> QED
      BY <1>1, <3>2, <3>3
  <2>3. \A c \in cancelled' : c \in cancelled \/ \E r \in Stoppable(Resource) : c = current[r]
    BY HaltStates
  <2> QED
    BY <2>1, <2>2, <2>3 DEF StopInv, CancelledIsFenced
<1>7. OutputFollowsOwner'
  <2> SUFFICES ASSUME NEW r \in Resource
               PROVE  /\ output'[r].token <= token'[r]
                      /\ r \notin Lossy => output'[r] = Told(token'[r], owner'[r])
                      /\ output'[r].action \notin {None, owner'[r]} => output'[r].token < token'[r]
    BY DEF OutputFollowsOwner, Told
  <2>1. /\ token[r] \in Nat /\ output[r].token \in Nat
        /\ output[r].token <= token[r]
        /\ r \notin Lossy => output[r] = Told(token[r], owner[r])
        /\ output[r].action \notin {None, owner[r]} => output[r].token < token[r]
    BY <1>0 DEF TypeOK, OutputFollowsOwner, Told
  <2> QED
    BY <2>1, HaltResource, ToldFields
<1> QED
  BY <1>3, <1>4, <1>5, <1>6, <1>7 DEF Inv

----------------------------------------------------------------------------
\* _mark_running.
LEMMA MarkInv ==
    ASSUME Inv, NEW a \in Action, MarkRunning(a)
    PROVE  Inv'
<1>1. /\ state[a] = "preparing" /\ a \notin cancelled
      /\ state' = [state EXCEPT ![a] = "running"]
      /\ UNCHANGED <<token, owner, current, pending, lease, cancelled, output, latest>>
  BY DEF MarkRunning
<1>2. state \in [Action -> ActionState] /\ cancelled \subseteq Action
  BY DEF Inv, TypeOK
<1>3. \A b \in Action : state'[b] = IF b = a THEN "running" ELSE state[b]
  BY <1>1, <1>2
<1>4. TypeOK'
  BY <1>1 DEF Inv, TypeOK, ActionState, Live
<1>5. Placed'
  BY <1>1, <1>3 DEF Inv, TypeOK, Placed, Live
<1>6. StopInv' /\ CancelledIsFenced'
  BY <1>1, <1>2, <1>3 DEF Inv, StopInv, CancelledIsFenced
<1>7. OwnerRunsUnstopped'
  BY <1>1, <1>3 DEF Inv, TypeOK, OwnerRunsUnstopped
<1>8. WaitsBehindStopping'
  BY <1>1, <1>3 DEF Inv, TypeOK, WaitsBehindStopping
<1>9. NewestRequestWins' /\ OutputFollowsOwner'
  BY <1>1 DEF Inv, NewestRequestWins, OutputFollowsOwner
<1> QED
  BY <1>4, <1>5, <1>6, <1>7, <1>8, <1>9 DEF Inv

----------------------------------------------------------------------------
(***************************************************************************)
(* _finish_handle.                                                         *)
(***************************************************************************)
\* What _finish_handle does, said of the resource r that a needs.
Finished(a, r, raised, refused, mute, late) ==
    /\ current[r] = a /\ state[a] \in Live
    /\ refused \in SUBSET Pendings({r}) /\ late \in SUBSET refused
    /\ mute \in SUBSET Lossy
    /\ Reassign(Stoppable({r}), Pendings({r}), refused, mute, late)
    /\ current' = [current EXCEPT ![r] = IF Pendings({r}) = refused THEN None
                                         ELSE pending[r]]
    /\ pending' = [pending EXCEPT ![r] = None]
    /\ state' = [b \in Action |-> IF b = a THEN Outcome(a, raised)
                                  ELSE IF b \in refused THEN "failed"
                                  ELSE IF b \in Pendings({r}) THEN "preparing"
                                  ELSE state[b]]
    /\ cancelled' = cancelled /\ latest' = latest

\* A finish step in the form the lemmas below use.
LEMMA FinishFacts ==
    ASSUME Inv, NEW a \in Action, NEW raised, NEW refused, NEW mute, NEW late,
           FinishHandle(a, raised, refused, mute, late), NEW r \in Resource, On(a, r)
    PROVE  Finished(a, r, raised, refused, mute, late)
<1>1. r = ResourceOf[a]
  BY DEF On
<1>2. current[r] = a
  BY <1>1 DEF FinishHandle
<1>3. state[a] \in Live
  BY <1>2 DEF Inv, Placed
<1> QED
  BY <1>1, <1>2, <1>3 DEF FinishHandle, Finished

\* The other resources keep everything.
LEMMA FinishElsewhere ==
    ASSUME Inv, NEW a \in Action, NEW raised, NEW refused, NEW mute, NEW late,
           FinishHandle(a, raised, refused, mute, late),
           NEW r \in Resource, ~On(a, r)
    PROVE  /\ token'[r] = token[r] /\ owner'[r] = owner[r] /\ output'[r] = output[r]
           /\ current'[r] = current[r] /\ pending'[r] = pending[r]
           /\ current[r] # None => state'[current[r]] = state[current[r]]
           /\ pending[r] # None => state'[pending[r]] = state[pending[r]]
           /\ owner[r] # None => lease'[owner[r]] = lease[owner[r]]
<1>0. TypeOK /\ Placed /\ OwnerRunsUnstopped
  BY DEF Inv
<1>1. PICK x \in Resource : On(a, x) /\ x # r
  BY DEF On
<1>2. /\ refused \in SUBSET Pendings({x}) /\ late \in SUBSET refused
      /\ Reassign(Stoppable({x}), Pendings({x}), refused, mute, late)
      /\ current' = [current EXCEPT ![x] = IF Pendings({x}) = refused THEN None
                                           ELSE pending[x]]
      /\ pending' = [pending EXCEPT ![x] = None]
      /\ \A b \in Action : state'[b] = IF b = a THEN Outcome(a, raised)
                                       ELSE IF b \in refused THEN "failed"
                                       ELSE IF b \in Pendings({x}) THEN "preparing"
                                       ELSE state[b]
  <2>1. Finished(a, x, raised, refused, mute, late)
    BY <1>1, FinishFacts
  <2> QED
    BY <2>1 DEF Finished
<1>3. \A b \in Pendings({x}) : ResourceOf[b] = x /\ b \in Action
  BY <1>0, PendingsOfOne
<1>4. r \notin Stoppable({x}) /\ ~Needs(Pendings({x}), r)
  <2>1. r \notin Stoppable({x})
    BY <1>1 DEF Stoppable
  <2>2. ~Needs(Pendings({x}), r)
    BY <1>1, <1>3 DEF Needs
  <2> QED
    BY <2>1, <2>2
<1>5. token'[r] = token[r] /\ owner'[r] = owner[r] /\ output'[r] = output[r]
  <2> DEFINE fenced == Stoppable({x})
             started == Pendings({x})
  <2>1. /\ refused \in SUBSET started /\ late \in SUBSET refused
        /\ Reassign(fenced, started, refused, mute, late)
        /\ r \notin fenced /\ ~Needs(started, r)
    BY <1>2, <1>4
  <2> HIDE DEF fenced, started
  <2> QED
    BY <1>0, <2>1, ReassignUntouched
<1>6. current'[r] = current[r] /\ pending'[r] = pending[r]
  BY <1>0, <1>1, <1>2 DEF TypeOK
<1>7. \A b \in Action : ResourceOf[b] = r => state'[b] = state[b] /\ lease'[b] = lease[b]
  <2> SUFFICES ASSUME NEW b \in Action, ResourceOf[b] = r
               PROVE  state'[b] = state[b] /\ lease'[b] = lease[b]
    OBVIOUS
  <2>1. b # a /\ b \notin Pendings({x})
    BY <1>1, <1>3 DEF On
  <2> QED
    BY <1>2, <2>1, ReassignLease
<1>8. /\ current[r] # None => current[r] \in Action /\ ResourceOf[current[r]] = r
      /\ pending[r] # None => pending[r] \in Action /\ ResourceOf[pending[r]] = r
      /\ owner[r] # None => owner[r] = current[r]
  BY <1>0 DEF TypeOK, Placed, OwnerRunsUnstopped
<1> QED
  BY <1>5, <1>6, <1>7, <1>8

\* Nothing waits: the resource becomes free, fenced if it was not yet.
LEMMA FinishFree ==
    ASSUME Inv, NEW a \in Action, NEW raised, NEW refused, NEW mute, NEW late,
           FinishHandle(a, raised, refused, mute, late),
           NEW r \in Resource, On(a, r), pending[r] = None
    PROVE  /\ current'[r] = None /\ pending'[r] = None /\ owner'[r] = None
           /\ \/ token'[r] = token[r] /\ owner[r] = None /\ output'[r] = output[r]
              \/ /\ token'[r] = token[r] + 1
                 /\ \/ output'[r] = Told(token[r] + 1, None)
                    \/ r \in Lossy /\ output'[r] = output[r]
<1>0. TypeOK /\ Placed
  BY DEF Inv
<1>1. /\ current[r] = a /\ refused \in SUBSET Pendings({r}) /\ late \in SUBSET refused
      /\ mute \in SUBSET Lossy
      /\ Reassign(Stoppable({r}), Pendings({r}), refused, mute, late)
      /\ current' = [current EXCEPT ![r] = IF Pendings({r}) = refused THEN None
                                           ELSE pending[r]]
      /\ pending' = [pending EXCEPT ![r] = None]
  <2>1. Finished(a, r, raised, refused, mute, late)
    BY FinishFacts
  <2> QED
    BY <2>1 DEF Finished
<1>2. Pendings({r}) = {} /\ refused = {}
  BY <1>0, <1>1, PendingsOfOne
<1>3. current'[r] = None /\ pending'[r] = None
  BY <1>0, <1>1, <1>2 DEF TypeOK
<1>4. ~Needs(Pendings({r}), r)
  BY <1>2 DEF Needs
<1>5. CASE r \in Stoppable({r})
  BY <1>0, <1>1, <1>3, <1>4, <1>5, ReassignFenced
<1>6. CASE r \notin Stoppable({r})
  <2>1. owner[r] = None
    BY <1>1, <1>6 DEF Inv, OwnerRunsUnstopped, Stoppable
  <2> QED
    BY <1>0, <1>1, <1>3, <1>4, <1>6, <2>1, ReassignUntouched
<1> QED
  BY <1>5, <1>6

\* The action that waited starts or is refused.
LEMMA FinishStarts ==
    ASSUME Inv, NEW a \in Action, NEW raised, NEW refused, NEW mute, NEW late,
           FinishHandle(a, raised, refused, mute, late),
           NEW r \in Resource, On(a, r), NEW p \in Action, p = pending[r]
    PROVE  /\ pending'[r] = None
           /\ \/ /\ current'[r] = p /\ token'[r] = token[r] + 1 /\ owner'[r] = p
                 /\ lease'[p] = token'[r] /\ state'[p] = "preparing"
                 /\ output'[r] = Told(token'[r], p)
              \/ /\ current'[r] = None /\ token'[r] = token[r] + 2 /\ owner'[r] = None
                 /\ \/ output'[r] = Told(token'[r], None)
                    \/ /\ r \in Lossy
                       /\ \/ output'[r] = output[r]
                          \/ output'[r] = Told(token[r] + 1, p)
<1>0. TypeOK /\ Placed
  BY DEF Inv
<1>1. /\ current[r] = a /\ refused \in SUBSET Pendings({r}) /\ late \in SUBSET refused
      /\ mute \in SUBSET Lossy
      /\ Reassign(Stoppable({r}), Pendings({r}), refused, mute, late)
      /\ current' = [current EXCEPT ![r] = IF Pendings({r}) = refused THEN None
                                           ELSE pending[r]]
      /\ pending' = [pending EXCEPT ![r] = None]
      /\ state[a] \in Live
      /\ \A b \in Action : state'[b] = IF b = a THEN Outcome(a, raised)
                                       ELSE IF b \in refused THEN "failed"
                                       ELSE IF b \in Pendings({r}) THEN "preparing"
                                       ELSE state[b]
  <2>1. Finished(a, r, raised, refused, mute, late)
    BY FinishFacts
  <2> QED
    BY <2>1 DEF Finished
<1>2. p # None /\ p = pending[r]
  OBVIOUS
<1>3. /\ Pendings({r}) = {p} /\ Pendings({r}) \in SUBSET Action
      /\ OnePerResource(Pendings({r})) /\ On(p, r)
  BY <1>0, <1>2, PendingsOfOne DEF On
<1>4. r \notin Stoppable({r})
  BY <1>1, <1>2 DEF Inv, WaitsBehindStopping, Stoppable
<1>5. p # a
  <2>1. state[p] = "pending"
    BY <1>0, <1>2 DEF Placed
  <2>2. state[a] \in Live
    BY <1>1
  <2> QED
    BY <2>1, <2>2 DEF Live
<1>6. pending'[r] = None /\ current'[r] = IF p \in refused THEN None ELSE p
  <2>1. Pendings({r}) = refused <=> p \in refused
    BY <1>1, <1>3
  <2>2. /\ pending'[r] = None
        /\ current'[r] = IF Pendings({r}) = refused THEN None ELSE p
    BY <1>0, <1>1 DEF TypeOK
  <2> QED
    BY <2>1, <2>2
<1>7. CASE p \notin refused
  <2>1. p \in Pendings({r}) \ refused
    BY <1>3, <1>7
  <2>2. /\ token'[r] = token[r] + 1 /\ owner'[r] = p /\ lease'[p] = token'[r]
        /\ output'[r] = Told(token'[r], p)
    BY <1>0, <1>1, <1>3, <1>4, <2>1, ReassignStarted
  <2>3. state'[p] = "preparing"
    BY <1>1, <1>3, <1>5, <1>7
  <2> QED
    BY <1>6, <1>7, <2>2, <2>3
<1>8. CASE p \in refused
  <2>1. /\ token'[r] = token[r] + 2 /\ owner'[r] = None
        /\ \/ output'[r] = Told(token'[r], None)
           \/ /\ r \in mute
              /\ \/ output'[r] = output[r]
                 \/ output'[r] = Told(token[r] + 1, p)
    BY <1>0, <1>1, <1>3, <1>4, <1>8, ReassignRefused
  <2> QED
    BY <1>1, <1>6, <1>8, <2>1
<1> QED
  BY <1>7, <1>8

\* Ending changes the state of a and of the action that waited for it only.
LEMMA FinishStates ==
    ASSUME Inv, NEW a \in Action, NEW raised \in BOOLEAN, NEW refused, NEW mute, NEW late,
           FinishHandle(a, raised, refused, mute, late)
    PROVE  /\ state[a] \in Live /\ state'[a] \in Final
           /\ a \in cancelled => state'[a] # "completed"
           /\ \A b \in Action : b # a /\ state[b] # "pending" => state'[b] = state[b]
           /\ \A b \in Action : state[b] # "pending" => lease'[b] = lease[b]
           /\ cancelled' = cancelled /\ latest' = latest
<1>0. TypeOK /\ Placed
  BY DEF Inv
<1>1. PICK r \in Resource : On(a, r)
  BY DEF On
<1>2. Finished(a, r, raised, refused, mute, late)
  BY <1>1, FinishFacts
<1>3. \A b \in Pendings({r}) : state[b] = "pending"
  BY <1>0, <1>1 DEF Pendings, Placed
<1>4. state'[a] = Outcome(a, raised) /\ state[a] \in Live
  BY <1>2 DEF Finished
<1>5. \A b \in Action : b # a /\ state[b] # "pending" => state'[b] = state[b]
  <2>1. \A b \in Action : state'[b] = IF b = a THEN Outcome(a, raised)
                                      ELSE IF b \in refused THEN "failed"
                                      ELSE IF b \in Pendings({r}) THEN "preparing"
                                      ELSE state[b]
    BY <1>2 DEF Finished
  <2>2. refused \in SUBSET Pendings({r})
    BY <1>2 DEF Finished
  <2> QED
    BY <1>3, <2>1, <2>2
<1>6. \A b \in Action : state[b] # "pending" => lease'[b] = lease[b]
  <2> SUFFICES ASSUME NEW b \in Action, state[b] # "pending" PROVE lease'[b] = lease[b]
    OBVIOUS
  <2> DEFINE fenced == Stoppable({r})
             started == Pendings({r})
  <2>1. Reassign(fenced, started, refused, mute, late) /\ b \notin started
    BY <1>2, <1>3 DEF Finished
  <2> HIDE DEF fenced, started
  <2> QED
    BY <2>1, ReassignLease
<1>7. cancelled' = cancelled /\ latest' = latest
  BY <1>2 DEF Finished
<1>8. Outcome(a, raised) \in Final /\ (a \in cancelled => Outcome(a, raised) # "completed")
  BY DEF Outcome, Final
<1> QED
  BY <1>4, <1>5, <1>6, <1>7, <1>8

\* Ending an action keeps every variable in its type.
LEMMA FinishType ==
    ASSUME Inv, NEW a \in Action, NEW raised \in BOOLEAN, NEW refused, NEW mute, NEW late,
           FinishHandle(a, raised, refused, mute, late)
    PROVE  TypeOK'
<1>0. TypeOK /\ Placed
  BY DEF Inv
<1>1. PICK r \in Resource : On(a, r)
  BY DEF On
<1>2. Finished(a, r, raised, refused, mute, late)
  BY <1>1, FinishFacts
<1>3. /\ token' \in [Resource -> Nat]
      /\ owner' \in [Resource -> Action \cup {None}]
      /\ lease' \in [Action -> Nat]
      /\ output' \in [Resource -> [token : Nat, action : Action \cup {None}]]
  <2> DEFINE fenced == Stoppable({r})
             started == Pendings({r})
  <2>1. /\ started \in SUBSET Action /\ refused \in SUBSET started
        /\ late \in SUBSET refused /\ Reassign(fenced, started, refused, mute, late)
    BY <1>0, <1>2, PendingsOfOne DEF Finished
  <2> HIDE DEF fenced, started
  <2> QED
    BY <1>0, <2>1, ReassignType
<1>4. /\ current' \in [Resource -> Action \cup {None}]
      /\ pending' \in [Resource -> Action \cup {None}]
  BY <1>0, <1>2 DEF Finished, TypeOK
<1>5. state' \in [Action -> ActionState]
  BY <1>0, <1>2 DEF Finished, TypeOK, Outcome, ActionState, Live, Final
<1>6. cancelled' \subseteq Action /\ latest' \in [Resource -> Action \cup {None}]
  BY <1>0, <1>2 DEF Finished, TypeOK
<1> QED
  BY <1>3, <1>4, <1>5, <1>6 DEF TypeOK

\* It keeps ownership exact, whether or not another action starts.
LEMMA FinishOwner ==
    ASSUME Inv, NEW a \in Action, NEW raised \in BOOLEAN, NEW refused, NEW mute, NEW late,
           FinishHandle(a, raised, refused, mute, late)
    PROVE  Placed' /\ WaitsBehindStopping' /\ OwnerRunsUnstopped' /\ NewestRequestWins'
<1> SUFFICES ASSUME NEW r \in Resource
             PROVE  /\ current'[r] # None =>
                         ResourceOf[current'[r]] = r /\ state'[current'[r]] \in Live
                    /\ pending'[r] # None =>
                         ResourceOf[pending'[r]] = r /\ state'[pending'[r]] = "pending"
                    /\ pending'[r] # None =>
                         current'[r] # None /\ state'[current'[r]] = "stopping"
                    /\ owner'[r] = IF current'[r] # None /\ state'[current'[r]] # "stopping"
                                   THEN current'[r] ELSE None
                    /\ owner'[r] # None => lease'[owner'[r]] = token'[r]
                    /\ {owner'[r], pending'[r]} \subseteq {None, latest'[r]}
  BY DEF Placed, WaitsBehindStopping, OwnerRunsUnstopped, NewestRequestWins
<1>0. TypeOK /\ Placed /\ WaitsBehindStopping /\ OwnerRunsUnstopped /\ NewestRequestWins
  BY DEF Inv
<1>1. latest' = latest
  BY FinishStates
<1>2. CASE ~On(a, r)
  <2>1. /\ token'[r] = token[r] /\ owner'[r] = owner[r]
        /\ current'[r] = current[r] /\ pending'[r] = pending[r]
        /\ current[r] # None => state'[current[r]] = state[current[r]]
        /\ pending[r] # None => state'[pending[r]] = state[pending[r]]
        /\ owner[r] # None => lease'[owner[r]] = lease[owner[r]]
    BY <1>2, FinishElsewhere
  <2> QED
    BY <1>0, <1>1, <2>1 DEF Placed, WaitsBehindStopping, OwnerRunsUnstopped, NewestRequestWins
<1>3. CASE On(a, r) /\ pending[r] = None
  <2>1. current'[r] = None /\ pending'[r] = None /\ owner'[r] = None
    BY <1>3, FinishFree
  <2> QED
    BY <2>1
<1>4. CASE On(a, r) /\ pending[r] # None
  <2>1. PICK p \in Action : p = pending[r]
    BY <1>0, <1>4 DEF TypeOK
  <2>2. /\ pending'[r] = None
        /\ \/ /\ current'[r] = p /\ owner'[r] = p
              /\ lease'[p] = token'[r] /\ state'[p] = "preparing"
           \/ current'[r] = None /\ owner'[r] = None
    BY <1>4, <2>1, FinishStarts
  <2>3. ResourceOf[p] = r /\ p # None /\ p = latest[r]
    BY <1>0, <2>1 DEF Placed, NewestRequestWins
  <2> QED
    BY <1>1, <2>2, <2>3 DEF Live
<1> QED
  BY <1>2, <1>3, <1>4

\* It takes no token back.
LEMMA FinishToken ==
    ASSUME Inv, NEW a \in Action, NEW raised \in BOOLEAN, NEW refused, NEW mute, NEW late,
           FinishHandle(a, raised, refused, mute, late), NEW r \in Resource
    PROVE  token[r] \in Nat /\ token'[r] \in {token[r], token[r] + 1, token[r] + 2}
<1>0. TypeOK
  BY DEF Inv
<1>1. token[r] \in Nat
  BY <1>0 DEF TypeOK
<1>2. CASE ~On(a, r)
  BY <1>1, <1>2, FinishElsewhere
<1>3. CASE On(a, r) /\ pending[r] = None
  BY <1>1, <1>3, FinishFree
<1>4. CASE On(a, r) /\ pending[r] # None
  <2>1. PICK p \in Action : p = pending[r]
    BY <1>0, <1>4 DEF TypeOK
  <2> QED
    BY <1>1, <1>4, <2>1, FinishStarts
<1> QED
  BY <1>2, <1>3, <1>4

\* What was told to stop has still been fenced, and ends as it should.
LEMMA FinishStop ==
    ASSUME Inv, NEW a \in Action, NEW raised \in BOOLEAN, NEW refused, NEW mute, NEW late,
           FinishHandle(a, raised, refused, mute, late)
    PROVE  StopInv' /\ CancelledIsFenced'
<1>0. TypeOK /\ StopInv /\ CancelledIsFenced
  BY DEF Inv
<1>1. cancelled' = cancelled
  BY FinishStates
<1>2. ASSUME NEW c \in cancelled
      PROVE  /\ state'[c] \in {"stopping", "cancelled", "failed"}
             /\ lease'[c] < token'[ResourceOf[c]]
  <2>1. /\ c \in Action /\ state[c] \in {"stopping", "cancelled", "failed"}
        /\ lease[c] \in Nat /\ lease[c] < token[ResourceOf[c]]
        /\ ResourceOf[c] \in Resource
    BY <1>0 DEF TypeOK, StopInv, CancelledIsFenced
  <2>2. lease'[c] = lease[c]
    BY <2>1, FinishStates
  <2>3. /\ token[ResourceOf[c]] \in Nat
        /\ token'[ResourceOf[c]] \in {token[ResourceOf[c]], token[ResourceOf[c]] + 1,
                                      token[ResourceOf[c]] + 2}
    BY <2>1, FinishToken
  <2>4. c # a => state'[c] = state[c]
    BY <2>1, FinishStates
  <2>5. c = a => state'[c] \in {"cancelled", "failed"}
    BY FinishStates DEF Final
  <2> QED
    BY <2>1, <2>2, <2>3, <2>4, <2>5
<1> QED
  BY <1>1, <1>2 DEF StopInv, CancelledIsFenced

\* The newest request stays in charge and the output is not ahead.
LEMMA FinishOutput ==
    ASSUME Inv, NEW a \in Action, NEW raised \in BOOLEAN, NEW refused, NEW mute, NEW late,
           FinishHandle(a, raised, refused, mute, late)
    PROVE  OutputFollowsOwner'
<1> SUFFICES ASSUME NEW r \in Resource
             PROVE  /\ output'[r].token <= token'[r]
                    /\ r \notin Lossy => output'[r] = Told(token'[r], owner'[r])
                    /\ output'[r].action \notin {None, owner'[r]} => output'[r].token < token'[r]
  BY DEF OutputFollowsOwner, Told
<1>0. /\ TypeOK /\ token[r] \in Nat /\ output[r].token \in Nat
      /\ output[r].token <= token[r]
      /\ r \notin Lossy => output[r] = Told(token[r], owner[r])
      /\ output[r].action \notin {None, owner[r]} => output[r].token < token[r]
  BY DEF Inv, TypeOK, OutputFollowsOwner, Told
<1>1. CASE ~On(a, r)
  BY <1>0, <1>1, FinishElsewhere
<1>2. CASE On(a, r) /\ pending[r] = None
  <2>1. /\ owner'[r] = None
        /\ \/ token'[r] = token[r] /\ owner[r] = None /\ output'[r] = output[r]
           \/ /\ token'[r] = token[r] + 1
              /\ \/ output'[r] = Told(token[r] + 1, None)
                 \/ r \in Lossy /\ output'[r] = output[r]
    BY <1>2, FinishFree
  <2> QED
    BY <1>0, <2>1, ToldFields
<1>3. CASE On(a, r) /\ pending[r] # None
  <2>1. PICK p \in Action : p = pending[r]
    BY <1>0, <1>3 DEF TypeOK
  <2>2. \/ /\ token'[r] = token[r] + 1 /\ owner'[r] = p
           /\ output'[r] = Told(token'[r], p)
        \/ /\ token'[r] = token[r] + 2 /\ owner'[r] = None
           /\ \/ output'[r] = Told(token'[r], None)
              \/ /\ r \in Lossy
                 /\ \/ output'[r] = output[r]
                    \/ output'[r] = Told(token[r] + 1, p)
    BY <1>3, <2>1, FinishStarts
  <2> QED
    BY <1>0, <2>2, ToldFields
<1> QED
  BY <1>1, <1>2, <1>3

\* Ending an action keeps the invariant.
LEMMA FinishInv ==
    ASSUME Inv, NEW a \in Action, NEW raised \in BOOLEAN, NEW refused, NEW mute, NEW late,
           FinishHandle(a, raised, refused, mute, late)
    PROVE  Inv'
  BY FinishType, FinishOwner, FinishStop, FinishOutput DEF Inv

----------------------------------------------------------------------------
\* A step that changes nothing keeps the invariant.
LEMMA StutterInv ==
    ASSUME Inv, UNCHANGED vars
    PROVE  Inv'
  BY DEF vars, Inv, TypeOK, Placed, StopInv, OwnerRunsUnstopped, WaitsBehindStopping,
         CancelledIsFenced, NewestRequestWins, OutputFollowsOwner

\* The invariant is inductive.
LEMMA NextInv == Inv /\ [Next]_vars => Inv'
<1> SUFFICES ASSUME Inv, [Next]_vars PROVE Inv'
  OBVIOUS
<1>1. ASSUME NEW A \in SUBSET Action, NEW refused, NEW late, NEW mute,
             ApplyBundle(A, refused, mute, late)
      PROVE  Inv'
  BY <1>1, BundleInv
<1>2. ASSUME NEW mute, HaltAll(mute) PROVE Inv'
  BY <1>2, HaltInv
<1>3. ASSUME NEW a \in Action, MarkRunning(a) PROVE Inv'
  BY <1>3, MarkInv
<1>4. ASSUME NEW a \in Action, Finish(a) PROVE Inv'
  <2>1. PICK raised, refused, late, mute :
            raised \in BOOLEAN /\ FinishHandle(a, raised, refused, mute, late)
    BY <1>4 DEF Finish
  <2> QED
    BY <2>1, FinishInv
<1>5. CASE UNCHANGED vars
  BY <1>5, StutterInv
<1> QED
  BY <1>1, <1>2, <1>3, <1>4, <1>5 DEF Next

\* The invariant holds throughout; every property below is a part of it or
\* follows from it in one step.
THEOREM SupervisorInvariant == Spec => []Inv
<1>1. Init => Inv
  BY InitInv
<1>2. Inv /\ [Next]_vars => Inv'
  BY NextInv
<1> QED
  BY <1>1, <1>2, PTL DEF Spec

----------------------------------------------------------------------------
\* Type correctness of the supervisor: its maps hold action ids of the
\* resource's own kind, its tokens are naturals.
THEOREM SupervisorTypes == Spec => []TypeOK
<1>1. Inv => TypeOK
  BY DEF Inv
<1> QED
  BY <1>1, SupervisorInvariant, PTL

\* A resource is owned exactly while its action runs unstopped, so acquire and
\* invalidate never meet the errors of control_resources.py:31 and 45.
THEOREM OwnershipIsExact == Spec => []OwnerRunsUnstopped
<1>1. Inv => OwnerRunsUnstopped
  BY DEF Inv
<1> QED
  BY <1>1, SupervisorInvariant, PTL

\* An action waits only behind one that is being stopped.
THEOREM NobodyWaitsIdly == Spec => []WaitsBehindStopping
<1>1. Inv => WaitsBehindStopping
  BY DEF Inv
<1> QED
  BY <1>1, SupervisorInvariant, PTL

\* Fencing precedes the cancel event (character_supervisor.py:430).
THEOREM FencedBeforeCancelled == Spec => []CancelledIsFenced
<1>1. Inv => CancelledIsFenced
  BY DEF Inv
<1> QED
  BY <1>1, SupervisorInvariant, PTL

\* Whatever owns or awaits a resource is its newest request.
THEOREM NewestWins == Spec => []NewestRequestWins
<1>1. Inv => NewestRequestWins
  BY DEF Inv
<1> QED
  BY <1>1, SupervisorInvariant, PTL

\* The output authority never runs ahead of the resource manager, and lags
\* behind it only where telling it to go neutral failed.
THEOREM OutputIsNeverAhead == Spec => []OutputFollowsOwner
<1>1. Inv => OutputFollowsOwner
  BY DEF Inv
<1> QED
  BY <1>1, SupervisorInvariant, PTL

\* All of these together: what the supervisor promises of its resources.
THEOREM SupervisorIsSafe == Spec => []SupervisorIsSound
<1>1. Inv => SupervisorIsSound
  BY DEF Inv, SupervisorIsSound
<1> QED
  BY <1>1, SupervisorInvariant, PTL

\* No step takes an action out of its final state, completes one that was told
\* to stop, or withdraws a cancel event.
THEOREM ActionsEndOnce == Spec => EndsOnce
<1> DEFINE Kept(a) == /\ state[a] \in Final => state'[a] = state[a]
                      /\ a \in cancelled => a \in cancelled' /\ state'[a] # "completed"
<1>1. ASSUME Inv, Next PROVE \A a \in Action : Kept(a)
  <2>0. StopInv /\ StopInv' /\ cancelled \subseteq Action
    BY <1>1, NextInv DEF Inv, TypeOK
  <2>1. ASSUME cancelled \subseteq cancelled', NEW a \in Action,
               state[a] \in Final => state'[a] = state[a]
        PROVE  Kept(a)
    BY <2>0, <2>1 DEF StopInv
  <2>2. ASSUME NEW A \in SUBSET Action, NEW refused, NEW late, NEW mute,
               ApplyBundle(A, refused, mute, late)
        PROVE  \A a \in Action : Kept(a)
    <3>1. \A a \in Action : state[a] \in Final => state'[a] = state[a]
      BY <1>1, <2>2, BundleStates
    <3>2. cancelled \subseteq cancelled'
      BY <2>2 DEF ApplyBundle
    <3> QED
      BY <2>1, <3>1, <3>2
  <2>3. ASSUME NEW mute, HaltAll(mute) PROVE \A a \in Action : Kept(a)
    <3>1. \A a \in Action : state[a] \in Final => state'[a] = state[a]
      BY <1>1, <2>3, HaltStates DEF Final, Live
    <3>2. cancelled \subseteq cancelled'
      BY <1>1, <2>3, HaltStates
    <3> QED
      BY <2>1, <3>1, <3>2
  <2>4. ASSUME NEW b \in Action, MarkRunning(b) PROVE \A a \in Action : Kept(a)
    <3>1. \A a \in Action : state[a] \in Final => state'[a] = state[a]
      BY <1>1, <2>4 DEF MarkRunning, Final, Inv, TypeOK
    <3>2. cancelled \subseteq cancelled'
      BY <2>4 DEF MarkRunning
    <3> QED
      BY <2>1, <3>1, <3>2
  <2>5. ASSUME NEW b \in Action, Finish(b) PROVE \A a \in Action : Kept(a)
    <3>1. PICK raised, refused, late, mute :
              raised \in BOOLEAN /\ FinishHandle(b, raised, refused, mute, late)
      BY <2>5 DEF Finish
    <3>2. \A a \in Action : state[a] \in Final => state'[a] = state[a]
      BY <1>1, <3>1, FinishStates DEF Final, Live
    <3>3. cancelled \subseteq cancelled'
      BY <1>1, <3>1, FinishStates
    <3> QED
      BY <2>1, <3>2, <3>3
  <2> HIDE DEF Kept
  <2> QED
    BY <1>1, <2>2, <2>3, <2>4, <2>5 DEF Next
<1>2. Inv /\ [Next]_vars => [\A a \in Action : Kept(a)]_vars
  BY <1>1
<1>3. [][\A a \in Action : Kept(a)]_vars => EndsOnce
  BY DEF EndsOnce
<1> QED
  BY <1>2, <1>3, SupervisorInvariant, PTL DEF Spec

----------------------------------------------------------------------------
(***************************************************************************)
(* The supervisor implements NewestOwner.  Two facts the invariant above   *)
(* does not give are needed: an action gets its lease when its turn comes  *)
(* and not before, and what the newest request is never was spent.         *)
(***************************************************************************)
Leased ==
    \A a \in Action :
        /\ state[a] \in {"new", "pending"} => lease[a] = 0
        /\ state[a] \in Live => lease[a] # 0

\* The newest request for a resource, as the refinement mapping has it.
Wanted(r) == IF pending[r] # None THEN pending[r] ELSE owner[r]

\* It asked for that resource, and is not spent; who owns is the newest request.
Fresh ==
    \A r \in Resource :
        /\ Wanted(r) # None => Wanted(r) \in Action \ Spent /\ ResourceOf[Wanted(r)] = r
        /\ owner[r] # None => Wanted(r) = owner[r]

MapInv ==
    /\ Inv
    /\ Leased
    /\ Fresh
    /\ cancelled \subseteq Spent

\* What one step may do to one resource, in the terms of NewestOwner.
Moves(r) ==
    \/ Wanted(r)' = Wanted(r) /\ owner'[r] = owner[r]
    \/ /\ Wanted(r)' \in Action \ Spent /\ ResourceOf[Wanted(r)'] = r
       /\ Wanted(r)' # Wanted(r)
       /\ owner'[r] = None \/ (owner[r] = None /\ owner'[r] = Wanted(r)')
    \/ /\ Wanted(r) # None /\ Wanted(r)' = Wanted(r)
       /\ owner[r] = None /\ owner'[r] = Wanted(r)
    \/ Wanted(r)' = None /\ owner'[r] = None

\* What one step may do to the action that waits for a resource.
Resolved(r) ==
    pending[r] # None => Wanted(r)' = pending[r] \/ state'[pending[r]] \in Final

\* What one step may do to one action: it ends for good, it keeps the lease it
\* has, and it gets one or ends only as the owner or the newest request, or as
\* one that is refused at once.
Follows(a, r) ==
    /\ state[a] \in Final => state'[a] \in Final
    /\ lease[a] # 0 => lease'[a] # 0
    /\ lease[a] = 0 /\ lease'[a] # 0 => owner'[r] = a \/ state'[a] \in Final
    /\ state[a] \notin Final /\ state'[a] \in Final =>
         \/ Wanted(r) = a \/ a \in Spent
         \/ Wanted(r) = None /\ Wanted(r)' = None

Tracks ==
    /\ \A r \in Resource : Moves(r) /\ Resolved(r)
    /\ \A a \in Action : Follows(a, ResourceOf[a])
    /\ cancelled \subseteq cancelled'

\* The newest request is never spent, and owns its resource if anyone does.
LEMMA LeasedIsFresh == Inv /\ Leased => Fresh
<1> SUFFICES ASSUME Inv, Leased, NEW r \in Resource
             PROVE  /\ Wanted(r) # None => Wanted(r) \in Action \ Spent
                                           /\ ResourceOf[Wanted(r)] = r
                    /\ owner[r] # None => Wanted(r) = owner[r]
  BY DEF Fresh
<1>0. TypeOK /\ Placed /\ OwnerRunsUnstopped /\ WaitsBehindStopping
  BY DEF Inv
<1>1. CASE pending[r] # None
  <2>1. /\ Wanted(r) = pending[r] /\ pending[r] \in Action
        /\ ResourceOf[pending[r]] = r /\ state[pending[r]] = "pending"
    BY <1>0, <1>1 DEF Wanted, TypeOK, Placed
  <2>2. lease[pending[r]] = 0
    BY <2>1 DEF Leased
  <2>3. owner[r] = None
    BY <1>0, <1>1 DEF OwnerRunsUnstopped, WaitsBehindStopping
  <2> QED
    BY <2>1, <2>2, <2>3 DEF Spent, Final
<1>2. CASE pending[r] = None
  <2>1. Wanted(r) = owner[r] /\ (owner[r] # None => owner[r] = current[r])
    BY <1>0, <1>2 DEF Wanted, OwnerRunsUnstopped
  <2>2. owner[r] # None => /\ owner[r] \in Action /\ ResourceOf[owner[r]] = r
                           /\ state[owner[r]] \in Live
    BY <1>0, <2>1 DEF Placed, TypeOK
  <2> QED
    BY <2>1, <2>2 DEF Spent, Final, Live
<1> QED
  BY <1>1, <1>2

\* Whoever was told to stop has lost the resource.
LEMMA CancelledIsSpent == Inv /\ Leased => cancelled \subseteq Spent
<1> SUFFICES ASSUME Inv, Leased, NEW a \in cancelled PROVE a \in Spent
  OBVIOUS
<1>0. TypeOK /\ StopInv /\ OwnerRunsUnstopped /\ CancelledIsFenced
  BY DEF Inv
<1>1. a \in Action /\ state[a] \in {"stopping", "cancelled", "failed"}
  BY <1>0 DEF TypeOK, StopInv
<1>2. CASE state[a] \in Final
  BY <1>1, <1>2 DEF Spent
<1>3. CASE state[a] = "stopping"
  <2>1. lease[a] # 0
    BY <1>1, <1>3 DEF Leased, Live
  <2>2. ResourceOf[a] \in Resource /\ owner[ResourceOf[a]] # a
    BY <1>0, <1>1, <1>3 DEF OwnerRunsUnstopped
  <2> QED
    BY <1>1, <2>1, <2>2 DEF Spent
<1> QED
  BY <1>1, <1>2, <1>3 DEF Final

\* A resource without a running action has no newest request.
LEMMA FreeIsUnwanted ==
    ASSUME Inv, NEW r \in Resource, current[r] = None
    PROVE  owner[r] = None /\ pending[r] = None /\ Wanted(r) = None
  BY DEF Inv, WaitsBehindStopping, OwnerRunsUnstopped, Wanted

\* A step that tracks NewestOwner in each resource and in each action takes one
\* of its steps.
LEMMA TracksIsNext ==
    ASSUME MapInv, MapInv', Tracks
    PROVE  Newest!Next
<1> DEFINE before == [r \in Resource |-> Wanted(r)]
           after == [r \in Resource |-> Wanted(r)']
           replaced == {before[r] : r \in {q \in Resource : after[q] # before[q]}} \ {None}
           refused == Spent' \ (Spent \cup replaced)
<1>0. TypeOK /\ TypeOK' /\ Leased /\ Leased' /\ Fresh /\ Fresh'
  BY DEF MapInv, Inv
<1>1. /\ \A r \in Resource : Moves(r) /\ Resolved(r)
      /\ \A a \in Action : Follows(a, ResourceOf[a])
  BY DEF Tracks
<1>2. \A r \in Resource : before[r] = Wanted(r) /\ after[r] = Wanted(r)'
  OBVIOUS
\* What is spent stays so.
<1>3. Spent \subseteq Spent'
  <2> SUFFICES ASSUME NEW a \in Action, a \in Spent PROVE a \in Spent'
    BY DEF Spent
  <2>1. CASE state[a] \in Final
    BY <1>1, <2>1 DEF Follows, Spent
  <2>2. CASE lease[a] # 0 /\ owner[ResourceOf[a]] # a
    <3>1. lease'[a] # 0
      BY <1>1, <2>2 DEF Follows
    <3>2. owner'[ResourceOf[a]] # a
      <4>1. /\ Wanted(ResourceOf[a]) # None => Wanted(ResourceOf[a]) # a
            /\ a # None
        BY <1>0 DEF Fresh
      <4> QED
        BY <1>1, <2>2, <4>1 DEF Moves
    <3> QED
      BY <3>1, <3>2 DEF Spent
  <2> QED
    BY <2>1, <2>2 DEF Spent
\* What was replaced is spent.
<1>4. replaced \subseteq Spent'
  <2> SUFFICES ASSUME NEW r \in Resource, Wanted(r)' # Wanted(r), Wanted(r) # None
               PROVE  Wanted(r) \in Spent'
    OBVIOUS
  <2>1. Wanted(r) \in Action /\ ResourceOf[Wanted(r)] = r
    BY <1>0 DEF Fresh
  <2>2. CASE pending[r] # None
    <3>1. Wanted(r) = pending[r] /\ state'[pending[r]] \in Final
      BY <1>1, <2>2 DEF Wanted, Resolved
    <3> QED
      BY <2>1, <3>1 DEF Spent
  <2>3. CASE pending[r] = None
    <3>1. Wanted(r) = owner[r]
      BY <2>3 DEF Wanted
    <3>2. owner'[r] = None
      BY <1>1, <3>1 DEF Moves
    <3>3. lease[Wanted(r)] # 0
      <4>1. OwnerRunsUnstopped /\ Placed
        BY DEF MapInv, Inv
      <4>2. Wanted(r) = current[r] /\ state[Wanted(r)] \in Live
        BY <3>1, <4>1 DEF OwnerRunsUnstopped, Placed
      <4> QED
        BY <1>0, <2>1, <4>2 DEF Leased
    <3>4. lease'[Wanted(r)] # 0
      BY <1>1, <2>1, <3>3 DEF Follows
    <3> QED
      BY <2>1, <3>2, <3>4 DEF Spent
  <2> QED
    BY <2>2, <2>3
\* What else is newly spent was refused.
<1>5. refused \subseteq {a \in Action \ Spent : /\ before[ResourceOf[a]] = None
                                                /\ after[ResourceOf[a]] = None}
  <2> SUFFICES ASSUME NEW a \in Action, a \in Spent', a \notin Spent, a \notin replaced
               PROVE  Wanted(ResourceOf[a]) = None /\ Wanted(ResourceOf[a])' = None
    BY DEF Spent
  <2> DEFINE r == ResourceOf[a]
  <2>0. r \in Resource /\ a # None
    OBVIOUS
  <2> HIDE DEF r
  <2>1. Wanted(r) # a
    <3>1. Wanted(r)' # a
      BY <1>0, <2>0 DEF Fresh
    <3> QED
      BY <2>0, <3>1
  <2>2. Follows(a, r)
    BY <1>1 DEF r
  <2>3. state[a] \notin Final /\ (lease[a] # 0 => owner[r] = a)
    BY DEF Spent, r
  <2>4. state'[a] \in Final \/ (lease'[a] # 0 /\ owner'[r] # a)
    BY DEF Spent, r
  <2>5. owner[r] # a
    BY <1>0, <2>0, <2>1 DEF Fresh
  <2>6. state'[a] \in Final
    BY <2>2, <2>3, <2>4, <2>5 DEF Follows
  <2> QED
    BY <2>1, <2>2, <2>3, <2>6 DEF Follows, r
<1>6. Spent' = Spent \cup replaced \cup refused
  BY <1>3, <1>4
<1>7. cancelled \subseteq cancelled' /\ cancelled' \subseteq Spent'
  BY DEF Tracks, MapInv
<1>8. \A r \in Resource : \/ Newest!Keeps(r) \/ Newest!Asks(r)
                          \/ Newest!Takes(r) \/ Newest!Yields(r)
  <2> SUFFICES ASSUME NEW r \in Resource
               PROVE  \/ Newest!Keeps(r) \/ Newest!Asks(r)
                      \/ Newest!Takes(r) \/ Newest!Yields(r)
    OBVIOUS
  <2> QED
    BY <1>1 DEF Moves, Wanted, Newest!Keeps, Newest!Asks, Newest!Takes, Newest!Yields
<1>9. refused \in SUBSET Newest!Refusable
  BY <1>5 DEF Newest!Refusable, Wanted
<1>10. Spent' = Spent \cup Newest!Replaced \cup refused
  BY <1>6 DEF Newest!Replaced, Wanted
<1> HIDE DEF refused
<1> QED
  BY <1>7, <1>8, <1>9, <1>10 DEF Newest!Next

\* Only an action whose turn comes gets a lease, and it keeps it.
LEMMA LeasedStep ==
    ASSUME TypeOK, Leased, NEW started, NEW fenced, NEW refused, NEW mute, NEW late,
           Reassign(fenced, started, refused, mute, late),
           \A r \in Resource : token[r] \in Nat,
           \A a \in Action :
              /\ a \in started => state[a] \in {"new", "pending"} /\ state'[a] \notin {"new", "pending"}
              /\ a \notin started /\ state'[a] \in {"new", "pending"} => state[a] \in {"new", "pending"}
              /\ a \notin started /\ state'[a] \in Live => state[a] \in Live
    PROVE  /\ Leased'
           /\ \A a \in Action : lease[a] # 0 => lease'[a] # 0
           /\ \A a \in Action : lease[a] = 0 /\ lease'[a] # 0 => a \in started
<1>1. ASSUME NEW a \in Action, a \notin started PROVE lease'[a] = lease[a]
  BY <1>1, ReassignLease
<1>2. ASSUME NEW a \in Action, a \in started PROVE lease'[a] # 0
  <2>1. /\ lease'[a] = TokenAfter(fenced, started, {}, ResourceOf[a])
        /\ Needs(started, ResourceOf[a]) /\ token[ResourceOf[a]] \in Nat
    BY <1>2 DEF Reassign, Needs
  <2> QED
    BY <2>1 DEF TokenAfter
<1> QED
  BY <1>1, <1>2 DEF Leased

\* A bundle: who finds its resource free owns it at once or is refused, and who
\* does not replaces whoever waited.
LEMMA BundleTracks ==
    ASSUME MapInv, NEW A \in SUBSET Action, NEW refused, NEW mute, NEW late,
           ApplyBundle(A, refused, mute, late)
    PROVE  Leased' /\ Tracks
<1> DEFINE R == {ResourceOf[a] : a \in A}
           fenced == Stoppable(R)
           started == {a \in A : current[ResourceOf[a]] = None}
<1>0. Inv /\ TypeOK /\ Placed /\ Leased /\ Fresh
  BY DEF MapInv, Inv
<1>1. /\ Reassign(fenced, started, refused, mute, late) /\ \A a \in A : state[a] = "new"
      /\ refused \subseteq started /\ started \in SUBSET A
  BY DEF ApplyBundle
<1>2. /\ \A b \in Action : state[b] \in Final => state'[b] = state[b]
      /\ \A b \in Action : b \notin A =>
           \/ state'[b] = state[b]
           \/ state[b] = "pending" /\ state'[b] = "cancelled"
           \/ state[b] \in Live /\ state'[b] = "stopping" /\ b \in cancelled'
  BY <1>0, BundleStates
<1>3. \A a \in A : state'[a] = IF a \in refused THEN "failed"
                               ELSE IF a \in started THEN "preparing" ELSE "pending"
  BY <1>0 DEF ApplyBundle
<1>4. \A b \in Action : state'[b] \in Final /\ state[b] \notin Final /\ b \notin A =>
          \E r \in R : b = pending[r]
  BY <1>2 DEF ApplyBundle, Pendings, Currents, Stoppable, Final
<1>5. /\ Leased'
      /\ \A a \in Action : lease[a] # 0 => lease'[a] # 0
      /\ \A a \in Action : lease[a] = 0 /\ lease'[a] # 0 => a \in started
  <2>1. \A a \in Action :
           /\ a \in started => state[a] \in {"new", "pending"} /\ state'[a] \notin {"new", "pending"}
           /\ a \notin started /\ state'[a] \in {"new", "pending"} => state[a] \in {"new", "pending"}
           /\ a \notin started /\ state'[a] \in Live => state[a] \in Live
    <3>1. ASSUME NEW a \in Action, a \in A
          PROVE  /\ a \in started => state[a] \in {"new", "pending"} /\ state'[a] \notin {"new", "pending"}
                 /\ a \notin started /\ state'[a] \in {"new", "pending"} => state[a] \in {"new", "pending"}
                 /\ a \notin started /\ state'[a] \in Live => state[a] \in Live
      BY <1>1, <1>3, <3>1 DEF Live
    <3>2. ASSUME NEW a \in Action, a \notin A
          PROVE  /\ a \notin started
                 /\ state'[a] \in {"new", "pending"} => state[a] \in {"new", "pending"}
                 /\ state'[a] \in Live => state[a] \in Live
      BY <1>1, <1>2, <3>2 DEF Live
    <3> QED
      BY <3>1, <3>2
  <2>2. \A r \in Resource : token[r] \in Nat
    BY <1>0 DEF TypeOK
  <2> HIDE DEF started, fenced
  <2> QED
    BY <1>0, <1>1, <2>1, <2>2, LeasedStep
\* A resource that gets a request.
<1>6. ASSUME NEW a \in A, NEW r \in Resource, On(a, r), current[r] = None
      PROVE  /\ owner[r] = None /\ Wanted(r) = None /\ pending[r] = None
             /\ \/ a \notin refused /\ Wanted(r)' = a /\ owner'[r] = a
                \/ a \in refused /\ Wanted(r)' = None /\ owner'[r] = None
  <2>1. owner[r] = None /\ pending[r] = None /\ Wanted(r) = None
    BY <1>0, <1>6, FreeIsUnwanted
  <2>2. /\ pending'[r] = None
        /\ \/ a \notin refused /\ owner'[r] = a
           \/ a \in refused /\ owner'[r] = None
    BY <1>0, <1>6, BundleStarted
  <2> QED
    BY <2>1, <2>2 DEF Wanted
<1>7. ASSUME NEW a \in A, NEW r \in Resource, On(a, r), current[r] # None
      PROVE  Wanted(r)' = a /\ owner'[r] = None /\ a \notin refused
  <2>1. pending'[r] = a /\ owner'[r] = None /\ a \notin refused
    BY <1>0, <1>7, BundleWaiting
  <2> QED
    BY <2>1 DEF Wanted
<1>8. ASSUME NEW r \in Resource, \A a \in A : ~On(a, r)
      PROVE  Wanted(r)' = Wanted(r) /\ owner'[r] = owner[r] /\ pending'[r] = pending[r]
  <2>1. pending'[r] = pending[r] /\ owner'[r] = owner[r]
    BY <1>0, <1>8, BundleElsewhere
  <2> QED
    BY <2>1 DEF Wanted
\* The actions of the bundle are new ones.
<1>9. ASSUME NEW a \in A
      PROVE  /\ a \in Action \ Spent
             /\ \A r \in Resource : Wanted(r) # a /\ pending[r] # a
  <2>1. state[a] = "new" /\ lease[a] = 0 /\ a # None
    BY <1>0, <1>1 DEF Leased
  <2>2. \A r \in Resource : pending[r] # a /\ owner[r] # a
    BY <1>0, <2>1 DEF Placed, Inv, OwnerRunsUnstopped, Live
  <2> QED
    BY <2>1, <2>2 DEF Spent, Final, Wanted
<1>10. ASSUME NEW r \in Resource PROVE Moves(r) /\ Resolved(r)
  <2>1. CASE \A a \in A : ~On(a, r)
    <3>1. Wanted(r)' = Wanted(r) /\ owner'[r] = owner[r] /\ pending'[r] = pending[r]
      BY <1>8, <2>1
    <3>2. pending[r] # None => Wanted(r)' = pending[r]
      BY <3>1 DEF Wanted
    <3> QED
      BY <3>1, <3>2 DEF Moves, Resolved
  <2>2. ASSUME NEW a \in A, On(a, r) PROVE Moves(r)
    <3>1. ResourceOf[a] = r /\ a \in Action \ Spent /\ Wanted(r) # a
      BY <1>9, <2>2 DEF On
    <3>2. CASE current[r] = None
      BY <1>6, <2>2, <3>1, <3>2 DEF Moves
    <3>3. CASE current[r] # None
      BY <1>7, <2>2, <3>1, <3>3 DEF Moves
    <3> QED
      BY <3>2, <3>3
  <2>3. ASSUME NEW a \in A, On(a, r), pending[r] # None PROVE state'[pending[r]] \in Final
    <3>1. pending[r] \in Action /\ pending[r] \notin A
      BY <1>0, <1>9, <2>3 DEF TypeOK
    <3>2. r \in R
      BY <2>3 DEF On
    <3>3. pending[r] \in Pendings(R)
      BY <2>3, <3>2 DEF Pendings
    <3>4. state'[pending[r]] = "cancelled"
      BY <1>1, <3>1, <3>3 DEF ApplyBundle
    <3> QED
      BY <3>4 DEF Final
  <2> QED
    BY <2>1, <2>2, <2>3 DEF Resolved
<1>11. ASSUME NEW a \in Action, NEW r \in Resource, On(a, r) PROVE Follows(a, r)
  <2>1. lease[a] = 0 /\ lease'[a] # 0 => owner'[r] = a \/ state'[a] \in Final
    <3> SUFFICES ASSUME a \in started PROVE owner'[r] = a \/ state'[a] \in Final
      BY <1>5
    <3>1. a \in A /\ current[r] = None
      BY <1>11 DEF On
    <3> QED
      BY <1>3, <1>6, <1>11, <3>1 DEF Final
  <2>2. ASSUME state[a] \notin Final, state'[a] \in Final
        PROVE  Wanted(r) = a \/ (Wanted(r) = None /\ Wanted(r)' = None)
    <3>1. CASE a \in A
      <4>1. a \in refused
        BY <1>3, <2>2, <3>1 DEF Final
      <4> QED
        BY <1>6, <1>7, <1>11, <3>1, <4>1
    <3>2. CASE a \notin A
      <4>1. PICK q \in Resource : a = pending[q]
        BY <1>4, <2>2, <3>2
      <4>2. q = r
        BY <1>0, <1>11, <4>1 DEF Placed, On
      <4> QED
        BY <4>1, <4>2 DEF Wanted
    <3> QED
      BY <3>1, <3>2
  <2> QED
    BY <1>2, <1>5, <2>1, <2>2 DEF Follows
<1>12. cancelled \subseteq cancelled'
  BY DEF ApplyBundle
<1>13. \A a \in Action : ResourceOf[a] \in Resource /\ On(a, ResourceOf[a])
  BY DEF On
<1> HIDE DEF R, fenced, started
<1> QED
  BY <1>5, <1>10, <1>11, <1>12, <1>13 DEF Tracks

\* A halt leaves no newest request.
LEMMA HaltTracks ==
    ASSUME MapInv, NEW mute, HaltAll(mute)
    PROVE  Leased' /\ Tracks
<1>0. Inv /\ TypeOK /\ Leased /\ Placed
  BY DEF MapInv, Inv
<1>1. /\ \A b \in Action : /\ \/ state'[b] = state[b]
                              \/ state[b] = "pending" /\ state'[b] = "cancelled"
                              \/ state[b] \in Live /\ state'[b] = "stopping"
      /\ cancelled \subseteq cancelled'
  BY <1>0, HaltStates
<1>2. /\ lease' = lease /\ \A b \in Pendings(Resource) : state'[b] \in Final
      /\ \A b \in Action : state[b] = "pending" /\ state'[b] = "cancelled" => b \in Pendings(Resource)
  BY <1>0 DEF HaltAll, Pendings, Placed, TypeOK, Final
<1>3. Leased'
  BY <1>0, <1>1, <1>2 DEF Leased, Live
<1>4. ASSUME NEW r \in Resource PROVE Wanted(r)' = None /\ Moves(r) /\ Resolved(r)
  <2>1. pending'[r] = None /\ owner'[r] = None
    BY <1>0, HaltResource
  <2>2. pending[r] # None => state'[pending[r]] \in Final
    BY <1>2 DEF Pendings
  <2> QED
    BY <2>1, <2>2 DEF Wanted, Moves, Resolved
<1>5. ASSUME NEW a \in Action PROVE Follows(a, ResourceOf[a])
  <2>1. state[a] \in Final => state'[a] \in Final
    BY <1>1 DEF Final, Live
  <2>2. ASSUME state[a] \notin Final, state'[a] \in Final
        PROVE  Wanted(ResourceOf[a]) = a
    <3>1. a \in Pendings(Resource)
      BY <1>1, <1>2, <2>2 DEF Final
    <3>2. PICK r \in Resource : a = pending[r] /\ pending[r] # None
      BY <3>1 DEF Pendings
    <3> QED
      BY <1>0, <3>2 DEF Placed, Wanted
  <2> QED
    BY <1>2, <2>1, <2>2 DEF Follows
<1> QED
  BY <1>1, <1>3, <1>4, <1>5 DEF Tracks

\* Announcing that it runs changes nobody's turn.
LEMMA MarkTracks ==
    ASSUME MapInv, NEW a \in Action, MarkRunning(a)
    PROVE  Leased' /\ Tracks
<1>0. TypeOK /\ Leased
  BY DEF MapInv, Inv
<1>1. /\ state[a] = "preparing"
      /\ \A b \in Action : state'[b] = IF b = a THEN "running" ELSE state[b]
      /\ lease' = lease /\ pending' = pending /\ owner' = owner /\ cancelled' = cancelled
  BY <1>0 DEF MarkRunning, TypeOK
<1>2. Leased'
  BY <1>0, <1>1 DEF Leased, Live
<1>3. \A b \in Action : /\ state[b] \in Final => state'[b] \in Final
                        /\ state'[b] \in Final => state[b] \in Final
  BY <1>1 DEF Final
<1>4. \A r \in Resource : Wanted(r)' = Wanted(r) /\ Moves(r) /\ Resolved(r)
  BY <1>1 DEF Wanted, Moves, Resolved
<1> QED
  BY <1>1, <1>2, <1>3, <1>4 DEF Tracks, Follows

\* An end: whoever waited owns the resource now, or was refused it.
LEMMA FinishTracks ==
    ASSUME MapInv, NEW a \in Action, NEW raised \in BOOLEAN, NEW refused, NEW mute, NEW late,
           FinishHandle(a, raised, refused, mute, late)
    PROVE  Leased' /\ Tracks
<1>0. Inv /\ TypeOK /\ Placed /\ Leased /\ Fresh
  BY DEF MapInv, Inv
<1>1. PICK r \in Resource : On(a, r)
  BY DEF On
<1> DEFINE fenced == Stoppable({r})
           started == Pendings({r})
<1>2. /\ current[r] = a /\ state[a] \in Live
      /\ refused \in SUBSET started /\ late \in SUBSET refused
      /\ Reassign(fenced, started, refused, mute, late)
      /\ pending'[r] = None /\ cancelled' = cancelled
      /\ \A b \in Action : state'[b] = IF b = a THEN Outcome(a, raised)
                                       ELSE IF b \in refused THEN "failed"
                                       ELSE IF b \in started THEN "preparing"
                                       ELSE state[b]
  <2>1. Finished(a, r, raised, refused, mute, late)
    BY <1>0, <1>1, FinishFacts
  <2> QED
    BY <1>0, <2>1 DEF Finished, TypeOK
<1>3. /\ pending[r] = None => started = {}
      /\ pending[r] # None => started = {pending[r]}
      /\ \A b \in started : /\ b = pending[r] /\ ResourceOf[b] = r /\ b \in Action
                            /\ state[b] = "pending" /\ b # a
  BY <1>0, <1>2, PendingsOfOne DEF Placed, Live
<1>4. state'[a] \in Final
  BY <1>2 DEF Outcome, Final
<1>5. /\ Leased'
      /\ \A b \in Action : lease[b] # 0 => lease'[b] # 0
      /\ \A b \in Action : lease[b] = 0 /\ lease'[b] # 0 => b \in started
  <2>1. \A b \in Action :
           /\ b \in started => state[b] \in {"new", "pending"} /\ state'[b] \notin {"new", "pending"}
           /\ b \notin started /\ state'[b] \in {"new", "pending"} => state[b] \in {"new", "pending"}
           /\ b \notin started /\ state'[b] \in Live => state[b] \in Live
    BY <1>2, <1>3, <1>4 DEF Final, Live
  <2>2. \A q \in Resource : token[q] \in Nat
    BY <1>0 DEF TypeOK
  <2> HIDE DEF started, fenced
  <2> QED
    BY <1>0, <1>2, <2>1, <2>2, LeasedStep
<1>6. ASSUME NEW q \in Resource, q # r
      PROVE  Wanted(q)' = Wanted(q) /\ owner'[q] = owner[q] /\ pending'[q] = pending[q]
  <2>1. ~On(a, q)
    BY <1>1, <1>6 DEF On
  <2> QED
    BY <1>0, <2>1, FinishElsewhere DEF Wanted
<1>7. \/ /\ pending[r] = None /\ Wanted(r)' = None /\ owner'[r] = None
      \/ /\ pending[r] # None /\ owner[r] = None /\ Wanted(r) = pending[r]
         /\ \/ owner'[r] = pending[r] /\ Wanted(r)' = pending[r]
            \/ /\ owner'[r] = None /\ Wanted(r)' = None
               /\ state'[pending[r]] \in Final
  <2>1. CASE pending[r] = None
    <3>1. owner'[r] = None
      BY <1>0, <1>1, <2>1, FinishFree
    <3> QED
      BY <1>2, <2>1, <3>1 DEF Wanted
  <2>2. CASE pending[r] # None
    <3>1. pending[r] \in Action /\ Wanted(r) = pending[r] /\ owner[r] = None
      BY <1>0, <2>2 DEF TypeOK, Wanted, Inv, WaitsBehindStopping, OwnerRunsUnstopped
    <3>2. \/ owner'[r] = pending[r]
          \/ owner'[r] = None
      BY <1>0, <1>1, <3>1, FinishStarts
    <3>3. owner'[r] = None => pending[r] \in refused
      <4> SUFFICES ASSUME pending[r] \notin refused PROVE owner'[r] = pending[r]
        BY <3>1
      <4>1. /\ started \in SUBSET Action /\ OnePerResource(started)
            /\ pending[r] \in started \ refused /\ On(pending[r], r)
        <5>1. started \in SUBSET Action /\ OnePerResource(started)
          BY <1>0, PendingsOfOne
        <5>2. pending[r] \in started
          BY <1>3, <2>2
        <5> HIDE DEF started
        <5> QED
          BY <1>3, <5>1, <5>2 DEF On
      <4>2. r \notin fenced
        BY <1>0, <1>2, <2>2 DEF Stoppable, Inv, WaitsBehindStopping
      <4> HIDE DEF started, fenced
      <4> QED
        BY <1>0, <1>2, <4>1, <4>2, ReassignStarted
    <3>4. owner'[r] = None => state'[pending[r]] \in Final
      BY <1>2, <1>3, <3>1, <3>3 DEF Final
    <3> QED
      BY <1>2, <2>2, <3>1, <3>2, <3>4 DEF Wanted
  <2> QED
    BY <2>1, <2>2
<1>8. ASSUME NEW q \in Resource PROVE Moves(q) /\ Resolved(q)
  <2>1. CASE q = r
    BY <1>7, <2>1 DEF Moves, Resolved
  <2>2. CASE q # r
    <3>1. pending[q] # None => Wanted(q)' = pending[q]
      BY <1>6, <2>2 DEF Wanted
    <3> QED
      BY <1>6, <2>2, <3>1 DEF Moves, Resolved
  <2> QED
    BY <2>1, <2>2
<1>9. ASSUME NEW b \in Action PROVE Follows(b, ResourceOf[b])
  <2>1. state[b] \in Final => state'[b] \in Final
    BY <1>2, <1>3, <1>4 DEF Final
  <2>2. ASSUME lease[b] = 0, lease'[b] # 0
        PROVE  owner'[ResourceOf[b]] = b \/ state'[b] \in Final
    <3>1. b \in started
      BY <1>5, <2>2
    <3>2. b = pending[r] /\ ResourceOf[b] = r /\ b # None
      BY <1>3, <3>1
    <3> QED
      BY <1>7, <3>2
  <2>3. ASSUME state[b] \notin Final, state'[b] \in Final
        PROVE  Wanted(ResourceOf[b]) = b \/ b \in Spent
    <3>1. CASE b = a
      <4>1. ResourceOf[b] = r /\ lease[b] # 0
        BY <1>0, <1>1, <1>2, <3>1 DEF On, Leased
      <4>2. owner[r] = b => Wanted(r) = b
        BY <1>0 DEF Fresh
      <4> QED
        BY <4>1, <4>2 DEF Spent
    <3>2. CASE b # a
      <4>1. b \in started
        BY <1>2, <2>3, <3>2 DEF Final
      <4> QED
        BY <1>3, <4>1 DEF Wanted
    <3> QED
      BY <3>1, <3>2
  <2> QED
    BY <1>5, <2>1, <2>2, <2>3 DEF Follows
<1> HIDE DEF started, fenced
<1> QED
  BY <1>2, <1>5, <1>8, <1>9 DEF Tracks

\* Leases follow the states of the actions throughout.
LEMMA LeasedInit == Init => Leased
  BY DEF Init, Leased, Live

\* Every step keeps leases in step and tracks NewestOwner.
LEMMA NextTracks ==
    ASSUME MapInv, Next
    PROVE  Leased' /\ Tracks
<1>1. ASSUME NEW A \in SUBSET Action, NEW refused, NEW late, NEW mute,
             ApplyBundle(A, refused, mute, late)
      PROVE  Leased' /\ Tracks
  BY <1>1, BundleTracks
<1>2. ASSUME NEW mute, HaltAll(mute) PROVE Leased' /\ Tracks
  BY <1>2, HaltTracks
<1>3. ASSUME NEW a \in Action, MarkRunning(a) PROVE Leased' /\ Tracks
  BY <1>3, MarkTracks
<1>4. ASSUME NEW a \in Action, Finish(a) PROVE Leased' /\ Tracks
  <2>1. PICK raised, refused, late, mute :
            raised \in BOOLEAN /\ FinishHandle(a, raised, refused, mute, late)
    BY <1>4 DEF Finish
  <2> QED
    BY <2>1, FinishTracks
<1> QED
  BY <1>1, <1>2, <1>3, <1>4 DEF Next

\* The invariant the refinement needs holds throughout.
THEOREM MapInvariant == Spec => []MapInv
<1>1. Init => Inv /\ Leased
  BY InitInv, LeasedInit
<1>2. Inv /\ Leased => MapInv
  BY LeasedIsFresh, CancelledIsSpent DEF MapInv
<1>3. MapInv /\ [Next]_vars => MapInv'
  <2>1. MapInv /\ [Next]_vars => (Inv /\ Leased)'
    <3>1. MapInv /\ [Next]_vars => Inv'
      BY NextInv DEF MapInv
    <3>2. MapInv /\ Next => Leased'
      BY NextTracks
    <3>3. MapInv /\ UNCHANGED vars => Leased'
      BY DEF MapInv, Leased, vars
    <3> QED
      BY <3>1, <3>2, <3>3
  <2>2. (Inv /\ Leased)' => MapInv'
    BY <1>2, PTL
  <2> QED
    BY <2>1, <2>2
<1> QED
  BY <1>1, <1>2, <1>3, PTL DEF Spec

\* The supervisor implements NewestOwner: at most one request owns a resource
\* and it is the newest; what was replaced, halted, ended or refused never owns
\* again; nothing is told to stop that has not lost its resource
\* (character_supervisor.py:297-357, 424-451).
THEOREM NewestOwnerImplemented == Spec => OneNewestOwner
<1>1. Init => Newest!Init
  BY DEF Init, Newest!Init, Spent, Final
<1>2. MapInv /\ MapInv' /\ [Next]_vars => [Newest!Next]_(Newest!vars)
  <2>1. MapInv /\ MapInv' /\ Next => Newest!Next
    BY NextTracks, TracksIsNext
  <2>2. UNCHANGED vars => UNCHANGED Newest!vars
    BY DEF vars, Newest!vars, Spent
  <2> QED
    BY <2>1, <2>2
<1> QED
  BY <1>1, <1>2, MapInvariant, PTL DEF Spec, OneNewestOwner, Newest!Spec

\* What NewestOwner allows comes to its Promise: no request owns a resource but
\* the newest, and none whose time is over ever is the newest again
\* (character_supervisor.py:297-357, 424-451).
THEOREM NewestOwnerPromises == OneNewestOwner => []Newest!Promise
<1>1. Newest!Init => Newest!Promise
  BY DEF Newest!Init, Newest!Promise
<1> DEFINE wants == [r \in Resource |-> IF pending[r] # None THEN pending[r] ELSE owner[r]]
<1>2. ASSUME Newest!Promise, Newest!Next
      PROVE  Newest!Promise'
  <2>1. PICK refused \in SUBSET Newest!Refusable : Spent' = Spent \cup Newest!Replaced \cup refused
    BY <1>2 DEF Newest!Next
  <2>2. ASSUME NEW r \in Resource
        PROVE  /\ owner'[r] \in {None, wants'[r]}
               /\ wants'[r] # None => wants'[r] \in Action \ Spent' /\ ResourceOf[wants'[r]] = r
    <3>1. /\ owner[r] \in {None, wants[r]}
          /\ wants[r] # None => wants[r] \in Action \ Spent /\ ResourceOf[wants[r]] = r
      BY <1>2, <2>2 DEF Newest!Promise
    <3>2. /\ owner'[r] \in {None, wants'[r]}
          /\ wants'[r] # None => wants'[r] \in Action \ Spent /\ ResourceOf[wants'[r]] = r
      BY <1>2, <2>2, <3>1, SupervisorAssumption
         DEF Newest!Next, Newest!Keeps, Newest!Asks, Newest!Takes, Newest!Yields
    <3>3. wants'[r] # None => wants'[r] \notin refused
      BY <2>1, <3>2 DEF Newest!Refusable
    <3>4. ASSUME wants'[r] # None, wants'[r] \in Newest!Replaced
          PROVE  FALSE
      <4>1. PICK q \in Resource : wants'[q] # wants[q] /\ wants[q] = wants'[r] /\ wants[q] # None
        BY <3>4 DEF Newest!Replaced
      <4>2. ResourceOf[wants[q]] = q
        BY <1>2, <4>1 DEF Newest!Promise
      <4>3. q = r
        BY <3>2, <3>4, <4>1, <4>2
      <4> QED
        BY <4>1, <4>3
    <3> QED
      BY <2>1, <3>2, <3>3, <3>4
  <2>3. cancelled' \subseteq Spent'
    BY <1>2 DEF Newest!Next
  <2> QED
    BY <2>2, <2>3 DEF Newest!Promise
<1>3. Newest!Promise /\ UNCHANGED Newest!vars => Newest!Promise'
  BY DEF Newest!Promise, Newest!vars
<1> QED
  BY <1>1, <1>2, <1>3, PTL DEF OneNewestOwner, Newest!Spec
=============================================================================
