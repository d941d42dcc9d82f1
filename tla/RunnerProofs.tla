----------------------------- MODULE RunnerProofs -----------------------------
(***************************************************************************)
(* Proofs about Runner, for any number of clients, starts, changes of the  *)
(* profile and kills; about Setup, for any number of clients, jobs and     *)
(* kills; about Wire, for connections of any length one after another,     *)
(* with chunks of any size; and about Decision, for any number of images.  *)
(***************************************************************************)
EXTENDS Runner, Setup, Wire, Decision, SequenceTheorems, TLAPS

(***************************************************************************)
(* The inductive invariant, part by part.                                  *)
(***************************************************************************)

\* The record is that of the newest start, whoever wrote to it last.
Files ==
    /\ profile \in 0..MaxCommits /\ starts \in 0..MaxStarts /\ kills \in 0..MaxKills
    /\ record \in RecordOf(starts)
    /\ unnoticed \subseteq Ticket

Observing == {"startSeen", "stopSeen", "pollSeen", "commitSeen"}

Places == {"idle", "start", "stop", "poll", "commit", "spawn", "identify", "stopped"} \cup Observing

\* Who is busy holds the lock; what he has read is the newest start's record.
Clients ==
    /\ lock \in Client \cup {Nobody}
    /\ client \in [Client -> [pc : Places, seen : {NoRecord} \cup RecordOf(starts)]]
    /\ \A c \in Client :
         /\ ~At(c, "idle") => lock = c
         /\ client[c].pc \in Observing => client[c].seen \in RecordOf(starts)
         /\ client[c].pc \notin Observing => client[c].seen = NoRecord
         /\ client[c].pc \in {"spawn", "identify"} => starts # 0

\* A worker is none until its start has spawned it, its service is none until
\* it has spawned that, and it says at the end that its service is over.
Processes ==
    /\ worker \in [Ticket -> {"none", "spawned", "read", "identified", "parent", "running",
                              "asked", "raised", "stopping", "stopped", "failed", "leaving", "gone"}]
    /\ child \in [Ticket -> {"none", "alive", "gone"}]
    /\ \A t \in Ticket :
         /\ t > starts => worker[t] = "none"
         /\ worker[t] \in {"none", "spawned", "read", "identified"} => child[t] = "none"
         /\ worker[t] \in {"stopped", "failed", "leaving"} => child[t] # "alive"
    /\ \A c \in Client : At(c, "spawn") => worker[starts] = "none"

Lives(t) == WorkerLives(t) \/ ChildLives(t)

Known(t) == t \in Ticket /\ t \notin unnoticed

\* The record r tells that the start lives: by its worker, and by the service
\* once that is alone.
Tells(r, t) ==
    /\ WorkerLives(t) => r.supervisor = t
    /\ ChildLives(t) /\ ~WorkerLives(t) => r.child = t

\* The record on disk tells of the newest start, but while its client has yet
\* to write down the worker; and the service of a lost worker even then.
RecordTells ==
    Known(starts) =>
      /\ ChildLives(starts) /\ ~WorkerLives(starts) => record.child = starts
      /\ (\A c \in Client : ~At(c, "identify")) => Tells(record, starts)

\* So does what a client has read, as long as it goes by it.
SeenTells ==
    \A c \in Client :
      client[c].pc \in Observing /\ Known(starts) => Tells(client[c].seen, starts)

\* An older start lives only if a kill kept it out of the record.
OnlyTheNewest == \A t \in Ticket : t # starts /\ Lives(t) => t \in unnoticed

\* The newest start was given the profile on disk, which stays.
ProfileKept ==
    (\/ Known(starts) /\ Lives(starts)
     \/ \E c \in Client : At(c, "spawn"))
    => record.profile = profile

\* Who means to change the profile may.
MayCommit == \A c \in Client : client[c].pc \in {"commit", "commitSeen"} => profile < MaxCommits

\* A stop is done when the newest start is.
Halted == \A c \in Client : At(c, "stopped") /\ Known(starts) => ~Lives(starts)

IInv ==
    /\ Files /\ Clients /\ Processes
    /\ RecordTells /\ SeenTells /\ OnlyTheNewest /\ ProfileKept /\ MayCommit /\ Halted
----------------------------------------------------------------------------
(***************************************************************************)
(* Records.                                                                *)
(***************************************************************************)

\* A start writes a record of its own.
LEMMA FreshRecord ==
    ASSUME NEW t \in Nat, NEW version \in 0..MaxCommits
    PROVE  /\ Fresh(t, version) \in RecordOf(t)
           /\ Fresh(t, version).profile = version
BY DEF Fresh, RecordOf, Phase

\* The record there is before the first start.
LEMMA EmptyRecord == NoRecord \in RecordOf(0)
<1>1. 0 \in 0..MaxCommits
  BY BoundAssumption
<1> QED
  BY <1>1 DEF NoRecord, Fresh, RecordOf, Phase

\* An update of a record leaves it the record of the same start, with the same
\* profile; and it can name only that start's processes.
LEMMA UpdatedRecord ==
    ASSUME NEW t \in Nat, NEW r \in RecordOf(t), NEW p \in Phase, NEW q,
           \/ q = [r EXCEPT !.phase = p]
           \/ q = [r EXCEPT !.stop = TRUE]
           \/ q = [r EXCEPT !.supervisor = t]
           \/ q = [r EXCEPT !.child = t, !.phase = p]
    PROVE  /\ q \in RecordOf(t) /\ q.profile = r.profile
           /\ q.supervisor \in {r.supervisor, t} /\ q.child \in {r.child, t}
           /\ q = [r EXCEPT !.phase = p] \/ q = [r EXCEPT !.stop = TRUE] =>
                q.supervisor = r.supervisor /\ q.child = r.child
           /\ q = [r EXCEPT !.supervisor = t] => q.supervisor = t /\ q.child = r.child
<1>1. r.supervisor \in {0, t} /\ r.child \in {0, t} /\ r.ticket = t
  BY DEF RecordOf
<1>2. q \in RecordOf(t)
  BY DEF RecordOf
<1>3. q.profile = r.profile /\ q.supervisor \in {r.supervisor, t} /\ q.child \in {r.child, t}
  BY DEF RecordOf
<1> QED
  BY <1>1, <1>2, <1>3 DEF RecordOf
----------------------------------------------------------------------------
(***************************************************************************)
(* What a step of a worker, or of its service, may do: the worker is the   *)
(* same or further on, and writes only to its own start's record.          *)
(***************************************************************************)
States == {"none", "spawned", "read", "identified", "parent", "running",
           "asked", "raised", "stopping", "stopped", "failed", "leaving", "gone"}

WritesItsOwn(t) ==
    \/ record' = record
    \/ /\ t = starts
       /\ record' \in RecordOf(starts) /\ record'.profile = record.profile
       /\ record'.supervisor \in {record.supervisor, t}
       /\ record'.child \in {record.child, t}

GoesOn(t) ==
    /\ worker' \in [Ticket -> States] /\ child' \in [Ticket -> {"none", "alive", "gone"}]
    /\ \A u \in Ticket \ {t} : worker'[u] = worker[u] /\ child'[u] = child[u]
    /\ worker[t] # "none" /\ worker'[t] # "none"
    /\ worker'[t] \in {"spawned", "read", "identified"} => child'[t] = "none"
    /\ worker'[t] \in {"stopped", "failed", "leaving"} => child'[t] # "alive"
    /\ worker'[t] # "gone" => worker[t] # "gone"
    /\ child'[t] = "alive" => child[t] = "alive" \/ worker'[t] # "gone"

\* Where a service is left alone it was so before, or is in every record that
\* anybody goes by, or a kill has kept it out of one.
LeavesAlone(t) ==
    child'[t] = "alive" /\ worker'[t] = "gone" =>
      worker[t] = "gone" \/ t \in unnoticed' \/ Recorded(t)

WorkerStep(t) ==
    /\ UNCHANGED <<profile, starts, lock, client>>
    /\ unnoticed \subseteq unnoticed' /\ unnoticed' \subseteq unnoticed \cup {t}
    /\ kills' \in 0..MaxKills
    /\ WritesItsOwn(t) /\ GoesOn(t) /\ LeavesAlone(t)

\* A move from one place to another changes the worker of one start.
LEMMA MovesOne ==
    ASSUME Files, Processes, NEW t \in Ticket, NEW from, NEW to \in States, Moves(t, from, to)
    PROVE  /\ worker[t] = from /\ worker'[t] = to /\ worker' \in [Ticket -> States]
           /\ \A u \in Ticket \ {t} : worker'[u] = worker[u]
BY DEF Moves, Processes, States

\* Steps of a worker alone.
LEMMA QuietWorker ==
    ASSUME IInv, NEW t \in Ticket,
           \/ WorkerReads(t) \/ WorkerIsAsked(t) \/ WorkerIsSuperseded(t) \/ WorkerFinds(t)
           \/ WorkerLeaves(t) \/ WorkerIsSignalled(t) \/ WorkerRaises(t)
    PROVE  WorkerStep(t)
<1>1. kills \in 0..MaxKills /\ Processes /\ Files
  BY DEF IInv, Files
<1>2. /\ UNCHANGED <<profile, starts, lock, client, record, child, kills, unnoticed>>
      /\ \E to \in States \ {"none"} :
           /\ worker[t] \notin {"none", "gone"} /\ Moves(t, worker[t], to)
           /\ to \in {"spawned", "read", "identified"} => child[t] = "none"
           /\ to \in {"stopped", "failed", "leaving"} => child[t] # "alive"
           /\ to = "gone" => child[t] # "alive"
  BY <1>1 DEF WorkerReads, WorkerIsAsked, WorkerIsSuperseded, WorkerFinds, WorkerLeaves,
              WorkerIsSignalled, WorkerRaises, Moves, States, Processes
<1>3. PICK to \in States \ {"none"} :
           /\ worker[t] \notin {"none", "gone"} /\ Moves(t, worker[t], to)
           /\ to \in {"spawned", "read", "identified"} => child[t] = "none"
           /\ to \in {"stopped", "failed", "leaving"} => child[t] # "alive"
           /\ to = "gone" => child[t] # "alive"
  BY <1>2
<1>4. /\ worker'[t] = to /\ worker' \in [Ticket -> States]
      /\ \A u \in Ticket \ {t} : worker'[u] = worker[u]
  BY <1>1, <1>3, MovesOne
<1> QED
  BY <1>1, <1>2, <1>3, <1>4 DEF WorkerStep, WritesItsOwn, GoesOn, LeavesAlone, Processes

\* Steps with an update of the record.
LEMMA WritingWorker ==
    ASSUME IInv, NEW t \in Ticket,
           \/ WorkerIdentifies(t) \/ WorkerRecordsChild(t) \/ WorkerStopping(t)
           \/ WorkerEnds(t, "stopped") \/ WorkerEnds(t, "failed")
    PROVE  WorkerStep(t)
<1>1. /\ kills \in 0..MaxKills /\ Processes /\ Files /\ t \in Nat /\ starts \in Nat
      /\ record \in RecordOf(starts) /\ {"running", "stopping", "stopped", "failed"} \subseteq Phase
  BY DEF IInv, Files, Ticket, Phase
<1>2. /\ UNCHANGED <<profile, starts, lock, client, child, kills, unnoticed>>
      /\ \E to \in States \ {"none"} :
           /\ worker[t] \notin {"none", "gone"} /\ Moves(t, worker[t], to)
           /\ to \in {"spawned", "read", "identified"} => child[t] = "none"
           /\ to \in {"stopped", "failed", "leaving"} => child[t] # "alive"
           /\ to = "gone" => child[t] # "alive"
  BY <1>1 DEF WorkerIdentifies, WorkerRecordsChild, WorkerStopping, WorkerEnds, Moves, States, Processes
<1>3. PICK to \in States \ {"none"} :
           /\ worker[t] \notin {"none", "gone"} /\ Moves(t, worker[t], to)
           /\ to \in {"spawned", "read", "identified"} => child[t] = "none"
           /\ to \in {"stopped", "failed", "leaving"} => child[t] # "alive"
           /\ to = "gone" => child[t] # "alive"
  BY <1>2
<1>4. /\ worker'[t] = to /\ worker' \in [Ticket -> States]
      /\ \A u \in Ticket \ {t} : worker'[u] = worker[u]
  BY <1>1, <1>3, MovesOne
<1>5. record.ticket = starts
  BY <1>1 DEF RecordOf
<1>6. WritesItsOwn(t)
  <2>1. CASE t # starts
    BY <2>1, <1>5 DEF WorkerIdentifies, WorkerRecordsChild, WorkerStopping, WorkerEnds, Update,
                      MayUpdate, WritesItsOwn
  <2>2. CASE t = starts
    <3>1. \/ record' = [record EXCEPT !.supervisor = starts]
          \/ record' = [record EXCEPT !.child = starts, !.phase = "running"]
          \/ \E p \in Phase : record' = [record EXCEPT !.phase = p]
      BY <2>2, <1>1, <1>5 DEF WorkerIdentifies, WorkerRecordsChild, WorkerStopping, WorkerEnds,
                              Update, MayUpdate
    <3>2. /\ record' \in RecordOf(starts) /\ record'.profile = record.profile
          /\ record'.supervisor \in {record.supervisor, starts}
          /\ record'.child \in {record.child, starts}
      <4>1. CASE record' = [record EXCEPT !.supervisor = starts]
        BY <4>1, <1>1 DEF RecordOf
      <4>2. CASE record' = [record EXCEPT !.child = starts, !.phase = "running"]
        BY <4>2, <1>1 DEF RecordOf
      <4>3. CASE \E p \in Phase : record' = [record EXCEPT !.phase = p]
        BY <4>3, <1>1 DEF RecordOf
      <4> QED
        BY <3>1, <4>1, <4>2, <4>3
    <3> QED
      BY <3>2, <2>2 DEF WritesItsOwn
  <2> QED
    BY <2>1, <2>2
<1> QED
  BY <1>1, <1>2, <1>3, <1>4, <1>6 DEF WorkerStep, GoesOn, LeavesAlone, Processes

\* Steps that begin or end the service.
LEMMA ServiceWorker ==
    ASSUME IInv, NEW t \in Ticket,
           \/ WorkerSpawns(t) \/ WorkerTerminates(t) \/ WorkerCleansUp(t) \/ ServiceExits(t)
    PROVE  WorkerStep(t)
<1>1. /\ kills \in 0..MaxKills /\ Processes /\ Files
      /\ child \in [Ticket -> {"none", "alive", "gone"}] /\ worker \in [Ticket -> States]
  BY DEF IInv, Files, Processes, States
<1>2. UNCHANGED <<profile, starts, lock, client, record, kills, unnoticed>>
  BY DEF WorkerSpawns, WorkerTerminates, WorkerCleansUp, Terminates, ServiceExits
<1>3. GoesOn(t) /\ (worker'[t] = "gone" => worker[t] = "gone")
  <2>1. CASE WorkerSpawns(t)
    <3>1. CASE Moves(t, "identified", "parent") /\ child' = [child EXCEPT ![t] = "alive"]
      <4>1. /\ worker[t] = "identified" /\ worker'[t] = "parent" /\ worker' \in [Ticket -> States]
            /\ \A u \in Ticket \ {t} : worker'[u] = worker[u]
        BY <1>1, <3>1, MovesOne DEF States
      <4> QED
        BY <1>1, <3>1, <4>1 DEF GoesOn
    <3>2. CASE Moves(t, "identified", "raised") /\ UNCHANGED child
      <4>1. /\ worker[t] = "identified" /\ worker'[t] = "raised" /\ worker' \in [Ticket -> States]
            /\ \A u \in Ticket \ {t} : worker'[u] = worker[u]
        BY <1>1, <3>2, MovesOne DEF States
      <4> QED
        BY <1>1, <3>2, <4>1 DEF GoesOn
    <3> QED
      BY <2>1, <3>1, <3>2 DEF WorkerSpawns
  <2>2. CASE WorkerTerminates(t) \/ WorkerCleansUp(t)
    <3>1. PICK from \in {"stopping", "raised"}, to \in {"stopped", "failed"} : Terminates(t, from, to)
      BY <2>2 DEF WorkerTerminates, WorkerCleansUp
    <3>2. /\ worker[t] = from /\ worker'[t] = to /\ worker' \in [Ticket -> States]
          /\ \A u \in Ticket \ {t} : worker'[u] = worker[u]
      BY <1>1, <3>1, MovesOne DEF States, Terminates
    <3>3. /\ child' \in [Ticket -> {"none", "alive", "gone"}] /\ child'[t] # "alive"
          /\ \A u \in Ticket \ {t} : child'[u] = child[u]
      BY <1>1, <3>1 DEF Terminates
    <3> QED
      BY <3>2, <3>3 DEF GoesOn
  <2>3. CASE ServiceExits(t)
    BY <1>1, <2>3 DEF GoesOn, ServiceExits, Processes
  <2> QED
    BY <2>1, <2>2, <2>3
<1> QED
  BY <1>1, <1>2, <1>3 DEF WorkerStep, WritesItsOwn, LeavesAlone

\* Steps that end a worker and may leave its service behind.
LEMMA LostWorker ==
    ASSUME IInv, NEW t \in Ticket, TerminateRaises(t) \/ WorkerIsKilled(t)
    PROVE  WorkerStep(t)
<1>1. /\ kills \in 0..MaxKills /\ Processes /\ Files /\ MaxKills \in Nat
      /\ child \in [Ticket -> {"none", "alive", "gone"}] /\ worker \in [Ticket -> States]
  BY BoundAssumption DEF IInv, Files, Processes, States
<1>2. UNCHANGED <<profile, starts, lock, client, record, child>> /\ kills' \in 0..MaxKills
  BY <1>1 DEF TerminateRaises, WorkerIsKilled
<1>3. /\ worker[t] \notin {"none", "gone"} /\ worker' \in [Ticket -> States]
      /\ \A u \in Ticket \ {t} : worker'[u] = worker[u]
      /\ \/ worker'[t] = "raised" /\ unnoticed' = unnoticed
         \/ worker'[t] = "gone" /\ Abandons(t)
  BY <1>1 DEF TerminateRaises, WorkerIsKilled, Moves, WorkerLives, States
<1>4. /\ unnoticed \subseteq unnoticed' /\ unnoticed' \subseteq unnoticed \cup {t}
      /\ worker'[t] = "gone" /\ child[t] = "alive" => t \in unnoticed' \/ Recorded(t)
  <2>1. CASE worker'[t] = "raised" /\ unnoticed' = unnoticed
    BY <2>1
  <2>2. CASE worker'[t] = "gone" /\ Abandons(t)
    BY <2>2 DEF Abandons, ChildLives, Ticket
  <2> QED
    BY <1>3, <2>1, <2>2
<1>5. GoesOn(t)
  BY <1>1, <1>2, <1>3 DEF GoesOn
<1> QED
  BY <1>2, <1>4, <1>5 DEF WorkerStep, WritesItsOwn, LeavesAlone

\* Every step of a worker or of its service is one of these.
LEMMA WorkerSteps ==
    ASSUME IInv, NEW t \in Ticket,
           \/ WorkerActs(t) \/ WorkerIsSignalled(t) \/ WorkerRaises(t)
           \/ ServiceExits(t) \/ WorkerIsKilled(t)
    PROVE  WorkerStep(t)
BY QuietWorker, WritingWorker, ServiceWorker, LostWorker DEF WorkerActs
----------------------------------------------------------------------------
(***************************************************************************)
(* What a step of a client may do.                                         *)
(***************************************************************************)

\* The lock is its own, and everybody else stands by.
ClientStep(c) ==
    /\ \A d \in Client \ {c} : client'[d] = client[d] /\ At(d, "idle")
    /\ client' \in [Client -> [pc : Places, seen : {NoRecord} \cup RecordOf(starts')]]
    /\ client'[c].pc \in Observing => client'[c].seen \in RecordOf(starts')
    /\ client'[c].pc \notin Observing => client'[c].seen = NoRecord
    /\ client'[c].pc \in {"spawn", "identify"} => starts' # 0
    /\ lock' \in {c, Nobody} /\ (lock' = Nobody => client'[c].pc = "idle")

\* What a client does that starts nothing: it reads the record, may ask for a
\* stop in it or for another phase, and goes by what it read when it changes
\* the profile or finds the service stopped.
Watches(c) ==
    /\ UNCHANGED <<starts, worker, child, kills, unnoticed>>
    /\ record' \in RecordOf(starts) /\ record'.profile = record.profile
    /\ record'.supervisor = record.supervisor /\ record'.child = record.child
    /\ ~At(c, "identify") /\ client'[c].pc \notin {"spawn", "identify"}
    /\ client'[c].pc \in Observing => client'[c].seen = record
    /\ client'[c].pc \in {"commit", "commitSeen"} => profile' < MaxCommits
    /\ client'[c].pc = "stopped" => client[c].pc \in Observing /\ ~Owned(client[c].seen)
    /\ profile' # profile =>
         profile' \in 0..MaxCommits /\ client[c].pc \in Observing /\ ~Owned(client[c].seen)

\* A client that goes to a place keeps nothing of what it has read.
LEMMA GoesOne ==
    ASSUME Clients, NEW c \in Client, NEW pc \in Places, Goes(c, pc)
    PROVE  /\ client'[c] = [pc |-> pc, seen |-> NoRecord]
           /\ \A d \in Client \ {c} : client'[d] = client[d]
           /\ DOMAIN client' = Client /\ client' = [d \in Client |-> client'[d]]
BY DEF Goes, Clients, Idle

\* A client that returns is idle, and the lock free.
LEMMA ReturnsOne ==
    ASSUME Clients, NEW c \in Client, Returns(c)
    PROVE  /\ client'[c] = [pc |-> "idle", seen |-> NoRecord]
           /\ \A d \in Client \ {c} : client'[d] = client[d]
           /\ DOMAIN client' = Client /\ client' = [d \in Client |-> client'[d]]
           /\ lock' = Nobody
BY DEF Returns, Clients, Idle

\* One client at a time is busy.
LEMMA OthersIdle ==
    ASSUME Clients, NEW c \in Client, ~At(c, "idle") \/ lock \in {c, Nobody}
    PROVE  \A d \in Client \ {c} : At(d, "idle") /\ client[d].seen = NoRecord
BY ClientAssumption DEF Clients, At, Observing

\* So a client's move is a step, if what it has read is the newest start's record.
LEMMA OneSteps ==
    ASSUME Clients, NEW c \in Client, ~At(c, "idle") \/ lock \in {c, Nobody},
           NEW pc \in Places, NEW r,
           pc \in Observing => r \in RecordOf(starts'), pc \notin Observing => r = NoRecord,
           pc \in {"spawn", "identify"} => starts' # 0,
           client'[c] = [pc |-> pc, seen |-> r],
           \A d \in Client \ {c} : client'[d] = client[d],
           client' = [d \in Client |-> client'[d]],
           lock' \in {c, Nobody}, lock' = Nobody => pc = "idle"
    PROVE  ClientStep(c)
<1>1. \A d \in Client \ {c} : At(d, "idle") /\ client[d].seen = NoRecord
  BY OthersIdle
<1>2. \A d \in Client : client'[d] \in [pc : Places, seen : {NoRecord} \cup RecordOf(starts')]
  <2> TAKE d \in Client
  <2>1. CASE d = c
    BY <2>1
  <2>2. CASE d # c
    BY <1>1, <2>2 DEF Clients
  <2> QED
    BY <2>1, <2>2
<1>3. client' \in [Client -> [pc : Places, seen : {NoRecord} \cup RecordOf(starts')]]
  BY <1>2
<1> QED
  BY <1>1, <1>3 DEF ClientStep

\* Whoever returns releases the lock; whoever goes on keeps it.
LEMMA ReturnSteps ==
    ASSUME Clients, NEW c \in Client, ~At(c, "idle"), Returns(c)
    PROVE  ClientStep(c) /\ client'[c].pc = "idle"
<1>1. /\ client'[c] = [pc |-> "idle", seen |-> NoRecord] /\ lock' = Nobody
      /\ \A d \in Client \ {c} : client'[d] = client[d]
      /\ client' = [d \in Client |-> client'[d]]
  BY ReturnsOne
<1>2. "idle" \in Places /\ "idle" \notin Observing
  BY DEF Places, Observing
<1> QED
  BY <1>1, <1>2, OneSteps

\* Whoever goes on keeps the lock and nothing of what it has read.
LEMMA GoSteps ==
    ASSUME Clients, NEW c \in Client, ~At(c, "idle") \/ lock = Nobody, lock' = c,
           NEW pc \in Places \ Observing, Goes(c, pc),
           pc \in {"spawn", "identify"} => starts' # 0
    PROVE  ClientStep(c) /\ client'[c].pc = pc
<1>1. /\ client'[c] = [pc |-> pc, seen |-> NoRecord]
      /\ \A d \in Client \ {c} : client'[d] = client[d]
      /\ client' = [d \in Client |-> client'[d]]
  BY GoesOne
<1>2. lock' \in {c, Nobody} /\ lock' # Nobody /\ (~At(c, "idle") \/ lock \in {c, Nobody})
  BY ClientAssumption
<1> QED
  BY <1>1, <1>2, OneSteps

\* Asking, reading, refusing, waiting, giving up and returning start nothing.
LEMMA WatchfulSteps ==
    ASSUME IInv, NEW c \in Client,
           \/ \E pc \in {"start", "stop", "commit"} : Asks(c, pc)
           \/ Reads(c, "start", "startSeen") \/ Reads(c, "stop", "stopSeen")
           \/ Reads(c, "poll", "pollSeen") \/ Reads(c, "commit", "commitSeen")
           \/ Commit(c) \/ StartRefused(c) \/ StartFails(c) \/ StopFindsNothing(c)
           \/ StopReturns(c) \/ StopRequests(c) \/ StopRaises(c) \/ StopWaits(c)
    PROVE  ClientStep(c) /\ Watches(c)
<1>1. /\ Clients /\ Files /\ starts \in Nat /\ record \in RecordOf(starts)
      /\ profile \in 0..MaxCommits /\ "failed" \in Phase
      /\ ~At(c, "idle") => lock = c
      /\ client[c].pc \in {"commit", "commitSeen"} => profile < MaxCommits
  BY BoundAssumption DEF IInv, Files, Clients, Phase, MayCommit
<1>2. CASE \E pc \in {"start", "stop", "commit"} : Asks(c, pc)
  <2>1. PICK pc \in {"start", "stop", "commit"} : Asks(c, pc)
    BY <1>2
  <2>2. /\ pc \in Places \ Observing /\ pc \notin {"spawn", "identify", "stopped"}
        /\ lock = Nobody /\ lock' = c /\ Goes(c, pc) /\ At(c, "idle")
        /\ pc = "commit" => profile < MaxCommits
        /\ UNCHANGED <<profile, record, starts, worker, child, kills, unnoticed>>
    BY <2>1 DEF Asks, Places, Observing
  <2>3. ClientStep(c) /\ client'[c].pc = pc
    BY <1>1, <2>2, GoSteps
  <2> QED
    BY <1>1, <2>2, <2>3 DEF Watches, At
<1>3. CASE \/ Reads(c, "start", "startSeen") \/ Reads(c, "stop", "stopSeen")
           \/ Reads(c, "poll", "pollSeen") \/ Reads(c, "commit", "commitSeen")
  <2>1. PICK pc \in {"start", "stop", "poll", "commit"}, place \in Observing :
          Reads(c, pc, place) /\ (place = "commitSeen" => pc = "commit")
    BY <1>3 DEF Observing
  <2>2. /\ client' = [client EXCEPT ![c] = [pc |-> place, seen |-> record]] /\ lock' = lock
        /\ UNCHANGED <<profile, record, starts, worker, child, kills, unnoticed>>
        /\ ~At(c, "idle") /\ ~At(c, "identify") /\ lock = c
        /\ place = "commitSeen" => profile < MaxCommits
    BY <1>1, <2>1 DEF Reads, At
  <2>3. /\ client'[c] = [pc |-> place, seen |-> record]
        /\ \A d \in Client \ {c} : client'[d] = client[d]
        /\ client' = [d \in Client |-> client'[d]]
    BY <1>1, <2>2 DEF Clients
  <2>4. place \in Places /\ place \notin {"spawn", "identify", "stopped", "commit"} /\ lock' # Nobody
    BY <2>2, ClientAssumption DEF Places, Observing
  <2>5. ClientStep(c)
    BY <1>1, <2>2, <2>3, <2>4, OneSteps
  <2> QED
    BY <1>1, <2>2, <2>3, <2>4, <2>5 DEF Watches
<1>4. CASE Commit(c) \/ StartRefused(c) \/ StopReturns(c) \/ StopRaises(c)
  <2>1. /\ Returns(c) /\ ~At(c, "idle") /\ ~At(c, "identify")
        /\ UNCHANGED <<record, starts, worker, child, kills, unnoticed>>
    BY <1>4 DEF Commit, StartRefused, StopReturns, StopRaises, At
  <2>2. profile' # profile => /\ profile' \in 0..MaxCommits
                              /\ client[c].pc \in Observing /\ ~Owned(client[c].seen)
    <3>1. CASE Commit(c)
      BY <1>1, <3>1, BoundAssumption DEF Commit, At, Observing
    <3> QED
      BY <1>4, <3>1 DEF StartRefused, StopReturns, StopRaises
  <2>3. ClientStep(c) /\ client'[c].pc = "idle"
    BY <1>1, <2>1, ReturnSteps
  <2> QED
    BY <1>1, <2>1, <2>2, <2>3 DEF Watches, Observing
<1>5. CASE StartFails(c)
  <2>1. /\ Returns(c) /\ ~At(c, "idle") /\ ~At(c, "identify")
        /\ UNCHANGED <<profile, starts, worker, child, kills, unnoticed>>
        /\ record' = [record EXCEPT !.phase = "failed"]
    BY <1>5 DEF StartFails, Update, At
  <2>2. /\ record' \in RecordOf(starts) /\ record'.profile = record.profile
        /\ record'.supervisor = record.supervisor /\ record'.child = record.child
    BY <1>1, <2>1 DEF RecordOf
  <2>3. ClientStep(c) /\ client'[c].pc = "idle"
    BY <1>1, <2>1, ReturnSteps
  <2> QED
    BY <1>1, <2>1, <2>2, <2>3 DEF Watches, Observing
<1>6. CASE StopFindsNothing(c) \/ StopWaits(c)
  <2>1. PICK pc \in {"stopped", "poll"} :
          /\ Goes(c, pc) /\ ~At(c, "idle") /\ ~At(c, "identify") /\ lock' = lock
          /\ UNCHANGED <<profile, record, starts, worker, child, kills, unnoticed>>
          /\ pc = "stopped" => client[c].pc \in Observing /\ ~Owned(client[c].seen)
    BY <1>6 DEF StopFindsNothing, StopWaits, At, Observing
  <2>2. pc \in Places \ Observing /\ pc \notin {"spawn", "identify"} /\ lock' = c
    BY <1>1, <2>1 DEF Places, Observing
  <2>3. ClientStep(c) /\ client'[c].pc = pc
    BY <1>1, <2>1, <2>2, GoSteps
  <2> QED
    BY <1>1, <2>1, <2>2, <2>3 DEF Watches
<1>7. CASE StopRequests(c)
  <2>1. /\ Goes(c, "poll") /\ ~At(c, "idle") /\ ~At(c, "identify") /\ lock' = c
        /\ UNCHANGED <<profile, starts, worker, child, kills, unnoticed>>
        /\ record' = [record EXCEPT !.stop = TRUE]
    BY <1>1, <1>7 DEF StopRequests, Update, At
  <2>2. /\ record' \in RecordOf(starts) /\ record'.profile = record.profile
        /\ record'.supervisor = record.supervisor /\ record'.child = record.child
    BY <1>1, <2>1 DEF RecordOf
  <2>3. "poll" \in Places \ Observing
    BY DEF Places, Observing
  <2>4. ClientStep(c) /\ client'[c].pc = "poll"
    BY <1>1, <2>1, <2>3, GoSteps
  <2> QED
    BY <1>1, <2>1, <2>2, <2>3, <2>4 DEF Watches
<1> QED
  BY <1>2, <1>3, <1>4, <1>5, <1>6, <1>7

\* A start writes over the record of one that does not live any more, for all it
\* has read.
StartsAnew(c) ==
    /\ client[c].pc = "startSeen" /\ ~Owned(client[c].seen)
    /\ starts' = starts + 1 /\ starts' \in Ticket
    /\ record' \in RecordOf(starts') /\ record'.profile = profile
    /\ client'[c].pc = "spawn"
    /\ UNCHANGED <<profile, worker, child, kills, unnoticed>>

\* The write of a fresh record is such a start.
LEMMA FreshStep ==
    ASSUME IInv, NEW c \in Client, StartFresh(c)
    PROVE  ClientStep(c) /\ StartsAnew(c)
<1>1. /\ Clients /\ starts \in Nat /\ profile \in 0..MaxCommits /\ MaxStarts \in Nat
      /\ ~At(c, "idle") => lock = c
  BY BoundAssumption DEF IInv, Files, Clients
<1>2. /\ client[c].pc = "startSeen" /\ ~Owned(client[c].seen) /\ ~At(c, "idle")
      /\ starts' = starts + 1 /\ starts' \in Ticket /\ starts' # 0 /\ lock' = c
      /\ record' = Fresh(starts', profile) /\ Goes(c, "spawn")
      /\ UNCHANGED <<profile, worker, child, kills, unnoticed>>
  BY <1>1 DEF StartFresh, At, Ticket
<1>3. record' \in RecordOf(starts') /\ record'.profile = profile
  BY <1>1, <1>2, FreshRecord DEF Ticket
<1>4. "spawn" \in Places \ Observing
  BY DEF Places, Observing
<1>5. ClientStep(c) /\ client'[c].pc = "spawn"
  BY <1>1, <1>2, <1>4, GoSteps
<1> QED
  BY <1>2, <1>3, <1>5 DEF StartsAnew

\* It spawns the worker of its start, which was none.
Spawns(c) ==
    /\ At(c, "spawn") /\ client'[c].pc = "identify"
    /\ starts \in Ticket /\ worker[starts] = "none" /\ worker' = [worker EXCEPT ![starts] = "spawned"]
    /\ UNCHANGED <<profile, record, starts, child, kills, unnoticed>>

\* The spawn takes the ticket that was given out last, whose worker is none.
LEMMA SpawnStep ==
    ASSUME IInv, NEW c \in Client, StartSpawns(c)
    PROVE  ClientStep(c) /\ Spawns(c)
<1>1. /\ Clients /\ Processes /\ ~At(c, "idle") /\ At(c, "spawn") /\ lock' = c
      /\ Goes(c, "identify") /\ starts' = starts /\ starts # 0 /\ starts \in Ticket
  BY BoundAssumption DEF IInv, Files, Clients, Ticket, StartSpawns, At
<1>2. "identify" \in Places \ Observing
  BY DEF Places, Observing
<1>3. ClientStep(c) /\ client'[c].pc = "identify"
  BY <1>1, <1>2, GoSteps
<1> QED
  BY <1>1, <1>3 DEF Spawns, StartSpawns, Processes

\* It writes the worker down.
Identifies(c) ==
    /\ At(c, "identify") /\ client'[c].pc = "idle"
    /\ record' \in RecordOf(starts) /\ record'.profile = record.profile
    /\ record'.supervisor = starts /\ record'.child = record.child
    /\ UNCHANGED <<profile, starts, worker, child, kills, unnoticed>>

\* The write of the worker's identity changes nothing else of the record.
LEMMA IdentifyStep ==
    ASSUME IInv, NEW c \in Client, StartIdentifies(c)
    PROVE  ClientStep(c) /\ Identifies(c)
<1>1. /\ Clients /\ ~At(c, "idle") /\ At(c, "identify") /\ Returns(c)
      /\ record \in RecordOf(starts) /\ starts \in Nat
      /\ record' = [record EXCEPT !.supervisor = starts]
  BY BoundAssumption DEF IInv, Files, StartIdentifies, Update, At
<1>2. /\ record' \in RecordOf(starts) /\ record'.profile = record.profile
      /\ record'.supervisor = starts /\ record'.child = record.child
  BY <1>1 DEF RecordOf
<1>3. ClientStep(c) /\ client'[c].pc = "idle"
  BY <1>1, ReturnSteps
<1> QED
  BY <1>1, <1>2, <1>3 DEF Identifies, StartIdentifies

\* Killed before it has, it leaves a worker that no observation will tell.
IsKilled(c) ==
    /\ client'[c].pc = "idle" /\ kills' \in 0..MaxKills
    /\ unnoticed \subseteq unnoticed' /\ unnoticed' \subseteq Ticket
    /\ At(c, "identify") => record.supervisor = starts \/ starts \in unnoticed'
    /\ UNCHANGED <<profile, record, starts, worker, child>>

\* The kill of a client releases its lock.
LEMMA KillStep ==
    ASSUME IInv, NEW c \in Client, ClientIsKilled(c)
    PROVE  ClientStep(c) /\ IsKilled(c)
<1>1. /\ Clients /\ Returns(c) /\ lock = c /\ unnoticed \subseteq Ticket
      /\ kills \in 0..MaxKills /\ MaxKills \in Nat /\ starts \in 0..MaxStarts
      /\ At(c, "identify") => starts # 0
  BY BoundAssumption DEF IInv, Files, Clients, At, ClientIsKilled
<1>2. /\ client'[c] = [pc |-> "idle", seen |-> NoRecord] /\ lock' = Nobody
      /\ \A d \in Client \ {c} : client'[d] = client[d]
      /\ client' = [d \in Client |-> client'[d]]
  BY <1>1, ReturnsOne
<1>3. "idle" \in Places /\ "idle" \notin Observing
  BY DEF Places, Observing
<1>4. ClientStep(c)
  BY <1>1, <1>2, <1>3, OneSteps
<1> QED
  BY <1>1, <1>2, <1>4 DEF IsKilled, ClientIsKilled, Ticket

\* Every step is one of these, or of a worker.
LEMMA Steps ==
    ASSUME IInv, Next
    PROVE  \/ \E c \in Client :
                 /\ ClientStep(c)
                 /\ Watches(c) \/ StartsAnew(c) \/ Spawns(c) \/ Identifies(c) \/ IsKilled(c)
           \/ \E t \in Ticket : WorkerStep(t)
<1>1. ASSUME NEW c \in Client, ClientActs(c) \/ ClientIsKilled(c)
      PROVE  /\ ClientStep(c)
             /\ Watches(c) \/ StartsAnew(c) \/ Spawns(c) \/ Identifies(c) \/ IsKilled(c)
  BY <1>1, WatchfulSteps, FreshStep, SpawnStep, IdentifyStep, KillStep DEF ClientActs
<1> QED
  BY <1>1, WorkerSteps DEF Next
----------------------------------------------------------------------------
(***************************************************************************)
(* Each part holds after a step.                                           *)
(***************************************************************************)

\* Every step leaves the files what they are.
LEMMA FilesStep ==
    ASSUME IInv, Next
    PROVE  Files'
<1>1. Files /\ MaxStarts \in Nat
  BY BoundAssumption DEF IInv
<1>2. ASSUME NEW t \in Ticket, WorkerStep(t) PROVE Files'
  BY <1>1, <1>2 DEF WorkerStep, WritesItsOwn, Files
<1>3. ASSUME NEW c \in Client, Watches(c) PROVE Files'
  BY <1>1, <1>3 DEF Watches, Files
<1>4. ASSUME NEW c \in Client, StartsAnew(c) PROVE Files'
  BY <1>1, <1>4 DEF StartsAnew, Files, Ticket
<1>5. ASSUME NEW c \in Client, Spawns(c) \/ Identifies(c) \/ IsKilled(c) PROVE Files'
  BY <1>1, <1>5 DEF Spawns, Identifies, IsKilled, Files
<1> QED
  BY <1>2, <1>3, <1>4, <1>5, Steps

\* The lock keeps the clients apart.
LEMMA ClientsStep ==
    ASSUME IInv, Next
    PROVE  Clients'
<1>1. Clients
  BY DEF IInv
<1>2. ASSUME NEW t \in Ticket, WorkerStep(t) PROVE Clients'
  BY <1>1, <1>2 DEF WorkerStep, Clients, At
<1>3. ASSUME NEW c \in Client, ClientStep(c) PROVE Clients'
  <2>1. \A d \in Client \ {c} : client'[d] = client[d] /\ client[d].pc = "idle"
    BY <1>3 DEF ClientStep, At
  <2>2. /\ lock' \in Client \cup {Nobody}
        /\ client' \in [Client -> [pc : Places, seen : {NoRecord} \cup RecordOf(starts')]]
    BY <1>3 DEF ClientStep
  <2>3. ASSUME NEW d \in Client
        PROVE  /\ client'[d].pc # "idle" => lock' = d
               /\ client'[d].pc \in Observing => client'[d].seen \in RecordOf(starts')
               /\ client'[d].pc \notin Observing => client'[d].seen = NoRecord
               /\ client'[d].pc \in {"spawn", "identify"} => starts' # 0
    <3>1. CASE d = c
      BY <1>3, <3>1 DEF ClientStep
    <3>2. CASE d # c
      BY <1>1, <2>1, <3>2 DEF Clients, Observing
    <3> QED
      BY <3>1, <3>2
  <2> QED
    BY <2>2, <2>3 DEF Clients, At
<1> QED
  BY <1>2, <1>3, Steps

\* A worker is begun by its start alone.
LEMMA ProcessesStep ==
    ASSUME IInv, Next
    PROVE  Processes'
<1>1. Processes /\ Clients /\ starts \in Nat
  BY BoundAssumption DEF IInv, Files
<1>2. ASSUME NEW t \in Ticket, WorkerStep(t) PROVE Processes'
  <2>1. /\ starts' = starts /\ client' = client
        /\ worker' \in [Ticket -> States] /\ child' \in [Ticket -> {"none", "alive", "gone"}]
        /\ \A u \in Ticket \ {t} : worker'[u] = worker[u] /\ child'[u] = child[u]
    BY <1>2 DEF WorkerStep, GoesOn
  <2>2. /\ ~(t > starts) /\ worker'[t] # "none"
        /\ worker'[t] \in {"spawned", "read", "identified"} => child'[t] = "none"
        /\ worker'[t] \in {"stopped", "failed", "leaving"} => child'[t] # "alive"
    BY <1>1, <1>2 DEF WorkerStep, GoesOn, Processes
  <2>3. ASSUME NEW c \in Client, client[c].pc = "spawn" PROVE worker'[starts] = "none"
    <3>1. starts \in Ticket /\ worker[starts] = "none"
      BY <1>1, <2>3, BoundAssumption DEF Processes, Clients, At, IInv, Files, Ticket
    <3>2. starts # t
      BY <1>2, <3>1 DEF WorkerStep, GoesOn
    <3> QED
      BY <2>1, <3>1, <3>2
  <2> QED
    BY <1>1, <2>1, <2>2, <2>3 DEF Processes, At, States
<1>3. ASSUME NEW c \in Client, ClientStep(c), Watches(c) \/ Identifies(c) \/ IsKilled(c)
      PROVE  Processes'
  <2>1. /\ UNCHANGED <<starts, worker, child>> /\ client'[c].pc # "spawn"
        /\ \A d \in Client \ {c} : client'[d] = client[d]
    BY <1>3 DEF ClientStep, Watches, Identifies, IsKilled
  <2> QED
    BY <1>1, <2>1 DEF Processes, At
<1>4. ASSUME NEW c \in Client, StartsAnew(c) PROVE Processes'
  BY <1>1, <1>4 DEF Processes, StartsAnew, Ticket
<1>5. ASSUME NEW c \in Client, ClientStep(c), Spawns(c) PROVE Processes'
  <2>1. \A d \in Client : client'[d].pc # "spawn"
    BY <1>5 DEF ClientStep, Spawns, At
  <2>2. starts \in Ticket /\ child[starts] = "none"
    BY <1>1, <1>5 DEF Spawns, Processes
  <2> QED
    BY <1>1, <1>5, <2>1, <2>2 DEF Processes, Spawns, At
<1> QED
  BY <1>2, <1>3, <1>4, <1>5, Steps

\* A worker's step brings nothing to life, and what it leaves alone somebody knows.
LEMMA NothingRevives ==
    ASSUME IInv, NEW t \in Ticket, WorkerStep(t), NEW u \in Ticket
    PROVE  /\ u # t => worker'[u] = worker[u] /\ child'[u] = child[u]
           /\ WorkerLives(u)' => WorkerLives(u)
           /\ Lives(u)' => Lives(u)
           /\ Known(u)' => Known(u)
           /\ ChildLives(u)' /\ ~WorkerLives(u)' /\ Known(u)' =>
                \/ ChildLives(u) /\ ~WorkerLives(u)
                \/ u = t /\ Recorded(t)
<1>1. /\ u # t => worker'[u] = worker[u] /\ child'[u] = child[u]
      /\ worker[t] # "none" /\ (worker'[t] # "gone" => worker[t] # "gone") /\ worker'[t] # "none"
      /\ child'[t] = "alive" => child[t] = "alive" \/ worker'[t] # "gone"
      /\ child'[t] = "alive" /\ worker'[t] = "gone" =>
            worker[t] = "gone" \/ t \in unnoticed' \/ Recorded(t)
      /\ unnoticed \subseteq unnoticed'
  BY DEF WorkerStep, GoesOn, LeavesAlone
<1> QED
  BY <1>1 DEF WorkerLives, ChildLives, Lives, Known, Ticket

\* The record goes on to tell of the newest start.
LEMMA RecordTellsStep ==
    ASSUME IInv, Next
    PROVE  RecordTells'
<1>1. /\ RecordTells /\ Files /\ Clients /\ Processes /\ starts \in Nat
  BY BoundAssumption DEF IInv, Files
<1>2. ASSUME NEW t \in Ticket, WorkerStep(t) PROVE RecordTells'
  <2> SUFFICES ASSUME Known(starts)'
               PROVE  /\ ChildLives(starts)' /\ ~WorkerLives(starts)' => record'.child = starts
                      /\ (\A c \in Client : client[c].pc # "identify") => Tells(record, starts)'
    BY <1>2 DEF WorkerStep, RecordTells, At
  <2>1. starts' = starts /\ starts \in Ticket /\ Known(starts)
    BY <1>2, NothingRevives DEF Known, WorkerStep
  <2>2. \/ record' = record
        \/ starts = t /\ record'.supervisor \in {record.supervisor, starts}
           /\ record'.child \in {record.child, starts}
    BY <1>2 DEF WorkerStep, WritesItsOwn
  <2>3. /\ ChildLives(starts)' /\ ~WorkerLives(starts)' => record.child = starts
        /\ WorkerLives(starts)' => WorkerLives(starts)
    BY <1>1, <1>2, <2>1, NothingRevives DEF RecordTells, Recorded
  <2> QED
    BY <1>1, <2>1, <2>2, <2>3 DEF RecordTells, Tells, At
<1>3. ASSUME NEW c \in Client, ClientStep(c), Watches(c) PROVE RecordTells'
  <2>1. \A d \in Client : ~At(d, "identify")
    BY <1>3 DEF ClientStep, Watches, At
  <2> QED
    BY <1>1, <1>3, <2>1 DEF Watches, RecordTells, Tells, Known, WorkerLives, ChildLives
<1>4. ASSUME NEW c \in Client, StartsAnew(c) PROVE RecordTells'
  <2>1. worker'[starts'] = "none" /\ child'[starts'] = "none"
    BY <1>1, <1>4 DEF StartsAnew, Processes
  <2> QED
    BY <2>1 DEF RecordTells, Tells, WorkerLives, ChildLives
<1>5. ASSUME NEW c \in Client, ClientStep(c), Spawns(c) PROVE RecordTells'
  <2>1. starts' = starts /\ child'[starts] = "none" /\ client'[c].pc = "identify"
    BY <1>1, <1>5 DEF Spawns, Processes
  <2> QED
    BY <2>1 DEF RecordTells, ChildLives, At
<1>6. ASSUME NEW c \in Client, Identifies(c) PROVE RecordTells'
  BY <1>1, <1>6 DEF Identifies, RecordTells, Tells, Known, WorkerLives, ChildLives
<1>7. ASSUME NEW c \in Client, ClientStep(c), IsKilled(c) PROVE RecordTells'
  <2>1. /\ UNCHANGED <<record, starts, worker, child>> /\ unnoticed \subseteq unnoticed'
        /\ At(c, "identify") => record.supervisor = starts \/ starts \in unnoticed'
        /\ \A d \in Client \ {c} : ~At(d, "identify")
    BY <1>7 DEF IsKilled, ClientStep, At
  <2> QED
    BY <1>1, <2>1 DEF RecordTells, Tells, Known, WorkerLives, ChildLives
<1> QED
  BY <1>2, <1>3, <1>4, <1>5, <1>6, <1>7, Steps

\* So does what a client goes by, though workers and services end meanwhile.
LEMMA SeenTellsStep ==
    ASSUME IInv, Next
    PROVE  SeenTells'
<1>1. /\ SeenTells /\ RecordTells /\ Files /\ Clients /\ Processes /\ starts \in Nat
  BY BoundAssumption DEF IInv, Files
<1>2. ASSUME NEW t \in Ticket, WorkerStep(t) PROVE SeenTells'
  <2> SUFFICES ASSUME NEW c \in Client, client[c].pc \in Observing, Known(starts)'
               PROVE  Tells(client[c].seen, starts)'
    BY <1>2 DEF WorkerStep, SeenTells
  <2>1. starts' = starts /\ client' = client /\ starts \in Ticket /\ Known(starts)
    BY <1>2, NothingRevives DEF Known, WorkerStep
  <2>2. Tells(client[c].seen, starts)
    BY <1>1, <2>1 DEF SeenTells
  <2>3. client[c].seen # NoRecord
    BY <1>1, <2>1 DEF Clients, RecordOf, NoRecord, Fresh, Ticket
  <2>4. /\ WorkerLives(starts)' => WorkerLives(starts)
        /\ ChildLives(starts)' /\ ~WorkerLives(starts)' =>
             (ChildLives(starts) /\ ~WorkerLives(starts)) \/ (starts = t /\ Recorded(t))
    <3>1. \A u \in Ticket :
            /\ WorkerLives(u)' => WorkerLives(u)
            /\ ChildLives(u)' /\ ~WorkerLives(u)' /\ Known(u)' =>
                 (ChildLives(u) /\ ~WorkerLives(u)) \/ (u = t /\ Recorded(t))
      BY <1>2, NothingRevives
    <3> QED
      BY <2>1, <3>1
  <2> QED
    BY <2>1, <2>2, <2>3, <2>4 DEF Tells, Recorded
<1>3. ASSUME NEW c \in Client, ClientStep(c), Watches(c) PROVE SeenTells'
  <2>1. \A d \in Client : ~At(d, "identify")
    BY <1>3 DEF ClientStep, Watches, At
  <2>2. Known(starts)' => Tells(record, starts)'
    BY <1>1, <1>3, <2>1 DEF Watches, RecordTells, Tells, Known, WorkerLives, ChildLives
  <2>3. \A d \in Client : client'[d].pc \in Observing =>
          Tells(client[d].seen, starts)' \/ ~Known(starts)'
    <3> TAKE d \in Client
    <3>1. CASE d = c
      BY <1>3, <2>2, <3>1 DEF Watches, Tells, WorkerLives, ChildLives
    <3>2. CASE d # c
      BY <1>3, <3>2 DEF ClientStep, At, Observing
    <3> QED
      BY <3>1, <3>2
  <2> QED
    BY <2>3 DEF SeenTells
<1>4. ASSUME NEW c \in Client, ClientStep(c),
             StartsAnew(c) \/ Spawns(c) \/ Identifies(c) \/ IsKilled(c)
      PROVE  SeenTells'
  <2>1. \A d \in Client : client'[d].pc \notin Observing
    BY <1>4 DEF ClientStep, StartsAnew, Spawns, Identifies, IsKilled, At, Observing
  <2> QED
    BY <2>1 DEF SeenTells
<1> QED
  BY <1>2, <1>3, <1>4, Steps

\* A client that finds nothing owned finds the newest start over.
LEMMA NotOwnedIsOver ==
    ASSUME IInv, NEW c \in Client, client[c].pc \in Observing, ~Owned(client[c].seen),
           Known(starts)
    PROVE  ~Lives(starts)
<1>1. Tells(client[c].seen, starts)
  BY DEF IInv, SeenTells
<1> QED
  BY <1>1 DEF Tells, Owned, Lives

\* No start makes another the newest while it lives itself and is known.
LEMMA OnlyTheNewestStep ==
    ASSUME IInv, Next
    PROVE  OnlyTheNewest'
<1>1. OnlyTheNewest /\ Files /\ Processes /\ starts \in Nat
  BY BoundAssumption DEF IInv, Files
<1>2. ASSUME NEW t \in Ticket, WorkerStep(t) PROVE OnlyTheNewest'
  <2>1. starts' = starts /\ unnoticed \subseteq unnoticed' /\ \A u \in Ticket : Lives(u)' => Lives(u)
    BY <1>2, NothingRevives DEF WorkerStep
  <2> QED
    BY <1>1, <2>1 DEF OnlyTheNewest
<1>3. ASSUME NEW c \in Client, Watches(c) \/ Identifies(c) \/ IsKilled(c) PROVE OnlyTheNewest'
  <2>1. UNCHANGED <<starts, worker, child>> /\ unnoticed \subseteq unnoticed'
    BY <1>3 DEF Watches, Identifies, IsKilled
  <2> QED
    BY <1>1, <2>1 DEF OnlyTheNewest, Lives, WorkerLives, ChildLives
<1>4. ASSUME NEW c \in Client, StartsAnew(c) PROVE OnlyTheNewest'
  <2>1. client[c].pc \in Observing /\ ~Owned(client[c].seen)
    BY <1>4 DEF StartsAnew, Observing
  <2>2. starts \in Ticket /\ Lives(starts) => starts \in unnoticed
    BY <2>1, NotOwnedIsOver DEF Known
  <2>3. \A t \in Ticket : Lives(t) => t \in unnoticed
    BY <1>1, <2>2 DEF OnlyTheNewest
  <2> QED
    BY <1>4, <2>3 DEF OnlyTheNewest, StartsAnew, Lives, WorkerLives, ChildLives
<1>5. ASSUME NEW c \in Client, Spawns(c) PROVE OnlyTheNewest'
  BY <1>1, <1>5 DEF OnlyTheNewest, Spawns, Processes, Lives, WorkerLives, ChildLives
<1> QED
  BY <1>2, <1>3, <1>4, <1>5, Steps

\* The profile is changed only when the newest start is over.
LEMMA ProfileKeptStep ==
    ASSUME IInv, Next
    PROVE  ProfileKept'
<1>1. ProfileKept /\ Files /\ Processes /\ Clients /\ starts \in Nat
  BY BoundAssumption DEF IInv, Files
<1>2. ASSUME NEW t \in Ticket, WorkerStep(t) PROVE ProfileKept'
  <2>1. /\ UNCHANGED <<profile, starts, client>> /\ record'.profile = record.profile
        /\ starts \in Ticket => (Lives(starts)' => Lives(starts)) /\ (Known(starts)' => Known(starts))
    BY <1>2, NothingRevives DEF WorkerStep, WritesItsOwn
  <2> QED
    BY <1>1, <2>1 DEF ProfileKept, At, Known
<1>3. ASSUME NEW c \in Client, ClientStep(c), Watches(c) PROVE ProfileKept'
  <2>1. /\ UNCHANGED <<starts, worker, child, unnoticed>> /\ record'.profile = record.profile
        /\ \A d \in Client : client'[d].pc # "spawn"
        /\ profile' # profile => client[c].pc \in Observing /\ ~Owned(client[c].seen)
    BY <1>3 DEF ClientStep, Watches, At
  <2>2. Known(starts)' /\ Lives(starts)' => Known(starts) /\ Lives(starts)
    BY <2>1 DEF Known, Lives, WorkerLives, ChildLives
  <2>3. Known(starts) /\ Lives(starts) => profile' = profile
    BY <2>1, NotOwnedIsOver
  <2> QED
    BY <1>1, <2>1, <2>2, <2>3 DEF ProfileKept, At
<1>4. ASSUME NEW c \in Client, StartsAnew(c) PROVE ProfileKept'
  BY <1>4 DEF ProfileKept, StartsAnew
<1>5. ASSUME NEW c \in Client, Spawns(c) PROVE ProfileKept'
  BY <1>1, <1>5 DEF ProfileKept, Spawns
<1>6. ASSUME NEW c \in Client, ClientStep(c), Identifies(c) \/ IsKilled(c) PROVE ProfileKept'
  <2>1. /\ UNCHANGED <<profile, starts, worker, child>> /\ record'.profile = record.profile
        /\ unnoticed \subseteq unnoticed' /\ \A d \in Client : client'[d].pc # "spawn"
    BY <1>6 DEF ClientStep, Identifies, IsKilled, At
  <2> QED
    BY <1>1, <2>1 DEF ProfileKept, Known, Lives, WorkerLives, ChildLives, At
<1> QED
  BY <1>2, <1>3, <1>4, <1>5, <1>6, Steps

\* Nobody else changes the profile between the two halves of a commit.
LEMMA MayCommitStep ==
    ASSUME IInv, Next
    PROVE  MayCommit'
<1>1. MayCommit
  BY DEF IInv
<1>2. ASSUME NEW t \in Ticket, WorkerStep(t) PROVE MayCommit'
  BY <1>1, <1>2 DEF MayCommit, WorkerStep
<1>3. ASSUME NEW c \in Client, ClientStep(c),
             Watches(c) \/ StartsAnew(c) \/ Spawns(c) \/ Identifies(c) \/ IsKilled(c)
      PROVE  MayCommit'
  <2>1. client'[c].pc \in {"commit", "commitSeen"} => profile' < MaxCommits
    BY <1>3 DEF Watches, StartsAnew, Spawns, Identifies, IsKilled
  <2>2. \A d \in Client \ {c} : client'[d].pc = "idle"
    BY <1>3 DEF ClientStep, At
  <2> QED
    BY <2>1, <2>2 DEF MayCommit
<1> QED
  BY <1>2, <1>3, Steps

\* A stop that is done stays done until it has returned.
LEMMA HaltedStep ==
    ASSUME IInv, Next
    PROVE  Halted'
<1>1. Halted
  BY DEF IInv
<1>2. ASSUME NEW t \in Ticket, WorkerStep(t) PROVE Halted'
  <2>1. /\ UNCHANGED <<starts, client>>
        /\ starts \in Ticket => (Lives(starts)' => Lives(starts)) /\ (Known(starts)' => Known(starts))
    BY <1>2, NothingRevives DEF WorkerStep
  <2> QED
    BY <1>1, <2>1 DEF Halted, At, Known
<1>3. ASSUME NEW c \in Client, ClientStep(c), Watches(c) PROVE Halted'
  <2>1. client'[c].pc = "stopped" /\ Known(starts) => ~Lives(starts)
    BY <1>3, NotOwnedIsOver DEF Watches
  <2>2. UNCHANGED <<starts, worker, child, unnoticed>> /\ \A d \in Client \ {c} : client'[d].pc = "idle"
    BY <1>3 DEF ClientStep, Watches, At
  <2> QED
    BY <2>1, <2>2 DEF Halted, At, Known, Lives, WorkerLives, ChildLives
<1>4. ASSUME NEW c \in Client, ClientStep(c),
             StartsAnew(c) \/ Spawns(c) \/ Identifies(c) \/ IsKilled(c)
      PROVE  Halted'
  <2>1. \A d \in Client : client'[d].pc # "stopped"
    BY <1>4 DEF ClientStep, StartsAnew, Spawns, Identifies, IsKilled, At
  <2> QED
    BY <2>1 DEF Halted, At
<1> QED
  BY <1>2, <1>3, <1>4, Steps
----------------------------------------------------------------------------
(***************************************************************************)
(* The theorems.                                                           *)
(***************************************************************************)

\* The invariant holds at first and after every step.
THEOREM InvHolds == Spec => []IInv
<1>1. Init => IInv
  <2> SUFFICES ASSUME Init PROVE IInv
    OBVIOUS
  <2>1. /\ 0 \in 0..MaxCommits /\ 0 \in 0..MaxStarts /\ 0 \in 0..MaxKills
    BY BoundAssumption
  <2>2. Files
    BY <2>1, EmptyRecord DEF Init, Files
  <2>3. \A c \in Client : client[c] = [pc |-> "idle", seen |-> NoRecord]
    BY DEF Init, Idle
  <2>4. Clients
    BY <2>3 DEF Init, Clients, Idle, Places, Observing, At
  <2>5. Processes
    BY <2>3 DEF Init, Processes, At
  <2>6. \A t \in Ticket : ~Lives(t) /\ ~WorkerLives(t) /\ ~ChildLives(t)
    BY DEF Init, Lives, WorkerLives, ChildLives
  <2>7. RecordTells /\ SeenTells /\ OnlyTheNewest /\ Halted
    BY <2>6 DEF RecordTells, SeenTells, OnlyTheNewest, Halted, Known, Tells
  <2>8. ProfileKept /\ MayCommit
    BY <2>3, <2>6 DEF ProfileKept, MayCommit, Known, At
  <2> QED
    BY <2>2, <2>4, <2>5, <2>7, <2>8 DEF IInv
<1>2. IInv /\ [Next]_vars => IInv'
  <2> SUFFICES ASSUME IInv, [Next]_vars PROVE IInv'
    OBVIOUS
  <2>1. CASE Next
    BY <2>1, FilesStep, ClientsStep, ProcessesStep, RecordTellsStep, SeenTellsStep,
       OnlyTheNewestStep, ProfileKeptStep, MayCommitStep, HaltedStep DEF IInv
  <2>2. CASE UNCHANGED vars
    BY <2>2 DEF vars, IInv, Files, Clients, Processes, RecordTells, SeenTells, OnlyTheNewest,
                ProfileKept, MayCommit, Halted, Known, Tells, Lives, WorkerLives, ChildLives, At
  <2> QED
    BY <2>1, <2>2
<1> QED
  BY <1>1, <1>2, PTL DEF Spec

\* The variables keep to their ranges, one client at a time is busy, and no record
\* names a process of another start than its own.
THEOREM TypeCorrect == Spec => []TypeOK
<1>1. IInv => TypeOK
  <2> SUFFICES ASSUME IInv PROVE TypeOK
    OBVIOUS
  <2>1. /\ profile \in 0..MaxCommits /\ starts \in 0..MaxStarts /\ kills \in 0..MaxKills
        /\ record \in RecordOf(starts) /\ unnoticed \subseteq Ticket
    BY DEF IInv, Files
  <2>2. 0 \in 0..MaxStarts
    BY BoundAssumption
  <2>3. RecordOf(starts) \subseteq Records /\ RecordOf(0) \subseteq Records
    BY <2>1, <2>2 DEF Records
  <2>4. \A c \in Client : client[c].seen \in Records
    BY <2>3, EmptyRecord DEF IInv, Clients
  <2> QED
    BY <2>1, <2>3, <2>4 DEF TypeOK, IInv, Clients, Processes
<1> QED
  BY <1>1, InvHolds, PTL

\* Of two services that live the older is one that a kill kept out of the record.
THEOREM RunsOnce == Spec => []ServiceRunsOnce
<1>1. IInv => ServiceRunsOnce
  <2> SUFFICES ASSUME IInv, NEW s \in Ticket, NEW t \in Ticket, s < t, ChildLives(s), ChildLives(t)
               PROVE  s \in unnoticed
    BY DEF ServiceRunsOnce
  <2>1. ~(t > starts) /\ starts \in Nat
    BY BoundAssumption DEF IInv, Files, Processes, ChildLives
  <2>2. s # starts
    BY <2>1 DEF Ticket
  <2> QED
    BY <2>2 DEF IInv, OnlyTheNewest, Lives
<1> QED
  BY <1>1, InvHolds, PTL

\* A stop that returns has seen the worker and the service gone.
THEOREM StopIsStopped == Spec => []StoppedIsStopped
<1>1. IInv => StoppedIsStopped
  BY DEF IInv, StoppedIsStopped, Halted, OnlyTheNewest, Known, Lives
<1> QED
  BY <1>1, InvHolds, PTL

\* The service that runs was started with the profile on disk.
THEOREM ProfileIsKept == Spec => []RunsTheProfile
<1>1. IInv => RunsTheProfile
  <2> SUFFICES ASSUME IInv, NEW t \in Ticket \ unnoticed, Lives(t)
               PROVE  record.ticket = t /\ record.profile = profile
    BY DEF RunsTheProfile, Lives
  <2>1. t = starts
    BY DEF IInv, OnlyTheNewest
  <2>2. record.ticket = starts
    BY DEF IInv, Files, RecordOf
  <2> QED
    BY <2>1, <2>2 DEF IInv, ProfileKept, Known
<1> QED
  BY <1>1, InvHolds, PTL

\* A worker writes to no record but that of its own start, and a record is written
\* over only by a client: a late worker never speaks for another's service.
THEOREM OthersRecordIsLeft ==
    Spec => [][\A t \in Ticket : worker'[t] # worker[t] /\ record' # record => record.ticket = t]_vars
<1>1. IInv /\ Next => \A t \in Ticket : worker'[t] # worker[t] /\ record' # record => record.ticket = t
  <2> SUFFICES ASSUME IInv, Next, NEW t \in Ticket, worker'[t] # worker[t], record' # record
               PROVE  t = starts
    BY DEF IInv, Files, RecordOf
  <2>1. CASE \E u \in Ticket : WorkerStep(u)
    BY <2>1 DEF WorkerStep, WritesItsOwn, GoesOn
  <2>2. CASE \E c \in Client :
               Watches(c) \/ StartsAnew(c) \/ Spawns(c) \/ Identifies(c) \/ IsKilled(c)
    BY <2>2 DEF Watches, StartsAnew, Spawns, Identifies, IsKilled
  <2> QED
    BY <2>1, <2>2, Steps
<1> QED
  BY <1>1, InvHolds, PTL DEF Spec

----------------------------------------------------------------------------
(***************************************************************************)
(* Setup: the inductive invariant, part by part.                           *)
(***************************************************************************)
Clears == {"clear-canceled", "clear-failed", "clear-done"}
Ends == {"canceled", "failed", "complete"}

\* Where a worker has the installation, and where it has a task.
AtRoot == {"begin", "check", "spawn", "record", "wait", "finish", "complete"} \cup Clears
AtTask == {"check", "spawn", "record", "wait"} \cup Clears

Jobs == [ticket : Nat, mode : Mode, state : Ends \cup {"none", "starting", "running", "canceling"},
         pid : Nat, child : Task \cup {<<>>}, cancel : BOOLEAN]
Builders == [at : AtRoot \cup Ends \cup {"none", "lock", "gone"},
             task : Writing \cup {"verify", "none"}]

Offices ==
    /\ job \in Jobs /\ jobs \in 0..MaxJobs
    /\ jobLock \in Caller \cup {NoCaller}
    /\ caller \in [Caller -> {"idle", "spawn", "identify", "orphaned", "active"}]
    /\ rootLock \in Job \cup {0}
    /\ builder \in [Job -> Builders]
    /\ \A t \in Job : builder[t].at \in AtTask => builder[t].task # "none"

Works ==
    /\ task \in [Task -> {"dead", "alive", "ran"}]
    /\ \A k \in Task : task[k] = "ran" => k[2] = "verify"
    /\ part \in [Writing -> {"missing", "partial", "whole"}]
    /\ loaded \in BOOLEAN /\ evidence \subseteq Job /\ lost \subseteq Task
    /\ jobKills \in Nat /\ edits \in Nat /\ unseen \in BOOLEAN

\* Whoever is about to spawn the worker of the newest ticket, or has, keeps the
\* record's lock; and there is no worker of a ticket before it is spawned.
Spawning ==
    /\ \A c \in Caller :
         /\ caller[c] \in {"spawn", "identify"} => jobLock = c /\ jobs \in Job
         /\ caller[c] = "spawn" => builder[jobs].at = "none"
    /\ \A t \in Job : t > jobs => builder[t].at = "none"

\* A worker that is at work holds the installation.
Rooted == \A t \in Job : rootLock = t <=> builder[t].at \in AtRoot

\* What the record has for a child is the task its own worker waits for, or
\* waited for when it was killed.
Children ==
    job.child # <<>> =>
      /\ job.ticket \in Job /\ job.child[1] = job.ticket
      /\ builder[job.ticket].at \in {"wait", "gone"} \cup Clears
      /\ builder[job.ticket].at # "gone" => job.child = TaskOf(job.ticket)

\* A task that runs is the record's child, or its worker is about to write it down.
Claimed ==
    \A k \in Task \ lost : TaskLives(k) =>
      \/ job.child = k
      \/ builder[k[1]].at = "record" /\ k = TaskOf(k[1])

\* While the record's child runs, whoever holds the installation waits for it, or
\* has just begun and will find that the record is another's.
Alone ==
    \A t \in Job : builder[t].at \in AtRoot \ {"begin"} /\ TaskLives(job.child) =>
      builder[t].at = "wait" /\ job.child = TaskOf(t)

\* Fingerprints that count, and those a verification is about to take, are of
\* files that it loaded, unless others were changed since.
Verified ==
    lost = {} /\ ~unseen /\ (evidence # {} \/ \E k \in Task : task[k] = "ran") =>
      loaded /\ \A w \in Writing : part[w] = "whole"

SetupInv ==
    /\ Offices /\ Works /\ Spawning /\ Rooted /\ Children /\ Claimed /\ Alone
    /\ OneTaskAtATime /\ Verified

----------------------------------------------------------------------------
(***************************************************************************)
(* Setup: one lemma per part.                                              *)
(***************************************************************************)
\* A worker's task is one of its own.
LEMMA TaskOfIs ==
    ASSUME Offices, NEW t \in Job, builder[t].at \in AtTask
    PROVE  /\ TaskOf(t) \in Task
           /\ TaskOf(t) = <<t, builder[t].task>>
           /\ TaskOf(t)[1] = t /\ TaskOf(t)[2] = builder[t].task
  BY DEF Offices, Builders, TaskOf, Task

\* No task is the empty tuple.
LEMMA NoTask ==
    \A k \in Task : k # <<>> /\ k = <<k[1], k[2]>> /\ k[1] \in Job /\ k[2] \in Writing \cup {"verify"}
  BY DEF Task

\* A worker that comes to another place is the only one to move.
Spots == AtRoot \cup Ends \cup {"none", "lock", "gone"}

Moved(t, at) ==
    /\ builder' \in [Job -> Builders]
    /\ builder'[t].at = at
    /\ \A s \in Job : s # t => builder'[s] = builder[s]
    /\ \A s \in Job : builder'[s].at \in AtTask => builder'[s].task # "none"

MovedOn(t, at) == Moved(t, at) /\ builder'[t].task = builder[t].task

LEMMA BuilderMoves ==
    ASSUME Offices, NEW t \in Job, NEW at \in Spots, at \in AtTask => builder[t].task # "none",
           BuilderAt(t, at)
    PROVE  MovedOn(t, at)
  BY DEF Offices, BuilderAt, Moved, MovedOn, Builders, Spots

LEMMA BuilderBegins ==
    ASSUME Offices, NEW t \in Job, NEW at \in Spots, NEW w \in Writing \cup {"verify"},
           builder' = [builder EXCEPT ![t] = [at |-> at, task |-> w]]
    PROVE  Moved(t, at) /\ builder'[t].task = w
  BY DEF Offices, Moved, Builders, Spots, Writing

LEMMA BuilderIsThere ==
    ASSUME Offices, NEW t \in Job
    PROVE  /\ builder[t] \in Builders /\ builder[t].at \in Spots
           /\ builder[t].at \in AtTask => builder[t].task \in Writing \cup {"verify"}
           /\ job \in Jobs
  BY DEF Offices, Builders, Spots

----------------------------------------------------------------------------
\* What a worker's step does: it takes the installation, goes on, or quits.
Elsewhere == UNCHANGED <<jobs, jobLock, caller>>
SameRecord(t) == job' \in Jobs /\ job'.ticket = job.ticket /\ job'.child = job.child

Takes(t) ==
    /\ builder[t].at = "lock" /\ Moved(t, "begin")
    /\ rootLock = 0 /\ rootLock' = t
    /\ Elsewhere /\ UNCHANGED <<job, task, lost>>

Quits(t) ==
    /\ builder[t].at \notin {"none", "gone"}
    /\ \E at \in {"canceled", "failed", "gone"} : Moved(t, at)
    /\ Releases(t)
    /\ Elsewhere /\ UNCHANGED task
    /\ \/ SameRecord(t)
       \/ Mine(t) /\ builder[t].at \in Clears /\ job' \in Jobs /\ job'.ticket = t /\ job'.child = <<>>
    /\ builder[t].at \in {"wait"} \cup Clears => builder'[t].at = "gone" \/ job'.child = <<>>
    /\ lost' = IF builder[t].at = "record" THEN lost \cup {TaskOf(t)} ELSE lost

MovesFurther(t) ==
    /\ UNCHANGED <<rootLock, lost>> /\ Elsewhere
    /\ \/ /\ builder[t].at = "begin" /\ Mine(t) /\ Moved(t, "check")
          /\ SameRecord(t) /\ UNCHANGED task
       \/ /\ builder[t].at = "check" /\ MovedOn(t, "spawn")
          /\ UNCHANGED <<job, task>>
       \/ /\ builder[t].at = "spawn" /\ MovedOn(t, "record")
          /\ task' = [task EXCEPT ![TaskOf(t)] = "alive"]
          /\ UNCHANGED job
       \/ /\ builder[t].at = "record" /\ MovedOn(t, "wait")
          /\ Mine(t) /\ job' \in Jobs /\ job'.ticket = t /\ job'.child = TaskOf(t)
          /\ UNCHANGED task
       \/ /\ builder[t].at = "wait" /\ \E at \in Clears : MovedOn(t, at)
          /\ \/ task' = [task EXCEPT ![TaskOf(t)] = "dead"]
             \/ UNCHANGED task /\ ~TaskLives(TaskOf(t))
          /\ UNCHANGED job
       \/ /\ builder[t].at \in Clears /\ \E at \in {"check", "finish"} : Moved(t, at)
          /\ Mine(t) /\ job' \in Jobs /\ job'.ticket = t /\ job'.child = <<>>
          /\ UNCHANGED task
       \/ /\ builder[t].at = "finish" /\ Moved(t, "complete")
          /\ UNCHANGED <<job, task>>

WorkerMoves(t) == Takes(t) \/ Quits(t) \/ MovesFurther(t)

LEMMA JobWorkerActs ==
    ASSUME SetupInv, NEW t \in Job,
           \/ TakeRoot(t) \/ Begin(t) \/ CheckCancel(t) \/ SpawnTask(t) \/ RecordTask(t)
           \/ StopTask(t) \/ TaskEnded(t) \/ ClearTask(t) \/ Finish(t) \/ Report(t)
           \/ BuilderKilled(t)
    PROVE  WorkerMoves(t) /\ UNCHANGED <<part, loaded, evidence, edits, unseen>> /\ jobKills' \in Nat
<1>0. Offices /\ Works /\ Rooted /\ jobKills \in Nat
  BY DEF SetupInv, Works
<1>a. /\ builder[t] \in Builders /\ builder[t].at \in Spots /\ job \in Jobs
      /\ builder[t].at \in AtTask => builder[t].task \in Writing \cup {"verify"}
  BY <1>0, BuilderIsThere
<1>r. rootLock = t <=> builder[t].at \in AtRoot
  BY <1>0 DEF Rooted
<1>m. ASSUME NEW at \in Spots, BuilderAt(t, at), at \in AtTask => builder[t].at \in AtTask
      PROVE  MovedOn(t, at) /\ Moved(t, at)
  BY <1>0, <1>a, <1>m, BuilderMoves DEF MovedOn, Writing
<1>j. ASSUME NEW k \in Task \cup {<<>>}
      PROVE  /\ [job EXCEPT !.child = k] \in Jobs
             /\ [job EXCEPT !.child = k].ticket = job.ticket
             /\ [job EXCEPT !.child = k].child = k
  BY <1>a DEF Jobs
<1>s. ASSUME NEW state \in {"running", "canceled", "failed", "complete"}
      PROVE  /\ [job EXCEPT !.state = state] \in Jobs
             /\ [job EXCEPT !.state = state].ticket = job.ticket
             /\ [job EXCEPT !.state = state].child = job.child
  BY <1>a DEF Jobs, Ends
<1>x. UNCHANGED job => SameRecord(t)
  BY <1>a DEF SameRecord
<1>1. CASE TakeRoot(t)
  <2>1. CASE rootLock = 0 /\ rootLock' = t /\ BuilderAt(t, "begin")
    <3>1. Takes(t)
      BY <1>1, <2>1, <1>m DEF TakeRoot, Takes, Elsewhere, Spots, AtRoot, AtTask, Clears
    <3> QED
      BY <1>1, <1>0, <3>1 DEF TakeRoot, WorkerMoves
  <2>2. CASE BuilderAt(t, "failed") /\ UNCHANGED rootLock
    <3>1. Releases(t)
      BY <1>1, <2>2, <1>r DEF TakeRoot, Releases, Holds, AtRoot, Clears
    <3>2. Quits(t)
      BY <1>1, <2>2, <3>1, <1>m, <1>x DEF TakeRoot, Quits, Elsewhere, Spots, AtTask, Clears, Ends
    <3> QED
      BY <1>1, <1>0, <3>2 DEF TakeRoot, WorkerMoves
  <2> QED
    BY <1>1, <2>1, <2>2 DEF TakeRoot
<1>2. CASE Begin(t)
  <2>1. CASE Mine(t)
    <3>1. First(job.mode) \in Writing \cup {"verify"}
      BY DEF First, Writing
    <3>2. Moved(t, "check")
      BY <1>2, <1>0, <2>1, <3>1, BuilderBegins DEF Begin, Spots, AtRoot
    <3>3. MovesFurther(t)
      BY <1>2, <2>1, <3>2, <1>s DEF Begin, MovesFurther, SameRecord, Elsewhere
    <3> QED
      BY <1>2, <1>0, <3>3 DEF Begin, WorkerMoves
  <2>2. CASE ~Mine(t)
    <3>1. Quits(t)
      BY <1>2, <2>2, <1>m, <1>x DEF Begin, Quits, Elsewhere, Spots, AtTask, Clears
    <3> QED
      BY <1>2, <1>0, <3>1 DEF Begin, WorkerMoves
  <2> QED
    BY <2>1, <2>2
<1>3. CASE CheckCancel(t)
  <2>1. CASE BuilderAt(t, "spawn") /\ UNCHANGED rootLock
    <3>1. MovesFurther(t)
      BY <1>3, <2>1, <1>m DEF CheckCancel, MovesFurther, Elsewhere, Spots, AtRoot, AtTask
    <3> QED
      BY <1>3, <1>0, <3>1 DEF CheckCancel, WorkerMoves
  <2>2. CASE (BuilderAt(t, "canceled") \/ BuilderAt(t, "failed")) /\ Releases(t)
    <3>1. Quits(t)
      BY <1>3, <2>2, <1>m, <1>x DEF CheckCancel, Quits, Elsewhere, Spots, AtTask, Clears, Ends
    <3> QED
      BY <1>3, <1>0, <3>1 DEF CheckCancel, WorkerMoves
  <2> QED
    BY <1>3, <2>1, <2>2 DEF CheckCancel
<1>4. CASE SpawnTask(t)
  <2>1. MovesFurther(t)
    BY <1>4, <1>m DEF SpawnTask, MovesFurther, Elsewhere, Spots, AtRoot, AtTask
  <2> QED
    BY <1>4, <1>0, <2>1 DEF SpawnTask, WorkerMoves
<1>5. CASE RecordTask(t)
  <2>0. TaskOf(t) \in Task
    BY <1>5, <1>0, TaskOfIs DEF RecordTask, AtTask
  <2>1. CASE Mine(t)
    <3>1. MovesFurther(t)
      BY <1>5, <2>0, <2>1, <1>m, <1>j
         DEF RecordTask, UpdateJob, Mine, MovesFurther, Elsewhere, Spots, AtRoot, AtTask, Ends
    <3> QED
      BY <1>5, <1>0, <3>1 DEF RecordTask, WorkerMoves
  <2>2. CASE ~Mine(t)
    <3>1. Quits(t)
      BY <1>5, <2>2, <1>m, <1>x DEF RecordTask, UpdateJob, Quits, Elsewhere, Spots, AtTask, Clears
    <3> QED
      BY <1>5, <1>0, <3>1 DEF RecordTask, WorkerMoves
  <2> QED
    BY <2>1, <2>2
<1>6. CASE StopTask(t)
  <2>1. MovesFurther(t)
    BY <1>6, <1>m DEF StopTask, MovesFurther, Elsewhere, Spots, AtRoot, AtTask, Clears
  <2> QED
    BY <1>6, <1>0, <2>1 DEF StopTask, WorkerMoves
<1>7. CASE TaskEnded(t)
  <2>1. MovesFurther(t)
    BY <1>7, <1>m DEF TaskEnded, MovesFurther, Elsewhere, Spots, AtRoot, AtTask, Clears
  <2> QED
    BY <1>7, <1>0, <2>1 DEF TaskEnded, WorkerMoves
<1>8. CASE ClearTask(t)
  <2>0. builder[t].at \in Clears
    BY <1>8 DEF ClearTask, Clears
  <2>1. CASE ~Mine(t)
    <3>1. Moved(t, "gone") /\ builder'[t].at = "gone"
      BY <1>8, <2>1, <1>a, <1>m DEF ClearTask, Moved, Spots, AtRoot, AtTask, Clears, Ends
    <3>2. SameRecord(t)
      BY <1>8, <2>1, <1>x DEF ClearTask
    <3>3. Quits(t)
      BY <1>8, <2>0, <2>1, <3>1, <3>2 DEF ClearTask, Quits, Elsewhere, Clears
    <3> QED
      BY <1>8, <1>0, <3>3 DEF ClearTask, WorkerMoves
  <2>2. CASE Mine(t) /\ builder[t].at # "clear-done"
    <3>1. /\ job' \in Jobs /\ job'.ticket = t /\ job'.child = <<>>
          /\ BuilderAt(t, "canceled") \/ BuilderAt(t, "failed")
          /\ Releases(t)
      BY <1>8, <2>2, <1>j DEF ClearTask, Mine
    <3>2. Quits(t)
      BY <1>8, <2>0, <2>2, <3>1, <1>m DEF ClearTask, Quits, Elsewhere, Spots, AtTask, Ends
    <3> QED
      BY <1>8, <1>0, <3>2 DEF ClearTask, WorkerMoves
  <2>3. CASE Mine(t) /\ builder[t].at = "clear-done"
    <3>1. /\ job' \in Jobs /\ job'.ticket = t /\ job'.child = <<>>
          /\ builder' = [builder EXCEPT ![t] =
                             IF @.task = "verify" THEN [@ EXCEPT !.at = "finish"]
                             ELSE [at |-> "check", task |-> NextTask[@.task]]]
          /\ UNCHANGED rootLock
      BY <1>8, <2>3, <1>j DEF ClearTask, Mine
    <3>2. CASE builder[t].task = "verify"
      <4>1. BuilderAt(t, "finish")
        BY <3>1, <3>2 DEF BuilderAt
      <4>2. Moved(t, "finish")
        BY <4>1, <1>m DEF Spots, AtRoot, AtTask, Clears
      <4>3. MovesFurther(t)
        BY <1>8, <2>0, <2>3, <3>1, <4>2 DEF ClearTask, MovesFurther, Elsewhere
      <4> QED
        BY <1>8, <1>0, <4>3 DEF ClearTask, WorkerMoves
    <3>3. CASE builder[t].task # "verify"
      <4>1. NextTask[builder[t].task] \in Writing \cup {"verify"}
        BY <2>0, <3>3, <1>a DEF NextTask, Writing, AtTask
      <4>2. builder' = [builder EXCEPT ![t] = [at |-> "check", task |-> NextTask[builder[t].task]]]
        BY <3>1, <3>3
      <4>3. Moved(t, "check")
        BY <4>1, <4>2, <1>0, BuilderBegins DEF Spots, AtRoot
      <4>4. MovesFurther(t)
        BY <1>8, <2>0, <2>3, <3>1, <4>3 DEF ClearTask, MovesFurther, Elsewhere
      <4> QED
        BY <1>8, <1>0, <4>4 DEF ClearTask, WorkerMoves
    <3> QED
      BY <3>2, <3>3
  <2> QED
    BY <2>1, <2>2, <2>3
<1>9. CASE Finish(t)
  <2>1. CASE BuilderAt(t, "canceled") /\ Releases(t)
    <3>1. Quits(t)
      BY <1>9, <2>1, <1>m, <1>x DEF Finish, Quits, Elsewhere, Spots, AtTask, Clears, Ends
    <3> QED
      BY <1>9, <1>0, <3>1 DEF Finish, WorkerMoves
  <2>2. CASE BuilderAt(t, "complete") /\ UNCHANGED rootLock
    <3>1. MovesFurther(t)
      BY <1>9, <2>2, <1>m DEF Finish, MovesFurther, Elsewhere, Spots, AtTask, Clears, Ends
    <3> QED
      BY <1>9, <1>0, <3>1 DEF Finish, WorkerMoves
  <2> QED
    BY <1>9, <2>1, <2>2 DEF Finish
<1>10. CASE Report(t)
  <2>1. SameRecord(t)
    BY <1>10, <1>s, <1>x DEF Report, SameRecord
  <2>2. Quits(t)
    BY <1>10, <2>1, <1>m DEF Report, Quits, Elsewhere, Spots, AtTask, Clears
  <2> QED
    BY <1>10, <1>0, <2>2 DEF Report, WorkerMoves
<1>11. CASE BuilderKilled(t)
  <2>1. Moved(t, "gone") /\ builder'[t].at = "gone"
    BY <1>11, <1>a, <1>m DEF BuilderKilled, Moved, Spots, AtRoot, AtTask, Clears, Ends
  <2>2. SameRecord(t)
    BY <1>11, <1>x DEF BuilderKilled
  <2>3. Quits(t)
    BY <1>11, <2>1, <2>2 DEF BuilderKilled, BuilderLives, Quits, Elsewhere
  <2> QED
    BY <1>11, <1>0, <2>3 DEF BuilderKilled, WorkerMoves
<1> QED
  BY <1>1, <1>2, <1>3, <1>4, <1>5, <1>6, <1>7, <1>8, <1>9, <1>10, <1>11

----------------------------------------------------------------------------
(***************************************************************************)
(* Setup: one lemma per part.                                              *)
(***************************************************************************)

\* The record, the clients and the workers keep their types.
LEMMA OfficesStep ==
    ASSUME SetupInv, SetupNext
    PROVE  Offices'
<1>0. Offices /\ Works /\ Spawning /\ Rooted /\ Children /\ Claimed /\ Alone
  BY DEF SetupInv
<1>1. ASSUME NEW c \in Caller, NEW mode \in Mode, StartJob(c, mode)
      PROVE  Offices'
  <2>1. jobs' \in 0..MaxJobs /\ jobs' \in Nat
    BY <1>0, <1>1, SetupAssumption DEF StartJob, Offices
  <2>2. job' \in Jobs
    BY <2>1, <1>1 DEF StartJob, NewJob, Jobs
  <2> QED
    BY <1>0, <1>1, <2>1, <2>2 DEF StartJob, Says, Offices
<1>2. ASSUME NEW c \in Caller, SpawnBuilder(c)
      PROVE  Offices'
  <2>0. jobs \in Job
    BY <1>0, <1>2 DEF SpawnBuilder, Spawning
  <2>1. CASE builder' = [builder EXCEPT ![jobs].at = "lock"] /\ UNCHANGED <<job, jobLock>>
    <3>1. MovedOn(jobs, "lock")
      BY <1>0, <2>0, <2>1, BuilderMoves DEF BuilderAt, Spots, AtTask, Clears
    <3> QED
      BY <1>0, <1>2, <2>1, <3>1 DEF SpawnBuilder, Says, Offices, MovedOn, Moved
  <2>2. CASE job' = [job EXCEPT !.state = "failed"] /\ UNCHANGED builder /\ jobLock' = NoCaller
    BY <1>0, <1>2, <2>2 DEF SpawnBuilder, Says, Offices, Jobs, Ends
  <2> QED
    BY <1>2, <2>1, <2>2 DEF SpawnBuilder
<1>3. ASSUME NEW c \in Caller, IdentifyBuilder(c)
      PROVE  Offices'
  BY <1>0, <1>3 DEF IdentifyBuilder, Says, Offices, Jobs
<1>4. ASSUME NEW c \in Caller, CancelLooks(c)
      PROVE  Offices'
  BY <1>0, <1>4 DEF CancelLooks, Says, Offices
<1>5. ASSUME NEW c \in Caller, CancelOrphan(c)
      PROVE  Offices'
  BY <1>0, <1>5 DEF CancelOrphan, Says, Offices, Jobs, Ends
<1>6. ASSUME NEW c \in Caller, CancelActive(c)
      PROVE  Offices'
  BY <1>0, <1>6 DEF CancelActive, Says, Offices, Jobs
<1>7. ASSUME NEW c \in Caller, CallerKilled(c)
      PROVE  Offices'
  BY <1>0, <1>7 DEF CallerKilled, Says, Offices
<1>8. ASSUME NEW t \in Job,
             \/ TakeRoot(t) \/ Begin(t) \/ CheckCancel(t) \/ SpawnTask(t) \/ RecordTask(t)
             \/ StopTask(t) \/ TaskEnded(t) \/ ClearTask(t) \/ Finish(t) \/ Report(t)
             \/ BuilderKilled(t)
      PROVE  Offices'
  <2>1. WorkerMoves(t) /\ UNCHANGED <<part, loaded, evidence, edits, unseen>> /\ jobKills' \in Nat
    BY <1>8, JobWorkerActs
  <2>0. builder[t] \in Builders /\ builder[t].at \in Spots
    BY <1>0, BuilderIsThere
  <2>2. CASE Takes(t)
    BY <1>0, <2>0, <2>1, <2>2, TaskOfIs
       DEF Takes, Moved, Elsewhere, Offices, Job, Builders, Clears, Ends, AtRoot, AtTask
  <2>3. CASE Quits(t)
    BY <1>0, <2>0, <2>1, <2>3, TaskOfIs
       DEF Quits, Moved, SameRecord, Elsewhere, Releases, Offices, Jobs, Job, Builders, Clears,
           Ends, AtRoot, AtTask
  <2>4. CASE MovesFurther(t)
    BY <1>0, <2>0, <2>1, <2>4, TaskOfIs
       DEF MovesFurther, Moved, MovedOn, SameRecord, Elsewhere, Offices, Job, Builders, Clears,
           Ends, AtRoot, AtTask
  <2> QED
    BY <2>1, <2>2, <2>3, <2>4 DEF WorkerMoves
<1>9. ASSUME NEW k \in Task, TaskWrites(k)
      PROVE  Offices'
  BY <1>0, <1>9 DEF TaskWrites, Offices
<1>10. ASSUME NEW k \in Task, TaskSucceeds(k)
      PROVE  Offices'
  BY <1>0, <1>10 DEF TaskSucceeds, Offices
<1>11. ASSUME NEW k \in Task, TaskLoads(k)
      PROVE  Offices'
  BY <1>0, <1>11 DEF TaskLoads, Offices
<1>12. ASSUME NEW k \in Task, TaskFingerprints(k)
      PROVE  Offices'
  BY <1>0, <1>12 DEF TaskFingerprints, Offices
<1>13. ASSUME NEW k \in Task, TaskFails(k)
      PROVE  Offices'
  BY <1>0, <1>13 DEF TaskFails, Offices
<1>14. CASE FilesEdited
  BY <1>0, <1>14 DEF FilesEdited, Offices
<1> QED
  BY <1>1, <1>2, <1>3, <1>4, <1>5, <1>6, <1>7, <1>8, <1>9, <1>10, <1>11, <1>12, <1>13, <1>14
     DEF SetupNext

\* The tasks and the files keep theirs.
LEMMA WorksStep ==
    ASSUME SetupInv, SetupNext
    PROVE  Works'
<1>0. Offices /\ Works /\ Spawning /\ Rooted /\ Children /\ Claimed /\ Alone
  BY DEF SetupInv
<1>1. ASSUME NEW c \in Caller, NEW mode \in Mode, StartJob(c, mode)
      PROVE  Works'
  BY <1>0, <1>1 DEF StartJob, Works
<1>2. ASSUME NEW c \in Caller, SpawnBuilder(c)
      PROVE  Works'
  <2>0. jobs \in Job /\ builder[jobs].at = "none" /\ jobLock = c
    BY <1>0, <1>2 DEF SpawnBuilder, Spawning
  <2>1. CASE builder' = [builder EXCEPT ![jobs].at = "lock"] /\ UNCHANGED <<job, jobLock>>
    <3>1. MovedOn(jobs, "lock")
      BY <1>0, <2>0, <2>1, BuilderMoves DEF BuilderAt, Spots, AtTask, Clears
    <3> QED
      BY <1>0, <1>2, <2>1 DEF SpawnBuilder, Works
  <2>2. CASE job' = [job EXCEPT !.state = "failed"] /\ UNCHANGED builder /\ jobLock' = NoCaller
    BY <1>0, <1>2 DEF SpawnBuilder, Works
  <2> QED
    BY <1>2, <2>1, <2>2 DEF SpawnBuilder
<1>3. ASSUME NEW c \in Caller, IdentifyBuilder(c)
      PROVE  Works'
  BY <1>0, <1>3 DEF IdentifyBuilder, Works
<1>4. ASSUME NEW c \in Caller, CancelLooks(c)
      PROVE  Works'
  BY <1>0, <1>4 DEF CancelLooks, Works
<1>5. ASSUME NEW c \in Caller, CancelOrphan(c)
      PROVE  Works'
  BY <1>0, <1>5 DEF CancelOrphan, Works
<1>6. ASSUME NEW c \in Caller, CancelActive(c)
      PROVE  Works'
  BY <1>0, <1>6 DEF CancelActive, Works
<1>7. ASSUME NEW c \in Caller, CallerKilled(c)
      PROVE  Works'
  BY <1>0, <1>7 DEF CallerKilled, Works
<1>8. ASSUME NEW t \in Job,
             \/ TakeRoot(t) \/ Begin(t) \/ CheckCancel(t) \/ SpawnTask(t) \/ RecordTask(t)
             \/ StopTask(t) \/ TaskEnded(t) \/ ClearTask(t) \/ Finish(t) \/ Report(t)
             \/ BuilderKilled(t)
      PROVE  Works'
  <2>1. WorkerMoves(t) /\ UNCHANGED <<part, loaded, evidence, edits, unseen>> /\ jobKills' \in Nat
    BY <1>8, JobWorkerActs
  <2>0. builder[t] \in Builders /\ builder[t].at \in Spots
    BY <1>0, BuilderIsThere
  <2>2. CASE Takes(t)
    BY <1>0, <2>0, <2>1, <2>2, TaskOfIs DEF Takes, Works
  <2>3. CASE Quits(t)
    BY <1>0, <2>0, <2>1, <2>3, TaskOfIs DEF Quits, Works, AtRoot, AtTask
  <2>4. CASE MovesFurther(t)
    BY <1>0, <2>0, <2>1, <2>4, TaskOfIs DEF MovesFurther, Works
  <2> QED
    BY <2>1, <2>2, <2>3, <2>4 DEF WorkerMoves
<1>9. ASSUME NEW k \in Task, TaskWrites(k)
      PROVE  Works'
  BY <1>0, <1>9 DEF TaskWrites, Works
<1>10. ASSUME NEW k \in Task, TaskSucceeds(k)
      PROVE  Works'
  BY <1>0, <1>10 DEF TaskSucceeds, Works
<1>11. ASSUME NEW k \in Task, TaskLoads(k)
      PROVE  Works'
  BY <1>0, <1>11 DEF TaskLoads, Works
<1>12. ASSUME NEW k \in Task, TaskFingerprints(k)
      PROVE  Works'
  BY <1>0, <1>12 DEF TaskFingerprints, Works, Task
<1>13. ASSUME NEW k \in Task, TaskFails(k)
      PROVE  Works'
  BY <1>0, <1>13 DEF TaskFails, Works
<1>14. CASE FilesEdited
  <2>1. edits' \in Nat /\ UNCHANGED <<task, lost, jobKills>> /\ loaded' = FALSE
    BY <1>0, <1>14 DEF FilesEdited, Works
  <2>3. evidence' \in {{}, evidence} /\ unseen' \in {TRUE, unseen}
    BY <1>14 DEF FilesEdited
  <2>2. part' \in [Writing -> {"missing", "partial", "whole"}]
    BY <1>0, <1>14 DEF FilesEdited, Works
  <2> QED
    BY <1>0, <2>1, <2>2, <2>3 DEF Works
<1> QED
  BY <1>1, <1>2, <1>3, <1>4, <1>5, <1>6, <1>7, <1>8, <1>9, <1>10, <1>11, <1>12, <1>13, <1>14
     DEF SetupNext

\* A client keeps the record's lock while it spawns.
LEMMA SpawningStep ==
    ASSUME SetupInv, SetupNext
    PROVE  Spawning'
<1>0. Offices /\ Works /\ Spawning /\ Rooted /\ Children /\ Claimed /\ Alone
  BY DEF SetupInv
<1>1. ASSUME NEW c \in Caller, NEW mode \in Mode, StartJob(c, mode)
      PROVE  Spawning'
  <2>1. jobs \in Nat /\ jobs' = jobs + 1 /\ jobs' \in Job /\ builder' = builder
    BY <1>0, <1>1, SetupAssumption DEF StartJob, Offices, Job
  <2>2. builder[jobs'].at = "none" /\ jobLock' = c
    BY <1>0, <2>1, <1>1 DEF StartJob, Spawning
  <2>3. \A d \in Caller : caller[d] \notin {"spawn", "identify"} /\ (d # c => caller'[d] = caller[d])
    BY <1>0, <1>1, SetupAssumption DEF StartJob, Says, Spawning
  <2> QED
    BY <1>0, <2>1, <2>2, <2>3 DEF Spawning
<1>2. ASSUME NEW c \in Caller, SpawnBuilder(c)
      PROVE  Spawning'
  <2>0. jobs \in Job /\ builder[jobs].at = "none" /\ jobLock = c
    BY <1>0, <1>2 DEF SpawnBuilder, Spawning
  <2>1. CASE builder' = [builder EXCEPT ![jobs].at = "lock"] /\ UNCHANGED <<job, jobLock>>
    <3>1. MovedOn(jobs, "lock")
      BY <1>0, <2>0, <2>1, BuilderMoves DEF BuilderAt, Spots, AtTask, Clears
    <3> QED
      BY <1>0, <1>2, <2>1 DEF SpawnBuilder, Says, Offices, Spawning
  <2>2. CASE job' = [job EXCEPT !.state = "failed"] /\ UNCHANGED builder /\ jobLock' = NoCaller
    BY <1>0, <1>2 DEF SpawnBuilder, Says, Offices, Spawning
  <2> QED
    BY <1>2, <2>1, <2>2 DEF SpawnBuilder
<1>3. ASSUME NEW c \in Caller, IdentifyBuilder(c)
      PROVE  Spawning'
  BY <1>0, <1>3 DEF IdentifyBuilder, Says, Offices, Spawning
<1>4. ASSUME NEW c \in Caller, CancelLooks(c)
      PROVE  Spawning'
  BY <1>0, <1>4 DEF CancelLooks, Says, Offices, Spawning
<1>5. ASSUME NEW c \in Caller, CancelOrphan(c)
      PROVE  Spawning'
  BY <1>0, <1>5 DEF CancelOrphan, Says, Spawning
<1>6. ASSUME NEW c \in Caller, CancelActive(c)
      PROVE  Spawning'
  BY <1>0, <1>6 DEF CancelActive, Says, Spawning
<1>7. ASSUME NEW c \in Caller, CallerKilled(c)
      PROVE  Spawning'
  BY <1>0, <1>7 DEF CallerKilled, Says, Offices, Spawning
<1>8. ASSUME NEW t \in Job,
             \/ TakeRoot(t) \/ Begin(t) \/ CheckCancel(t) \/ SpawnTask(t) \/ RecordTask(t)
             \/ StopTask(t) \/ TaskEnded(t) \/ ClearTask(t) \/ Finish(t) \/ Report(t)
             \/ BuilderKilled(t)
      PROVE  Spawning'
  <2>1. WorkerMoves(t) /\ UNCHANGED <<part, loaded, evidence, edits, unseen>> /\ jobKills' \in Nat
    BY <1>8, JobWorkerActs
  <2>0. builder[t] \in Builders /\ builder[t].at \in Spots
    BY <1>0, BuilderIsThere
  <2>2. CASE Takes(t)
    BY <1>0, <2>0, <2>1, <2>2, TaskOfIs
       DEF Takes, Moved, Elsewhere, Spawning, Job, BuilderLives, Clears, Ends, AtRoot, AtTask
  <2>3. CASE Quits(t)
    BY <1>0, <2>0, <2>1, <2>3, TaskOfIs
       DEF Quits, Moved, Elsewhere, Spawning, Job, BuilderLives, Clears, Ends, AtRoot, AtTask
  <2>4. CASE MovesFurther(t)
    BY <1>0, <2>0, <2>1, <2>4, TaskOfIs, NoTask
       DEF MovesFurther, Moved, MovedOn, Elsewhere, Spawning, Job, BuilderLives, Clears, Ends,
           AtRoot, AtTask
  <2> QED
    BY <2>1, <2>2, <2>3, <2>4 DEF WorkerMoves
<1>9. ASSUME NEW k \in Task, TaskWrites(k)
      PROVE  Spawning'
  BY <1>0, <1>9 DEF TaskWrites, Spawning
<1>10. ASSUME NEW k \in Task, TaskSucceeds(k)
      PROVE  Spawning'
  BY <1>0, <1>10 DEF TaskSucceeds, Spawning
<1>11. ASSUME NEW k \in Task, TaskLoads(k)
      PROVE  Spawning'
  BY <1>0, <1>11 DEF TaskLoads, Spawning
<1>12. ASSUME NEW k \in Task, TaskFingerprints(k)
      PROVE  Spawning'
  BY <1>0, <1>12 DEF TaskFingerprints, Spawning
<1>13. ASSUME NEW k \in Task, TaskFails(k)
      PROVE  Spawning'
  BY <1>0, <1>13 DEF TaskFails, Spawning
<1>14. CASE FilesEdited
  BY <1>0, <1>14 DEF FilesEdited, Spawning
<1> QED
  BY <1>1, <1>2, <1>3, <1>4, <1>5, <1>6, <1>7, <1>8, <1>9, <1>10, <1>11, <1>12, <1>13, <1>14
     DEF SetupNext

\* Only the holder of the installation is at work.
LEMMA RootedStep ==
    ASSUME SetupInv, SetupNext
    PROVE  Rooted'
<1>0. Offices /\ Works /\ Spawning /\ Rooted /\ Children /\ Claimed /\ Alone
  BY DEF SetupInv
<1>1. ASSUME NEW c \in Caller, NEW mode \in Mode, StartJob(c, mode)
      PROVE  Rooted'
  BY <1>0, <1>1 DEF StartJob, Rooted
<1>2. ASSUME NEW c \in Caller, SpawnBuilder(c)
      PROVE  Rooted'
  <2>0. jobs \in Job /\ builder[jobs].at = "none" /\ jobLock = c
    BY <1>0, <1>2 DEF SpawnBuilder, Spawning
  <2>1. CASE builder' = [builder EXCEPT ![jobs].at = "lock"] /\ UNCHANGED <<job, jobLock>>
    <3>1. MovedOn(jobs, "lock")
      BY <1>0, <2>0, <2>1, BuilderMoves DEF BuilderAt, Spots, AtTask, Clears
    <3> QED
      BY <1>0, <2>0, <1>2, <2>1 DEF SpawnBuilder, Rooted, Clears, AtRoot, AtTask
  <2>2. CASE job' = [job EXCEPT !.state = "failed"] /\ UNCHANGED builder /\ jobLock' = NoCaller
    BY <1>0, <1>2, <2>2 DEF SpawnBuilder, Rooted
  <2> QED
    BY <1>2, <2>1, <2>2 DEF SpawnBuilder
<1>3. ASSUME NEW c \in Caller, IdentifyBuilder(c)
      PROVE  Rooted'
  BY <1>0, <1>3 DEF IdentifyBuilder, Rooted
<1>4. ASSUME NEW c \in Caller, CancelLooks(c)
      PROVE  Rooted'
  BY <1>0, <1>4 DEF CancelLooks, Rooted
<1>5. ASSUME NEW c \in Caller, CancelOrphan(c)
      PROVE  Rooted'
  BY <1>0, <1>5 DEF CancelOrphan, Rooted
<1>6. ASSUME NEW c \in Caller, CancelActive(c)
      PROVE  Rooted'
  BY <1>0, <1>6 DEF CancelActive, Rooted
<1>7. ASSUME NEW c \in Caller, CallerKilled(c)
      PROVE  Rooted'
  BY <1>0, <1>7 DEF CallerKilled, Rooted
<1>8. ASSUME NEW t \in Job,
             \/ TakeRoot(t) \/ Begin(t) \/ CheckCancel(t) \/ SpawnTask(t) \/ RecordTask(t)
             \/ StopTask(t) \/ TaskEnded(t) \/ ClearTask(t) \/ Finish(t) \/ Report(t)
             \/ BuilderKilled(t)
      PROVE  Rooted'
  <2>1. WorkerMoves(t) /\ UNCHANGED <<part, loaded, evidence, edits, unseen>> /\ jobKills' \in Nat
    BY <1>8, JobWorkerActs
  <2>0. builder[t] \in Builders /\ builder[t].at \in Spots
    BY <1>0, BuilderIsThere
  <2>2. CASE Takes(t)
    BY <1>0, <2>0, <2>1, <2>2, TaskOfIs
       DEF Takes, Moved, Rooted, Job, BuilderLives, Clears, Ends, AtRoot, AtTask
  <2>3. CASE Quits(t)
    BY <1>0, <2>0, <2>1, <2>3, TaskOfIs
       DEF Quits, Moved, Releases, Holds, Rooted, Spawning, Job, BuilderLives, Clears, Ends, AtRoot,
           AtTask
  <2>4. CASE MovesFurther(t)
    BY <1>0, <2>0, <2>1, <2>4, TaskOfIs
       DEF MovesFurther, Moved, MovedOn, Rooted, Ends, AtRoot, AtTask
  <2> QED
    BY <2>1, <2>2, <2>3, <2>4 DEF WorkerMoves
<1>9. ASSUME NEW k \in Task, TaskWrites(k)
      PROVE  Rooted'
  BY <1>0, <1>9 DEF TaskWrites, Rooted
<1>10. ASSUME NEW k \in Task, TaskSucceeds(k)
      PROVE  Rooted'
  BY <1>0, <1>10 DEF TaskSucceeds, Rooted
<1>11. ASSUME NEW k \in Task, TaskLoads(k)
      PROVE  Rooted'
  BY <1>0, <1>11 DEF TaskLoads, Rooted
<1>12. ASSUME NEW k \in Task, TaskFingerprints(k)
      PROVE  Rooted'
  BY <1>0, <1>12 DEF TaskFingerprints, Rooted
<1>13. ASSUME NEW k \in Task, TaskFails(k)
      PROVE  Rooted'
  BY <1>0, <1>13 DEF TaskFails, Rooted
<1>14. CASE FilesEdited
  BY <1>0, <1>14 DEF FilesEdited, Rooted
<1> QED
  BY <1>1, <1>2, <1>3, <1>4, <1>5, <1>6, <1>7, <1>8, <1>9, <1>10, <1>11, <1>12, <1>13, <1>14
     DEF SetupNext

\* The record's child is its own worker's.
LEMMA ChildrenStep ==
    ASSUME SetupInv, SetupNext
    PROVE  Children'
<1>0. Offices /\ Works /\ Spawning /\ Rooted /\ Children /\ Claimed /\ Alone
  BY DEF SetupInv
<1>1. ASSUME NEW c \in Caller, NEW mode \in Mode, StartJob(c, mode)
      PROVE  Children'
  BY <1>1 DEF StartJob, NewJob, Children
<1>2. ASSUME NEW c \in Caller, SpawnBuilder(c)
      PROVE  Children'
  <2>0. jobs \in Job /\ builder[jobs].at = "none" /\ jobLock = c
    BY <1>0, <1>2 DEF SpawnBuilder, Spawning
  <2>1. CASE builder' = [builder EXCEPT ![jobs].at = "lock"] /\ UNCHANGED <<job, jobLock>>
    <3>1. MovedOn(jobs, "lock")
      BY <1>0, <2>0, <2>1, BuilderMoves DEF BuilderAt, Spots, AtTask, Clears
    <3> QED
      BY <1>0, <2>0, <1>2, <2>1 DEF Children, TaskOf, Clears
  <2>2. CASE job' = [job EXCEPT !.state = "failed"] /\ UNCHANGED builder /\ jobLock' = NoCaller
    BY <1>0, <2>2 DEF Children, TaskOf
  <2> QED
    BY <1>2, <2>1, <2>2 DEF SpawnBuilder
<1>3. ASSUME NEW c \in Caller, IdentifyBuilder(c)
      PROVE  Children'
  BY <1>0, <1>3 DEF IdentifyBuilder, Children, TaskOf
<1>4. ASSUME NEW c \in Caller, CancelLooks(c)
      PROVE  Children'
  BY <1>0, <1>4 DEF CancelLooks, Children, TaskOf
<1>5. ASSUME NEW c \in Caller, CancelOrphan(c)
      PROVE  Children'
  BY <1>5 DEF CancelOrphan, Children
<1>6. ASSUME NEW c \in Caller, CancelActive(c)
      PROVE  Children'
  BY <1>0, <1>6 DEF CancelActive, Children, TaskOf
<1>7. ASSUME NEW c \in Caller, CallerKilled(c)
      PROVE  Children'
  BY <1>0, <1>7 DEF CallerKilled, Children, TaskOf
<1>8. ASSUME NEW t \in Job,
             \/ TakeRoot(t) \/ Begin(t) \/ CheckCancel(t) \/ SpawnTask(t) \/ RecordTask(t)
             \/ StopTask(t) \/ TaskEnded(t) \/ ClearTask(t) \/ Finish(t) \/ Report(t)
             \/ BuilderKilled(t)
      PROVE  Children'
  <2>1. WorkerMoves(t) /\ UNCHANGED <<part, loaded, evidence, edits, unseen>> /\ jobKills' \in Nat
    BY <1>8, JobWorkerActs
  <2>0. builder[t] \in Builders /\ builder[t].at \in Spots
    BY <1>0, BuilderIsThere
  <2>2. CASE Takes(t)
    BY <1>0, <2>0, <2>1, <2>2, TaskOfIs
       DEF Takes, Moved, Children, Spawning, BuilderLives, TaskOf, Clears, Ends, AtRoot, AtTask
  <2>3. CASE Quits(t)
    BY <1>0, <2>0, <2>1, <2>3, TaskOfIs
       DEF Quits, Moved, SameRecord, Children, Spawning, BuilderLives, TaskOf, Clears, Ends, AtRoot,
           AtTask
  <2>4. CASE MovesFurther(t)
    BY <1>0, <2>0, <2>1, <2>4, TaskOfIs
       DEF MovesFurther, Moved, MovedOn, SameRecord, Children, Spawning, BuilderLives, TaskOf,
           Clears, Ends, AtRoot, AtTask
  <2> QED
    BY <2>1, <2>2, <2>3, <2>4 DEF WorkerMoves
<1>9. ASSUME NEW k \in Task, TaskWrites(k)
      PROVE  Children'
  BY <1>0, <1>9 DEF TaskWrites, Children, TaskOf
<1>10. ASSUME NEW k \in Task, TaskSucceeds(k)
      PROVE  Children'
  BY <1>0, <1>10 DEF TaskSucceeds, Children, TaskOf
<1>11. ASSUME NEW k \in Task, TaskLoads(k)
      PROVE  Children'
  BY <1>0, <1>11 DEF TaskLoads, Children, TaskOf
<1>12. ASSUME NEW k \in Task, TaskFingerprints(k)
      PROVE  Children'
  BY <1>0, <1>12 DEF TaskFingerprints, Children, TaskOf
<1>13. ASSUME NEW k \in Task, TaskFails(k)
      PROVE  Children'
  BY <1>0, <1>13 DEF TaskFails, Children, TaskOf
<1>14. CASE FilesEdited
  BY <1>0, <1>14 DEF FilesEdited, Children, TaskOf
<1> QED
  BY <1>1, <1>2, <1>3, <1>4, <1>5, <1>6, <1>7, <1>8, <1>9, <1>10, <1>11, <1>12, <1>13, <1>14
     DEF SetupNext

\* A task that runs is known, or is lost.
LEMMA ClaimedStep ==
    ASSUME SetupInv, SetupNext
    PROVE  Claimed'
<1>0. Offices /\ Works /\ Spawning /\ Rooted /\ Children /\ Claimed /\ Alone
  BY DEF SetupInv
<1>1. ASSUME NEW c \in Caller, NEW mode \in Mode, StartJob(c, mode)
      PROVE  Claimed'
  BY <1>0, <1>1 DEF StartJob, Claimed, TaskLives, Blocked, TaskOf, Clears, Ends, AtRoot, AtTask
<1>2. ASSUME NEW c \in Caller, SpawnBuilder(c)
      PROVE  Claimed'
  <2>0. jobs \in Job /\ builder[jobs].at = "none" /\ jobLock = c
    BY <1>0, <1>2 DEF SpawnBuilder, Spawning
  <2>1. CASE builder' = [builder EXCEPT ![jobs].at = "lock"] /\ UNCHANGED <<job, jobLock>>
    <3>1. MovedOn(jobs, "lock")
      BY <1>0, <2>0, <2>1, BuilderMoves DEF BuilderAt, Spots, AtTask, Clears
    <3> QED
      BY <1>0, <2>0, <1>2, <2>1
         DEF SpawnBuilder, Claimed, TaskLives, Blocked, Spawning, TaskOf, Clears, Ends, AtRoot,
             AtTask
  <2>2. CASE job' = [job EXCEPT !.state = "failed"] /\ UNCHANGED builder /\ jobLock' = NoCaller
    BY <1>0, <2>0, <1>2, <2>2
       DEF SpawnBuilder, Claimed, TaskLives, Spawning, TaskOf, Clears, Ends, AtRoot, AtTask
  <2> QED
    BY <1>2, <2>1, <2>2 DEF SpawnBuilder
<1>3. ASSUME NEW c \in Caller, IdentifyBuilder(c)
      PROVE  Claimed'
  BY <1>0, <1>3 DEF IdentifyBuilder, Claimed, TaskLives, TaskOf, Clears, Ends, AtRoot, AtTask
<1>4. ASSUME NEW c \in Caller, CancelLooks(c)
      PROVE  Claimed'
  BY <1>0, <1>4 DEF CancelLooks, Claimed, TaskLives, TaskOf, Clears, Ends, AtRoot, AtTask
<1>5. ASSUME NEW c \in Caller, CancelOrphan(c)
      PROVE  Claimed'
  BY <1>0, <1>5 DEF CancelOrphan, Claimed, Works, TaskLives, TaskOf, Clears, Ends, AtRoot, AtTask
<1>6. ASSUME NEW c \in Caller, CancelActive(c)
      PROVE  Claimed'
  BY <1>0, <1>6 DEF CancelActive, Claimed, TaskLives, TaskOf, Clears, Ends, AtRoot, AtTask
<1>7. ASSUME NEW c \in Caller, CallerKilled(c)
      PROVE  Claimed'
  BY <1>0, <1>7 DEF CallerKilled, Claimed, TaskLives, TaskOf, Clears, Ends, AtRoot, AtTask
<1>8. ASSUME NEW t \in Job,
             \/ TakeRoot(t) \/ Begin(t) \/ CheckCancel(t) \/ SpawnTask(t) \/ RecordTask(t)
             \/ StopTask(t) \/ TaskEnded(t) \/ ClearTask(t) \/ Finish(t) \/ Report(t)
             \/ BuilderKilled(t)
      PROVE  Claimed'
  <2>1. WorkerMoves(t) /\ UNCHANGED <<part, loaded, evidence, edits, unseen>> /\ jobKills' \in Nat
    BY <1>8, JobWorkerActs
  <2>0. builder[t] \in Builders /\ builder[t].at \in Spots
    BY <1>0, BuilderIsThere
  <2>2. CASE Takes(t)
    BY <1>0, <2>0, <2>1, <2>2, TaskOfIs, NoTask
       DEF Takes, Moved, Claimed, Works, TaskLives, Blocked, Spawning, TaskOf, Clears, Ends, AtRoot,
           AtTask
  <2>3. CASE Quits(t)
    BY <1>0, <2>0, <2>1, <2>3, TaskOfIs, NoTask
       DEF Quits, Moved, SameRecord, Claimed, Alone, Rooted, Works, TaskLives, Blocked, Spawning,
           TaskOf, Clears, Ends, AtRoot, AtTask
  <2>4. CASE MovesFurther(t)
    BY <1>0, <2>0, <2>1, <2>4, TaskOfIs, NoTask
       DEF MovesFurther, Moved, MovedOn, Elsewhere, Mine, Children, Claimed, Alone, Rooted, Works,
           TaskLives, Blocked, Spawning, TaskOf, Clears, Ends, AtRoot, AtTask
  <2> QED
    BY <2>1, <2>2, <2>3, <2>4 DEF WorkerMoves
<1>9. ASSUME NEW k \in Task, TaskWrites(k)
      PROVE  Claimed'
  BY <1>0, <1>9 DEF TaskWrites, Claimed, TaskLives, TaskOf, Clears, Ends, AtRoot, AtTask
<1>10. ASSUME NEW k \in Task, TaskSucceeds(k)
      PROVE  Claimed'
  BY <1>0, <1>10 DEF TaskSucceeds, Claimed, TaskLives, TaskOf, Clears, Ends, AtRoot, AtTask
<1>11. ASSUME NEW k \in Task, TaskLoads(k)
      PROVE  Claimed'
  BY <1>0, <1>11 DEF TaskLoads, Claimed, TaskLives, TaskOf, Clears, Ends, AtRoot, AtTask
<1>12. ASSUME NEW k \in Task, TaskFingerprints(k)
      PROVE  Claimed'
  BY <1>0, <1>12 DEF TaskFingerprints, Claimed, TaskLives, TaskOf, Clears, Ends, AtRoot, AtTask
<1>13. ASSUME NEW k \in Task, TaskFails(k)
      PROVE  Claimed'
  BY <1>0, <1>13 DEF TaskFails, Claimed, TaskLives, TaskOf, Clears, Ends, AtRoot, AtTask
<1>14. CASE FilesEdited
  BY <1>0, <1>14 DEF FilesEdited, Claimed, TaskLives, AtTask
<1> QED
  BY <1>1, <1>2, <1>3, <1>4, <1>5, <1>6, <1>7, <1>8, <1>9, <1>10, <1>11, <1>12, <1>13, <1>14
     DEF SetupNext

\* Nobody else is at work while the record's child runs.
LEMMA AloneStep ==
    ASSUME SetupInv, SetupNext
    PROVE  Alone'
<1>0. Offices /\ Works /\ Spawning /\ Rooted /\ Children /\ Claimed /\ Alone
  BY DEF SetupInv
<1>1. ASSUME NEW c \in Caller, NEW mode \in Mode, StartJob(c, mode)
      PROVE  Alone'
  BY <1>0, <1>1 DEF StartJob, NewJob, Alone, TaskLives, Ends, AtRoot, AtTask
<1>2. ASSUME NEW c \in Caller, SpawnBuilder(c)
      PROVE  Alone'
  <2>0. jobs \in Job /\ builder[jobs].at = "none" /\ jobLock = c
    BY <1>0, <1>2 DEF SpawnBuilder, Spawning
  <2>1. CASE builder' = [builder EXCEPT ![jobs].at = "lock"] /\ UNCHANGED <<job, jobLock>>
    <3>1. MovedOn(jobs, "lock")
      BY <1>0, <2>0, <2>1, BuilderMoves DEF BuilderAt, Spots, AtTask, Clears
    <3> QED
      BY <1>0, <2>0, <1>2, <2>1
         DEF SpawnBuilder, Alone, TaskLives, Spawning, TaskOf, Clears, Ends, AtRoot, AtTask
  <2>2. CASE job' = [job EXCEPT !.state = "failed"] /\ UNCHANGED builder /\ jobLock' = NoCaller
    BY <1>0, <2>0, <1>2, <2>2
       DEF SpawnBuilder, Alone, TaskLives, Spawning, TaskOf, Clears, Ends, AtRoot, AtTask
  <2> QED
    BY <1>2, <2>1, <2>2 DEF SpawnBuilder
<1>3. ASSUME NEW c \in Caller, IdentifyBuilder(c)
      PROVE  Alone'
  BY <1>0, <1>3 DEF IdentifyBuilder, Alone, TaskLives, TaskOf, Clears, Ends, AtRoot, AtTask
<1>4. ASSUME NEW c \in Caller, CancelLooks(c)
      PROVE  Alone'
  BY <1>0, <1>4 DEF CancelLooks, Alone, TaskLives, TaskOf, Clears, Ends, AtRoot, AtTask
<1>5. ASSUME NEW c \in Caller, CancelOrphan(c)
      PROVE  Alone'
  BY <1>0, <1>5 DEF CancelOrphan, Alone, TaskLives, AtTask
<1>6. ASSUME NEW c \in Caller, CancelActive(c)
      PROVE  Alone'
  BY <1>0, <1>6 DEF CancelActive, Alone, TaskLives, TaskOf, Clears, Ends, AtRoot, AtTask
<1>7. ASSUME NEW c \in Caller, CallerKilled(c)
      PROVE  Alone'
  BY <1>0, <1>7 DEF CallerKilled, Alone, TaskLives, TaskOf, Clears, Ends, AtRoot, AtTask
<1>8. ASSUME NEW t \in Job,
             \/ TakeRoot(t) \/ Begin(t) \/ CheckCancel(t) \/ SpawnTask(t) \/ RecordTask(t)
             \/ StopTask(t) \/ TaskEnded(t) \/ ClearTask(t) \/ Finish(t) \/ Report(t)
             \/ BuilderKilled(t)
      PROVE  Alone'
  <2>1. WorkerMoves(t) /\ UNCHANGED <<part, loaded, evidence, edits, unseen>> /\ jobKills' \in Nat
    BY <1>8, JobWorkerActs
  <2>0. builder[t] \in Builders /\ builder[t].at \in Spots
    BY <1>0, BuilderIsThere
  <2>2. CASE Takes(t)
    BY <1>0, <2>0, <2>1, <2>2, TaskOfIs
       DEF Takes, Moved, Alone, TaskLives, Blocked, Spawning, TaskOf, Clears, Ends, AtRoot, AtTask
  <2>3. CASE Quits(t)
    BY <1>0, <2>0, <2>1, <2>3, TaskOfIs
       DEF Quits, Moved, SameRecord, Alone, Rooted, Works, TaskLives, Blocked, Spawning, TaskOf,
           Clears, Ends, AtRoot, AtTask
  <2>4. CASE MovesFurther(t)
    <3> SUFFICES ASSUME NEW s \in Job, builder'[s].at \in AtRoot \ {"begin"}, TaskLives(job.child)'
                 PROVE  builder'[s].at = "wait" /\ job'.child = TaskOf(s)'
      BY DEF Alone
    <3>1. s = t /\ rootLock = t
      <4>1. builder[t].at \in AtRoot
        BY <2>4 DEF MovesFurther, AtRoot
      <4>2. s # t => builder[s].at \in AtRoot
        BY <2>4 DEF MovesFurther, Moved, MovedOn
      <4> QED
        BY <1>0, <4>1, <4>2 DEF Rooted
    <3>2. CASE builder[t].at = "begin" /\ Mine(t) /\ Moved(t, "check") /\ SameRecord(t) /\ UNCHANGED task
      <4>1. job.child = <<>>
        BY <1>0, <3>2 DEF Children, Mine, Clears
      <4> QED
        BY <3>2, <4>1 DEF SameRecord, TaskLives
    <3>3. CASE builder[t].at \in {"check", "finish"} /\ UNCHANGED <<job, task>>
      BY <1>0, <3>3 DEF Alone, AtRoot, TaskLives
    <3>4. CASE /\ builder[t].at = "spawn" /\ MovedOn(t, "record")
               /\ task' = [task EXCEPT ![TaskOf(t)] = "alive"] /\ UNCHANGED job
      <4>1. job.child # TaskOf(t)
        BY <1>0, <3>4, TaskOfIs DEF Children, AtTask, Clears
      <4>2. TaskLives(job.child)
        BY <3>4, <4>1 DEF TaskLives
      <4> QED
        BY <1>0, <3>4, <4>2 DEF Alone, AtRoot
    <3>5. CASE builder[t].at = "record" /\ MovedOn(t, "wait") /\ job'.child = TaskOf(t)
      BY <3>1, <3>5 DEF MovedOn, Moved, TaskOf
    <3>6. CASE /\ builder[t].at = "wait" /\ UNCHANGED job
               /\ \/ task' = [task EXCEPT ![TaskOf(t)] = "dead"]
                  \/ UNCHANGED task /\ ~TaskLives(TaskOf(t))
      <4>1. TaskLives(job.child) /\ job.child \in Task
        BY <1>0, <3>6 DEF TaskLives, Works, Offices, Jobs
      <4>2. job.child = TaskOf(t)
        BY <1>0, <3>6, <4>1 DEF Alone, AtRoot
      <4> QED
        BY <1>0, <3>6, <4>1, <4>2 DEF TaskLives, Works
    <3>7. CASE builder[t].at \in Clears /\ job'.child = <<>>
      BY <3>7 DEF TaskLives
    <3> QED
      BY <2>4, <3>2, <3>3, <3>4, <3>5, <3>6, <3>7 DEF MovesFurther
  <2> QED
    BY <2>1, <2>2, <2>3, <2>4 DEF WorkerMoves
<1>9. ASSUME NEW k \in Task, TaskWrites(k)
      PROVE  Alone'
  BY <1>0, <1>9 DEF TaskWrites, Alone, TaskLives, TaskOf, Clears, Ends, AtRoot, AtTask
<1>10. ASSUME NEW k \in Task, TaskSucceeds(k)
      PROVE  Alone'
  BY <1>0, <1>10 DEF TaskSucceeds, Alone, TaskLives, TaskOf, Clears, Ends, AtRoot, AtTask
<1>11. ASSUME NEW k \in Task, TaskLoads(k)
      PROVE  Alone'
  BY <1>0, <1>11 DEF TaskLoads, Alone, TaskLives, TaskOf, Clears, Ends, AtRoot, AtTask
<1>12. ASSUME NEW k \in Task, TaskFingerprints(k)
      PROVE  Alone'
  BY <1>0, <1>12 DEF TaskFingerprints, Alone, TaskLives, TaskOf, Clears, Ends, AtRoot, AtTask
<1>13. ASSUME NEW k \in Task, TaskFails(k)
      PROVE  Alone'
  BY <1>0, <1>13 DEF TaskFails, Alone, TaskLives, TaskOf, Clears, Ends, AtRoot, AtTask
<1>14. CASE FilesEdited
  BY <1>0, <1>14 DEF FilesEdited, Alone, TaskLives, TaskOf, Clears, Ends, AtRoot, AtTask
<1> QED
  BY <1>1, <1>2, <1>3, <1>4, <1>5, <1>6, <1>7, <1>8, <1>9, <1>10, <1>11, <1>12, <1>13, <1>14
     DEF SetupNext

\* Two tasks that run are one: the record has one child, the installation one
\* holder, and while the child runs the holder waits for it.
LEMMA OneTaskHolds ==
    ASSUME Offices, Works, Rooted, Claimed, Alone
    PROVE  OneTaskAtATime
<1> SUFFICES ASSUME NEW k \in Task \ lost, NEW l \in Task \ lost, TaskLives(k), TaskLives(l)
             PROVE  k = l
  BY DEF OneTaskAtATime
<1>0. k[1] \in Job /\ l[1] \in Job
  BY NoTask
<1>1. /\ job.child = k \/ (builder[k[1]].at = "record" /\ k = TaskOf(k[1]))
      /\ job.child = l \/ (builder[l[1]].at = "record" /\ l = TaskOf(l[1]))
  BY DEF Claimed
<1>2. \A t \in Job : builder[t].at = "record" => rootLock = t /\ ~TaskLives(job.child)
  BY DEF Rooted, Alone, AtRoot
<1> QED
  BY <1>0, <1>1, <1>2

\* A verification that ran is of the files as they are, and so is what it signs.
LEMMA VerifiedStep ==
    ASSUME SetupInv, SetupNext
    PROVE  Verified'
<1>0. Offices /\ Works /\ OneTaskAtATime /\ Verified
  BY DEF SetupInv
<1>1. CASE UNCHANGED <<task, part, loaded, evidence, unseen>> /\ lost \subseteq lost'
  BY <1>0, <1>1 DEF Verified
<1>2. ASSUME NEW c \in Caller, CancelOrphan(c)
      PROVE  Verified'
  BY <1>0, <1>2 DEF CancelOrphan, Verified
<1>3. ASSUME NEW t \in Job, WorkerMoves(t), UNCHANGED <<part, loaded, evidence, edits, unseen>>
      PROVE  Verified'
  <2>1. lost \subseteq lost' /\ \A k \in Task : task'[k] = "ran" => task[k] = "ran"
    <3>1. CASE Takes(t)
      BY <3>1 DEF Takes
    <3>2. CASE Quits(t)
      BY <3>2 DEF Quits
    <3>3. CASE MovesFurther(t)
      BY <1>0, <3>3 DEF MovesFurther, Works
    <3> QED
      BY <1>3, <3>1, <3>2, <3>3 DEF WorkerMoves
  <2> QED
    BY <1>0, <1>3, <2>1 DEF Verified
<1>4. ASSUME NEW k \in Task, TaskWrites(k) \/ TaskSucceeds(k), lost = {}
      PROVE  \A l \in Task : task'[l] # "ran"
  <2>1. k[2] # "verify" /\ TaskLives(k) /\ \A l \in Task : task'[l] = "ran" => task[l] = "ran"
    BY <1>0, <1>4 DEF TaskWrites, TaskSucceeds, Works, Writing
  <2>2. ASSUME NEW l \in Task, task[l] = "ran"
        PROVE  FALSE
    <3>1. l[2] = "verify" /\ TaskLives(l)
      BY <1>0, <2>2, NoTask DEF Works, TaskLives
    <3> QED
      BY <1>0, <1>4, <2>1, <3>1 DEF OneTaskAtATime
  <2> QED
    BY <2>1, <2>2
<1>5. ASSUME NEW k \in Task, TaskWrites(k)
      PROVE  Verified'
  BY <1>4, <1>5 DEF TaskWrites, Verified
<1>6. ASSUME NEW k \in Task, TaskSucceeds(k)
      PROVE  Verified'
  BY <1>0, <1>6 DEF TaskSucceeds, Verified, Works
<1>7. ASSUME NEW k \in Task, TaskLoads(k)
      PROVE  Verified'
  BY <1>7 DEF TaskLoads, Verified
<1>8. ASSUME NEW k \in Task, TaskFingerprints(k)
      PROVE  Verified'
  BY <1>0, <1>8 DEF TaskFingerprints, Verified
<1>9. ASSUME NEW k \in Task, TaskFails(k)
      PROVE  Verified'
  BY <1>0, <1>9 DEF TaskFails, Verified
<1>10. CASE FilesEdited
  BY <1>10, NoTask DEF FilesEdited, Verified, TaskLives
<1>11. ASSUME NEW c \in Caller, NEW mode \in Mode,
              \/ StartJob(c, mode) \/ SpawnBuilder(c) \/ IdentifyBuilder(c) \/ CancelLooks(c)
              \/ CancelActive(c) \/ CallerKilled(c)
       PROVE  UNCHANGED <<task, part, loaded, evidence, unseen, lost>>
  BY <1>11 DEF StartJob, SpawnBuilder, IdentifyBuilder, CancelLooks, CancelActive, CallerKilled
<1>12. ASSUME NEW c \in Caller, \/ \E mode \in Mode : StartJob(c, mode)
                                \/ SpawnBuilder(c) \/ IdentifyBuilder(c) \/ CancelLooks(c)
                                \/ CancelActive(c) \/ CallerKilled(c)
       PROVE  Verified'
  <2>1. "install" \in Mode
    BY DEF Mode
  <2> QED
    BY <1>1, <1>11, <1>12, <2>1
<1> QED
  BY <1>2, <1>3, <1>5, <1>6, <1>7, <1>8, <1>9, <1>10, <1>12, JobWorkerActs DEF SetupNext

\* The nine parts hold in every state the set-up reaches.
THEOREM SetupInvHolds == SetupSpec => []SetupInv
<1>1. SetupInit => SetupInv
  <2> SUFFICES ASSUME SetupInit PROVE SetupInv
    OBVIOUS
  <2>1. job \in Jobs /\ job.child = <<>> /\ jobs \in 0..MaxJobs /\ jobs = 0
    <3>1. MaxJobs \in Nat
      BY SetupAssumption
    <3>2. job = [ticket |-> 0, mode |-> "install", state |-> "none", pid |-> 0, child |-> <<>>,
                 cancel |-> FALSE]
      BY DEF SetupInit, NoJob, NewJob
    <3>3. "install" \in Mode /\ "none" \in Ends \cup {"none", "starting", "running", "canceling"}
      BY DEF Mode
    <3> QED
      BY <3>1, <3>2, <3>3 DEF SetupInit, Jobs
  <2>2. Offices
    BY <2>1 DEF SetupInit, Offices, Builders, AtTask, Clears
  <2>3. Works
    BY DEF SetupInit, Works
  <2>4. Spawning
    BY DEF SetupInit, Spawning
  <2>5. Rooted /\ Alone
    BY DEF SetupInit, Rooted, Alone, AtRoot, Clears, Job
  <2>6. Children
    BY <2>1 DEF Children
  <2>7. Claimed /\ OneTaskAtATime /\ Verified
    BY DEF SetupInit, Claimed, OneTaskAtATime, Verified, TaskLives
  <2> QED
    BY <2>2, <2>3, <2>4, <2>5, <2>6, <2>7 DEF SetupInv
<1>2. ASSUME SetupInv, SetupNext
      PROVE  SetupInv'
  <2>1. Offices' /\ Works' /\ Spawning' /\ Rooted' /\ Children' /\ Claimed' /\ Alone' /\ Verified'
    BY <1>2, OfficesStep, WorksStep, SpawningStep, RootedStep, ChildrenStep, ClaimedStep, AloneStep,
       VerifiedStep
  <2>2. OneTaskAtATime'
    BY <2>1, OneTaskHolds, PTL
  <2> QED
    BY <2>1, <2>2 DEF SetupInv
<1>3. SetupInv /\ UNCHANGED setupVars => SetupInv'
  BY DEF setupVars, SetupInv, Offices, Works, Spawning, Rooted, Children, Claimed, Alone,
         OneTaskAtATime, Verified, TaskLives, TaskOf
<1> QED
  BY <1>1, <1>2, <1>3, PTL DEF SetupSpec

\* No two tasks are at the installation, whoever is killed, cancelled or resumed
\* (runner/runtime_setup/jobs.py, worker.py).
THEOREM OneTask == SetupSpec => []OneTaskAtATime
<1>1. SetupInv => OneTaskAtATime
  BY DEF SetupInv
<1> QED
  BY <1>1, SetupInvHolds, PTL

\* What is shown as complete is whole and as a verification loaded it, as far as
\* the files go of which it takes fingerprints (runner/runtime_setup/jobs.py,
\* verify.py).
THEOREM CompleteWasVerified == SetupSpec => []CompleteIsVerified
<1>1. ASSUME SetupInv, Status = "complete", lost = {}, ~unseen
      PROVE  loaded /\ \A w \in Writing : part[w] = "whole"
  <2>1. job.ticket \in evidence
    BY <1>1 DEF Status, Active
  <2> QED
    BY <1>1, <2>1 DEF SetupInv, Verified
<1>2. SetupInv => CompleteIsVerified
  BY <1>1 DEF CompleteIsVerified
<1> QED
  BY <1>2, SetupInvHolds, PTL

----------------------------------------------------------------------------
(***************************************************************************)
(* Wire: the messages that are constructed, by type.                       *)
(***************************************************************************)
Hello == [type : {"hello"}, client_instance_id : {"plain"}]
Opening == [type : {"open"}, session_id : {"plain"}]
Authorization == [type : {"authorize"}, message_id : {"plain"}, resource : Resource,
                  lease_token : {1}, action_id : {"plain"}]
Neutralization == [type : {"neutralize"}, message_id : {"plain"}, resource : Resource,
                   lease_token : {0, 1}]
Speech == [type : {"data"}, action_id : {"plain"}, resource : {"VOICE_OUTPUT"}, lease_token : {1},
           sequence : {0}, ttl_ms : {1}, payload : [kind : {"wav"}, data : {1, 11, 12, 16, 17}]]
Frame == [type : {"data"}, action_id : {"plain"}, resource : {"FULL_BODY_POSE"}, lease_token : {1},
          sequence : {1}, ttl_ms : {1},
          payload : [kind : {"pose"}, fps : {"positive", "zero", "infinite"},
                     scale : {"positive", "zero", "infinite"},
                     coordinates : {"finite", "infinite"}, locomotion : {"within", "beyond"}]]
Request == [type : {"request"}, request_id : {"plain"}]
Ack == [type : {"ack"}, message_id : {"plain"}, accepted : BOOLEAN, reason : {None, "plain"}]
Completion == [type : {"completed"}, action_id : {"plain"}, resource : {"VOICE_OUTPUT"},
               lease_token : {1}, state : {"completed", "cancelled", "failed"},
               error : {None, "plain", "padded", "long"}]
Response == [type : {"response"}, request_id : {"plain"}, jpeg : {0, 1, 8, 9},
             error : {None, "plain", "padded"}]
Chunk == [type : {"audio"}, sequence : Nat, captured_monotonic_ns : {0},
          pcm : {n \in 1..MaxChunk : n % 2 = 0}]
Heartbeat == [type : {"heartbeat"}, sender : {"mac", "windows"}, sequence : Nat]

\* An error is told exactly when there is one to tell.
Explained(m) ==
    /\ m.type = "completed" => (m.state = "failed" <=> m.error # None)
    /\ m.type = "response" => (m.jpeg = 0 <=> m.error # None)

\* What may be sent as far as the connection is.
Counting == Chunk \cup Heartbeat

Messages(at) ==
    CASE at = "none"  -> Hello
      [] at = "hello" -> Opening
      [] at = "open"  -> Authorization \cup Neutralization \cup Speech \cup Frame \cup Request
                           \cup Ack \cup {m \in Completion \cup Response : Explained(m)} \cup Counting

\* A message that is lost is lost where it is encoded; any other is decoded to
\* what was meant.
Carried(m) ==
    /\ PayloadEncodes(m) /\ Encodable(m) <=> ~Lost(m)
    /\ Read(Encoding(m.type), m) = Meant(m)
    /\ ~Lost(m) =>
         /\ Meant(m).type \in DOMAIN DecodeCommand \cup DOMAIN DecodeReport
         /\ Fits(Decoding(m.type), Meant(m))
         /\ Read(Decoding(m.type), Meant(m)) = Meant(m)

\* What is read of a message is what was meant, if only errors are padded, and
\* they are read as texts.
LEMMA ReadIsMeant ==
    ASSUME NEW fields, NEW m, "type" \in DOMAIN m, DOMAIN m = DOMAIN fields \cup {"type"},
           \A f \in DOMAIN fields :
             /\ fields[f] \in {"identifier", "text"} /\ m[f] = "padded" => f = "error"
             /\ f = "error" => fields[f] = "text",
           m.type # "padded", "type" \notin DOMAIN fields
    PROVE  /\ Read(fields, m) = Meant(m)
           /\ Read(fields, Meant(m)) = Meant(m)
           /\ DOMAIN Meant(m) = DOMAIN m /\ Meant(m).type = m.type
           /\ \A f \in DOMAIN m : f # "error" => Meant(m)[f] = m[f]
<1>1. /\ DOMAIN Meant(m) = DOMAIN m
      /\ \A f \in DOMAIN m : Meant(m)[f] = IF f = "error" /\ m[f] = "padded" THEN "plain" ELSE m[f]
  BY DEF Meant
<1>2. Meant(m).type = m.type
  BY <1>1
<1>3. \A f \in DOMAIN fields : Stripped(fields[f], m[f]) = Meant(m)[f]
  BY <1>1 DEF Stripped
<1>4. \A f \in DOMAIN fields : Stripped(fields[f], Meant(m)[f]) = Meant(m)[f]
  BY <1>1 DEF Stripped
<1>5. Read(fields, m) = [f \in DOMAIN m |-> Meant(m)[f]]
  BY <1>3, <1>2 DEF Read
<1>6. Read(fields, Meant(m)) = [f \in DOMAIN m |-> Meant(m)[f]]
  BY <1>4, <1>2, <1>1 DEF Read
<1>7. Meant(m) = [f \in DOMAIN m |-> Meant(m)[f]]
  BY DEF Meant
<1> QED
  BY <1>1, <1>2, <1>5, <1>6, <1>7

\* The opening message of a connection.
\* The opening message of a connection.
\* The opening message of a connection.
LEMMA HelloIsCarried ==
    ASSUME NEW m \in Hello
    PROVE  Carried(m)
<1> DEFINE F == [client_instance_id |-> "identifier"]
<1>1. /\ m.type = "hello" /\ DOMAIN m = DOMAIN F \cup {"type"}
      /\ m.client_instance_id = "plain"
  BY WireAssumption DEF Hello
<1>2. Encoding(m.type) = F /\ m.type \in DOMAIN EncodeCommand \cup DOMAIN EncodeReport
  BY <1>1 DEF Encoding, EncodeCommand, EncodeReport
<1>3. Decoding(m.type) = F /\ m.type \in DOMAIN DecodeCommand \cup DOMAIN DecodeReport
  BY <1>1 DEF Decoding, DecodeCommand, DecodeReport
<1>4. /\ Read(F, m) = Meant(m) /\ Read(F, Meant(m)) = Meant(m)
      /\ DOMAIN Meant(m) = DOMAIN m /\ Meant(m).type = m.type
      /\ \A f \in DOMAIN m : f # "error" => Meant(m)[f] = m[f]
  <2>1. /\ "type" \notin DOMAIN F
        /\ \A f \in DOMAIN F :
             /\ F[f] \in {"identifier", "text"} /\ m[f] = "padded" => f = "error"
             /\ f = "error" => F[f] = "text"
    BY <1>1
  <2> HIDE DEF F
  <2> QED
    BY <1>1, <2>1, ReadIsMeant
<1>5. /\ ~Lost(m) /\ Bytes(m) <= MaxMessage /\ PayloadEncodes(m)
      /\ Consistent(m) /\ Consistent(Meant(m))
  BY <1>1, <1>4 DEF Lost, Bytes, MaxMessage, PayloadEncodes, Consistent
<1>6. Fits(F, m) /\ Fits(F, Meant(m))
  BY <1>1, <1>4, <1>5 DEF Fits, Accepts
<1> QED
  BY <1>1, <1>2, <1>3, <1>4, <1>5, <1>6 DEF Carried, Encodable

\* The opening of a session.
LEMMA OpeningIsCarried ==
    ASSUME NEW m \in Opening
    PROVE  Carried(m)
<1> DEFINE F == [session_id |-> "identifier"]
<1>1. /\ m.type = "open" /\ DOMAIN m = DOMAIN F \cup {"type"}
      /\ m.session_id = "plain"
  BY WireAssumption DEF Opening
<1>2. Encoding(m.type) = F /\ m.type \in DOMAIN EncodeCommand \cup DOMAIN EncodeReport
  BY <1>1 DEF Encoding, EncodeCommand, EncodeReport
<1>3. Decoding(m.type) = F /\ m.type \in DOMAIN DecodeCommand \cup DOMAIN DecodeReport
  BY <1>1 DEF Decoding, DecodeCommand, DecodeReport
<1>4. /\ Read(F, m) = Meant(m) /\ Read(F, Meant(m)) = Meant(m)
      /\ DOMAIN Meant(m) = DOMAIN m /\ Meant(m).type = m.type
      /\ \A f \in DOMAIN m : f # "error" => Meant(m)[f] = m[f]
  <2>1. /\ "type" \notin DOMAIN F
        /\ \A f \in DOMAIN F :
             /\ F[f] \in {"identifier", "text"} /\ m[f] = "padded" => f = "error"
             /\ f = "error" => F[f] = "text"
    BY <1>1
  <2> HIDE DEF F
  <2> QED
    BY <1>1, <2>1, ReadIsMeant
<1>5. /\ ~Lost(m) /\ Bytes(m) <= MaxMessage /\ PayloadEncodes(m)
      /\ Consistent(m) /\ Consistent(Meant(m))
  BY <1>1, <1>4 DEF Lost, Bytes, MaxMessage, PayloadEncodes, Consistent
<1>6. Fits(F, m) /\ Fits(F, Meant(m))
  BY <1>1, <1>4, <1>5 DEF Fits, Accepts
<1> QED
  BY <1>1, <1>2, <1>3, <1>4, <1>5, <1>6 DEF Carried, Encodable

\* An authorization.
LEMMA AuthorizationIsCarried ==
    ASSUME NEW m \in Authorization
    PROVE  Carried(m)
<1> DEFINE F == [message_id |-> "identifier", resource |-> "any", lease_token |-> "positive",
                 action_id |-> "identifier"]
           G == [message_id |-> "identifier", resource |-> "resource",
                 lease_token |-> "positive", action_id |-> "identifier"]
<1>1. /\ m.type = "authorize" /\ DOMAIN m = DOMAIN F \cup {"type"} /\ DOMAIN F = DOMAIN G
      /\ m.message_id = "plain" /\ m.resource \in Resource
      /\ m.lease_token = 1 /\ m.action_id = "plain"
  BY WireAssumption DEF Authorization
<1>2. Encoding(m.type) = F /\ m.type \in DOMAIN EncodeCommand \cup DOMAIN EncodeReport
  BY <1>1 DEF Encoding, EncodeCommand, EncodeReport
<1>3. Decoding(m.type) = G /\ m.type \in DOMAIN DecodeCommand \cup DOMAIN DecodeReport
  BY <1>1 DEF Decoding, DecodeCommand, DecodeReport
<1>4. /\ Read(F, m) = Meant(m) /\ Read(G, Meant(m)) = Meant(m)
      /\ DOMAIN Meant(m) = DOMAIN m /\ Meant(m).type = m.type
      /\ \A f \in DOMAIN m : f # "error" => Meant(m)[f] = m[f]
  <2>1. /\ "type" \notin DOMAIN F
        /\ \A f \in DOMAIN F :
             /\ F[f] \in {"identifier", "text"} /\ m[f] = "padded" => f = "error"
             /\ f = "error" => F[f] = "text"
             /\ G[f] \in {"identifier", "text"} /\ m[f] = "padded" => f = "error"
             /\ f = "error" => G[f] = "text"
    BY <1>1
  <2> HIDE DEF F, G
  <2>2. /\ Read(F, m) = Meant(m) /\ DOMAIN Meant(m) = DOMAIN m /\ Meant(m).type = m.type
        /\ \A f \in DOMAIN m : f # "error" => Meant(m)[f] = m[f]
    BY <1>1, <2>1, ReadIsMeant
  <2>3. Read(G, Meant(m)) = Meant(m)
    BY <1>1, <2>1, ReadIsMeant
  <2> QED
    BY <2>2, <2>3
<1>5. /\ ~Lost(m) /\ Bytes(m) <= MaxMessage /\ PayloadEncodes(m)
      /\ Consistent(m) /\ Consistent(Meant(m))
  BY <1>1, <1>4 DEF Lost, Bytes, MaxMessage, PayloadEncodes, Consistent
<1>6. Fits(F, m) /\ Fits(G, Meant(m))
  BY <1>1, <1>4, <1>5 DEF Fits, Accepts
<1> QED
  BY <1>1, <1>2, <1>3, <1>4, <1>5, <1>6 DEF Carried, Encodable

\* A fence.
LEMMA NeutralizationIsCarried ==
    ASSUME NEW m \in Neutralization
    PROVE  Carried(m)
<1> DEFINE F == [message_id |-> "identifier", resource |-> "any", lease_token |-> "nonnegative"]
           G == [message_id |-> "identifier", resource |-> "resource",
                 lease_token |-> "nonnegative"]
<1>1. /\ m.type = "neutralize" /\ DOMAIN m = DOMAIN F \cup {"type"} /\ DOMAIN F = DOMAIN G
      /\ m.message_id = "plain" /\ m.resource \in Resource /\ m.lease_token \in {0, 1}
  BY WireAssumption DEF Neutralization
<1>2. Encoding(m.type) = F /\ m.type \in DOMAIN EncodeCommand \cup DOMAIN EncodeReport
  BY <1>1 DEF Encoding, EncodeCommand, EncodeReport
<1>3. Decoding(m.type) = G /\ m.type \in DOMAIN DecodeCommand \cup DOMAIN DecodeReport
  BY <1>1 DEF Decoding, DecodeCommand, DecodeReport
<1>4. /\ Read(F, m) = Meant(m) /\ Read(G, Meant(m)) = Meant(m)
      /\ DOMAIN Meant(m) = DOMAIN m /\ Meant(m).type = m.type
      /\ \A f \in DOMAIN m : f # "error" => Meant(m)[f] = m[f]
  <2>1. /\ "type" \notin DOMAIN F
        /\ \A f \in DOMAIN F :
             /\ F[f] \in {"identifier", "text"} /\ m[f] = "padded" => f = "error"
             /\ f = "error" => F[f] = "text"
             /\ G[f] \in {"identifier", "text"} /\ m[f] = "padded" => f = "error"
             /\ f = "error" => G[f] = "text"
    BY <1>1
  <2> HIDE DEF F, G
  <2>2. /\ Read(F, m) = Meant(m) /\ DOMAIN Meant(m) = DOMAIN m /\ Meant(m).type = m.type
        /\ \A f \in DOMAIN m : f # "error" => Meant(m)[f] = m[f]
    BY <1>1, <2>1, ReadIsMeant
  <2>3. Read(G, Meant(m)) = Meant(m)
    BY <1>1, <2>1, ReadIsMeant
  <2> QED
    BY <2>2, <2>3
<1>5. /\ ~Lost(m) /\ Bytes(m) <= MaxMessage /\ PayloadEncodes(m)
      /\ Consistent(m) /\ Consistent(Meant(m))
  BY <1>1, <1>4 DEF Lost, Bytes, MaxMessage, PayloadEncodes, Consistent
<1>6. Fits(F, m) /\ Fits(G, Meant(m))
  BY <1>1, <1>4, <1>5 DEF Fits, Accepts
<1> QED
  BY <1>1, <1>2, <1>3, <1>4, <1>5, <1>6 DEF Carried, Encodable

\* Speech: what a message cannot hold is refused, and what it can hold the decoder
\* of the payload accepts.
LEMMA SpeechIsCarried ==
    ASSUME NEW m \in Speech
    PROVE  Carried(m)
<1> DEFINE F == [action_id |-> "identifier", resource |-> "any", lease_token |-> "positive",
                 sequence |-> "nonnegative", ttl_ms |-> "positive", payload |-> "any"]
           G == [action_id |-> "identifier", resource |-> "resource", lease_token |-> "positive",
                 sequence |-> "nonnegative", ttl_ms |-> "positive", payload |-> "any"]
<1>1. /\ m.type = "data" /\ DOMAIN m = DOMAIN F \cup {"type"} /\ DOMAIN F = DOMAIN G
      /\ m.action_id = "plain" /\ m.lease_token = 1
      /\ m.ttl_ms = 1 /\ m.resource = "VOICE_OUTPUT" /\ m.sequence = 0
      /\ m.payload.kind = "wav" /\ m.payload.data \in {1, 11, 12, 16, 17}
  BY WireAssumption DEF Speech
<1>2. Encoding(m.type) = F /\ m.type \in DOMAIN EncodeCommand \cup DOMAIN EncodeReport
  BY <1>1 DEF Encoding, EncodeCommand, EncodeReport
<1>3. Decoding(m.type) = G /\ m.type \in DOMAIN DecodeCommand \cup DOMAIN DecodeReport
  BY <1>1 DEF Decoding, DecodeCommand, DecodeReport
<1>4. /\ Read(F, m) = Meant(m) /\ Read(G, Meant(m)) = Meant(m)
      /\ DOMAIN Meant(m) = DOMAIN m /\ Meant(m).type = m.type
      /\ \A f \in DOMAIN m : f # "error" => Meant(m)[f] = m[f]
  <2>1. /\ "type" \notin DOMAIN F
        /\ \A f \in DOMAIN F :
             /\ F[f] \in {"identifier", "text"} /\ m[f] = "padded" => f = "error"
             /\ f = "error" => F[f] = "text"
             /\ G[f] \in {"identifier", "text"} /\ m[f] = "padded" => f = "error"
             /\ f = "error" => G[f] = "text"
    BY <1>1
  <2> HIDE DEF F, G
  <2>2. /\ Read(F, m) = Meant(m) /\ DOMAIN Meant(m) = DOMAIN m /\ Meant(m).type = m.type
        /\ \A f \in DOMAIN m : f # "error" => Meant(m)[f] = m[f]
    BY <1>1, <2>1, ReadIsMeant
  <2>3. Read(G, Meant(m)) = Meant(m)
    BY <1>1, <2>1, ReadIsMeant
  <2> QED
    BY <2>2, <2>3
<1>5. (PayloadEncodes(m) /\ Bytes(m) <= MaxMessage) <=> ~Lost(m)
  BY <1>1 DEF PayloadEncodes, EncodeWav, MaxWav, Bytes, Base64, MaxMessage, Lost
<1>6. Consistent(m) /\ Consistent(Meant(m))
  BY <1>1, <1>4 DEF Consistent
<1>7. Fits(F, m) /\ Fits(G, Meant(m))
  BY <1>1, <1>4, <1>6 DEF Fits, Accepts, Resource
<1> QED
  BY <1>1, <1>2, <1>3, <1>4, <1>5, <1>7 DEF Carried, Encodable

\* A frame of motion.
LEMMA FrameIsCarried ==
    ASSUME NEW m \in Frame
    PROVE  Carried(m)
<1> DEFINE F == [action_id |-> "identifier", resource |-> "any", lease_token |-> "positive",
                 sequence |-> "nonnegative", ttl_ms |-> "positive", payload |-> "any"]
           G == [action_id |-> "identifier", resource |-> "resource", lease_token |-> "positive",
                 sequence |-> "nonnegative", ttl_ms |-> "positive", payload |-> "any"]
<1>1. /\ m.type = "data" /\ DOMAIN m = DOMAIN F \cup {"type"} /\ DOMAIN F = DOMAIN G
      /\ m.action_id = "plain" /\ m.lease_token = 1 /\ m.ttl_ms = 1
      /\ m.resource = "FULL_BODY_POSE" /\ m.sequence = 1 /\ m.payload.kind = "pose"
  BY WireAssumption DEF Frame
<1>2. Encoding(m.type) = F /\ m.type \in DOMAIN EncodeCommand \cup DOMAIN EncodeReport
  BY <1>1 DEF Encoding, EncodeCommand, EncodeReport
<1>3. Decoding(m.type) = G /\ m.type \in DOMAIN DecodeCommand \cup DOMAIN DecodeReport
  BY <1>1 DEF Decoding, DecodeCommand, DecodeReport
<1>4. /\ Read(F, m) = Meant(m) /\ Read(G, Meant(m)) = Meant(m)
      /\ DOMAIN Meant(m) = DOMAIN m /\ Meant(m).type = m.type
      /\ \A f \in DOMAIN m : f # "error" => Meant(m)[f] = m[f]
  <2>1. /\ "type" \notin DOMAIN F
        /\ \A f \in DOMAIN F :
             /\ F[f] \in {"identifier", "text"} /\ m[f] = "padded" => f = "error"
             /\ f = "error" => F[f] = "text"
             /\ G[f] \in {"identifier", "text"} /\ m[f] = "padded" => f = "error"
             /\ f = "error" => G[f] = "text"
    BY <1>1
  <2> HIDE DEF F, G
  <2>2. /\ Read(F, m) = Meant(m) /\ DOMAIN Meant(m) = DOMAIN m /\ Meant(m).type = m.type
        /\ \A f \in DOMAIN m : f # "error" => Meant(m)[f] = m[f]
    BY <1>1, <2>1, ReadIsMeant
  <2>3. Read(G, Meant(m)) = Meant(m)
    BY <1>1, <2>1, ReadIsMeant
  <2> QED
    BY <2>2, <2>3
<1>5. (PayloadEncodes(m) /\ Bytes(m) <= MaxMessage) <=> ~Lost(m)
  <2>1. Bytes(m) = 1
    BY <1>1 DEF Bytes
  <2>2. PayloadEncodes(m) <=> PoseFits(m.payload)
    BY <1>1 DEF PayloadEncodes, EncodePose
  <2>3. Lost(m) <=> ~PoseFits(m.payload)
    BY <1>1 DEF Lost, PoseFits
  <2> QED
    BY <2>1, <2>2, <2>3 DEF MaxMessage
<1>6. Consistent(m) /\ Consistent(Meant(m))
  BY <1>1, <1>4 DEF Consistent
<1>7. Fits(F, m) /\ Fits(G, Meant(m))
  BY <1>1, <1>4, <1>6 DEF Fits, Accepts, Resource
<1> QED
  BY <1>1, <1>2, <1>3, <1>4, <1>5, <1>7 DEF Carried, Encodable

\* A request for a screenshot.
LEMMA RequestIsCarried ==
    ASSUME NEW m \in Request
    PROVE  Carried(m)
<1> DEFINE F == [request_id |-> "identifier"]
<1>1. /\ m.type = "request" /\ DOMAIN m = DOMAIN F \cup {"type"}
      /\ m.request_id = "plain"
  BY WireAssumption DEF Request
<1>2. Encoding(m.type) = F /\ m.type \in DOMAIN EncodeCommand \cup DOMAIN EncodeReport
  BY <1>1 DEF Encoding, EncodeCommand, EncodeReport
<1>3. Decoding(m.type) = F /\ m.type \in DOMAIN DecodeCommand \cup DOMAIN DecodeReport
  BY <1>1 DEF Decoding, DecodeCommand, DecodeReport
<1>4. /\ Read(F, m) = Meant(m) /\ Read(F, Meant(m)) = Meant(m)
      /\ DOMAIN Meant(m) = DOMAIN m /\ Meant(m).type = m.type
      /\ \A f \in DOMAIN m : f # "error" => Meant(m)[f] = m[f]
  <2>1. /\ "type" \notin DOMAIN F
        /\ \A f \in DOMAIN F :
             /\ F[f] \in {"identifier", "text"} /\ m[f] = "padded" => f = "error"
             /\ f = "error" => F[f] = "text"
    BY <1>1
  <2> HIDE DEF F
  <2> QED
    BY <1>1, <2>1, ReadIsMeant
<1>5. /\ ~Lost(m) /\ Bytes(m) <= MaxMessage /\ PayloadEncodes(m)
      /\ Consistent(m) /\ Consistent(Meant(m))
  BY <1>1, <1>4 DEF Lost, Bytes, MaxMessage, PayloadEncodes, Consistent
<1>6. Fits(F, m) /\ Fits(F, Meant(m))
  BY <1>1, <1>4, <1>5 DEF Fits, Accepts
<1> QED
  BY <1>1, <1>2, <1>3, <1>4, <1>5, <1>6 DEF Carried, Encodable

\* An acknowledgement.
LEMMA AckIsCarried ==
    ASSUME NEW m \in Ack
    PROVE  Carried(m)
<1> DEFINE F == [message_id |-> "identifier", accepted |-> "any", reason |-> "text"]
<1>1. /\ m.type = "ack" /\ DOMAIN m = DOMAIN F \cup {"type"}
      /\ m.message_id = "plain" /\ m.reason \in {None, "plain"} /\ m.reason # "padded"
  BY WireAssumption DEF Ack
<1>2. Encoding(m.type) = F /\ m.type \in DOMAIN EncodeCommand \cup DOMAIN EncodeReport
  BY <1>1 DEF Encoding, EncodeCommand, EncodeReport
<1>3. Decoding(m.type) = F /\ m.type \in DOMAIN DecodeCommand \cup DOMAIN DecodeReport
  BY <1>1 DEF Decoding, DecodeCommand, DecodeReport
<1>4. /\ Read(F, m) = Meant(m) /\ Read(F, Meant(m)) = Meant(m)
      /\ DOMAIN Meant(m) = DOMAIN m /\ Meant(m).type = m.type
      /\ \A f \in DOMAIN m : f # "error" => Meant(m)[f] = m[f]
  <2>1. /\ "type" \notin DOMAIN F
        /\ \A f \in DOMAIN F :
             /\ F[f] \in {"identifier", "text"} /\ m[f] = "padded" => f = "error"
             /\ f = "error" => F[f] = "text"
    BY <1>1
  <2> HIDE DEF F
  <2> QED
    BY <1>1, <2>1, ReadIsMeant
<1>5. /\ ~Lost(m) /\ Bytes(m) <= MaxMessage /\ PayloadEncodes(m)
      /\ Consistent(m) /\ Consistent(Meant(m))
  BY <1>1, <1>4 DEF Lost, Bytes, MaxMessage, PayloadEncodes, Consistent
<1>6. Fits(F, m) /\ Fits(F, Meant(m))
  BY <1>1, <1>4, <1>5 DEF Fits, Accepts
<1> QED
  BY <1>1, <1>2, <1>3, <1>4, <1>5, <1>6 DEF Carried, Encodable

\* The end of an action.
LEMMA CompletionIsCarried ==
    ASSUME NEW m \in Completion, Explained(m)
    PROVE  Carried(m)
<1> DEFINE F == [action_id |-> "identifier", resource |-> "any", lease_token |-> "positive",
                 state |-> "state", error |-> "text"]
           G == [action_id |-> "identifier", resource |-> "resource", lease_token |-> "positive",
                 state |-> "state", error |-> "text"]
<1>1. /\ m.type = "completed" /\ DOMAIN m = DOMAIN F \cup {"type"} /\ DOMAIN F = DOMAIN G
      /\ m.action_id = "plain" /\ m.resource = "VOICE_OUTPUT" /\ m.lease_token = 1
      /\ m.state \in {"completed", "cancelled", "failed"}
      /\ m.error \in {None, "plain", "padded", "long"}
  BY WireAssumption DEF Completion
<1>2. Encoding(m.type) = F /\ m.type \in DOMAIN EncodeCommand \cup DOMAIN EncodeReport
  BY <1>1 DEF Encoding, EncodeCommand, EncodeReport
<1>3. Decoding(m.type) = G /\ m.type \in DOMAIN DecodeCommand \cup DOMAIN DecodeReport
  BY <1>1 DEF Decoding, DecodeCommand, DecodeReport
<1>4. /\ Read(F, m) = Meant(m) /\ Read(G, Meant(m)) = Meant(m)
      /\ DOMAIN Meant(m) = DOMAIN m /\ Meant(m).type = m.type
      /\ \A f \in DOMAIN m : f # "error" => Meant(m)[f] = m[f]
  <2>1. /\ "type" \notin DOMAIN F
        /\ \A f \in DOMAIN F :
             /\ F[f] \in {"identifier", "text"} /\ m[f] = "padded" => f = "error"
             /\ f = "error" => F[f] = "text"
             /\ G[f] \in {"identifier", "text"} /\ m[f] = "padded" => f = "error"
             /\ f = "error" => G[f] = "text"
    BY <1>1
  <2> HIDE DEF F, G
  <2>2. /\ Read(F, m) = Meant(m) /\ DOMAIN Meant(m) = DOMAIN m /\ Meant(m).type = m.type
        /\ \A f \in DOMAIN m : f # "error" => Meant(m)[f] = m[f]
    BY <1>1, <2>1, ReadIsMeant
  <2>3. Read(G, Meant(m)) = Meant(m)
    BY <1>1, <2>1, ReadIsMeant
  <2> QED
    BY <2>2, <2>3
<1>5. PayloadEncodes(m) /\ Bytes(m) <= MaxMessage /\ Consistent(m) /\ Consistent(Meant(m))
  BY <1>1, <1>4, WireAssumption DEF PayloadEncodes, Bytes, MaxMessage, Consistent, Explained, Meant
<1>6. Fits(F, m) <=> ~Lost(m)
  BY <1>1, <1>5, WireAssumption DEF Fits, Accepts, Lost, Resource
<1>7. ~Lost(m) => Fits(G, Meant(m))
  BY <1>1, <1>4, <1>5, WireAssumption DEF Fits, Accepts, Lost, Meant, Resource
<1> QED
  BY <1>1, <1>2, <1>3, <1>4, <1>5, <1>6, <1>7 DEF Carried, Encodable

\* The answer to a request for a screenshot.
LEMMA ResponseIsCarried ==
    ASSUME NEW m \in Response, Explained(m)
    PROVE  Carried(m)
<1> DEFINE F == [request_id |-> "identifier", jpeg |-> "jpeg", error |-> "text"]
<1>1. /\ m.type = "response" /\ DOMAIN m = DOMAIN F \cup {"type"}
      /\ m.request_id = "plain" /\ m.jpeg \in {0, 1, 8, 9} /\ m.error \in {None, "plain", "padded"}
  BY WireAssumption DEF Response
<1>2. Encoding(m.type) = F /\ m.type \in DOMAIN EncodeCommand \cup DOMAIN EncodeReport
  BY <1>1 DEF Encoding, EncodeCommand, EncodeReport
<1>3. Decoding(m.type) = F /\ m.type \in DOMAIN DecodeCommand \cup DOMAIN DecodeReport
  BY <1>1 DEF Decoding, DecodeCommand, DecodeReport
<1>4. /\ Read(F, m) = Meant(m) /\ Read(F, Meant(m)) = Meant(m)
      /\ DOMAIN Meant(m) = DOMAIN m /\ Meant(m).type = m.type
      /\ \A f \in DOMAIN m : f # "error" => Meant(m)[f] = m[f]
  <2>1. /\ "type" \notin DOMAIN F
        /\ \A f \in DOMAIN F :
             /\ F[f] \in {"identifier", "text"} /\ m[f] = "padded" => f = "error"
             /\ f = "error" => F[f] = "text"
    BY <1>1
  <2> HIDE DEF F
  <2> QED
    BY <1>1, <2>1, ReadIsMeant
<1>5. PayloadEncodes(m) /\ Bytes(m) <= MaxMessage /\ Consistent(m) /\ Consistent(Meant(m))
  BY <1>1, <1>4, WireAssumption DEF PayloadEncodes, Bytes, Base64, MaxMessage, Consistent,
     Explained, Meant
<1>6. Fits(F, m) <=> ~Lost(m)
  BY <1>1, <1>5, WireAssumption DEF Fits, Accepts, Lost, MaxScreenshot
<1>7. ~Lost(m) => Fits(F, Meant(m))
  BY <1>1, <1>4, <1>5, WireAssumption DEF Fits, Accepts, Lost, Meant, MaxScreenshot
<1> QED
  BY <1>1, <1>2, <1>3, <1>4, <1>5, <1>6, <1>7 DEF Carried, Encodable

\* A chunk of audio.
LEMMA ChunkIsCarried ==
    ASSUME NEW m \in Chunk
    PROVE  Carried(m)
<1> DEFINE F == [sequence |-> "nonnegative", captured_monotonic_ns |-> "nonnegative", pcm |-> "pcm"]
<1>1. /\ m.type = "audio" /\ DOMAIN m = DOMAIN F \cup {"type"}
      /\ m.sequence \in Nat /\ m.captured_monotonic_ns = 0 /\ m.pcm \in 1..MaxChunk /\ m.pcm % 2 = 0
  BY WireAssumption DEF Chunk
<1>2. Encoding(m.type) = F /\ m.type \in DOMAIN EncodeCommand \cup DOMAIN EncodeReport
  BY <1>1 DEF Encoding, EncodeCommand, EncodeReport
<1>3. Decoding(m.type) = F /\ m.type \in DOMAIN DecodeCommand \cup DOMAIN DecodeReport
  BY <1>1 DEF Decoding, DecodeCommand, DecodeReport
<1>4. /\ Read(F, m) = Meant(m) /\ Read(F, Meant(m)) = Meant(m)
      /\ DOMAIN Meant(m) = DOMAIN m /\ Meant(m).type = m.type
      /\ \A f \in DOMAIN m : f # "error" => Meant(m)[f] = m[f]
  <2>1. /\ "type" \notin DOMAIN F
        /\ \A f \in DOMAIN F :
             /\ F[f] \in {"identifier", "text"} /\ m[f] = "padded" => f = "error"
             /\ f = "error" => F[f] = "text"
    BY <1>1
  <2> HIDE DEF F
  <2> QED
    BY <1>1, <2>1, ReadIsMeant
<1>5. /\ ~Lost(m) /\ Bytes(m) <= MaxMessage /\ PayloadEncodes(m)
      /\ Consistent(m) /\ Consistent(Meant(m))
  BY <1>1, <1>4 DEF Lost, Bytes, MaxMessage, PayloadEncodes, Consistent
<1>6. Fits(F, m) /\ Fits(F, Meant(m))
  BY <1>1, <1>4, <1>5 DEF Fits, Accepts
<1> QED
  BY <1>1, <1>2, <1>3, <1>4, <1>5, <1>6 DEF Carried, Encodable

\* A heartbeat.
LEMMA HeartbeatIsCarried ==
    ASSUME NEW m \in Heartbeat
    PROVE  Carried(m)
<1> DEFINE F == [sender |-> "sender", sequence |-> "nonnegative"]
<1>1. /\ m.type = "heartbeat" /\ DOMAIN m = DOMAIN F \cup {"type"}
      /\ m.sender \in {"mac", "windows"} /\ m.sequence \in Nat
  BY WireAssumption DEF Heartbeat
<1>2. Encoding(m.type) = F /\ m.type \in DOMAIN EncodeCommand \cup DOMAIN EncodeReport
  BY <1>1 DEF Encoding, EncodeCommand, EncodeReport
<1>3. Decoding(m.type) = F /\ m.type \in DOMAIN DecodeCommand \cup DOMAIN DecodeReport
  BY <1>1 DEF Decoding, DecodeCommand, DecodeReport
<1>4. /\ Read(F, m) = Meant(m) /\ Read(F, Meant(m)) = Meant(m)
      /\ DOMAIN Meant(m) = DOMAIN m /\ Meant(m).type = m.type
      /\ \A f \in DOMAIN m : f # "error" => Meant(m)[f] = m[f]
  <2>1. /\ "type" \notin DOMAIN F
        /\ \A f \in DOMAIN F :
             /\ F[f] \in {"identifier", "text"} /\ m[f] = "padded" => f = "error"
             /\ f = "error" => F[f] = "text"
    BY <1>1
  <2> HIDE DEF F
  <2> QED
    BY <1>1, <2>1, ReadIsMeant
<1>5. /\ ~Lost(m) /\ Bytes(m) <= MaxMessage /\ PayloadEncodes(m)
      /\ Consistent(m) /\ Consistent(Meant(m))
  BY <1>1, <1>4 DEF Lost, Bytes, MaxMessage, PayloadEncodes, Consistent
<1>6. Fits(F, m) /\ Fits(F, Meant(m))
  BY <1>1, <1>4, <1>5 DEF Fits, Accepts
<1> QED
  BY <1>1, <1>2, <1>3, <1>4, <1>5, <1>6 DEF Carried, Encodable

\* Every message that is constructed is carried.
LEMMA EveryMessageIsCarried ==
    ASSUME phase \in {"none", "hello", "open"}, NEW m \in Messages(phase)
    PROVE  Carried(m)
BY HelloIsCarried, OpeningIsCarried, AuthorizationIsCarried, NeutralizationIsCarried,
   SpeechIsCarried, FrameIsCarried, RequestIsCarried, AckIsCarried, CompletionIsCarried,
   ResponseIsCarried, ChunkIsCarried, HeartbeatIsCarried DEF Messages, Counting

\* But for errors, what is meant is what was said.
LEMMA MeantKeeps ==
    ASSUME NEW m, NEW f \in DOMAIN m, f # "error"
    PROVE  Meant(m)[f] = m[f]
BY DEF Meant

(***************************************************************************)
(* Wire: the inductive invariant.                                          *)
(***************************************************************************)
WireTypes ==
    /\ phase \in {"none", "hello", "open"}
    /\ fate \in {"none", "sent", "refused", "taken", "rejected"}
    /\ next \in [Counted -> Nat] /\ last \in [Counted -> Int]

\* Both ends are of one version once the first message was taken, and in an open
\* session nothing was received that is not yet sent.
Sessions ==
    /\ phase # "none" => peer = Version
    /\ phase = "hello" => next["mac"] = 0 /\ last["windows"] = -1 /\ last["audio"] = -1
    /\ phase = "open" => \A c \in Counted : last[c] < next[c]

\* In flight is a message of the phase, which is not lost, and if it is counted
\* newer than what was received.
Flight ==
    fate = "sent" =>
      /\ msg \in Messages(phase) /\ ~Lost(msg) /\ wire = Encode(msg)
      /\ msg \in Counting =>
           last[Counter(msg)] < msg.sequence /\ msg.sequence < next[Counter(msg)]

WireInv == WireTypes /\ Sessions /\ Flight /\ WhatIsSentIsTaken

\* A connection on its own, and below a turn on its own: MCContracts runs them
\* beside others.
WireSpec == WireInit /\ [][WireNext]_wireVars

\* A message of the phase that takes the next number, if it is counted, may be
\* sent: it is refused only as lost.
LEMMA SendKeeps ==
    ASSUME WireInv, NEW m \in Messages(phase), Send(m), UNCHANGED <<peer, phase, last>>,
           next' \in [Counted -> Nat],
           \A c \in Counted : next'[c] >= next[c],
           phase = "hello" => next' = next,
           m \in Counting => /\ Counter(m) \in Counted /\ phase = "open"
                             /\ m.sequence = next[Counter(m)]
                             /\ next'[Counter(m)] = m.sequence + 1
    PROVE  WireInv'
<1>1. Carried(m)
  BY EveryMessageIsCarried DEF WireInv, WireTypes
<1>2. /\ msg' = m /\ got' = NoMessage
      /\ Lost(m) => fate' = "refused"
      /\ ~Lost(m) => fate' = "sent" /\ wire' = Encode(m)
  BY <1>1 DEF Send, Carried
<1>3. WireTypes' /\ Sessions'
  <2>1. fate' \in {"sent", "refused"}
    BY <1>2
  <2>2. \A c \in Counted : last[c] < next[c] => last[c] < next'[c]
    BY DEF WireInv, WireTypes
  <2> QED
    BY <2>1, <2>2 DEF WireInv, WireTypes, Sessions
<1>4. Flight'
  <2>1. ASSUME fate' = "sent"
        PROVE  msg' \in Messages(phase') /\ ~Lost(msg') /\ wire' = Encode(msg)'
    BY <1>2, <2>1 DEF Encode, FromMac
  <2>2. m \in Counting => /\ last'[Counter(m)] < m.sequence
                          /\ m.sequence < next'[Counter(m)]
    BY DEF WireInv, WireTypes, Sessions
  <2> QED
    BY <1>2, <2>1, <2>2 DEF Flight, Counter
<1>5. WhatIsSentIsTaken'
  BY <1>2 DEF WhatIsSentIsTaken
<1> QED
  BY <1>3, <1>4, <1>5 DEF WireInv

\* No other message is counted.
LEMMA OthersAreNotCounted ==
    ASSUME NEW m, m.type \notin {"audio", "heartbeat"}
    PROVE  m \notin Counting
BY DEF Counting, Chunk, Heartbeat

\* Sending a message that is not counted.
LEMMA PlainSendKeeps ==
    ASSUME WireInv, NEW m \in Messages(phase), m.type \notin {"audio", "heartbeat"}, Send(m),
           UNCHANGED <<peer, phase, next, last>>
    PROVE  WireInv'
<1>1. m \notin Counting
  BY OthersAreNotCounted
<1>2. next' \in [Counted -> Nat] /\ \A c \in Counted : next'[c] >= next[c]
  BY DEF WireInv, WireTypes
<1> QED
  BY <1>1, <1>2, SendKeeps

\* Whatever either end sends, it is a message of the phase.
LEMMA SendersKeep ==
    ASSUME WireInv,
           SayHello \/ OpenSession \/ SendControl \/ PlayWav \/ SendPose \/ RequestScreenshot
             \/ SendAck \/ SendCompleted \/ AnswerScreenshot
    PROVE  WireInv'
<1>1. CASE SayHello
  <2> DEFINE m == [type |-> "hello", client_instance_id |-> "plain"]
  <2>1. m \in Messages(phase) /\ Send(m) /\ UNCHANGED <<peer, phase, next, last>>
    BY <1>1 DEF SayHello, Messages, Hello
  <2> QED
    BY <2>1, PlainSendKeeps
<1>2. CASE OpenSession
  <2> DEFINE m == [type |-> "open", session_id |-> "plain"]
  <2>1. m \in Messages(phase) /\ Send(m) /\ UNCHANGED <<peer, phase, next, last>>
    BY <1>2 DEF OpenSession, Messages, Opening
  <2> QED
    BY <2>1, PlainSendKeeps
<1>3. CASE SendControl
  <2>1. phase = "open" /\ UNCHANGED <<peer, phase, next, last>>
    BY <1>3 DEF SendControl
  <2>2. PICK r \in Resource, t \in 0..1 :
          \/ t > 0 /\ Send([type |-> "authorize", message_id |-> "plain", resource |-> r,
                            lease_token |-> t, action_id |-> "plain"])
          \/ Send([type |-> "neutralize", message_id |-> "plain", resource |-> r, lease_token |-> t])
    BY <1>3 DEF SendControl
  <2> DEFINE a == [type |-> "authorize", message_id |-> "plain", resource |-> r,
                   lease_token |-> t, action_id |-> "plain"]
             n == [type |-> "neutralize", message_id |-> "plain", resource |-> r, lease_token |-> t]
  <2>3. ASSUME t > 0, Send(a)
        PROVE  WireInv'
    <3>1. a \in Authorization
      BY <2>3 DEF Authorization
    <3>2. a \in Messages(phase) /\ a.type = "authorize"
      BY <2>1, <3>1 DEF Messages
    <3> QED
      BY <2>1, <2>3, <3>2, PlainSendKeeps
  <2>4. ASSUME Send(n)
        PROVE  WireInv'
    <3>1. n \in Neutralization
      BY DEF Neutralization
    <3>2. n \in Messages(phase) /\ n.type = "neutralize"
      BY <2>1, <3>1 DEF Messages
    <3> QED
      BY <2>1, <2>4, <3>2, PlainSendKeeps
  <2> QED
    BY <2>2, <2>3, <2>4
<1>4. CASE PlayWav
  <2>1. phase = "open" /\ UNCHANGED <<peer, phase, next, last>>
    BY <1>4 DEF PlayWav
  <2>2. PICK size \in {1, 11, 12, 16, 17} :
          Send(Data("VOICE_OUTPUT", 0, [kind |-> "wav", data |-> size]))
    BY <1>4 DEF PlayWav
  <2> DEFINE m == Data("VOICE_OUTPUT", 0, [kind |-> "wav", data |-> size])
  <2>3. m \in Speech /\ m.type = "data"
    BY DEF Data, Speech
  <2>4. m \in Messages(phase)
    BY <2>1, <2>3 DEF Messages
  <2> QED
    BY <2>1, <2>2, <2>3, <2>4, PlainSendKeeps
<1>5. CASE SendPose
  <2>1. phase = "open" /\ UNCHANGED <<peer, phase, next, last>>
    BY <1>5 DEF SendPose
  <2>2. PICK fps \in {"positive", "zero", "infinite"}, scale \in {"positive", "zero", "infinite"},
             coordinates \in {"finite", "infinite"}, locomotion \in {"within", "beyond"} :
          Send(Data("FULL_BODY_POSE", 1, [kind |-> "pose", fps |-> fps, scale |-> scale,
                    coordinates |-> coordinates, locomotion |-> locomotion]))
    BY <1>5 DEF SendPose
  <2> DEFINE m == Data("FULL_BODY_POSE", 1, [kind |-> "pose", fps |-> fps, scale |-> scale,
                       coordinates |-> coordinates, locomotion |-> locomotion])
  <2>3. m \in Frame /\ m.type = "data"
    BY DEF Data, Frame
  <2>4. m \in Messages(phase)
    BY <2>1, <2>3 DEF Messages
  <2> QED
    BY <2>1, <2>2, <2>3, <2>4, PlainSendKeeps
<1>6. CASE RequestScreenshot
  <2> DEFINE m == [type |-> "request", request_id |-> "plain"]
  <2>1. phase = "open" /\ Send(m) /\ UNCHANGED <<peer, phase, next, last>>
    BY <1>6 DEF RequestScreenshot
  <2>2. m \in Request /\ m.type = "request"
    BY DEF Request
  <2>3. m \in Messages(phase)
    BY <2>1, <2>2 DEF Messages
  <2> QED
    BY <2>1, <2>2, <2>3, PlainSendKeeps
<1>7. CASE SendAck
  <2>1. phase = "open" /\ UNCHANGED <<peer, phase, next, last>>
    BY <1>7 DEF SendAck
  <2>2. PICK accepted \in BOOLEAN :
          Send([type |-> "ack", message_id |-> "plain", accepted |-> accepted,
                reason |-> IF accepted THEN None ELSE "plain"])
    BY <1>7 DEF SendAck
  <2> DEFINE m == [type |-> "ack", message_id |-> "plain", accepted |-> accepted,
                   reason |-> IF accepted THEN None ELSE "plain"]
  <2>3. m \in Ack /\ m.type = "ack"
    BY DEF Ack
  <2>4. m \in Messages(phase)
    BY <2>1, <2>3 DEF Messages
  <2> QED
    BY <2>1, <2>2, <2>3, <2>4, PlainSendKeeps
<1>8. CASE SendCompleted
  <2>1. phase = "open" /\ UNCHANGED <<peer, phase, next, last>>
    BY <1>8 DEF SendCompleted
  <2>2. PICK state \in {"completed", "cancelled", "failed"}, error \in {"plain", "padded", "long"} :
          Send([type |-> "completed", action_id |-> "plain", resource |-> "VOICE_OUTPUT",
                lease_token |-> 1, state |-> state,
                error |-> IF state = "failed" THEN error ELSE None])
    BY <1>8 DEF SendCompleted
  <2> DEFINE m == [type |-> "completed", action_id |-> "plain", resource |-> "VOICE_OUTPUT",
                   lease_token |-> 1, state |-> state,
                   error |-> IF state = "failed" THEN error ELSE None]
  <2>3. m \in Completion /\ m.type = "completed" /\ Explained(m)
    BY WireAssumption DEF Completion, Explained
  <2>4. m \in Messages(phase)
    BY <2>1, <2>3 DEF Messages
  <2> QED
    BY <2>1, <2>2, <2>3, <2>4, PlainSendKeeps
<1>9. CASE AnswerScreenshot
  <2>1. phase = "open" /\ UNCHANGED <<peer, phase, next, last>>
    BY <1>9 DEF AnswerScreenshot
  <2>2. PICK jpeg \in {0, 1, 8, 9}, error \in {None, "plain", "padded"} :
          /\ jpeg = 0 <=> error # None
          /\ Send([type |-> "response", request_id |-> "plain", jpeg |-> jpeg, error |-> error])
    <3>1. CASE \E jpeg \in {1, MaxScreenshot, MaxScreenshot + 1} :
                 Send([type |-> "response", request_id |-> "plain", jpeg |-> jpeg, error |-> None])
      BY <3>1 DEF MaxScreenshot
    <3>2. ASSUME NEW error \in {"plain", "padded", "long"},
                 Send([type |-> "response", request_id |-> "plain", jpeg |-> 0,
                       error |-> ErrorCut(error)])
          PROVE  \E jpeg \in {0, 1, 8, 9}, e \in {None, "plain", "padded"} :
                   /\ jpeg = 0 <=> e # None
                   
                   /\ /\ Send([type |-> "response", request_id |-> "plain", jpeg |-> jpeg, error |-> e])
      <4>1. ErrorCut(error) \in {"plain", "padded"} /\ ErrorCut(error) # None
        BY WireAssumption DEF ErrorCut
      <4> QED
        BY <3>2, <4>1
    <3> QED
      BY <1>9, <3>1, <3>2 DEF AnswerScreenshot
  <2> DEFINE m == [type |-> "response", request_id |-> "plain", jpeg |-> jpeg, error |-> error]
  <2>3. m \in Response /\ m.type = "response" /\ Explained(m)
    BY <2>2 DEF Response, Explained
  <2>4. m \in Messages(phase)
    BY <2>1, <2>3 DEF Messages
  <2> QED
    BY <2>1, <2>2, <2>3, <2>4, PlainSendKeeps
<1> QED
  BY <1>1, <1>2, <1>3, <1>4, <1>5, <1>6, <1>7, <1>8, <1>9

\* Audio is counted before it is sent.
LEMMA PublishAudioKeeps ==
    ASSUME WireInv, PublishAudio
    PROVE  WireInv'
<1>1. /\ phase = "open" /\ UNCHANGED <<peer, phase, last>>
      /\ next' = [next EXCEPT !["audio"] = @ + 1]
  BY DEF PublishAudio
<1>2. PICK pcm \in 0..(MaxChunk + 2) :
        /\ pcm > 0 /\ pcm <= MaxChunk /\ pcm % 2 = 0
        
        /\ /\ Send([type |-> "audio", sequence |-> next["audio"], captured_monotonic_ns |-> 0, pcm |-> pcm])
  BY DEF PublishAudio
<1> DEFINE m == [type |-> "audio", sequence |-> next["audio"], captured_monotonic_ns |-> 0, pcm |-> pcm]
<1>3. "audio" \in Counted /\ next["audio"] \in Nat /\ next \in [Counted -> Nat]
  BY DEF WireInv, WireTypes, Counted
<1>4. pcm \in 1..MaxChunk
  BY <1>2, WireAssumption
<1>5. m \in Chunk /\ m.type = "audio" /\ Counter(m) = "audio" /\ m.sequence = next["audio"]
  BY <1>2, <1>3, <1>4 DEF Chunk, Counter
<1>6. m \in Messages(phase)
  BY <1>1, <1>5 DEF Messages, Counting
<1>7. /\ next' \in [Counted -> Nat] /\ \A c \in Counted : next'[c] >= next[c]
      /\ next'["audio"] = next["audio"] + 1
  BY <1>1, <1>3
<1> QED
  <2> HIDE DEF m
  <2> QED
    BY <1>1, <1>2, <1>3, <1>5, <1>6, <1>7, SendKeeps DEF m

\* And so are heartbeats, at either end.
LEMMA HeartbeatKeeps ==
    ASSUME WireInv, NEW sender \in {"mac", "windows"}, SendHeartbeat(sender)
    PROVE  WireInv'
<1> DEFINE m == [type |-> "heartbeat", sender |-> sender, sequence |-> next[sender]]
<1>1. /\ phase = "open" /\ UNCHANGED <<peer, phase, last>> /\ Send(m)
      /\ next' = [next EXCEPT ![sender] = @ + 1]
  BY DEF SendHeartbeat
<1>2. sender \in Counted /\ next[sender] \in Nat /\ next \in [Counted -> Nat]
  BY DEF WireInv, WireTypes, Counted
<1>3. m \in Heartbeat /\ m.type = "heartbeat" /\ Counter(m) = sender /\ m.sequence = next[sender]
  BY <1>2 DEF Heartbeat, Counter
<1>4. m \in Messages(phase)
  BY <1>1, <1>3 DEF Messages, Counting
<1>5. /\ next' \in [Counted -> Nat] /\ \A c \in Counted : next'[c] >= next[c]
      /\ next'[sender] = next[sender] + 1
  BY <1>1, <1>2
<1> QED
  <2> HIDE DEF m
  <2> QED
    BY <1>1, <1>2, <1>3, <1>4, <1>5, SendKeeps

\* A message in flight is decoded to what was meant, if both ends are of one version.
LEMMA FlightIsDecoded ==
    ASSUME WireInv, fate = "sent", NEW reader
    PROVE  /\ Decode(wire) = Meant(msg)
           /\ Decodable(wire, reader) <=> (IF FromMac(msg) THEN Version ELSE peer) = reader
<1>1. phase \in {"none", "hello", "open"} /\ msg \in Messages(phase) /\ ~Lost(msg) /\ wire = Encode(msg)
  BY DEF WireInv, WireTypes, Flight
<1>2. Carried(msg)
  BY <1>1, EveryMessageIsCarried
<1>3. "type" \in DOMAIN msg
  BY <1>1 DEF Messages, Counting, Hello, Opening, Authorization, Neutralization, Speech, Frame,
     Request, Ack, Completion, Response, Chunk, Heartbeat
<1>4. Meant(msg).type = msg.type
  BY <1>3, MeantKeeps
<1>5. wire.root = Meant(msg) /\ wire.bytes <= MaxMessage
      /\ wire.version = IF FromMac(msg) THEN Version ELSE peer
  BY <1>1, <1>2 DEF Encode, Carried, Encodable
<1> QED
  BY <1>1, <1>2, <1>4, <1>5 DEF Decode, Decodable, Carried
\* What an end of an open session has in flight the other takes, as it was meant.
LEMMA OpenTakes ==
    ASSUME WireInv, fate = "sent", phase = "open"
    PROVE  IF FromMac(msg) THEN WinTakes(Meant(msg)) ELSE MacTakes(Meant(msg))
<1> DEFINE w == Meant(msg)
<1>1. /\ msg \in Messages("open") /\ ~Lost(msg)
      /\ msg \in Counting => last[Counter(msg)] < msg.sequence
  BY DEF WireInv, Flight
<1>2. CASE msg \in Authorization \cup Neutralization \cup Request
  <2>1. "type" \in DOMAIN msg /\ msg.type \in {"authorize", "neutralize", "request"}
    BY <1>2 DEF Authorization, Neutralization, Request
  <2>2. w.type = msg.type
    BY <2>1, MeantKeeps
  <2> QED
    BY <2>1, <2>2 DEF FromMac, WinTakes
<1>3. CASE msg \in Ack \cup {m \in Completion \cup Response : Explained(m)}
  <2>1. "type" \in DOMAIN msg /\ msg.type \in {"ack", "completed", "response"}
    BY <1>3 DEF Ack, Completion, Response
  <2>2. w.type = msg.type
    BY <2>1, MeantKeeps
  <2> QED
    BY <2>1, <2>2 DEF FromMac, MacTakes
<1>4. CASE msg \in Speech \cup Frame
  <2>1. {"type", "resource", "payload"} \subseteq DOMAIN msg /\ msg.type = "data"
    BY <1>4 DEF Speech, Frame
  <2>2. w.type = msg.type /\ w.resource = msg.resource /\ w.payload = msg.payload
    BY <2>1, MeantKeeps
  <2>3. SinkTakes(w)
    <3>1. CASE msg \in Speech
      <4>1. /\ msg.resource = "VOICE_OUTPUT" /\ msg.payload.kind = "wav"
            /\ msg.payload.data \in {1, 11, 12, 16, 17}
        BY <3>1 DEF Speech
      <4>2. msg.payload.data \in {1, 11}
        BY <1>1, <2>1, <4>1 DEF Lost
      <4> QED
        BY <2>2, <4>1, <4>2 DEF SinkTakes, DecodeWav, MaxWav
    <3>2. CASE msg \in Frame
      <4>1. msg.resource = "FULL_BODY_POSE" /\ msg.payload.kind = "pose"
        BY <3>2 DEF Frame
      <4>2. PoseFits(msg.payload)
        BY <1>1, <2>1, <4>1 DEF Lost
      <4> QED
        BY <2>2, <4>1, <4>2 DEF SinkTakes
    <3> QED
      BY <1>4, <3>1, <3>2
  <2> QED
    BY <2>1, <2>2, <2>3 DEF FromMac, WinTakes
<1>5. CASE msg \in Chunk
  <2>1. {"type", "sequence"} \subseteq DOMAIN msg /\ msg.type = "audio"
    BY <1>5 DEF Chunk
  <2>2. w.type = msg.type /\ w.sequence = msg.sequence
    BY <2>1, MeantKeeps
  <2>3. Newer(w)
    BY <1>1, <1>5, <2>1, <2>2 DEF Newer, Counter, Counting
  <2> QED
    BY <2>1, <2>2, <2>3 DEF FromMac, MacTakes
<1>6. CASE msg \in Heartbeat
  <2>1. /\ {"type", "sequence", "sender"} \subseteq DOMAIN msg /\ msg.type = "heartbeat"
        /\ msg.sender \in {"mac", "windows"}
    BY <1>6 DEF Heartbeat
  <2>2. w.type = msg.type /\ w.sequence = msg.sequence /\ w.sender = msg.sender
    BY <2>1, MeantKeeps
  <2>3. Newer(w)
    BY <1>1, <1>6, <2>1, <2>2 DEF Newer, Counter, Counting
  <2> QED
    BY <2>1, <2>2, <2>3 DEF FromMac, MacTakes, WinTakes
<1> QED
  BY <1>1, <1>2, <1>3, <1>4, <1>5, <1>6 DEF Messages, Counting

\* Whatever is received leaves the counts of the two ends in order.
LEMMA ReceiveKeeps ==
    ASSUME WireInv, Receive
    PROVE  WireInv'
<1> DEFINE reader == IF FromMac(msg) THEN peer ELSE Version
           ok == /\ Decodable(wire, reader)
                 /\ IF FromMac(msg) THEN WinTakes(Decode(wire)) ELSE MacTakes(Decode(wire))
<1>1. /\ fate = "sent" /\ peer' = peer /\ msg' = msg
      /\ ok => /\ fate' = "taken" /\ got' = Decode(wire) /\ Counts(got')
               /\ phase' = CASE msg.type \in {"hello", "open"} -> msg.type [] OTHER -> phase
      /\ ~ok => fate' = "rejected" /\ UNCHANGED <<got, next, last, phase>>
  BY DEF Receive
<1>2. /\ phase \in {"none", "hello", "open"} /\ msg \in Messages(phase) /\ ~Lost(msg)
      /\ msg \in Counting =>
           last[Counter(msg)] < msg.sequence /\ msg.sequence < next[Counter(msg)]
  BY <1>1 DEF WireInv, WireTypes, Flight
<1>3. /\ Decode(wire) = Meant(msg)
      /\ Decodable(wire, reader) <=> (IF FromMac(msg) THEN Version ELSE peer) = reader
  BY <1>1, FlightIsDecoded
<1>4. /\ next \in [Counted -> Nat] /\ last \in [Counted -> Int]
      /\ Counted = {"mac", "windows", "audio"}
  BY DEF WireInv, WireTypes, Counted
<1>5. Flight'
  BY <1>1 DEF Flight
<1> HIDE DEF ok
<1>6. CASE phase = "none"
  <2>1. "type" \in DOMAIN msg /\ msg.type = "hello"
    BY <1>2, <1>6 DEF Messages, Hello
  <2>2. Meant(msg).type = "hello"
    BY <2>1, MeantKeeps
  <2>3. ok <=> peer = Version
    BY <1>3, <1>6, <2>1, <2>2 DEF ok, FromMac, MacTakes
  <2>4. CASE peer = Version
    <3>1. /\ fate' = "taken" /\ got' = Meant(msg) /\ phase' = "hello"
          /\ next' = [next EXCEPT !["mac"] = 0]
          /\ last' = [last EXCEPT !["windows"] = -1, !["audio"] = -1]
      BY <1>1, <1>3, <2>1, <2>2, <2>3, <2>4 DEF Counts
    <3>2. WireTypes' /\ Sessions'
      BY <1>1, <1>4, <2>4, <3>1 DEF WireTypes, Sessions
    <3>3. WhatIsSentIsTaken'
      BY <1>1, <1>2, <2>4, <3>1 DEF WhatIsSentIsTaken
    <3> QED
      BY <1>5, <3>2, <3>3 DEF WireInv
  <2>5. CASE peer # Version
    <3>1. fate' = "rejected" /\ UNCHANGED <<next, last, phase>>
      BY <1>1, <2>3, <2>5
    <3>2. WhatIsSentIsTaken'
      BY <1>1, <2>1, <2>5, <3>1 DEF WhatIsSentIsTaken
    <3> QED
      BY <1>1, <1>5, <3>1, <3>2 DEF WireInv, WireTypes, Sessions
  <2> QED
    BY <2>4, <2>5
<1>7. CASE phase = "hello"
  <2>1. "type" \in DOMAIN msg /\ msg.type = "open" /\ peer = Version
    BY <1>2, <1>7 DEF Messages, Opening, WireInv, Sessions
  <2>2. Meant(msg).type = "open"
    BY <2>1, MeantKeeps
  <2>3. ok
    BY <1>3, <1>7, <2>1, <2>2 DEF ok, FromMac, WinTakes
  <2>4. /\ fate' = "taken" /\ got' = Meant(msg) /\ phase' = "open"
        /\ next' = [next EXCEPT !["windows"] = 0, !["audio"] = 0]
        /\ last' = [last EXCEPT !["mac"] = -1]
    BY <1>1, <1>3, <2>1, <2>2, <2>3 DEF Counts
  <2>5. WireTypes' /\ Sessions'
    <3>1. next["mac"] = 0 /\ last["windows"] = -1 /\ last["audio"] = -1
      BY <1>7 DEF WireInv, Sessions
    <3>2. next' \in [Counted -> Nat] /\ last' \in [Counted -> Int]
      BY <1>4, <2>4
    <3>3. \A c \in Counted : last'[c] = -1 /\ next'[c] = 0
      BY <1>4, <2>4, <3>1
    <3> QED
      BY <1>1, <2>1, <2>4, <3>2, <3>3 DEF WireTypes, Sessions
  <2>6. WhatIsSentIsTaken'
    BY <1>1, <1>2, <2>1, <2>4 DEF WhatIsSentIsTaken
  <2> QED
    BY <1>5, <2>5, <2>6 DEF WireInv
<1>8. CASE phase = "open"
  <2>1. "type" \in DOMAIN msg /\ msg.type \notin {"hello", "open"} /\ peer = Version
    BY <1>2, <1>8 DEF Messages, Counting, Authorization, Neutralization, Speech, Frame,
       Request, Ack, Completion, Response, Chunk, Heartbeat, WireInv, Sessions
  <2>2. Meant(msg).type = msg.type
    BY <2>1, MeantKeeps
  <2>3. ok
    BY <1>1, <1>3, <1>8, <2>1, OpenTakes DEF ok
  <2>4. /\ fate' = "taken" /\ got' = Meant(msg) /\ phase' = "open" /\ Counts(Meant(msg))
    BY <1>1, <1>3, <1>8, <2>1, <2>3
  <2>5. next' = next /\ last' \in [Counted -> Int] /\ \A c \in Counted : last'[c] < next[c]
    <3>0. \A c \in Counted : last[c] < next[c]
      BY <1>8 DEF WireInv, Sessions
    <3>1. CASE msg \in Counting
      <4>1. /\ msg.type \in {"audio", "heartbeat"} /\ Counter(msg) \in Counted
            /\ "sequence" \in DOMAIN msg /\ msg.sequence \in Nat
            /\ msg.type = "heartbeat" => "sender" \in DOMAIN msg
        BY <3>1, <1>4 DEF Counting, Chunk, Heartbeat, Counter
      <4>2. Meant(msg).sequence = msg.sequence /\ Counter(Meant(msg)) = Counter(msg)
        BY <2>2, <4>1, MeantKeeps DEF Counter
      <4>3. last' = [last EXCEPT ![Counter(msg)] = msg.sequence] /\ next' = next
        BY <2>2, <2>4, <4>1, <4>2 DEF Counts
      <4> QED
        BY <1>2, <1>4, <3>0, <3>1, <4>1, <4>3
    <3>2. CASE msg \notin Counting
      <4>1. msg.type \notin {"audio", "heartbeat"}
        BY <1>2, <1>8, <3>2 DEF Messages, Counting, Authorization, Neutralization, Speech, Frame,
           Request, Ack, Completion, Response
      <4>2. UNCHANGED <<next, last>>
        BY <2>1, <2>2, <2>4, <4>1 DEF Counts
      <4> QED
        BY <1>4, <3>0, <4>2
    <3> QED
      BY <3>1, <3>2
  <2>6. WireTypes' /\ Sessions'
    BY <1>1, <1>4, <2>1, <2>4, <2>5 DEF WireTypes, Sessions
  <2>7. WhatIsSentIsTaken'
    BY <1>1, <1>2, <2>1, <2>4 DEF WhatIsSentIsTaken
  <2> QED
    BY <1>5, <2>6, <2>7 DEF WireInv
<1> QED
  BY <1>2, <1>6, <1>7, <1>8

\* The invariant holds of every state of the connection.
THEOREM WireInvHolds == WireSpec => []WireInv
<1>1. WireInit => WireInv
  <2> SUFFICES ASSUME WireInit
               PROVE  WireInv
    OBVIOUS
  <2>1. WireTypes /\ Sessions /\ Flight
    BY DEF WireInit, WireTypes, Sessions, Flight
  <2>2. WhatIsSentIsTaken
    BY DEF WireInit, WhatIsSentIsTaken
  <2> QED
    BY <2>1, <2>2 DEF WireInv
<1>2. ASSUME WireInv, WireNext
      PROVE  WireInv'
  <2>1. CASE ConnectionEnds
    <3>1. /\ phase' = "none" /\ fate' = "none" /\ UNCHANGED <<peer, next, last>>
      BY <2>1 DEF ConnectionEnds
    <3> QED
      BY <1>2, <3>1 DEF WireInv, WireTypes, Sessions, Flight, WhatIsSentIsTaken
  <2>2. ASSUME NEW sender \in {"mac", "windows"}, SendHeartbeat(sender)
        PROVE  WireInv'
    BY <1>2, <2>2, HeartbeatKeeps
  <2> QED
    BY <1>2, <2>1, <2>2, SendersKeep, PublishAudioKeeps, ReceiveKeeps DEF WireNext
<1>3. WireInv /\ UNCHANGED wireVars => WireInv'
  BY DEF wireVars, WireInv, WireTypes, Sessions, Flight, WhatIsSentIsTaken, Encode, FromMac
<1> QED
  BY <1>1, <1>2, <1>3, PTL DEF WireSpec

\* Every message that either end constructs is taken as it was meant, or lost
\* where it was to be sent (stream_protocol.py, device_payloads.py).
THEOREM SentIsTaken == WireSpec => []WhatIsSentIsTaken
<1>1. WireInv => WhatIsSentIsTaken
  BY DEF WireInv
<1> QED
  BY <1>1, WireInvHolds, PTL

----------------------------------------------------------------------------
(***************************************************************************)
(* Decision: the inductive invariant.                                      *)
(***************************************************************************)
\* What a validated action is: its fields as they may be submitted.
Sound(a, known) ==
    /\ a \in Item
    /\ \/ a.type = "say" /\ a.text = "plain"
       \/ a.type = "ardy_motion" /\ a.prompt \in {"plain", "reserved"}
       \/ a.type = "motion" /\ PresetValid(a, known)

\* A plan: none, or one or two validated actions for as many devices.
PlanSound ==
    /\ plan \in Seq(Item) /\ Len(plan) \in 0..2
    /\ \A k \in 1..Len(plan) : Sound(plan[k], behaviors)
    /\ \A k, l \in 1..Len(plan) : k # l => ResourceOf(plan[k]) # ResourceOf(plan[l])

\* What has started is a beginning of the plan, and all of it when the turn is
\* done, unless it was recorded.
Progress ==
    /\ started \in Seq(Item) /\ Len(started) <= Len(plan)
    /\ \A k \in 1..Len(started) : started[k] = plan[k]
    /\ stage \in {"look", "ask"} => Len(plan) = 0
    /\ stage \in {"dispatch", "raising"} => Len(started) < Len(plan)
    /\ provider = "replay" => Len(started) = 0
    /\ stage = "done" /\ provider # "replay" => Len(started) = Len(plan)

\* A plan about the scene came with a fresh image, and no time counts after it.
Sighted == Len(plan) # 0 /\ needs => view = "fresh"

\* Behaviors are of assets.
Equipped == ~assets => behaviors = {}

\* A dispatch that failed did so before the end, and never on a registered motion.
Refusals ==
    /\ refusal # "none" => stage = "failed" /\ Len(started) < Len(plan)
    /\ refusal \notin {"assets", "unknown"}

\* The cue is that of a motion that was started, or whose stream is about to raise.
CueOfTheTurn == cue => stage = "raising" \/ \E k \in 1..Len(started) : started[k].type # "say"

DecisionInv == PlanSound /\ Progress /\ Sighted /\ Equipped /\ Refusals /\ CueOfTheTurn

DecisionSpec == DecisionInit /\ [][DecisionNext]_decisionVars

\* What validation passes is, parsed, an action as it may be submitted, for the
\* same device.
LEMMA ParsedIsSound ==
    ASSUME NEW i \in Item, Valid(i)
    PROVE  Sound(Parsed(i), behaviors) /\ ResourceOf(Parsed(i)) = ResourceOf(i)
<1>1. CASE i.type = "say"
  <2>1. i \in Say
    BY <1>1 DEF Item, Ardy, Preset
  <2>2. Parsed(i) = [i EXCEPT !.text = "plain"]
    BY <1>1 DEF Parsed
  <2>3. Parsed(i) \in Say /\ Parsed(i).type = "say" /\ Parsed(i).text = "plain"
    BY <2>1, <2>2 DEF Say
  <2> QED
    BY <1>1, <2>3 DEF Sound, Item, ResourceOf
<1>2. CASE i.type = "ardy_motion"
  <2>1. i \in Ardy /\ i.prompt \in {"plain", "padded", "reserved"}
    BY <1>2 DEF Item, Say, Preset, Valid, ArdyValid
  <2>2. Parsed(i) = [i EXCEPT !.prompt = IF @ = "padded" THEN "plain" ELSE @]
    BY <1>2 DEF Parsed
  <2>3. Parsed(i) \in Ardy /\ Parsed(i).type = "ardy_motion" /\ Parsed(i).prompt \in {"plain", "reserved"}
    BY <2>1, <2>2 DEF Ardy
  <2> QED
    BY <1>2, <2>3 DEF Sound, Item, ResourceOf
<1>3. CASE i.type = "motion"
  BY <1>3 DEF Sound, Parsed, ResourceOf, Valid, Catalogue
<1> QED
  BY <1>1, <1>2, <1>3 DEF Valid

\* Of the actions that validation passes the director, which has the same assets,
\* objects only to those whose prompt is reserved.
LEMMA OnlyReservedObjected ==
    ASSUME Equipped, NEW a, Sound(a, behaviors)
    PROVE  Objection(a) \in {"none", "reserved"}
<1>1. CASE a.type = "motion"
  <2>1. PresetValid(a, behaviors)
    BY <1>1 DEF Sound
  <2>2. assets /\ PresetValid(Resubmitted(a), behaviors)
    BY <2>1 DEF Equipped, PresetValid, Resubmitted
  <2> QED
    BY <1>1, <2>2 DEF Objection
<1>2. CASE a.type # "motion"
  BY <1>2 DEF Objection
<1> QED
  BY <1>1, <1>2

\* A valid bundle becomes a plan.
LEMMA BundleIsPlan ==
    ASSUME NEW items \in Plans, BundleValid(items),
           plan' = [k \in 1..Len(items) |-> Parsed(items[k])], behaviors' = behaviors
    PROVE  PlanSound' /\ Len(plan') # 0
<1>1. PICK n \in 0..2 : items \in [1..n -> Item]
  BY DEF Plans
<1>2. Len(items) = n /\ n \in 1..2
  BY <1>1 DEF BundleValid
<1>3. \A k \in 1..n : /\ Sound(plan'[k], behaviors) /\ plan'[k] \in Item
                      /\ ResourceOf(plan'[k]) = ResourceOf(items[k])
  BY <1>1, <1>2, ParsedIsSound DEF BundleValid, Sound
<1>4. plan' \in [1..n -> Item]
  BY <1>2, <1>3
<1>5. plan' \in Seq(Item) /\ Len(plan') = n
  BY <1>2, <1>4, SeqDef
<1> QED
  BY <1>2, <1>3, <1>5 DEF PlanSound, BundleValid

\* The invariant holds of every state of a turn.
THEOREM DecisionInvHolds == DecisionSpec => []DecisionInv
<1>1. DecisionInit => DecisionInv
  BY DEF DecisionInit, DecisionInv, PlanSound, Progress, Sighted, Equipped, Refusals, CueOfTheTurn
<1>2. ASSUME DecisionInv, DecisionNext
      PROVE  DecisionInv'
  <2>0. /\ PlanSound /\ Progress /\ Sighted /\ Equipped /\ Refusals /\ CueOfTheTurn
        /\ Len(plan) \in 0..2 /\ Len(started) \in Nat
    BY <1>2, LenProperties DEF DecisionInv, PlanSound, Progress
  <2>c. UNCHANGED <<provider, assets, behaviors>>
    BY <1>2 DEF DecisionNext, Acquire, Ages, Answer, AnswerRefused, AsksToLook, Proposes, Dispatch,
       PromptFails, CueEndsAlone, composition
  <2>e. Equipped'
    BY <2>0, <2>c DEF Equipped
  \* Before the dispatch nothing is started, and nothing refused.
  <2>b. ASSUME stage \in {"look", "ask"}, UNCHANGED <<started, cue, refusal>>,
               plan' = plan /\ stage' \in {"look", "ask", "failed"}
        PROVE  DecisionInv'
    <3>1. Len(plan) = 0 /\ Len(started) = 0 /\ refusal = "none" /\ ~cue'
      BY <2>0, <2>b DEF Progress, Refusals, CueOfTheTurn
    <3>2. PlanSound' /\ Progress' /\ Sighted'
      BY <2>0, <2>b, <2>c, <3>1 DEF PlanSound, Progress, Sighted
    <3>3. Refusals' /\ CueOfTheTurn'
      BY <2>b, <3>1 DEF Refusals, CueOfTheTurn
    <3> QED
      BY <2>e, <3>2, <3>3 DEF DecisionInv
  <2>1. CASE Acquire \/ Ages
    <3>1. stage \in {"look", "ask"} /\ UNCHANGED <<plan, started, cue, refusal>>
      BY <2>1 DEF Acquire, Ages, Fail, submitted
    <3>2. stage' \in {"look", "ask", "failed"}
      BY <2>1, <3>1 DEF Acquire, Ages, Fail
    <3> QED
      BY <2>b, <3>1, <3>2
  <2>2. CASE Answer
    <3>1. stage = "ask" /\ UNCHANGED <<started, cue, refusal>>
      BY <2>2 DEF Answer, AnswerRefused, AsksToLook, Proposes, submitted
    <3>2. Len(plan) = 0 /\ Len(started) = 0 /\ refusal = "none" /\ ~cue
      BY <2>0, <3>1 DEF Progress, Refusals, CueOfTheTurn
    <3>3. CASE plan' = plan /\ stage' \in {"look", "failed"}
      BY <2>b, <3>1, <3>3
    <3>4. ASSUME NEW visual \in BOOLEAN, NEW items \in Plans, Proposes(visual, items),
                 Grounded(visual), BundleValid(items)
          PROVE  DecisionInv'
      <4>1. /\ stage' = "dispatch" /\ needs' = visual /\ view' = view
            /\ plan' = [k \in 1..Len(items) |-> Parsed(items[k])]
        BY <3>4 DEF Proposes
      <4>2. PlanSound' /\ Len(plan') # 0
        BY <2>c, <3>4, <4>1, BundleIsPlan
      <4>3. Progress'
        BY <2>0, <2>c, <3>1, <3>2, <4>1, <4>2 DEF Progress, PlanSound
      <4>4. Sighted'
        BY <3>4, <4>1 DEF Sighted, Grounded
      <4>5. Refusals' /\ CueOfTheTurn'
        BY <3>1, <3>2 DEF Refusals, CueOfTheTurn
      <4> QED
        BY <2>e, <4>2, <4>3, <4>4, <4>5 DEF DecisionInv
    <3>5. \/ plan' = plan /\ stage' \in {"look", "failed"}
          \/ \E visual \in BOOLEAN, items \in Plans :
               Proposes(visual, items) /\ Grounded(visual) /\ BundleValid(items)
      BY <2>2 DEF Answer, AnswerRefused, AsksToLook, Proposes, Fail
    <3> QED
      BY <3>3, <3>4, <3>5
  <2>3. CASE Dispatch
    <3> DEFINE n == Len(started)
               a == plan[n + 1]
    <3>1. /\ stage = "dispatch" /\ UNCHANGED <<view, needs, plan>>
          /\ n \in Nat /\ n < Len(plan)
          /\ started \in Seq(Item) /\ Sound(a, behaviors) /\ a \in Item
          /\ refusal = "none"
          /\ cue => \E k \in 1..n : started[k].type # "say"
      BY <2>0, <2>3 DEF Dispatch, PlanSound, Progress, Sound, Refusals, CueOfTheTurn
    <3>2. PlanSound' /\ Sighted'
      BY <2>0, <2>c, <3>1 DEF PlanSound, Sighted
    <3>3. CASE RecordsPlan
      <4>1. stage' = "done" /\ provider = "replay" /\ UNCHANGED <<started, cue, refusal>>
        BY <3>3 DEF RecordsPlan, submitted
      <4> QED
        BY <2>0, <2>c, <2>e, <3>1, <3>2, <4>1 DEF DecisionInv, Progress, Refusals, CueOfTheTurn
    <3>4. ASSUME provider # "replay", Accepted(a), cue' => cue \/ a.type # "say"
          PROVE  DecisionInv'
      <4>1. /\ started' = Append(started, a) /\ refusal' = "none"
            /\ stage' = IF n + 1 = Len(plan) THEN "done" ELSE "dispatch"
        BY <3>1, <3>4 DEF Accepted
      <4>2. /\ started' \in Seq(Item) /\ Len(started') = n + 1
            /\ \A k \in 1..n : started'[k] = started[k]
            /\ started'[n + 1] = a
        BY <3>1, <4>1, AppendProperties
      <4>3. Progress'
        BY <2>0, <2>c, <3>1, <3>4, <4>1, <4>2 DEF Progress
      <4>4. Refusals'
        BY <4>1 DEF Refusals
      <4>5. CueOfTheTurn'
        <5>1. n + 1 \in 1..(n + 1) /\ \A k \in 1..n : k \in 1..(n + 1)
          BY <3>1
        <5> QED
          BY <3>1, <3>4, <4>2, <5>1 DEF CueOfTheTurn
      <4> QED
        BY <2>e, <3>2, <4>3, <4>4, <4>5 DEF DecisionInv
    <3>5. ASSUME NEW why \in {"reserved", "not running", "raised"}, Refused(why), UNCHANGED cue
          PROVE  DecisionInv'
      <4>1. stage' = "failed" /\ started' = started /\ refusal' = why
        BY <3>5 DEF Refused
      <4> QED
        BY <2>0, <2>c, <2>e, <3>1, <3>2, <3>5, <4>1 DEF DecisionInv, Progress, Refusals, CueOfTheTurn
    <3>6. CASE provider # "replay" /\ a.type = "say" /\ ApplySay(a)
      BY <3>4, <3>5, <3>6 DEF ApplySay
    <3>7. CASE provider # "replay" /\ a.type # "say" /\ SubmitCue(a)
      <4>1. Objection(a) \in {"none", "reserved"}
        BY <2>0, <3>1, OnlyReservedObjected
      <4>2. CASE Objection(a) # "none" /\ Refused(Objection(a)) /\ UNCHANGED cue
        BY <3>5, <4>1, <4>2
      <4>3. CASE Refused("not running") /\ UNCHANGED cue
        BY <3>5, <4>3
      <4>4. CASE cue' = TRUE /\ Accepted(a)
        BY <3>4, <3>7, <4>4
      <4>5. CASE stage' = "raising" /\ UNCHANGED <<started, refusal>>
        BY <2>0, <2>c, <2>e, <3>1, <3>2, <4>5 DEF DecisionInv, Progress, Refusals, CueOfTheTurn
      <4> QED
        BY <3>7, <4>2, <4>3, <4>4, <4>5 DEF SubmitCue
    <3> QED
      BY <2>3, <3>3, <3>6, <3>7 DEF Dispatch
  <2>4. CASE PromptFails
    <3>1. /\ stage = "raising" /\ stage' = "failed" /\ cue' = FALSE /\ refusal' = "prompt"
          /\ UNCHANGED <<view, needs, plan, started>>
      BY <2>4 DEF PromptFails, Refused, CueAfterFailure
    <3> QED
      BY <2>0, <2>c, <2>e, <3>1 DEF DecisionInv, PlanSound, Progress, Sighted, Refusals, CueOfTheTurn
  <2>5. CASE CueEndsAlone
    <3>1. cue' = FALSE /\ UNCHANGED <<stage, view, needs, plan, started, refusal>>
      BY <2>5 DEF CueEndsAlone
    <3> QED
      BY <2>0, <2>c, <2>e, <3>1 DEF DecisionInv, PlanSound, Progress, Sighted, Refusals, CueOfTheTurn
  <2> QED
    BY <1>2, <2>1, <2>2, <2>3, <2>4, <2>5 DEF DecisionNext
<1>3. DecisionInv /\ UNCHANGED decisionVars => DecisionInv'
  BY DEF decisionVars, composition, submitted, DecisionInv, PlanSound, Progress, Sighted, Equipped,
         Refusals, CueOfTheTurn
<1> QED
  BY <1>1, <1>2, <1>3, PTL DEF DecisionSpec

\* A turn starts what its plan says, as far as it gets; a dispatch that fails
\* leaves no cue of the motion it failed on, and fails on no registered motion
\* (observation_loop.py, action_contracts.py, interaction_runtime.py,
\* motion_director_actions.py).
THEOREM TurnStartsItsPlan == DecisionSpec => []StartsWhatItPlanned
<1>1. ASSUME DecisionInv
      PROVE  StartsWhatItPlanned
  <2> DEFINE n == Len(started)
  <2>1. /\ started \in Seq(Item) /\ plan \in Seq(Item)
        /\ n \in Nat /\ Len(plan) \in 0..2 /\ n <= Len(plan)
        /\ \A k \in 1..n : started[k] = plan[k] /\ k \in 1..Len(plan)
    BY <1>1, LenProperties DEF DecisionInv, PlanSound, Progress
  <2>2. started # <<>> => n # 0
    BY <2>1, EmptySeq
  <2>3. started = SubSeq(plan, 1, n)
    <3>1. /\ SubSeq(plan, 1, n) \in Seq(Item) /\ Len(SubSeq(plan, 1, n)) = n
          /\ \A k \in 1..n : SubSeq(plan, 1, n)[k] = plan[k]
      BY <2>1
    <3> QED
      BY <2>1, <3>1, SeqEqual
  <2>4. stage = "done" => started = IF provider = "replay" THEN <<>> ELSE plan
    <3>1. CASE provider = "replay"
      BY <1>1, <2>1, <2>2, <3>1 DEF DecisionInv, Progress
    <3>2. CASE provider # "replay"
      BY <1>1, <2>1, <3>2, SeqEqual DEF DecisionInv, Progress
    <3> QED
      BY <3>1, <3>2
  <2>5. \A k \in 1..n : started[k].type = "motion" /\ started[k].name = Clip => started[k].duration = "absent"
    BY <1>1, <2>1 DEF DecisionInv, PlanSound, Sound, PresetValid
  <2>6. started # <<>> /\ needs => view = "fresh"
    BY <1>1, <2>1, <2>2 DEF DecisionInv, Sighted
  <2>7. \A k, l \in 1..n : k # l => ResourceOf(started[k]) # ResourceOf(started[l])
    BY <1>1, <2>1 DEF DecisionInv, PlanSound
  <2>8. /\ refusal # "none" => stage = "failed" /\ n < Len(plan)
        /\ refusal \notin {"assets", "unknown"}
        /\ cue => stage = "raising" \/ \E k \in 1..n : started[k].type # "say"
    BY <1>1 DEF DecisionInv, Refusals, CueOfTheTurn
  <2> QED
    BY <2>3, <2>4, <2>5, <2>6, <2>7, <2>8 DEF StartsWhatItPlanned
<1> QED
  BY <1>1, DecisionInvHolds, PTL

=============================================================================
