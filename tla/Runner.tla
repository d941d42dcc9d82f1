------------------------------- MODULE Runner -------------------------------
(***************************************************************************)
(* One service of the runner: its record on disk, the clients (processes   *)
(* of the command line, which come and go) that start it, stop it and      *)
(* change the profile it runs with, the worker each start leaves behind,   *)
(* and the worker's child, which is the service.  Any client and any       *)
(* worker may be killed between two steps; the record and the child        *)
(* survive it.                                                             *)
(*                                                                         *)
(* A start is known by its ticket: 1, 2, ...  Start t spawns worker t and  *)
(* that spawns child t.  A process is told from a later one with the same  *)
(* pid by its creation time, so processes have names that do not recur.    *)
(*                                                                         *)
(* The record is replaced in one system call and read in another: each is  *)
(* one step, and so is update_record, which has a lock of its own.  The    *)
(* control lock that start and stop take inside the lock of control.py is  *)
(* free whenever they get there.                                           *)
(***************************************************************************)
EXTENDS Integers, FiniteSets

CONSTANTS
    Client, Nobody,
    MaxStarts, MaxCommits, MaxKills     \* bounds

ASSUME ClientAssumption == Nobody \notin Client

ASSUME BoundAssumption == {MaxStarts, MaxCommits, MaxKills} \subseteq Nat

VARIABLES
    profile,        \* the version of the execution settings on disk
    record,         \* the service's record: see Fresh
    starts,         \* tickets given out
    lock,           \* the client that holds the operation lock
    client,         \* where each client is, the record it has read
    worker,         \* where the worker of each start is
    child,          \* the service each start runs
    kills,
    unnoticed       \* history: starts of which no observation will tell,
                    \* because a process was killed before it wrote them down

vars == <<profile, record, starts, lock, client, worker, child, kills, unnoticed>>

Ticket == 1..MaxStarts

Phase == {"none", "starting", "running", "stopping", "stopped", "failed"}

\* supervisor and child are tickets too: worker t, child t.  "profile" stands
\* for the service's command and environment.
Fresh(ticket, version) ==
    [ticket |-> ticket, phase |-> "starting", stop |-> FALSE,
     supervisor |-> 0, child |-> 0, profile |-> version]

NoRecord == [Fresh(0, 0) EXCEPT !.phase = "none"]

Idle == [pc |-> "idle", seen |-> NoRecord]

Init ==
    /\ profile = 0
    /\ record = NoRecord
    /\ starts = 0
    /\ lock = Nobody
    /\ client = [c \in Client |-> Idle]
    /\ worker = [t \in Ticket |-> "none"]
    /\ child = [t \in Ticket |-> "none"]
    /\ kills = 0
    /\ unnoticed = {}

----------------------------------------------------------------------------
\* update_record of a holder of the ticket.  A ticket that is not the
\* record's raises.

MayUpdate(ticket) == record.ticket = ticket

Update(changed) == record' = changed

\* Runner.observe asks for the processes of the record it has read.

WorkerLives(t) == t # 0 /\ worker[t] \notin {"none", "gone"}

ChildLives(t) == t # 0 /\ child[t] = "alive"

\* Faulty: looks at the worker only.
OwnedByWorkerOnly(seen) == WorkerLives(seen.supervisor)

Owned(seen) == WorkerLives(seen.supervisor) \/ ChildLives(seen.child)

OwnedBySupervisor(seen) == WorkerLives(seen.supervisor)

----------------------------------------------------------------------------
\* The clients: control.py's dispatch.  A client that waits too long for the
\* lock gives up, which changes nothing.

At(c, pc) == client[c].pc = pc

Goes(c, pc) == client' = [client EXCEPT ![c] = [Idle EXCEPT !.pc = pc]]

\* It returns or raises, and releases the lock.
Returns(c) == client' = [client EXCEPT ![c] = Idle] /\ lock' = Nobody

\* start, stop or profile.commit
Asks(c, pc) ==
    /\ At(c, "idle") /\ lock = Nobody
    /\ pc = "commit" => profile < MaxCommits
    /\ lock' = c
    /\ Goes(c, pc)
    /\ UNCHANGED <<profile, record, starts, worker, child, kills, unnoticed>>

\* The observation, first half: the record is read.
Reads(c, pc, next) ==
    /\ At(c, pc)
    /\ client' = [client EXCEPT ![c] = [pc |-> next, seen |-> record]]
    /\ UNCHANGED <<profile, record, starts, lock, worker, child, kills, unnoticed>>

\* Faulty: asks nobody.
CommitUnasked(c) ==
    /\ At(c, "commitSeen")
    /\ profile' \in {profile, profile + 1}
    /\ Returns(c)
    /\ UNCHANGED <<record, starts, worker, child, kills, unnoticed>>

\* profile.commit refuses while a service is owned; the client's revision of
\* the profile may also be out of date.
Commit(c) ==
    /\ At(c, "commitSeen")
    /\ profile' \in IF Owned(client[c].seen) THEN {profile} ELSE {profile, profile + 1}
    /\ Returns(c)
    /\ UNCHANGED <<record, starts, worker, child, kills, unnoticed>>

\* An owned service, one that another process answers for, a command or a file
\* that is missing.
StartRefused(c) ==
    /\ At(c, "startSeen")
    /\ Returns(c)
    /\ UNCHANGED <<profile, record, starts, worker, child, kills, unnoticed>>

\* The record is written over, whatever it has become since it was read.
StartFresh(c) ==
    /\ At(c, "startSeen") /\ ~Owned(client[c].seen)
    /\ starts < MaxStarts
    /\ starts' = starts + 1
    /\ record' = Fresh(starts', profile)
    /\ Goes(c, "spawn")
    /\ UNCHANGED <<profile, lock, worker, child, kills, unnoticed>>

\* The client that starts holds the lock: its ticket is the last.
StartSpawns(c) ==
    /\ At(c, "spawn")
    /\ worker' = [worker EXCEPT ![starts] = "spawned"]
    /\ Goes(c, "identify")
    /\ UNCHANGED <<profile, record, starts, lock, child, kills, unnoticed>>

StartFails(c) ==
    /\ At(c, "spawn") /\ MayUpdate(starts)
    /\ Update([record EXCEPT !.phase = "failed"])
    /\ Returns(c)
    /\ UNCHANGED <<profile, starts, worker, child, kills, unnoticed>>

StartIdentifies(c) ==
    /\ At(c, "identify") /\ MayUpdate(starts)
    /\ Update([record EXCEPT !.supervisor = starts])
    /\ Returns(c)
    /\ UNCHANGED <<profile, starts, worker, child, kills, unnoticed>>

\* Faulty: content once the service is gone, whatever its worker does.
StopFindsNoService(c) ==
    /\ client[c].pc \in {"stopSeen", "pollSeen"} /\ ~ChildLives(client[c].seen.child)
    /\ Goes(c, "stopped")
    /\ UNCHANGED <<profile, record, starts, lock, worker, child, kills, unnoticed>>

\* Nothing is owned: stop is done.  Or something else answers, and it raises.
StopFindsNothing(c) ==
    /\ client[c].pc \in {"stopSeen", "pollSeen"} /\ ~Owned(client[c].seen)
    /\ Goes(c, "stopped")
    /\ UNCHANGED <<profile, record, starts, lock, worker, child, kills, unnoticed>>

StopReturns(c) ==
    /\ At(c, "stopped")
    /\ Returns(c)
    /\ UNCHANGED <<profile, record, starts, worker, child, kills, unnoticed>>

StopRequests(c) ==
    /\ At(c, "stopSeen") /\ OwnedBySupervisor(client[c].seen)
    /\ MayUpdate(record.ticket)
    /\ Update([record EXCEPT !.stop = TRUE])
    /\ Goes(c, "poll")
    /\ UNCHANGED <<profile, starts, lock, worker, child, kills, unnoticed>>

\* The supervisor is lost, or the deadline has passed.
StopRaises(c) ==
    /\ \/ At(c, "stopSeen") /\ Owned(client[c].seen) /\ ~OwnedBySupervisor(client[c].seen)
       \/ At(c, "poll")
    /\ Returns(c)
    /\ UNCHANGED <<profile, record, starts, worker, child, kills, unnoticed>>

\* Still owned: it sleeps and looks again.
StopWaits(c) ==
    /\ At(c, "pollSeen") /\ Owned(client[c].seen)
    /\ Goes(c, "poll")
    /\ UNCHANGED <<profile, record, starts, lock, worker, child, kills, unnoticed>>

ClientActs(c) ==
    \/ \E pc \in {"start", "stop", "commit"} : Asks(c, pc)
    \/ Reads(c, "start", "startSeen")
    \/ Reads(c, "stop", "stopSeen")
    \/ Reads(c, "poll", "pollSeen")
    \/ Reads(c, "commit", "commitSeen")
    \/ Commit(c)
    \/ StartRefused(c) \/ StartFresh(c) \/ StartSpawns(c) \/ StartFails(c) \/ StartIdentifies(c)
    \/ StopFindsNothing(c) \/ StopReturns(c) \/ StopRequests(c) \/ StopRaises(c) \/ StopWaits(c)

----------------------------------------------------------------------------
\* The worker: supervise.

Moves(t, from, to) == worker[t] = from /\ worker' = [worker EXCEPT ![t] = to]

\* The worker is gone and its service is not.  No observation will tell if the
\* service was not in the record yet, or not when the client that is observing
\* read it.
Recorded(t) ==
    /\ record.child = t
    /\ \A c \in Client : client[c].seen # NoRecord => client[c].seen.child = t

Abandons(t) ==
    unnoticed' = IF ChildLives(t) /\ ~Recorded(t) THEN unnoticed \cup {t} ELSE unnoticed

WorkerReads(t) ==
    /\ Moves(t, "spawned", IF MayUpdate(t) THEN "read" ELSE "gone")
    /\ UNCHANGED <<profile, record, starts, lock, client, child, kills, unnoticed>>

WorkerIdentifies(t) ==
    /\ Moves(t, "read", IF MayUpdate(t) THEN "identified" ELSE "gone")
    /\ Update(IF MayUpdate(t) THEN [record EXCEPT !.supervisor = t] ELSE record)
    /\ UNCHANGED <<profile, starts, lock, client, child, kills, unnoticed>>

\* Popen of the service, which may fail.
WorkerSpawns(t) ==
    /\ \/ Moves(t, "identified", "parent") /\ child' = [child EXCEPT ![t] = "alive"]
       \/ Moves(t, "identified", "raised") /\ UNCHANGED child
    /\ UNCHANGED <<profile, record, starts, lock, client, kills, unnoticed>>

WorkerRecordsChild(t) ==
    /\ Moves(t, "parent", IF MayUpdate(t) THEN "running" ELSE "raised")
    /\ Update(IF MayUpdate(t) THEN [record EXCEPT !.child = t, !.phase = "running"] ELSE record)
    /\ UNCHANGED <<profile, starts, lock, client, child, kills, unnoticed>>

\* The loop asks the record, whoever's it is, for a stop; a signal to the
\* worker is one too.
WorkerIsAsked(t) ==
    /\ child[t] = "alive" /\ record.stop
    /\ Moves(t, "running", "asked")
    /\ UNCHANGED <<profile, record, starts, lock, client, child, kills, unnoticed>>

WorkerIsSignalled(t) ==
    /\ child[t] = "alive" /\ ~record.stop
    /\ Moves(t, "running", "asked")
    /\ UNCHANGED <<profile, record, starts, lock, client, child, kills, unnoticed>>

\* Faulty: a heartbeat does not look at the ticket.
WorkerIsUnaware(t) ==
    /\ child[t] = "alive" /\ ~MayUpdate(t)
    /\ Moves(t, "running", "running")
    /\ UNCHANGED <<profile, record, starts, lock, client, child, kills, unnoticed>>

\* A heartbeat of a worker whose ticket is not the record's any more raises.
WorkerIsSuperseded(t) ==
    /\ child[t] = "alive" /\ ~MayUpdate(t)
    /\ Moves(t, "running", "raised")
    /\ UNCHANGED <<profile, record, starts, lock, client, child, kills, unnoticed>>

\* The service's output cannot be kept.
WorkerRaises(t) ==
    /\ child[t] = "alive" /\ MayUpdate(t)
    /\ Moves(t, "running", "raised")
    /\ UNCHANGED <<profile, record, starts, lock, client, child, kills, unnoticed>>

WorkerStopping(t) ==
    /\ Moves(t, "asked", IF MayUpdate(t) THEN "stopping" ELSE "raised")
    /\ Update(IF MayUpdate(t) THEN [record EXCEPT !.phase = "stopping"] ELSE record)
    /\ UNCHANGED <<profile, starts, lock, client, child, kills, unnoticed>>

\* terminate_tree.
Terminates(t, from, to) ==
    /\ Moves(t, from, to)
    /\ child' = [child EXCEPT ![t] = IF @ = "alive" THEN "gone" ELSE @]
    /\ UNCHANGED <<profile, record, starts, lock, client, kills, unnoticed>>

WorkerTerminates(t) == Terminates(t, "stopping", "stopped")

WorkerCleansUp(t) == Terminates(t, "raised", "failed")

\* A service that outlives even SIGKILL for a while makes it raise: once on the
\* way to "stopped", and when cleaning up it ends the worker.
TerminateRaises(t) ==
    /\ child[t] = "alive"
    /\ \/ Moves(t, "stopping", "raised") /\ UNCHANGED unnoticed
       \/ Moves(t, "raised", "gone") /\ Abandons(t)
    /\ UNCHANGED <<profile, record, starts, lock, client, child, kills>>

WorkerFinds(t) ==
    /\ child[t] = "gone"
    /\ \E phase \in {"stopped", "failed"} : Moves(t, "running", phase)
    /\ UNCHANGED <<profile, record, starts, lock, client, child, kills, unnoticed>>

\* The last update; where the ticket is wrong it raises, and the worker is gone
\* all the same.
WorkerEnds(t, phase) ==
    /\ Moves(t, phase, IF MayUpdate(t) THEN "leaving" ELSE "gone")
    /\ Update(IF MayUpdate(t) THEN [record EXCEPT !.phase = phase] ELSE record)
    /\ UNCHANGED <<profile, starts, lock, client, child, kills, unnoticed>>

WorkerLeaves(t) ==
    /\ Moves(t, "leaving", "gone")
    /\ UNCHANGED <<profile, record, starts, lock, client, child, kills, unnoticed>>

WorkerActs(t) ==
    \/ WorkerReads(t) \/ WorkerIdentifies(t) \/ WorkerSpawns(t) \/ WorkerRecordsChild(t)
    \/ WorkerIsAsked(t) \/ WorkerIsSuperseded(t) \/ WorkerStopping(t) \/ WorkerTerminates(t)
    \/ WorkerCleansUp(t) \/ TerminateRaises(t) \/ WorkerFinds(t)
    \/ WorkerEnds(t, "stopped") \/ WorkerEnds(t, "failed") \/ WorkerLeaves(t)

----------------------------------------------------------------------------
\* What happens to processes.

ServiceExits(t) ==
    /\ child[t] = "alive"
    /\ child' = [child EXCEPT ![t] = "gone"]
    /\ UNCHANGED <<profile, record, starts, lock, client, worker, kills, unnoticed>>

WorkerIsKilled(t) ==
    /\ WorkerLives(t) /\ kills < MaxKills
    /\ kills' = kills + 1
    /\ worker' = [worker EXCEPT ![t] = "gone"]
    /\ Abandons(t)
    /\ UNCHANGED <<profile, record, starts, lock, client, child>>

\* The system releases its lock.  A worker that it spawned and that is not in
\* the record yet is missed by the next client.
ClientIsKilled(c) ==
    /\ lock = c /\ kills < MaxKills
    /\ kills' = kills + 1
    /\ Returns(c)
    /\ unnoticed' = IF At(c, "identify") /\ record.supervisor # starts
                      THEN unnoticed \cup {starts} ELSE unnoticed
    /\ UNCHANGED <<profile, record, starts, worker, child>>

Next ==
    \/ \E c \in Client : ClientActs(c) \/ ClientIsKilled(c)
    \/ \E t \in Ticket :
         WorkerActs(t) \/ WorkerIsSignalled(t) \/ WorkerRaises(t) \/ ServiceExits(t) \/ WorkerIsKilled(t)

\* A worker that is not killed goes on.
Spec == Init /\ [][Next]_vars /\ \A t \in Ticket : WF_vars(WorkerActs(t))

----------------------------------------------------------------------------
\* Types; and a record names nobody's processes but those of its own start:
\* the ticket keeps a late worker from writing into another's record.
RecordOf(t) ==
    [ticket : {t}, phase : Phase, stop : BOOLEAN, supervisor : {0, t}, child : {0, t},
     profile : 0..MaxCommits]

Records == UNION {RecordOf(t) : t \in 0..MaxStarts}

TypeOK ==
    /\ profile \in 0..MaxCommits /\ starts \in 0..MaxStarts /\ kills \in 0..MaxKills
    /\ record \in Records
    /\ lock \in Client \cup {Nobody}
    /\ \A c \in Client : client[c].seen \in Records /\ (~At(c, "idle") => lock = c)
    /\ worker \in [Ticket -> {"none", "spawned", "read", "identified", "parent", "running",
                              "asked", "raised", "stopping", "stopped", "failed", "leaving", "gone"}]
    /\ child \in [Ticket -> {"none", "alive", "gone"}]
    /\ unnoticed \subseteq Ticket

\* A service runs once: of two that are alive, the older is one that a kill
\* kept out of the record.  In particular a service whose worker is lost is
\* not started again while it lives (core.py:109).
ServiceRunsOnce ==
    \A s, t \in Ticket : s < t /\ ChildLives(s) /\ ChildLives(t) => s \in unnoticed

\* A stop that returns has seen the worker and the service gone
\* (core.py:149, 158), and nothing of that start appears after it.
StoppedIsStopped ==
    \A c \in Client, t \in Ticket :
      At(c, "stopped") /\ (WorkerLives(t) \/ ChildLives(t)) => t \in unnoticed

\* The service that runs was started with the profile on disk: nobody changes
\* the one under the other (control.py:26, 90).
RunsTheProfile ==
    \A t \in Ticket \ unnoticed :
      WorkerLives(t) \/ ChildLives(t) => record.ticket = t /\ record.profile = profile

\* A worker that is told to stop, or finds that its service was started again,
\* ends, and does not leave its service behind unless it is killed or the
\* service cannot be.
Told(t) == t <= starts /\ WorkerLives(t) /\ (record.ticket # t \/ record.stop)

WorkerObeys == \A t \in Ticket : Told(t) ~> ~WorkerLives(t)

=============================================================================
