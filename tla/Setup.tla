--------------------------------- MODULE Setup ---------------------------------
(***************************************************************************)
(* One installation of the motion model's environment: the job record on   *)
(* disk, the clients that start, resume and cancel its setup, the worker   *)
(* each start leaves behind, and the tasks (git, uv, the download, the     *)
(* verification) that a worker runs one after another as processes of      *)
(* their own.  Clients and workers may be killed between two steps; tasks, *)
(* the record and the files survive that.                                  *)
(*                                                                         *)
(* A start is known by its ticket, and so is its worker; processes have    *)
(* names that do not recur (pid and creation time).  All the commands that *)
(* build the source and the environment are one task here.  The record has *)
(* a lock: start holds it until it has written down its worker, and every  *)
(* update of a worker waits for it.  The installation has another.         *)
(***************************************************************************)
EXTENDS Integers, FiniteSets

CONSTANTS
    Caller, NoCaller,                       \* clients
    MaxJobs, MaxJobKills, MaxEdits          \* bounds

ASSUME SetupAssumption ==
    NoCaller \notin Caller /\ {MaxJobs, MaxJobKills, MaxEdits} \subseteq Nat

VARIABLES
    job,        \* the record on disk: see NewJob
    jobs,       \* tickets given out
    jobLock,    \* the client that holds the record's lock
    caller,     \* where each client is
    builder,    \* where the worker of each start is, and at which task
    task,       \* the tasks: "dead", "alive", and "ran" for a verification that
                \* has loaded and run the model
    rootLock,   \* the worker that holds the installation, or 0
    part,       \* what each task that writes has made
    loaded,     \* the verification has loaded the files as they are now
    evidence,   \* starts whose verification took the fingerprints of now
    jobKills, edits,
    unseen,     \* history: since the last verification loaded the files, some
                \* were changed of which none takes fingerprints
    lost        \* history: tasks of which no record tells, as their worker
                \* was killed or failed before it wrote them down

setupVars == <<job, jobs, jobLock, caller, builder, task, rootLock, part, loaded, evidence,
               jobKills, edits, unseen, lost>>

Job == 1..MaxJobs
Writing == {"build", "download"}
Task == Job \X (Writing \cup {"verify"})
Mode == {"install", "verify"}
Active == {"starting", "running", "canceling"}

\* pid and child are 0 and <<>> while unknown.
NewJob(ticket, mode) ==
    [ticket |-> ticket, mode |-> mode, state |-> "starting", pid |-> 0, child |-> <<>>,
     cancel |-> FALSE]

NoJob == [NewJob(0, "install") EXCEPT !.state = "none"]

BuilderLives(t) == t # 0 /\ builder[t].at \notin {"none", "gone"}
TaskLives(k) == k # <<>> /\ task[k] # "dead"

----------------------------------------------------------------------------
\* Faulty: believes the record, whatever became of the files.
StatusUnchecked ==
    CASE ~BuilderLives(job.pid) /\ TaskLives(job.child)     -> "orphaned"
      [] job.state \in Active /\ ~BuilderLives(job.pid)     -> "interrupted"
      [] OTHER                                              -> job.state

\* SetupJobs.status
Status ==
    CASE ~BuilderLives(job.pid) /\ TaskLives(job.child)     -> "orphaned"
      [] job.state \in Active /\ ~BuilderLives(job.pid)     -> "interrupted"
      [] job.state = "complete" /\ job.ticket \notin evidence -> "changed"
      [] OTHER                                              -> job.state

----------------------------------------------------------------------------
(***************************************************************************)
(* The clients.                                                            *)
(***************************************************************************)
Says(c, pc) == caller' = [caller EXCEPT ![c] = pc]

\* Faulty: asks for the worker only.
BlockedByBuilder == BuilderLives(job.pid)

\* A worker at work answers for itself; the task of a dead one has to be
\* cancelled first.
Blocked == BuilderLives(job.pid) \/ TaskLives(job.child)

\* An installation that is complete, and unchanged since, is not done again.
Finished(mode) == job.mode = mode /\ mode = "install" /\ Status = "complete"

\* start or resume: a new record under a new ticket.
StartJob(c, mode) ==
    /\ caller[c] = "idle" /\ jobLock = NoCaller
    /\ jobs < MaxJobs
    /\ ~Blocked /\ ~Finished(mode)
    /\ jobs' = jobs + 1
    /\ job' = NewJob(jobs', mode)
    /\ jobLock' = c
    /\ Says(c, "spawn")
    /\ UNCHANGED <<builder, task, rootLock, part, loaded, evidence, jobKills, edits, unseen, lost>>

SpawnBuilder(c) ==
    /\ caller[c] = "spawn"
    /\ \/ /\ builder' = [builder EXCEPT ![jobs].at = "lock"]
          /\ Says(c, "identify")
          /\ UNCHANGED <<job, jobLock>>
       \/ /\ job' = [job EXCEPT !.state = "failed"]
          /\ jobLock' = NoCaller
          /\ Says(c, "idle")
          /\ UNCHANGED builder
    /\ UNCHANGED <<jobs, task, rootLock, part, loaded, evidence, jobKills, edits, unseen, lost>>

IdentifyBuilder(c) ==
    /\ caller[c] = "identify"
    /\ job' = [job EXCEPT !.pid = jobs]
    /\ jobLock' = NoCaller
    /\ Says(c, "idle")
    /\ UNCHANGED <<jobs, builder, task, rootLock, part, loaded, evidence, jobKills, edits, unseen, lost>>

\* cancel looks at the status first,
CancelLooks(c) ==
    /\ caller[c] = "idle"
    /\ \/ Status = "orphaned" /\ Says(c, "orphaned")
       \/ Status \in Active /\ Says(c, "active")
    /\ UNCHANGED <<job, jobs, jobLock, builder, task, rootLock, part, loaded, evidence, jobKills,
                   edits, unseen, lost>>

\* and then does what that calls for, to the record of the moment: it ends what
\* that has for a child,
CancelOrphan(c) ==
    /\ caller[c] = "orphaned" /\ jobLock = NoCaller
    /\ task' = IF TaskLives(job.child) THEN [task EXCEPT ![job.child] = "dead"] ELSE task
    /\ job' = [job EXCEPT !.state = "canceled", !.child = <<>>]
    /\ Says(c, "idle")
    /\ UNCHANGED <<jobs, jobLock, builder, rootLock, part, loaded, evidence, jobKills, edits, unseen, lost>>

\* or asks its worker.
CancelActive(c) ==
    /\ caller[c] = "active" /\ jobLock = NoCaller
    /\ job' = IF BuilderLives(job.pid)
              THEN [job EXCEPT !.cancel = TRUE, !.state = "canceling"] ELSE job
    /\ Says(c, "idle")
    /\ UNCHANGED <<jobs, jobLock, builder, task, rootLock, part, loaded, evidence, jobKills, edits, unseen, lost>>

----------------------------------------------------------------------------
(***************************************************************************)
(* The worker: Job.execute.                                                *)
(***************************************************************************)
BuilderAt(t, at) == builder' = [builder EXCEPT ![t].at = at]
Mine(t) == job.ticket = t
Holds(t) == rootLock = t
Releases(t) == rootLock' = IF Holds(t) THEN 0 ELSE rootLock
First(mode) == IF mode = "install" THEN "build" ELSE "verify"
TaskOf(t) == <<t, builder[t].task>>

\* An update of a record that has become another's raises; the handler's own
\* update raises once more, and the worker is gone.
UpdateJob(t, changed, at) ==
    /\ jobLock = NoCaller
    /\ IF Mine(t)
       THEN job' = changed /\ BuilderAt(t, at) /\ UNCHANGED rootLock
       ELSE BuilderAt(t, "gone") /\ Releases(t) /\ UNCHANGED job

\* The lock of the installation: not a moment is spent waiting for it.  The plan
\* was read when the worker began.
TakeRoot(t) ==
    /\ builder[t].at = "lock"
    /\ IF rootLock = 0 THEN rootLock' = t /\ BuilderAt(t, "begin")
                       ELSE BuilderAt(t, "failed") /\ UNCHANGED rootLock
    /\ UNCHANGED <<job, jobs, jobLock, caller, task, part, loaded, evidence, jobKills, edits, unseen, lost>>

Begin(t) ==
    /\ builder[t].at = "begin" /\ jobLock = NoCaller
    /\ IF Mine(t)
       THEN /\ job' = [job EXCEPT !.state = "running"]
            /\ builder' = [builder EXCEPT ![t] = [at |-> "check", task |-> First(job.mode)]]
            /\ UNCHANGED rootLock
       ELSE BuilderAt(t, "gone") /\ Releases(t) /\ UNCHANGED job
    /\ UNCHANGED <<jobs, jobLock, caller, task, part, loaded, evidence, jobKills, edits, unseen, lost>>

\* Before a task: asked to stop, by the record of whichever ticket or by a
\* signal; stopped by the preflight or by an installation that is not its own.
CheckCancel(t) ==
    /\ builder[t].at = "check"
    /\ \/ ~job.cancel /\ BuilderAt(t, "spawn") /\ UNCHANGED rootLock
       \/ BuilderAt(t, "canceled") /\ Releases(t)
       \/ builder[t].task = "build" /\ BuilderAt(t, "failed") /\ Releases(t)
    /\ UNCHANGED <<job, jobs, jobLock, caller, task, part, loaded, evidence, jobKills, edits, unseen, lost>>

SpawnTask(t) ==
    /\ builder[t].at = "spawn"
    /\ task' = [task EXCEPT ![TaskOf(t)] = "alive"]
    /\ BuilderAt(t, "record")
    /\ UNCHANGED <<job, jobs, jobLock, caller, rootLock, part, loaded, evidence, jobKills, edits, unseen, lost>>

\* A worker that cannot write its task down leaves it behind.
RecordTask(t) ==
    /\ builder[t].at = "record"
    /\ UpdateJob(t, [job EXCEPT !.child = TaskOf(t)], "wait")
    /\ lost' = IF Mine(t) THEN lost ELSE lost \cup {TaskOf(t)}
    /\ UNCHANGED <<jobs, jobLock, caller, task, part, loaded, evidence, jobKills, edits, unseen>>

\* It waits for the task, and ends it when it is cancelled or out of time.
StopTask(t) ==
    /\ builder[t].at = "wait"
    /\ \E at \in {"clear-canceled", "clear-failed"} : BuilderAt(t, at)
    /\ task' = [task EXCEPT ![TaskOf(t)] = "dead"]
    /\ UNCHANGED <<job, jobs, jobLock, caller, rootLock, part, loaded, evidence, jobKills, edits, unseen, lost>>

Failed(t) == IF builder[t].task = "verify" THEN t \notin evidence ELSE part[builder[t].task] # "whole"

\* A task that has ended has done its work, or failed, or was ended by others.
TaskEnded(t) ==
    /\ builder[t].at = "wait" /\ ~TaskLives(TaskOf(t))
    /\ \/ BuilderAt(t, "clear-failed")
       \/ ~Failed(t) /\ BuilderAt(t, "clear-done")
    /\ UNCHANGED <<job, jobs, jobLock, caller, task, rootLock, part, loaded, evidence, jobKills, edits, unseen, lost>>

NextTask == [build |-> "download", download |-> "verify", verify |-> "none"]

ClearTask(t) ==
    /\ builder[t].at \in {"clear-canceled", "clear-failed", "clear-done"}
    /\ jobLock = NoCaller
    /\ IF ~Mine(t)
       THEN BuilderAt(t, "gone") /\ Releases(t) /\ UNCHANGED job
       ELSE /\ job' = [job EXCEPT !.child = <<>>]
            /\ CASE builder[t].at = "clear-done" ->
                      /\ builder' = [builder EXCEPT ![t] =
                             IF @.task = "verify" THEN [@ EXCEPT !.at = "finish"]
                             ELSE [at |-> "check", task |-> NextTask[@.task]]]
                      /\ UNCHANGED rootLock
                 [] builder[t].at = "clear-canceled" -> BuilderAt(t, "canceled") /\ Releases(t)
                 [] OTHER                            -> BuilderAt(t, "failed") /\ Releases(t)
    /\ UNCHANGED <<jobs, jobLock, caller, task, part, loaded, evidence, jobKills, edits, unseen, lost>>

\* The last look at the cancellation, and the result.
Finish(t) ==
    /\ builder[t].at = "finish"
    /\ \/ BuilderAt(t, "canceled") /\ Releases(t)
       \/ ~job.cancel /\ BuilderAt(t, "complete") /\ UNCHANGED rootLock
    /\ UNCHANGED <<job, jobs, jobLock, caller, task, part, loaded, evidence, jobKills, edits, unseen, lost>>

\* The end is written down, with the installation's lock only if all went well.
Report(t) ==
    /\ builder[t].at \in {"canceled", "failed", "complete"}
    /\ jobLock = NoCaller
    /\ job' = IF Mine(t) THEN [job EXCEPT !.state = builder[t].at] ELSE job
    /\ BuilderAt(t, "gone") /\ Releases(t)
    /\ UNCHANGED <<jobs, jobLock, caller, task, part, loaded, evidence, jobKills, edits, unseen, lost>>

----------------------------------------------------------------------------
(***************************************************************************)
(* The tasks, whether or not anyone still waits for them.                  *)
(***************************************************************************)
\* What is whole already may be left as it is: a file of the right size and
\* digest is not fetched again, an environment with the right packages not
\* built again.
TaskWrites(k) ==
    /\ TaskLives(k) /\ k[2] \in Writing
    /\ part' = [part EXCEPT ![k[2]] = "partial"]
    /\ loaded' = FALSE /\ evidence' = {}
    /\ UNCHANGED <<job, jobs, jobLock, caller, builder, task, rootLock, jobKills, edits, unseen, lost>>

\* A download is checked before it counts.
TaskSucceeds(k) ==
    /\ TaskLives(k) /\ k[2] \in Writing
    /\ part' = [part EXCEPT ![k[2]] = "whole"]
    /\ task' = [task EXCEPT ![k] = "dead"]
    /\ loaded' = (loaded /\ part[k[2]] = "whole")
    /\ evidence' = IF part[k[2]] = "whole" THEN evidence ELSE {}
    /\ UNCHANGED <<job, jobs, jobLock, caller, builder, rootLock, jobKills, edits, unseen, lost>>

\* The verification runs the model twice,
TaskLoads(k) ==
    /\ task[k] = "alive" /\ k[2] = "verify"
    /\ \A w \in Writing : part[w] = "whole"
    /\ task' = [task EXCEPT ![k] = "ran"]
    /\ loaded' = TRUE /\ unseen' = FALSE
    /\ UNCHANGED <<job, jobs, jobLock, caller, builder, rootLock, part, evidence, jobKills, edits, lost>>

\* and then takes the fingerprints of the files, as they are by now.
TaskFingerprints(k) ==
    /\ task[k] = "ran"
    /\ evidence' = evidence \cup {k[1]}
    /\ task' = [task EXCEPT ![k] = "dead"]
    /\ UNCHANGED <<job, jobs, jobLock, caller, builder, rootLock, part, loaded, jobKills, edits, unseen, lost>>

TaskFails(k) ==
    /\ TaskLives(k)
    /\ task' = [task EXCEPT ![k] = "dead"]
    /\ UNCHANGED <<job, jobs, jobLock, caller, builder, rootLock, part, loaded, evidence, jobKills,
                   edits, unseen, lost>>

----------------------------------------------------------------------------
\* Someone changes the files while no task is at them: files of which a
\* verification takes fingerprints, or others.
FilesEdited ==
    /\ edits < MaxEdits /\ \A k \in Task : ~TaskLives(k)
    /\ edits' = edits + 1
    /\ \E w \in Writing : part' = [part EXCEPT ![w] = "partial"]
    /\ loaded' = FALSE
    /\ \/ evidence' = {} /\ UNCHANGED unseen
       \/ unseen' = TRUE /\ UNCHANGED evidence
    /\ UNCHANGED <<job, jobs, jobLock, caller, builder, task, rootLock, jobKills, lost>>

\* The locks of a process end with it.
BuilderKilled(t) ==
    /\ BuilderLives(t) /\ jobKills < MaxJobKills
    /\ jobKills' = jobKills + 1
    /\ BuilderAt(t, "gone") /\ Releases(t)
    /\ lost' = IF builder[t].at = "record" THEN lost \cup {TaskOf(t)} ELSE lost
    /\ UNCHANGED <<job, jobs, jobLock, caller, task, part, loaded, evidence, edits, unseen>>

CallerKilled(c) ==
    /\ caller[c] # "idle" /\ jobKills < MaxJobKills
    /\ jobKills' = jobKills + 1
    /\ jobLock' = IF jobLock = c THEN NoCaller ELSE jobLock
    /\ Says(c, "idle")
    /\ UNCHANGED <<job, jobs, builder, task, rootLock, part, loaded, evidence, edits, unseen, lost>>

SetupInit ==
    /\ job = NoJob /\ jobs = 0 /\ jobLock = NoCaller
    /\ caller = [c \in Caller |-> "idle"]
    /\ builder = [t \in Job |-> [at |-> "none", task |-> "none"]]
    /\ task = [k \in Task |-> "dead"]
    /\ rootLock = 0
    /\ part = [w \in Writing |-> "missing"]
    /\ loaded = FALSE /\ evidence = {}
    /\ jobKills = 0 /\ edits = 0 /\ unseen = FALSE /\ lost = {}

SetupNext ==
    \/ \E c \in Caller :
          \/ \E mode \in Mode : StartJob(c, mode)
          \/ SpawnBuilder(c) \/ IdentifyBuilder(c)
          \/ CancelLooks(c) \/ CancelOrphan(c) \/ CancelActive(c)
          \/ CallerKilled(c)
    \/ \E t \in Job :
          \/ TakeRoot(t) \/ Begin(t) \/ CheckCancel(t) \/ SpawnTask(t) \/ RecordTask(t)
          \/ StopTask(t) \/ TaskEnded(t) \/ ClearTask(t) \/ Finish(t) \/ Report(t)
          \/ BuilderKilled(t)
    \/ \E k \in Task :
          \/ TaskWrites(k) \/ TaskSucceeds(k) \/ TaskLoads(k) \/ TaskFingerprints(k) \/ TaskFails(k)
    \/ FilesEdited

SetupSpec == SetupInit /\ [][SetupNext]_setupVars

----------------------------------------------------------------------------
\* Property: no two tasks are at the installation at once, however workers and
\* clients are killed, jobs cancelled and resumed; save a task that its worker
\* could not write down, which nobody knows of.
OneTaskAtATime ==
    \A k, l \in Task \ lost : TaskLives(k) /\ TaskLives(l) => k = l

\* Property: an installation that is shown as complete is whole, and the files
\* are those a verification loaded and ran; again unless a task was left of which
\* no record tells, or files were changed of which no verification takes
\* fingerprints (verify.py:72-89).
CompleteIsVerified ==
    Status = "complete" /\ lost = {} /\ ~unseen => loaded /\ \A w \in Writing : part[w] = "whole"
================================================================================
