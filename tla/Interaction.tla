----------------------------- MODULE Interaction -----------------------------
(***************************************************************************)
(* From what is heard to what is done: the audio pipeline, the runtime of  *)
(* dialogue turns, the observation loop around the brain, and the policy   *)
(* that fills quiet time.  It runs on                                      *)
(*   - the bridge's connection thread, which pushes audio through the VAD  *)
(*     and reserves a turn for each utterance.  It is also the only thread *)
(*     that delivers the answers output calls wait for;                    *)
(*   - one job thread per utterance (transcribe, ask, dispatch), and one   *)
(*     per plan posted to the control server;                              *)
(*   - the threads of external calls, which cannot be killed;              *)
(*   - the heartbeat thread, which ticks the idle policy;                  *)
(*   - whoever halts: the control server and the companion's shutdown.     *)
(* Four locks order them: the pipeline's ingest lock and its condition,    *)
(* the runtime's activity lock and the turn manager's lock.  What is       *)
(* dispatched lands in the supervisor and the motion director, which have  *)
(* modules of their own; here they are what they speak and show.           *)
(***************************************************************************)
EXTENDS EnergyVad, FiniteSets

CONSTANTS
    None,               \* Python's None
    Halter,             \* the thread in halt_all, where a turn's could be
    Autonomy,           \* the turn id of idle cues
    MaxTurns,           \* bound on the turns begun
    MaxHalts,           \* bound on halt_all
    MaxObservations,    \* ObservationLoop's max_observations
    MaxActiveCalls      \* and its max_active_calls

ASSUME InteractionAssumption ==
    /\ {MaxTurns, MaxHalts} \subseteq Nat
    /\ {MaxObservations, MaxActiveCalls} \subseteq Nat \ {0}
    /\ None \notin Nat /\ Halter \notin Nat /\ Autonomy \notin Nat
    /\ None \notin {Halter, Autonomy}

Turn == 1..MaxTurns

VARIABLES
    \* AudioInteractionPipeline and its VAD
    vad,        \* EnergyVadSegmenter's buffers
    conn,       \* where accept_audio is: "idle", "note", "launch" or "begin"
    heard,      \* the utterance accept_audio has to launch
    pipe,       \* "open", "closing" while close joins the jobs, or "closed"
    \* DialogueTurnManager and the turns
    pending,    \* the turn whose response is still wanted
    newest,     \* the turns begun so far
    origin,     \* "audio" or "api" per turn begun
    at,         \* where the thread of a turn is
    plan,       \* what it still has to dispatch
    \* ObservationLoop
    call,       \* the external call a turn waits for: "none", "running", "ended"
    orphans,    \* abandoned calls that still hold a slot
    seen,       \* observations of a turn so far
    \* the activity lock, and the output call its holder waits for
    activity, doing,
    \* CharacterSupervisor's voice, and the motion director's cue
    speech, stopping, queued, body,
    \* IdleBehaviorPolicy and its tick
    tick, idleSince,
    \* history
    halts, halted,  \* halts so far; the newest turn begun before the last one
    quiet           \* nothing was heard or begun since the idle clock started

audioVars == <<vad, conn, heard, pipe>>
turnVars == <<pending, newest, origin, at, plan>>
callVars == <<call, orphans, seen>>
lockVars == <<activity, doing>>
outputVars == <<speech, stopping, queued, body>>
idleVars == <<tick, idleSince>>
historyVars == <<halts, halted, quiet>>
vars == <<audioVars, turnVars, callVars, lockVars, outputVars, idleVars, historyVars>>

----------------------------------------------------------------------------
\* The locks.  accept_audio and tick_autonomy hold the ingest lock throughout;
\* _launch holds the condition while it waits for the activity lock; whoever
\* runs apply_if_current holds the activity lock and the turn manager's.
IngestFree == conn = "idle" /\ tick = "none"
ConditionFree == conn # "begin"
ActivityFree == activity = None
TurnsFree == activity \notin Turn

\* IdleBehaviorPolicy.interrupt; after a submission that raised it stays failed.
Stopped == IF idleSince = "failed" THEN "failed" ELSE "none"

InHandle == {"handle", "empty", "stop", "image", "imageWait", "model", "modelWait",
             "claim", "validate", "dispatch", "apply"}

Jobs == {t \in 1..newest : origin[t] = "audio" /\ at[t] # "done"}
Newest(S) == CHOOSE t \in S : \A u \in S : u <= t
Goto(t, where) == at' = [at EXCEPT ![t] = where]
Superseded(t) == Goto(t, "finish")

----------------------------------------------------------------------------
\* The connection thread: accept_audio

\* A new session and a missing sequence number both reset the VAD.
PushFrame(loud, break) == Push(IF break THEN Empty ELSE vad, loud)

AcceptAudio(loud, break) ==
    LET r == PushFrame(loud, break) IN
    /\ IngestFree /\ pipe = "open" /\ newest < MaxTurns
    /\ vad' = r.vad
    /\ heard' = r.utterance
    /\ conn' = IF r.vad.active \/ loud THEN "note"
               ELSE IF r.utterance # "none" THEN "launch" ELSE "idle"
    /\ quiet' = (quiet /\ ~loud)
    /\ UNCHANGED <<pipe, turnVars, callVars, lockVars, outputVars, idleVars, halts, halted>>

\* note_input_activity
NoteInputActivity ==
    /\ conn = "note" /\ ActivityFree
    /\ conn' = IF heard # "none" THEN "launch" ELSE "idle"
    /\ idleSince' = Stopped
    /\ UNCHANGED <<vad, heard, pipe, turnVars, callVars, lockVars, outputVars>>
    /\ UNCHANGED <<tick, historyVars>>

LaunchTakesCondition ==
    /\ conn = "launch"
    /\ conn' = "begin"
    /\ UNCHANGED <<vad, heard, pipe, turnVars, callVars, lockVars, outputVars>>
    /\ UNCHANGED <<idleVars, historyVars>>

\* begin_utterance: the newest turn is the only one still wanted.
BeginTurn ==
    /\ newest' = newest + 1
    /\ pending' = newest + 1

BeginUtterance(from, where) ==
    /\ ActivityFree /\ newest < MaxTurns
    /\ BeginTurn
    /\ origin' = [origin EXCEPT ![newest + 1] = from]
    /\ Goto(newest + 1, where)
    /\ idleSince' = Stopped
    /\ quiet' = FALSE

Launch ==
    /\ conn = "begin"
    /\ BeginUtterance("audio", "stt")
    /\ conn' = "idle"
    /\ heard' = "none"
    /\ UNCHANGED <<vad, pipe, plan, callVars, lockVars, outputVars>>
    /\ UNCHANGED <<tick, halts, halted>>

\* close: it may stop waiting for the jobs it saw.
Close ==
    /\ pipe = "open" /\ ConditionFree
    /\ pipe' = "closing"
    /\ UNCHANGED <<vad, conn, heard, turnVars, callVars, lockVars, outputVars>>
    /\ UNCHANGED <<idleVars, historyVars>>

CloseReturns ==
    /\ pipe = "closing" /\ ConditionFree
    /\ pipe' = "closed"
    /\ UNCHANGED <<vad, conn, heard, turnVars, callVars, lockVars, outputVars>>
    /\ UNCHANGED <<idleVars, historyVars>>

----------------------------------------------------------------------------
\* A job: _run_job, and handle_reserved_utterance under it

StayInTurn == UNCHANGED <<audioVars, pending, newest, origin, lockVars, outputVars, idleVars, historyVars>>

\* transcribe_pcm returns a transcript or raises.
Transcribe(t) ==
    /\ at[t] = "stt"
    /\ \E where \in {"admit", "claim"} : Goto(t, where)
    /\ UNCHANGED <<plan, callVars>> /\ StayInTurn

AdmitTranscript(t) == t = Newest({u \in 1..newest : origin[u] = "audio"})

Admit(t) ==
    /\ at[t] = "admit" /\ ConditionFree
    /\ Goto(t, IF AdmitTranscript(t) THEN "handle" ELSE "finish")
    /\ UNCHANGED <<plan, callVars>> /\ StayInTurn

\* What was said: nothing, the stop word, or something for the brain, which is
\* shown the scene first under the observation policy "always".
Handle(t) ==
    /\ at[t] = "handle" /\ TurnsFree
    /\ IF pending # t THEN Superseded(t)
       ELSE \E where \in {"empty", "stop", "image", "model"} : Goto(t, where)
    /\ UNCHANGED <<plan, callVars>> /\ StayInTurn

\* claim_current, on the way to a failed turn
Claim(t) ==
    /\ at[t] \in {"claim", "empty"} /\ TurnsFree
    /\ pending' = IF pending = t THEN None ELSE pending
    /\ Goto(t, "finish")
    /\ UNCHANGED <<audioVars, newest, origin, plan, callVars, lockVars, outputVars>>
    /\ UNCHANGED <<idleVars, historyVars>>

\* The end of _run_job, which a posted plan does not have; the thread's locals
\* go with it.
FinishJob(t) ==
    /\ at[t] = "finish"
    /\ origin[t] = "audio" => ConditionFree
    /\ Goto(t, "done")
    /\ plan' = [plan EXCEPT ![t] = {}] /\ seen' = [seen EXCEPT ![t] = 0]
    /\ UNCHANGED <<call, orphans>> /\ StayInTurn

----------------------------------------------------------------------------
\* ObservationLoop

RunningCalls == Cardinality({t \in Turn : call[t] = "running"}) + orphans
Waiting(t) == at[t] \in {"imageWait", "modelWait"}

SlotFree == RunningCalls < MaxActiveCalls

\* _call up to its worker thread.  A call refused, because the turn is late or
\* every slot is taken, fails the turn.
BeginCall(t) ==
    /\ at[t] \in {"image", "model"} /\ TurnsFree
    /\ \/ pending # t /\ Superseded(t) /\ UNCHANGED call
       \/ pending = t /\ Goto(t, "claim") /\ UNCHANGED call
       \/ /\ pending = t /\ SlotFree
          /\ Goto(t, IF at[t] = "image" THEN "imageWait" ELSE "modelWait")
          /\ call' = [call EXCEPT ![t] = "running"]
    /\ UNCHANGED <<plan, orphans, seen>> /\ StayInTurn

\* The worker thread gives its slot back whether or not anyone still waits.
CallReturns(t) ==
    /\ call[t] = "running"
    /\ call' = [call EXCEPT ![t] = "ended"]
    /\ UNCHANGED <<at, plan, orphans, seen>> /\ StayInTurn

OrphanReturns ==
    /\ orphans > 0
    /\ orphans' = orphans - 1
    /\ UNCHANGED <<at, plan, call, seen>> /\ StayInTurn

\* Faulty: only an answer ends the wait.
CallAbandonedNever(t) == FALSE

\* The wait gives up on a turn that was superseded or whose deadline passed.
CallAbandoned(t) ==
    /\ Waiting(t) /\ TurnsFree
    /\ Goto(t, IF pending # t THEN "finish" ELSE "claim")
    /\ orphans' = IF call[t] = "running" THEN orphans + 1 ELSE orphans
    /\ call' = [call EXCEPT ![t] = "none"]
    /\ UNCHANGED <<plan, seen>> /\ StayInTurn

Answered(t, wait) ==
    /\ at[t] = wait /\ TurnsFree /\ call[t] = "ended" /\ pending = t
    /\ call' = [call EXCEPT ![t] = "none"]
    /\ UNCHANGED orphans

\* acquire: a JPEG is an observation; anything else fails the turn.
ImageAnswered(t) ==
    /\ Answered(t, "imageWait")
    /\ \/ Goto(t, "model") /\ seen' = [seen EXCEPT ![t] = @ + 1]
       \/ Goto(t, "claim") /\ UNCHANGED seen
    /\ UNCHANGED plan /\ StayInTurn

\* The brain asks to look, or sends a plan that needs evidence younger than
\* max_frame_age and is made to look when it has none; acquire refuses one
\* look too many.  Any other answer fails the turn.
ModelAnswered(t) ==
    /\ Answered(t, "modelWait")
    /\ \/ /\ Goto(t, IF seen[t] >= MaxObservations THEN "claim" ELSE "image")
          /\ UNCHANGED plan
       \/ \E actions \in SUBSET {"say", "motion"} :
            Goto(t, "validate") /\ plan' = [plan EXCEPT ![t] = actions]
       \/ Goto(t, "claim") /\ UNCHANGED plan
    /\ UNCHANGED seen /\ StayInTurn

\* validate_action_bundle takes one or two actions.
Validate(t) ==
    /\ at[t] = "validate" /\ TurnsFree
    /\ IF pending # t THEN Superseded(t)
       ELSE Goto(t, IF plan[t] = {} THEN "claim" ELSE "dispatch")
    /\ UNCHANGED <<plan, callVars>> /\ StayInTurn

----------------------------------------------------------------------------
\* Dispatch.  apply_action_payload is a turn of its own that is never asked.
ApplyPayload ==
    /\ pipe = "open" /\ (heard # "none" => newest + 1 < MaxTurns)
    /\ \E actions \in SUBSET {"say", "motion"} :
         /\ BeginUtterance("api", IF actions = {} THEN "claim" ELSE "dispatch")
         /\ plan' = [plan EXCEPT ![newest + 1] = actions]
    /\ UNCHANGED <<audioVars, callVars, lockVars, outputVars, tick, halts, halted>>

\* Faulty: the operation runs for a turn that is no longer current.
StillCurrentAlways(t) == TRUE

\* apply_if_current's check
StillCurrent(t) == pending = t

\* supervisor.halt_all cancels what waits and neutralizes what speaks, and
\* waits for the answer; motion.halt follows.
FenceVoice(holder) ==
    /\ activity' = holder
    /\ doing' = "fenceVoice"
    /\ queued' = None
    /\ stopping' = (speech # None)

EnterApply(t) ==
    /\ at[t] \in {"dispatch", "stop"} /\ ActivityFree
    /\ IF ~StillCurrent(t)
       THEN Superseded(t) /\ UNCHANGED <<lockVars, outputVars, halted>>
       ELSE /\ Goto(t, "apply")
            /\ UNCHANGED <<speech, body>>
            /\ IF at[t] = "stop"
               THEN FenceVoice(t) /\ halted' = newest
               ELSE activity' = t /\ UNCHANGED <<doing, stopping, queued, halted>>
    /\ UNCHANGED <<audioVars, pending, newest, origin, plan, callVars, idleVars, halts, quiet>>

\* supervisor.apply_bundle: the speech starts once the output agrees, or waits
\* for the one it replaces.
ApplySay(t) ==
    /\ activity = t /\ doing = "none" /\ "say" \in plan[t]
    /\ doing' = "say"
    /\ plan' = [plan EXCEPT ![t] = @ \ {"say"}]
    /\ queued' = IF speech = None THEN None ELSE t
    /\ stopping' = (speech # None)
    /\ UNCHANGED <<audioVars, pending, newest, origin, at, callVars, activity>>
    /\ UNCHANGED <<speech, body, idleVars, historyVars>>

\* The output call returns: with the answer, which the connection thread must
\* be free to deliver, or without it.
SayReturns ==
    /\ doing = "say"
    /\ doing' = "none"
    /\ speech' \in {speech} \cup (IF speech = None /\ conn = "idle" THEN {activity} ELSE {})
    /\ UNCHANGED <<audioVars, turnVars, callVars, activity, stopping, queued, body>>
    /\ UNCHANGED <<idleVars, historyVars>>

\* motion.submit_cue: a director that is not running or does not know the
\* motion raises, and the dispatch ends there.
ApplyMotion(t) ==
    /\ activity = t /\ doing = "none" /\ "motion" \in plan[t]
    /\ \/ body' = t /\ plan' = [plan EXCEPT ![t] = @ \ {"motion"}]
       \/ plan' = [plan EXCEPT ![t] = {}] /\ UNCHANGED body
    /\ UNCHANGED <<audioVars, pending, newest, origin, at, callVars, lockVars>>
    /\ UNCHANGED <<speech, stopping, queued, idleVars, historyVars>>

\* apply_if_current clears the turn whatever the operation did.
LeaveApply(t) ==
    /\ activity = t /\ doing = "none" /\ plan[t] = {}
    /\ activity' = None
    /\ pending' = None
    /\ Goto(t, "finish")
    /\ UNCHANGED <<audioVars, newest, origin, plan, callVars, doing, outputVars, idleVars, historyVars>>

----------------------------------------------------------------------------
\* Halting

\* Faulty: halt_all leaves the pending turn.
InvalidateNothing == UNCHANGED pending

InvalidatePending == pending' = None

HaltAll ==
    /\ ActivityFree /\ halts < MaxHalts /\ pipe \in {"open", "closed"}
    /\ InvalidatePending
    /\ FenceVoice(Halter)
    /\ halts' = halts + 1
    /\ halted' = newest
    /\ UNCHANGED <<audioVars, newest, origin, at, plan, callVars, speech, body, idleVars, quiet>>

\* motion.halt fences the director, with a new lease token, before it waits.
VoiceFenced ==
    /\ doing = "fenceVoice"
    /\ doing' = "fenceBody"
    /\ body' = None
    /\ UNCHANGED <<audioVars, turnVars, callVars, activity, speech, stopping, queued>>
    /\ UNCHANGED <<idleVars, historyVars>>

BodyFenced ==
    /\ doing = "fenceBody"
    /\ doing' = "none"
    /\ activity' = IF activity = Halter THEN None ELSE activity
    /\ UNCHANGED <<audioVars, turnVars, callVars, outputVars, idleVars, historyVars>>

----------------------------------------------------------------------------
\* The outputs on their own: the executor thread finishes and starts what is
\* queued, unless the supervisor's condition is held; a cue ends.
SpeechEnds ==
    /\ speech # None /\ doing \notin {"say", "fenceVoice"}
    /\ speech' \in {queued, None}
    /\ queued' = None
    /\ stopping' = FALSE
    /\ UNCHANGED <<audioVars, turnVars, callVars, lockVars, body, idleVars, historyVars>>

BodyEnds ==
    /\ body # None
    /\ body' = None
    /\ UNCHANGED <<audioVars, turnVars, callVars, lockVars, speech, stopping, queued>>
    /\ UNCHANGED <<idleVars, historyVars>>

----------------------------------------------------------------------------
\* The idle policy.  tick_autonomy keeps the ingest lock while it waits for
\* the activity lock, with the quiet it read before.
TickReads ==
    /\ IngestFree /\ ConditionFree
    /\ tick' = IF pipe = "open" /\ Jobs = {} /\ ~vad.active THEN "quiet" ELSE "busy"
    /\ UNCHANGED <<audioVars, turnVars, callVars, lockVars, outputVars, idleSince, historyVars>>

\* Faulty: the tick does not ask what is being said.
EligibleWhileSpeaking ==
    tick = "quiet" /\ pending = None /\ body = None

Eligible ==
    /\ tick = "quiet"
    /\ \A t \in Turn : at[t] \notin InHandle \/ origin[t] = "api"
    /\ pending = None /\ speech = None /\ body = None

\* IdleBehaviorPolicy.tick.  A director that is not ready makes it ineligible;
\* one whose output or lease changed since the last tick restarts the clock;
\* one that refuses returns no cue; one that raises is asked no more.
TickActs ==
    /\ tick # "none" /\ ActivityFree
    /\ tick' = "none"
    /\ \/ idleSince' = Stopped /\ quiet' = FALSE /\ UNCHANGED body
       \/ /\ Eligible /\ idleSince \in {"none", "counting", "elapsed"}
          /\ idleSince' = "counting"
          /\ quiet' \in IF idleSince = "counting" THEN {quiet, TRUE} ELSE {TRUE}
          /\ UNCHANGED body
       \/ /\ Eligible /\ idleSince = "elapsed"
          /\ \/ idleSince' = "none" /\ body' \in {Autonomy, None}
             \/ idleSince' = "failed" /\ UNCHANGED body
          /\ quiet' = FALSE
    /\ UNCHANGED <<audioVars, turnVars, callVars, lockVars, speech, stopping, queued>>
    /\ UNCHANGED <<halts, halted>>

IntervalElapses ==
    /\ idleSince = "counting"
    /\ idleSince' = "elapsed"
    /\ UNCHANGED <<audioVars, turnVars, callVars, lockVars, outputVars, tick, historyVars>>

----------------------------------------------------------------------------
Init ==
    /\ vad = Empty /\ conn = "idle" /\ heard = "none" /\ pipe = "open"
    /\ pending = None /\ newest = 0
    /\ origin = [t \in Turn |-> "none"] /\ at = [t \in Turn |-> "none"]
    /\ plan = [t \in Turn |-> {}]
    /\ call = [t \in Turn |-> "none"] /\ orphans = 0 /\ seen = [t \in Turn |-> 0]
    /\ activity = None /\ doing = "none"
    /\ speech = None /\ stopping = FALSE /\ queued = None /\ body = None
    /\ tick = "none" /\ idleSince = "none" 
    /\ halts = 0 /\ halted = 0 /\ quiet = FALSE

JobStep(t) ==
    \/ Transcribe(t) \/ Admit(t) \/ Handle(t) \/ Claim(t) \/ BeginCall(t)
    \/ CallAbandoned(t) \/ ImageAnswered(t) \/ ModelAnswered(t) \/ Validate(t)
    \/ EnterApply(t) \/ ApplySay(t) \/ ApplyMotion(t) \/ LeaveApply(t) \/ FinishJob(t)

ConnStep ==
    \/ \E loud, break \in BOOLEAN : AcceptAudio(loud, break)
    \/ NoteInputActivity \/ LaunchTakesCondition \/ Launch

Answers == SayReturns \/ VoiceFenced \/ BodyFenced

Next ==
    \/ ConnStep
    \/ Close \/ CloseReturns
    \/ \E t \in Turn : JobStep(t) \/ CallReturns(t)
    \/ OrphanReturns
    \/ ApplyPayload
    \/ HaltAll \/ Answers
    \/ SpeechEnds \/ BodyEnds
    \/ TickReads \/ TickActs \/ IntervalElapses

(***************************************************************************)
(* Threads that can run do.  Speech-to-text and output calls have time-    *)
(* outs of their own; a brain or a screenshot has none, and only the       *)
(* passing of its turn's deadline ends the wait.                           *)
(***************************************************************************)
Fairness ==
    /\ WF_vars(NoteInputActivity \/ LaunchTakesCondition \/ Launch)
    /\ WF_vars(Answers)
    /\ WF_vars(TickActs)
    /\ \A t \in Turn : WF_vars(JobStep(t))

Spec == Init /\ [][Next]_vars /\ Fairness

----------------------------------------------------------------------------
Stages == InHandle \cup {"none", "stt", "admit", "finish", "done"}

\* Every variable keeps to its range: the detector's buffers to their lengths,
\* and calls to their slots.
TypeOK ==
    /\ vad \in [active : BOOLEAN, kept : 0..PreRoll, candidate : 0..StartTrigger,
                voiced : 0..MaxUtterance + PreRoll, duration : 0..MaxUtterance + PreRoll + 1,
                silence : 0..EndSilence]
    /\ heard \in {"none", "speech"}
    /\ conn \in {"idle", "note", "launch", "begin"}
    /\ pipe \in {"open", "closing", "closed"}
    /\ pending \in Turn \cup {None} /\ newest \in 0..MaxTurns
    /\ origin \in [Turn -> {"none", "audio", "api"}] /\ at \in [Turn -> Stages]
    /\ plan \in [Turn -> SUBSET {"say", "motion"}]
    /\ call \in [Turn -> {"none", "running", "ended"}]
    /\ orphans \in 0..MaxActiveCalls /\ RunningCalls <= MaxActiveCalls
    /\ seen \in [Turn -> 0..MaxObservations]
    /\ activity \in Turn \cup {None, Halter}
    /\ doing \in {"none", "say", "fenceVoice", "fenceBody"}
    /\ {speech, queued} \subseteq Turn \cup {None}
    /\ body \in Turn \cup {None, Autonomy} /\ stopping \in BOOLEAN
    /\ tick \in {"none", "quiet", "busy"} /\ idleSince \in {"none", "counting", "elapsed", "failed"}
    /\ quiet \in BOOLEAN
    /\ halts \in 0..MaxHalts /\ halted \in 0..MaxTurns

\* A turn's speech is taken on, or its cue, only while no newer utterance was
\* heard and nothing halted since it began: whatever the order in which the
\* transcripts and the brain's answers come back.
Acts(t) == \/ t \in {speech', queued'} \ {speech, queued}
           \/ body' = t /\ body # t
StaleTurnNeverActs == [][\A t \in Turn : Acts(t) => t = newest /\ t > halted]_vars

\* Once a halt has returned, and until something newer is heard, nothing of
\* the turns before it is spoken, waits to be spoken, or moves the body.
HaltIsFinal ==
    halted = newest /\ newest > 0 /\ doing = "none" =>
        (speech # None => stopping) /\ queued = None /\ body \notin Turn

\* An idle cue starts only in a quiet that lasted: since the policy's clock
\* started nothing was heard and no turn began, and no job, no speech and no
\* utterance is under way when it starts.
IdleOnlyInLastingQuiet ==
    [][body' = Autonomy /\ body # Autonomy =>
         quiet /\ ~vad.active /\ Jobs = {} /\ pending = None /\ speech = None]_vars

\* Every job ends, though its calls may never return and the locks it needs
\* are held while output calls wait: wait_until_idle cannot hang behind one.
\* (The turns are bounded, so none is left in the end only if each one ends.)
JobsEnd == <>[](Jobs = {})

\* Once the pipeline is closed no utterance begins a turn.
ClosedPipelineBeginsNothing ==
    [][pipe = "closed" /\ newest' > newest => FALSE]_vars
==============================================================================
