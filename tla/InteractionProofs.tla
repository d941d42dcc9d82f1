--------------------------- MODULE InteractionProofs ---------------------------
(***************************************************************************)
(* Proofs about Interaction, for any number of turns, halts, observations  *)
(* and calls, and any setting of the energy gate.                          *)
(***************************************************************************)
EXTENDS Interaction, FiniteSetTheorems, TLAPS

USE InteractionAssumption DEF Turn

(***************************************************************************)
(* The inductive invariant, part by part.                                  *)
(***************************************************************************)

\* Only the newest turn is ever wanted, and the thread in apply_if_current is
\* that of the turn wanted: nothing takes its turn from it before it leaves.
PendingIsNewest ==
    /\ pending # None => pending = newest /\ newest > 0
    /\ activity \in Turn => pending = activity
    /\ activity = Halter => pending = None

\* A thread is inside apply_if_current exactly while it holds the lock.
ApplyHoldsLock == \A t \in Turn : at[t] = "apply" <=> activity = t

\* A turn has something to dispatch only between the brain's answer and its end,
\* and one that was not begun has no thread.
PlanHasPlace ==
    \A t \in Turn :
        /\ plan[t] # {} => at[t] \in {"validate", "dispatch", "apply", "finish"}
        /\ t > newest => at[t] = "none" /\ origin[t] = "none"

\* An output call has a holder of the lock behind it: speech that of a turn.
CallHasHolder ==
    /\ activity = None => doing = "none"
    /\ doing = "say" => activity \in Turn

\* A turn that is wanted, or is being carried out with something left to do, is
\* newer than the last halt.  (One that was asked to stop is in apply_if_current
\* with nothing to do, and as old as its own halt.)
WantedIsUnhalted ==
    /\ halted <= newest
    /\ pending # None /\ activity = None => newest > halted
    /\ \A t \in Turn : activity = t /\ (plan[t] # {} \/ doing = "say") => t > halted

\* From the moment a halt has the lock: nothing waits, what is heard is being
\* stopped, and the body is the halted one's only until it is fenced.
HaltHolds ==
    halted = newest /\ newest > 0 =>
        /\ doing # "say"
        /\ queued = None
        /\ speech # None => stopping
        /\ doing \in {"none", "fenceBody"} => body \notin Turn

TurnInv ==
    /\ PendingIsNewest /\ ApplyHoldsLock /\ PlanHasPlace /\ CallHasHolder
    /\ WantedIsUnhalted /\ HaltHolds

\* What the tick has read stays so while it waits, since it keeps the ingest
\* lock; and the idle clock that runs since a turn began or something loud was
\* heard is reset by whoever is about to note it, who keeps that lock too.
IdleInv ==
    /\ tick # "none" => conn = "idle"
    /\ tick = "quiet" => ~vad.active /\ Jobs = {}
    /\ idleSince \in {"counting", "elapsed"} => quiet \/ conn = "note"
----------------------------------------------------------------------------
(***************************************************************************)
(* Types.  Between two frames the gate has not reached any of its limits.  *)
(***************************************************************************)
Buffers == [active : BOOLEAN, kept : Nat, candidate : Nat, voiced : Nat,
            duration : Nat, silence : Nat]

GateInv(v) ==
    /\ v \in Buffers
    /\ v.kept <= PreRoll /\ v.candidate < StartTrigger
    /\ v.active => v.duration < MaxUtterance /\ v.silence < EndSilence
    /\ ~v.active => v.duration = 0 /\ v.silence = 0
    /\ v.voiced <= v.duration

\* The types of everything but the gate's buffers and the calls' slots.
AudioTypes ==
    /\ heard \in {"none", "speech"}
    /\ conn \in {"idle", "note", "launch", "begin"}
    /\ pipe \in {"open", "closing", "closed"}

TurnTypes ==
    /\ pending \in Turn \cup {None} /\ newest \in 0..MaxTurns
    /\ origin \in [Turn -> {"none", "audio", "api"}] /\ at \in [Turn -> Stages]
    /\ plan \in [Turn -> SUBSET {"say", "motion"}]

CallTypes ==
    /\ call \in [Turn -> {"none", "running", "ended"}]
    /\ orphans \in Nat
    /\ seen \in [Turn -> 0..MaxObservations]

OutputTypes ==
    /\ activity \in Turn \cup {None, Halter}
    /\ doing \in {"none", "say", "fenceVoice", "fenceBody"}
    /\ speech \in Turn \cup {None} /\ queued \in Turn \cup {None}
    /\ body \in Turn \cup {None, Autonomy} /\ stopping \in BOOLEAN

IdleTypes ==
    /\ tick \in {"none", "quiet", "busy"} /\ idleSince \in {"none", "counting", "elapsed", "failed"}
    /\ quiet \in BOOLEAN
    /\ halts \in 0..MaxHalts /\ halted \in 0..MaxTurns

Types == AudioTypes /\ TurnTypes /\ CallTypes /\ OutputTypes /\ IdleTypes

SlotsInv == RunningCalls <= MaxActiveCalls

\* A turn that is about to look, or looking, has a look left.
SeenInv ==
    \A t \in Turn :
        /\ at[t] \in {"none", "stt", "admit", "handle"} => seen[t] = 0
        /\ at[t] \in {"image", "imageWait"} => seen[t] < MaxObservations

\* What a frame makes of the buffers, before they may be cut.
GateNext(v) ==
    /\ v \in Buffers
    /\ v.kept <= PreRoll /\ v.candidate < StartTrigger
    /\ ~v.active => v.duration = 0 /\ v.silence = 0
    /\ v.voiced <= v.duration

\* The lengths that the detector goes by are numbers, its trigger and its silence are
\* not zero, and the longest utterance is long enough to begin one.
LEMMA Limits ==
    /\ StartTrigger \in Nat /\ StartTrigger > 0 /\ EndSilence \in Nat /\ EndSilence > 0
    /\ PreRoll \in Nat /\ MaxUtterance \in Nat /\ MaxUtterance >= StartTrigger
    /\ MinSpeech \in Nat
  BY VadAssumption

\* A frame leaves the gate with no more sound than it may hold, and no more of it
\* voiced than heard.
LEMMA PushedGate ==
    ASSUME NEW v, GateInv(v), NEW loud \in BOOLEAN
    PROVE  /\ v.active => GateNext(PushActive(v, loud))
           /\ ~v.active => GateNext(PushInactive(v, loud))
<1> DEFINE a == PushActive(v, loud)
           p == PushInactive(v, loud)
<1>0. /\ v \in Buffers /\ v.kept \in Nat /\ v.candidate \in Nat /\ v.voiced \in Nat
      /\ v.duration \in Nat /\ v.silence \in Nat /\ v.active \in BOOLEAN
  BY DEF GateInv, Buffers
<1>1. CASE v.active
  <2> DEFINE w == IF loud THEN v.voiced + 1 ELSE v.voiced
             s == IF loud THEN 0 ELSE v.silence + 1
             d == v.duration + 1
  <2>0. w \in Nat /\ s \in Nat /\ d \in Nat /\ d = v.duration + 1 /\ w \in {v.voiced, v.voiced + 1}
    BY <1>0
  <2>3. a = [v EXCEPT !.duration = d, !.voiced = w, !.silence = s]
    BY <1>0 DEF PushActive
  <2> HIDE DEF a, w, s, d
  <2>1. a \in Buffers
    BY <1>0, <2>0, <2>3 DEF Buffers
  <2>2. /\ a.kept = v.kept /\ a.candidate = v.candidate /\ a.duration = d
        /\ a.active = v.active /\ a.voiced = w
    BY <1>0, <2>0, <2>3 DEF Buffers
  <2> QED
    BY <1>0, <1>1, <2>0, <2>1, <2>2, Limits DEF GateInv, GateNext, a
<1>2. CASE ~v.active /\ ~loud
  <2> DEFINE n == Least(v.kept + 1, PreRoll)
  <2>1. p = [v EXCEPT !.candidate = 0, !.kept = n]
    BY <1>2 DEF PushInactive
  <2>2. n \in Nat /\ n <= PreRoll
    BY <1>0, Limits DEF Least
  <2> HIDE DEF n, p
  <2>3. p \in Buffers
    BY <1>0, <2>1, <2>2 DEF Buffers
  <2>4. /\ p.kept <= PreRoll /\ p.candidate = 0 /\ p.duration = v.duration
        /\ p.silence = v.silence /\ p.voiced = v.voiced
    BY <1>0, <2>1, <2>2 DEF Buffers
  <2> QED
    BY <1>0, <1>2, <2>3, <2>4, Limits DEF GateInv, GateNext, p
<1>3. CASE ~v.active /\ loud
  <2>1. CASE v.candidate + 1 < StartTrigger
    <3>1. p = [v EXCEPT !.candidate = @ + 1]
      BY <1>3, <2>1 DEF PushInactive
    <3>2. p \in Buffers
      BY <1>0, <3>1 DEF Buffers
    <3>3. /\ p.kept = v.kept /\ p.candidate = v.candidate + 1 /\ p.duration = v.duration
          /\ p.silence = v.silence /\ p.voiced = v.voiced
      BY <1>0, <3>1 DEF Buffers
    <3> HIDE DEF p
    <3> QED
      BY <1>0, <1>3, <2>1, <3>2, <3>3, Limits DEF GateInv, GateNext, p
  <2>2. CASE ~(v.candidate + 1 < StartTrigger)
    <3>1. p = [active |-> TRUE, kept |-> 0, candidate |-> 0, voiced |-> v.candidate + 1,
               duration |-> v.kept + v.candidate + 1, silence |-> 0]
      BY <1>3, <2>2 DEF PushInactive
    <3> HIDE DEF p
    <3>2. p \in Buffers /\ p.kept = 0 /\ p.candidate = 0 /\ p.active
          /\ p.voiced = v.candidate + 1 /\ p.duration = v.kept + v.candidate + 1
      BY <1>0, <3>1 DEF Buffers
    <3>3. GateNext(p)
      BY <1>0, <3>2, Limits DEF GateNext
    <3> QED
      BY <1>3, <3>3 DEF p
  <2> QED
    BY <2>1, <2>2
<1>4. CASE ~v.active
  BY <1>2, <1>3, <1>4
<1> QED
  BY <1>1, <1>4

\* The gate begins as one.
LEMMA EmptyGate == GateInv(Empty)
  BY Limits DEF GateInv, Buffers, Empty

\* The end of an utterance leaves a gate that has forgotten it.
LEMMA FinishedGate ==
    ASSUME NEW v, GateNext(v), NEW keep \in BOOLEAN
    PROVE  GateInv(Finish(v, keep).vad) /\ Finish(v, keep).utterance \in {"none", "speech"}
<1>0. v.duration \in Nat
  BY DEF GateNext, Buffers
<1>1. GateInv(Empty)
  BY EmptyGate
<1> DEFINE n == Least(v.duration, PreRoll)
           e == [Empty EXCEPT !.kept = n]
<1>2. n \in Nat /\ n <= PreRoll
  BY <1>0, Limits DEF Least
<1>3. GateInv(e)
  <2> HIDE DEF n
  <2>1. Empty \in Buffers
    BY DEF Empty, Buffers
  <2>3. e.active = Empty.active /\ e.candidate = Empty.candidate /\ e.voiced = Empty.voiced
        /\ e.duration = Empty.duration /\ e.silence = Empty.silence
    BY <2>1 DEF Buffers
  <2>4. e.kept = n
    BY <2>1 DEF Buffers
  <2>5. e \in Buffers
    BY <1>0, <1>2, <2>1 DEF Buffers
  <2> HIDE DEF e
  <2>2. /\ e \in Buffers /\ ~e.active /\ e.kept = n /\ e.candidate = 0 /\ e.voiced = 0
        /\ e.duration = 0 /\ e.silence = 0
    BY <1>0, <2>3, <2>4, <2>5 DEF Empty
  <2> QED
    BY <1>2, <2>2, Limits DEF GateInv
<1> QED
  BY <1>0, <1>1, <1>3 DEF Finish

\* The gate keeps within its limits.
LEMMA PushGate ==
    ASSUME NEW v, GateInv(v), NEW loud \in BOOLEAN
    PROVE  GateInv(Push(v, loud).vad) /\ Push(v, loud).utterance \in {"none", "speech"}
<1> DEFINE next == IF v.active THEN PushActive(v, loud) ELSE PushInactive(v, loud)
<1>1. GateNext(next)
  BY PushedGate DEF GateInv, Buffers
<1> HIDE DEF next
<1>2. \A keep \in BOOLEAN :
          GateInv(Finish(next, keep).vad) /\ Finish(next, keep).utterance \in {"none", "speech"}
  BY <1>1, FinishedGate
<1>3. ~(next.active /\ next.silence >= EndSilence) /\ ~(next.active /\ next.duration >= MaxUtterance)
         => GateInv(next)
  BY <1>1, Limits DEF GateNext, GateInv, Buffers
<1> QED
  BY <1>2, <1>3 DEF Push, next

----------------------------------------------------------------------------
(***************************************************************************)
(* The turns: each step of the core keeps TurnInv.                         *)
(***************************************************************************)
turnsOwn == <<pending, newest, origin, at, plan, activity, doing,
              speech, stopping, queued, body, halted>>

\* What only the audio, the calls or the idle clock are changed by keeps it.
LEMMA TurnKept ==
    ASSUME TurnInv, UNCHANGED turnsOwn
    PROVE  TurnInv'
  BY DEF TurnInv, turnsOwn, PendingIsNewest, ApplyHoldsLock, PlanHasPlace, CallHasHolder,
         WantedIsUnhalted, HaltHolds

\* A thread that moves on outside of apply_if_current keeps it, provided what it
\* has to dispatch goes with it.
LEMMA TurnMoves ==
    ASSUME TurnInv, Types, NEW t \in Turn, NEW where \in Stages \ {"none", "apply"},
           at[t] \notin {"none", "apply"}, Goto(t, where),
           plan' \in [Turn -> SUBSET {"say", "motion"}],
           \A u \in Turn \ {t} : plan'[u] = plan[u],
           plan'[t] # {} => where \in {"validate", "dispatch", "finish"},
           UNCHANGED <<pending, newest, origin, activity, doing, speech, stopping, queued, body, halted>>
    PROVE  TurnInv'
<1>1. t <= newest /\ activity # t
  BY DEF TurnInv, PlanHasPlace, ApplyHoldsLock, Types, TurnTypes
<1>2. at' \in [Turn -> Stages] /\ at'[t] = where /\ \A u \in Turn \ {t} : at'[u] = at[u]
  BY DEF Types, TurnTypes, Goto, Stages
<1>3. PendingIsNewest' /\ CallHasHolder' /\ HaltHolds'
  BY DEF TurnInv, PendingIsNewest, CallHasHolder, HaltHolds
<1>4. ApplyHoldsLock'
  BY <1>1, <1>2 DEF TurnInv, ApplyHoldsLock
<1>5. PlanHasPlace'
  BY <1>1, <1>2 DEF TurnInv, PlanHasPlace, Types, TurnTypes
<1>6. WantedIsUnhalted'
  BY <1>1 DEF TurnInv, WantedIsUnhalted
<1> QED
  BY <1>3, <1>4, <1>5, <1>6 DEF TurnInv

\* A turn that begins is the newest, and nothing is dispatched while it does.
LEMMA TurnBegins ==
    ASSUME TurnInv, Types, ActivityFree, newest < MaxTurns, BeginTurn,
           NEW from \in {"audio", "api"}, NEW where \in Stages \ {"none", "apply"},
           origin' = [origin EXCEPT ![newest + 1] = from], Goto(newest + 1, where),
           plan' \in [Turn -> SUBSET {"say", "motion"}],
           \A u \in Turn \ {newest + 1} : plan'[u] = plan[u],
           plan'[newest + 1] # {} => where = "dispatch",
           UNCHANGED <<activity, doing, speech, stopping, queued, body, halted>>
    PROVE  TurnInv'
<1>1. newest \in Nat /\ newest + 1 \in Turn
  BY DEF Types, TurnTypes, IdleTypes
<1>2. at' \in [Turn -> Stages] /\ at'[newest + 1] = where
      /\ \A u \in Turn \ {newest + 1} : at'[u] = at[u] /\ origin'[u] = origin[u]
  BY <1>1 DEF Types, TurnTypes, Goto, Stages
<1>3. PendingIsNewest' /\ CallHasHolder'
  BY <1>1 DEF TurnInv, PendingIsNewest, CallHasHolder, ActivityFree, BeginTurn
<1>4. ApplyHoldsLock'
  BY <1>1, <1>2 DEF TurnInv, ApplyHoldsLock, ActivityFree
<1>5. PlanHasPlace'
  BY <1>1, <1>2 DEF TurnInv, PlanHasPlace, Types, TurnTypes, BeginTurn
<1>6. WantedIsUnhalted' /\ HaltHolds'
  BY <1>1 DEF TurnInv, WantedIsUnhalted, HaltHolds, BeginTurn, ActivityFree, Types, TurnTypes, IdleTypes
<1> QED
  BY <1>3, <1>4, <1>5, <1>6 DEF TurnInv

\* The steps of a job keep it.
LEMMA TurnJobStep ==
    ASSUME TurnInv, Types, NEW t \in Turn, JobStep(t) \/ CallReturns(t)
    PROVE  TurnInv'
<1> USE DEF StayInTurn, audioVars, lockVars, outputVars, idleVars, historyVars, callVars, turnVars
<1>0. /\ plan \in [Turn -> SUBSET {"say", "motion"}] /\ at \in [Turn -> Stages]
      /\ at[t] \notin {"none", "validate", "dispatch", "apply", "finish"} => plan[t] = {}
      /\ newest \in Nat /\ halted \in Nat
  BY DEF Types, TurnTypes, IdleTypes, TurnInv, PlanHasPlace
<1>1. CASE Transcribe(t)
  <2>1. PICK where \in {"admit", "claim"} : Goto(t, where)
    BY <1>1 DEF Transcribe
  <2> QED
    BY <1>0, <1>1, <2>1, TurnMoves DEF Transcribe, Stages, InHandle
<1>2. CASE Admit(t)
  <2>1. PICK where \in {"handle", "finish"} : Goto(t, where)
    BY <1>2 DEF Admit
  <2>2. at[t] = "admit" /\ UNCHANGED plan /\ StayInTurn
    BY <1>2 DEF Admit
  <2> QED
    BY <1>0, <2>1, <2>2, TurnMoves DEF Stages, InHandle
<1>3. CASE Handle(t)
  <2>1. PICK where \in {"finish", "empty", "stop", "image", "model"} : Goto(t, where)
    BY <1>3 DEF Handle, Superseded
  <2> QED
    BY <1>0, <1>3, <2>1, TurnMoves DEF Handle, Stages, InHandle
<1>4. CASE Claim(t)
  <2>1. /\ at' \in [Turn -> Stages] /\ at'[t] = "finish" /\ \A u \in Turn \ {t} : at'[u] = at[u]
        /\ t <= newest /\ activity # t
    BY <1>0, <1>4 DEF Claim, Goto, Stages, TurnInv, PlanHasPlace, ApplyHoldsLock
  <2>2. pending' \in {pending, None} /\ activity \notin Turn
    BY <1>4 DEF Claim, TurnsFree
  <2>3. PendingIsNewest' /\ CallHasHolder' /\ HaltHolds' /\ WantedIsUnhalted'
    BY <1>4, <2>2 DEF Claim, TurnInv, PendingIsNewest, CallHasHolder, HaltHolds, WantedIsUnhalted
  <2>4. ApplyHoldsLock' /\ PlanHasPlace'
    BY <1>0, <1>4, <2>1 DEF Claim, TurnInv, ApplyHoldsLock, PlanHasPlace
  <2> QED
    BY <2>3, <2>4 DEF TurnInv
<1>5. CASE BeginCall(t)
  <2>1. PICK where \in {"finish", "claim", "imageWait", "modelWait"} : Goto(t, where)
    BY <1>5 DEF BeginCall, Superseded
  <2> QED
    BY <1>0, <1>5, <2>1, TurnMoves DEF BeginCall, Stages, InHandle
<1>6. CASE CallAbandoned(t)
  <2>1. PICK where \in {"finish", "claim"} : Goto(t, where)
    BY <1>6 DEF CallAbandoned
  <2> QED
    BY <1>0, <1>6, <2>1, TurnMoves DEF CallAbandoned, Waiting, Stages, InHandle
<1>7. CASE ImageAnswered(t)
  <2>1. PICK where \in {"model", "claim"} : Goto(t, where)
    BY <1>7 DEF ImageAnswered
  <2> QED
    BY <1>0, <1>7, <2>1, TurnMoves DEF ImageAnswered, Answered, Stages, InHandle
<1>8. CASE ModelAnswered(t)
  <2>0. at[t] = "modelWait" /\ StayInTurn
    BY <1>8 DEF ModelAnswered, Answered
  <2>1. CASE \E where \in {"claim", "image"} : Goto(t, where) /\ UNCHANGED plan
    <3>1. PICK where \in {"claim", "image"} : Goto(t, where) /\ UNCHANGED plan
      BY <2>1
    <3> QED
      BY <1>0, <2>0, <3>1, TurnMoves DEF Stages, InHandle
  <2>2. CASE \E actions \in SUBSET {"say", "motion"} :
               Goto(t, "validate") /\ plan' = [plan EXCEPT ![t] = actions]
    BY <1>0, <2>0, <2>2, TurnMoves DEF Stages, InHandle
  <2> QED
    BY <1>8, <2>1, <2>2 DEF ModelAnswered
<1>9. CASE Validate(t)
  <2>1. PICK where \in {"finish", "claim", "dispatch"} :
            Goto(t, where) /\ (where = "claim" => plan[t] = {})
    BY <1>9 DEF Validate, Superseded
  <2> QED
    BY <1>0, <1>9, <2>1, TurnMoves DEF Validate, Stages, InHandle
<1>10. CASE EnterApply(t)
  <2>1. CASE ~StillCurrent(t)
    BY <1>0, <1>10, <2>1, TurnMoves DEF EnterApply, Superseded, Stages, InHandle
  <2>2. CASE StillCurrent(t)
    <3>0. /\ at' \in [Turn -> Stages] /\ at'[t] = "apply" /\ \A u \in Turn \ {t} : at'[u] = at[u]
          /\ at[t] \in {"dispatch", "stop"} /\ activity = None /\ activity' = t
          /\ pending = t /\ newest = t /\ t \in Nat /\ pending' = t /\ newest' = t
          /\ plan' = plan /\ origin' = origin /\ body' = body /\ doing = "none"
      BY <1>0, <1>10, <2>2
      DEF EnterApply, StillCurrent, ActivityFree, Goto, Stages, InHandle, FenceVoice, TurnInv,
          PendingIsNewest, CallHasHolder
    <3>1. PendingIsNewest' /\ PlanHasPlace'
      BY <1>0, <3>0 DEF TurnInv, PendingIsNewest, PlanHasPlace
    <3>2. ApplyHoldsLock'
      BY <1>0, <3>0 DEF TurnInv, ApplyHoldsLock
    <3>3. CASE at[t] = "stop"
      <4>1. doing' = "fenceVoice" /\ queued' = None /\ (speech # None => stopping')
            /\ halted' = newest /\ speech' = speech
        BY <1>10, <2>2, <3>3 DEF EnterApply, FenceVoice
      <4>2. plan[t] = {}
        BY <1>0, <3>3
      <4> QED
        BY <1>0, <3>0, <3>1, <3>2, <4>1, <4>2 DEF TurnInv, CallHasHolder, WantedIsUnhalted, HaltHolds
    <3>4. CASE at[t] # "stop"
      <4>1. UNCHANGED <<doing, stopping, queued, halted, speech>>
        BY <1>10, <2>2, <3>4 DEF EnterApply
      <4> QED
        BY <1>0, <3>0, <3>1, <3>2, <4>1 DEF TurnInv, CallHasHolder, WantedIsUnhalted, HaltHolds
    <3> QED
      BY <3>3, <3>4
  <2> QED
    BY <2>1, <2>2
<1>11. CASE ApplySay(t) \/ ApplyMotion(t)
  <2>0. /\ activity = t /\ activity' = t /\ pending = t /\ newest = t /\ t > halted /\ at[t] = "apply"
        /\ UNCHANGED <<pending, newest, origin, at, halted>>
    BY <1>0, <1>11 DEF ApplySay, ApplyMotion, TurnInv, PendingIsNewest, WantedIsUnhalted, ApplyHoldsLock
  <2>1. plan' \in [Turn -> SUBSET {"say", "motion"}] /\ \A u \in Turn \ {t} : plan'[u] = plan[u]
    BY <1>0, <1>11 DEF ApplySay, ApplyMotion
  <2>2. PendingIsNewest' /\ ApplyHoldsLock' /\ PlanHasPlace'
    BY <1>0, <2>0, <2>1 DEF TurnInv, PendingIsNewest, ApplyHoldsLock, PlanHasPlace
  <2>3. CallHasHolder'
    BY <2>0 DEF CallHasHolder
  <2>4. WantedIsUnhalted' /\ HaltHolds'
    BY <1>0, <2>0 DEF TurnInv, WantedIsUnhalted, HaltHolds
  <2> QED
    BY <2>2, <2>3, <2>4 DEF TurnInv
<1>12. CASE LeaveApply(t)
  <2>1. /\ activity = t /\ at[t] = "apply" /\ at' \in [Turn -> Stages] /\ at'[t] = "finish"
        /\ \A u \in Turn \ {t} : at'[u] = at[u] /\ at[u] # "apply"
        /\ activity' = None /\ pending' = None /\ doing = "none" /\ t <= newest
        /\ UNCHANGED <<newest, origin, plan, doing, speech, stopping, queued, body, halted>>
    BY <1>0, <1>12 DEF LeaveApply, Goto, Stages, TurnInv, ApplyHoldsLock, PlanHasPlace
  <2>2. PendingIsNewest' /\ CallHasHolder' /\ WantedIsUnhalted' /\ HaltHolds'
    BY <2>1 DEF TurnInv, PendingIsNewest, CallHasHolder, WantedIsUnhalted, HaltHolds
  <2>3. ApplyHoldsLock' /\ PlanHasPlace'
    BY <1>0, <2>1 DEF TurnInv, ApplyHoldsLock, PlanHasPlace
  <2> QED
    BY <2>2, <2>3 DEF TurnInv
<1>13. CASE FinishJob(t)
  BY <1>0, <1>13, TurnMoves DEF FinishJob, Stages, InHandle
<1>14. CASE CallReturns(t)
  BY <1>14, TurnKept DEF CallReturns, turnsOwn
<1> QED
  BY <1>1, <1>2, <1>3, <1>4, <1>5, <1>6, <1>7, <1>8, <1>9, <1>10, <1>11, <1>12, <1>13, <1>14
  DEF JobStep

\* Every other step keeps it too.
LEMMA TurnStep ==
    ASSUME TurnInv, Types, [Next]_vars
    PROVE  TurnInv'
<1> USE DEF audioVars, turnVars, lockVars, outputVars, idleVars, historyVars, callVars
<1>0. /\ plan \in [Turn -> SUBSET {"say", "motion"}] /\ at \in [Turn -> Stages]
      /\ newest \in Nat /\ halted \in Nat
  BY DEF Types, TurnTypes, IdleTypes
<1>1. CASE ConnStep
  <2>1. CASE Launch
    <3>1. newest + 1 \in Turn /\ plan[newest + 1] = {}
      BY <1>0, <2>1 DEF Launch, BeginUtterance, TurnInv, PlanHasPlace
    <3> QED
      BY <1>0, <2>1, <3>1, TurnBegins DEF Launch, BeginUtterance, Stages
  <2>2. CASE (\E loud, break \in BOOLEAN : AcceptAudio(loud, break))
             \/ NoteInputActivity \/ LaunchTakesCondition
    BY <2>2, TurnKept DEF AcceptAudio, NoteInputActivity, LaunchTakesCondition, turnsOwn
  <2> QED
    BY <1>1, <2>1, <2>2 DEF ConnStep
<1>2. CASE Close \/ CloseReturns \/ OrphanReturns \/ TickReads \/ IntervalElapses
  BY <1>2, TurnKept DEF Close, CloseReturns, OrphanReturns, StayInTurn, TickReads, IntervalElapses, turnsOwn
<1>3. CASE \E t \in Turn : JobStep(t) \/ CallReturns(t)
  BY <1>3, TurnJobStep
<1>4. CASE ApplyPayload
  <2>1. PICK actions \in SUBSET {"say", "motion"} :
          /\ BeginUtterance("api", IF actions = {} THEN "claim" ELSE "dispatch")
          /\ plan' = [plan EXCEPT ![newest + 1] = actions]
    BY <1>4 DEF ApplyPayload
  <2> DEFINE where == IF actions = {} THEN "claim" ELSE "dispatch"
  <2>2. newest + 1 \in Turn
    BY <1>0, <2>1 DEF BeginUtterance
  <2>3. where \in {"claim", "dispatch"} /\ (actions # {} => where = "dispatch")
    OBVIOUS
  <2>4. BeginUtterance("api", where)
    BY <2>1
  <2> HIDE DEF where
  <2> QED
    BY <1>0, <1>4, <2>1, <2>2, <2>3, <2>4, TurnBegins
    DEF ApplyPayload, BeginUtterance, Stages, InHandle
<1>5. CASE HaltAll
  <2>1. /\ activity = None /\ activity' = Halter /\ pending' = None /\ doing' = "fenceVoice"
        /\ queued' = None /\ (speech # None => stopping') /\ halted' = newest
        /\ UNCHANGED <<newest, origin, at, plan, speech, body>> /\ newest \in Nat
    BY <1>0, <1>5 DEF HaltAll, ActivityFree, InvalidatePending, FenceVoice
  <2>2. PendingIsNewest' /\ CallHasHolder' /\ WantedIsUnhalted' /\ HaltHolds'
    BY <2>1 DEF TurnInv, PendingIsNewest, CallHasHolder, WantedIsUnhalted, HaltHolds
  <2>3. ApplyHoldsLock' /\ PlanHasPlace'
    BY <2>1 DEF TurnInv, ApplyHoldsLock, PlanHasPlace
  <2> QED
    BY <2>2, <2>3 DEF TurnInv
<1>6. CASE SayReturns
  <2>1. /\ activity \in Turn /\ activity = newest /\ activity > halted /\ doing' = "none"
        /\ UNCHANGED <<pending, newest, origin, at, plan, activity, stopping, queued, body, halted>>
    BY <1>6 DEF SayReturns, TurnInv, CallHasHolder, PendingIsNewest, WantedIsUnhalted
  <2>2. PendingIsNewest' /\ CallHasHolder'
    BY <2>1 DEF TurnInv, PendingIsNewest, CallHasHolder
  <2>4. WantedIsUnhalted' /\ HaltHolds'
    BY <1>0, <2>1 DEF TurnInv, WantedIsUnhalted, HaltHolds
  <2>3. ApplyHoldsLock' /\ PlanHasPlace'
    BY <2>1 DEF TurnInv, ApplyHoldsLock, PlanHasPlace
  <2> QED
    BY <2>2, <2>3, <2>4 DEF TurnInv
<1>7. CASE VoiceFenced \/ BodyEnds
  BY <1>7 DEF VoiceFenced, BodyEnds, TurnInv, PendingIsNewest, CallHasHolder, WantedIsUnhalted,
              HaltHolds, ApplyHoldsLock, PlanHasPlace
<1>8. CASE BodyFenced
  <2>1. activity # None
    BY <1>8 DEF BodyFenced, TurnInv, CallHasHolder
  <2>2. PendingIsNewest' /\ CallHasHolder' /\ WantedIsUnhalted' /\ HaltHolds'
    BY <1>8, <2>1 DEF BodyFenced, TurnInv, PendingIsNewest, CallHasHolder, WantedIsUnhalted, HaltHolds
  <2>3. ApplyHoldsLock' /\ PlanHasPlace'
    BY <1>8 DEF BodyFenced, TurnInv, ApplyHoldsLock, PlanHasPlace
  <2> QED
    BY <2>2, <2>3 DEF TurnInv
<1>9. CASE SpeechEnds
  BY <1>9 DEF SpeechEnds, TurnInv, PendingIsNewest, CallHasHolder, WantedIsUnhalted,
              HaltHolds, ApplyHoldsLock, PlanHasPlace
<1>10. CASE TickActs
  <2>1. /\ body' \in {body, Autonomy, None}
        /\ UNCHANGED <<pending, newest, origin, at, plan, activity, doing, speech, stopping, queued, halted>>
    BY <1>10 DEF TickActs
  <2> QED
    BY <2>1 DEF TurnInv, PendingIsNewest, CallHasHolder, WantedIsUnhalted, HaltHolds,
                ApplyHoldsLock, PlanHasPlace
<1>11. CASE UNCHANGED vars
  BY <1>11, TurnKept DEF vars, turnsOwn
<1> QED
  BY <1>1, <1>2, <1>3, <1>4, <1>5, <1>6, <1>7, <1>8, <1>9, <1>10, <1>11 DEF Next, Answers

----------------------------------------------------------------------------
(***************************************************************************)
(* The types, the slots of the calls and the looks of a turn.              *)
(***************************************************************************)
Running(calls) == {t \in Turn : calls[t] = "running"}

\* The calls that hold a slot are finitely many, one more or one fewer after a
\* call began, returned or was given up.
LEMMA CallsCounted ==
    ASSUME NEW calls \in [Turn -> {"none", "running", "ended"}], NEW t \in Turn
    PROVE  /\ Cardinality(Running(calls)) \in Nat
           /\ Cardinality(Running([calls EXCEPT ![t] = "running"])) <= Cardinality(Running(calls)) + 1
           /\ \A w \in {"none", "ended"} :
                Cardinality(Running([calls EXCEPT ![t] = w]))
                  = Cardinality(Running(calls)) - (IF calls[t] = "running" THEN 1 ELSE 0)
<1>1. IsFiniteSet(Turn)
  BY FS_Interval
<1>2. IsFiniteSet(Running(calls))
  BY <1>1, FS_Subset DEF Running
<1>3. Cardinality(Running(calls)) \in Nat
  BY <1>2, FS_CardinalityType
<1>4. Running([calls EXCEPT ![t] = "running"]) = Running(calls) \cup {t}
  BY DEF Running
<1>5. ASSUME NEW w \in {"none", "ended"}
      PROVE  Running([calls EXCEPT ![t] = w]) = Running(calls) \ {t}
  BY DEF Running
<1>6. t \in Running(calls) <=> calls[t] = "running"
  BY DEF Running
<1>7. Cardinality(Running(calls) \cup {t}) <= Cardinality(Running(calls)) + 1
  <2> DEFINE c == Cardinality(Running(calls))
             d == Cardinality(Running(calls) \cup {t})
  <2>1. d = IF t \in Running(calls) THEN c ELSE c + 1
    BY <1>2, FS_AddElement
  <2>2. c \in Nat
    BY <1>3
  <2> HIDE DEF c, d
  <2>3. d <= c + 1
    BY <2>1, <2>2
  <2> QED
    BY <2>3 DEF c, d
<1>8. Cardinality(Running(calls) \ {t}) = Cardinality(Running(calls)) - (IF calls[t] = "running" THEN 1 ELSE 0)
  BY <1>2, <1>3, <1>6, FS_RemoveElement
<1> QED
  BY <1>3, <1>4, <1>5, <1>7, <1>8

\* The calls that count against the limit are those of the threads and those
\* without one.
LEMMA RunningCallsIs == RunningCalls = Cardinality(Running(call)) + orphans
  BY DEF RunningCalls, Running

TypeInv == Types /\ GateInv(vad) /\ SlotsInv /\ SeenInv

\* Where a thread may go, and what it may leave to dispatch.
LEMMA JobTypesStep ==
    ASSUME TurnTypes, NEW t \in Turn, JobStep(t)
    PROVE  TurnTypes'
<1> USE DEF StayInTurn, audioVars
<1>1. CASE \/ Transcribe(t) \/ Admit(t) \/ Handle(t) \/ BeginCall(t) \/ CallAbandoned(t)
           \/ ImageAnswered(t) \/ Validate(t) \/ EnterApply(t)
  <2>1. UNCHANGED <<pending, newest, origin, plan>>
    BY <1>1 DEF Transcribe, Admit, Handle, BeginCall, CallAbandoned, ImageAnswered, Validate, EnterApply
  <2>2. \E where \in Stages : Goto(t, where)
    <3>1. CASE Transcribe(t)
      BY <3>1 DEF Transcribe, Stages, InHandle
    <3>2. CASE Admit(t)
      BY <3>2 DEF Admit, Stages, InHandle
    <3>3. CASE Handle(t)
      BY <3>3 DEF Handle, Superseded, Stages, InHandle
    <3>4. CASE BeginCall(t)
      BY <3>4 DEF BeginCall, Superseded, Stages, InHandle
    <3>5. CASE CallAbandoned(t)
      BY <3>5 DEF CallAbandoned, Stages, InHandle
    <3>6. CASE ImageAnswered(t)
      BY <3>6 DEF ImageAnswered, Stages, InHandle
    <3>7. CASE Validate(t)
      BY <3>7 DEF Validate, Superseded, Stages, InHandle
    <3>8. CASE EnterApply(t)
      BY <3>8 DEF EnterApply, Superseded, Stages, InHandle
    <3> QED
      BY <1>1, <3>1, <3>2, <3>3, <3>4, <3>5, <3>6, <3>7, <3>8
  <2>3. at' \in [Turn -> Stages]
    BY <2>2 DEF TurnTypes, Goto
  <2> QED
    BY <2>1, <2>3 DEF TurnTypes
<1>2. CASE Claim(t) \/ LeaveApply(t)
  <2>1. /\ UNCHANGED <<newest, origin, plan>> /\ pending' \in {pending, None}
        /\ at' = [at EXCEPT ![t] = "finish"]
    BY <1>2 DEF Claim, LeaveApply, Goto
  <2>2. at' \in [Turn -> Stages]
    BY <2>1 DEF TurnTypes, Stages
  <2> QED
    BY <2>1, <2>2 DEF TurnTypes
<1>3. CASE ModelAnswered(t) \/ FinishJob(t)
  <2>1. UNCHANGED <<pending, newest, origin>>
    BY <1>3 DEF ModelAnswered, FinishJob
  <2>2. \E where \in Stages : Goto(t, where)
    <3>1. CASE ModelAnswered(t)
      BY <3>1 DEF ModelAnswered, Stages, InHandle
    <3>2. CASE FinishJob(t)
      BY <3>2 DEF FinishJob, Stages, InHandle
    <3> QED
      BY <1>3, <3>1, <3>2
  <2>3. at' \in [Turn -> Stages]
    BY <2>2 DEF TurnTypes, Goto
  <2>4. plan' = plan \/ \E actions \in SUBSET {"say", "motion"} : plan' = [plan EXCEPT ![t] = actions]
    BY <1>3 DEF ModelAnswered, FinishJob
  <2>5. plan' \in [Turn -> SUBSET {"say", "motion"}]
    BY <2>4 DEF TurnTypes
  <2> QED
    BY <2>1, <2>3, <2>5 DEF TurnTypes
<1>4. CASE ApplySay(t) \/ ApplyMotion(t)
  <2>1. UNCHANGED <<pending, newest, origin, at>>
    BY <1>4 DEF ApplySay, ApplyMotion
  <2>2. \E actions \in SUBSET {"say", "motion"} : plan' = [plan EXCEPT ![t] = actions]
    BY <1>4 DEF ApplySay, ApplyMotion, TurnTypes
  <2>3. plan' \in [Turn -> SUBSET {"say", "motion"}]
    BY <2>2 DEF TurnTypes
  <2> QED
    BY <2>1, <2>3 DEF TurnTypes
<1> QED
  BY <1>1, <1>2, <1>3, <1>4 DEF JobStep

\* What a thread does to the calls, and to the outputs.
LEMMA JobCallsStep ==
    ASSUME CallTypes, SeenInv, NEW t \in Turn, JobStep(t) \/ CallReturns(t)
    PROVE  CallTypes'
<1> USE DEF StayInTurn, callVars
<1>1. CASE ImageAnswered(t)
  <2>1. seen[t] < MaxObservations /\ seen[t] \in Nat
    BY <1>1 DEF ImageAnswered, Answered, SeenInv, CallTypes
  <2>2. seen' = [seen EXCEPT ![t] = seen[t] + 1] \/ seen' = seen
    BY <1>1 DEF ImageAnswered
  <2>3. seen' \in [Turn -> 0..MaxObservations]
    BY <2>1, <2>2 DEF CallTypes
  <2>4. call' = [call EXCEPT ![t] = "none"] /\ orphans' = orphans
    BY <1>1 DEF ImageAnswered, Answered
  <2> QED
    BY <2>3, <2>4 DEF CallTypes
<1>2. CASE FinishJob(t)
  <2>1. seen' = [seen EXCEPT ![t] = 0] /\ call' = call /\ orphans' = orphans
    BY <1>2 DEF FinishJob
  <2>2. seen' \in [Turn -> 0..MaxObservations]
    BY <2>1 DEF CallTypes
  <2> QED
    BY <2>1, <2>2 DEF CallTypes
<1>3. CASE BeginCall(t) \/ CallAbandoned(t) \/ ModelAnswered(t) \/ CallReturns(t)
  <2>1. /\ call' = call \/ \E w \in {"none", "running", "ended"} : call' = [call EXCEPT ![t] = w]
        /\ orphans' \in {orphans, orphans + 1} /\ seen' = seen
    BY <1>3 DEF BeginCall, CallAbandoned, ModelAnswered, Answered, CallReturns
  <2>2. call' \in [Turn -> {"none", "running", "ended"}]
    BY <2>1 DEF CallTypes
  <2> QED
    BY <2>1, <2>2 DEF CallTypes
<1>4. CASE \/ Transcribe(t) \/ Admit(t) \/ Handle(t) \/ Claim(t) \/ Validate(t)
           \/ EnterApply(t) \/ ApplySay(t) \/ ApplyMotion(t) \/ LeaveApply(t)
  BY <1>4 DEF CallTypes, Transcribe, Admit, Handle, Claim, Validate, EnterApply, ApplySay,
              ApplyMotion, LeaveApply
<1> QED
  BY <1>1, <1>2, <1>3, <1>4 DEF JobStep

\* A step of a job keeps what the outputs may be doing.
LEMMA JobOutputsStep ==
    ASSUME OutputTypes, NEW t \in Turn, JobStep(t)
    PROVE  OutputTypes'
<1> USE DEF StayInTurn, lockVars, outputVars
<1>1. CASE EnterApply(t)
  <2>1. activity' \in {activity, t} /\ speech' = speech /\ body' = body /\ queued' \in {queued, None}
    BY <1>1 DEF EnterApply, FenceVoice
  <2>2. doing' \in {doing, "fenceVoice"} /\ stopping' \in BOOLEAN
    BY <1>1 DEF EnterApply, FenceVoice, OutputTypes
  <2> QED
    BY <2>1, <2>2 DEF OutputTypes
<1>2. CASE ApplySay(t)
  BY <1>2 DEF ApplySay, OutputTypes
<1>3. CASE ApplyMotion(t)
  BY <1>3 DEF ApplyMotion, OutputTypes
<1>4. CASE LeaveApply(t)
  BY <1>4 DEF LeaveApply, OutputTypes
<1>5. CASE \/ Transcribe(t) \/ Admit(t) \/ Handle(t) \/ Claim(t) \/ BeginCall(t) \/ CallAbandoned(t)
           \/ ImageAnswered(t) \/ ModelAnswered(t) \/ Validate(t) \/ FinishJob(t)
  BY <1>5 DEF OutputTypes, Transcribe, Admit, Handle, Claim, BeginCall, CallAbandoned,
              ImageAnswered, ModelAnswered, Validate, FinishJob
<1> QED
  BY <1>1, <1>2, <1>3, <1>4, <1>5 DEF JobStep

\* Every step keeps the types.
LEMMA TypesStep ==
    ASSUME Types, GateInv(vad), SeenInv, CallHasHolder, [Next]_vars
    PROVE  Types'
<1> USE DEF audioVars, lockVars, outputVars, idleVars, historyVars, callVars, turnVars
<1>1. CASE \E loud, break \in BOOLEAN : AcceptAudio(loud, break)
  <2>1. PICK loud \in BOOLEAN, break \in BOOLEAN : AcceptAudio(loud, break)
    BY <1>1
  <2>2. GateInv(IF break THEN Empty ELSE vad)
    BY EmptyGate
  <2>3. heard' \in {"none", "speech"}
    BY <2>1, <2>2, PushGate DEF AcceptAudio, PushFrame
  <2>4. conn' \in {"idle", "note", "launch", "begin"} /\ quiet' \in BOOLEAN
    BY <2>1 DEF AcceptAudio, Types, IdleTypes
  <2> QED
    BY <2>1, <2>3, <2>4 DEF AcceptAudio, Types, AudioTypes, TurnTypes, CallTypes, OutputTypes, IdleTypes
<1>2. CASE NoteInputActivity \/ LaunchTakesCondition \/ Close \/ CloseReturns
  <2>1. CASE NoteInputActivity
    BY <2>1 DEF Types, AudioTypes, TurnTypes, CallTypes, OutputTypes, IdleTypes, NoteInputActivity, Stopped
  <2>2. CASE LaunchTakesCondition
    BY <2>2 DEF Types, AudioTypes, TurnTypes, CallTypes, OutputTypes, IdleTypes, LaunchTakesCondition, Stopped
  <2>3. CASE Close
    BY <2>3 DEF Types, AudioTypes, TurnTypes, CallTypes, OutputTypes, IdleTypes, Close, Stopped
  <2>4. CASE CloseReturns
    BY <2>4 DEF Types, AudioTypes, TurnTypes, CallTypes, OutputTypes, IdleTypes, CloseReturns, Stopped
  <2> QED
    BY <1>2, <2>1, <2>2, <2>3, <2>4
<1>3. CASE Launch \/ ApplyPayload
  <2>0. PICK from \in {"audio", "api"}, where \in Stages : BeginUtterance(from, where)
    BY <1>3 DEF Launch, ApplyPayload, Stages, InHandle
  <2>1. newest + 1 \in Turn /\ newest + 1 \in 0..MaxTurns
    BY <2>0 DEF BeginUtterance, Types, TurnTypes
  <2>2. origin' \in [Turn -> {"none", "audio", "api"}] /\ at' \in [Turn -> Stages]
        /\ pending' = newest + 1 /\ newest' = newest + 1
    BY <2>0, <2>1 DEF BeginUtterance, BeginTurn, Goto, Types, TurnTypes
  <2>3. plan' = plan \/ \E actions \in SUBSET {"say", "motion"} : plan' = [plan EXCEPT ![newest + 1] = actions]
    BY <1>3 DEF Launch, ApplyPayload
  <2>4. plan' \in [Turn -> SUBSET {"say", "motion"}]
    BY <2>1, <2>3 DEF Types, TurnTypes
  <2>5. TurnTypes'
    BY <2>1, <2>2, <2>4 DEF TurnTypes
  <2>6. AudioTypes'
    BY <1>3 DEF Launch, ApplyPayload, Types, AudioTypes
  <2>7. IdleTypes'
    BY <1>3, <2>0 DEF Launch, ApplyPayload, BeginUtterance, Types, IdleTypes, Stopped
  <2>8. CallTypes' /\ OutputTypes'
    BY <1>3 DEF Launch, ApplyPayload, Types, CallTypes, OutputTypes
  <2> QED
    BY <2>5, <2>6, <2>7, <2>8 DEF Types
<1>4. CASE \E t \in Turn : JobStep(t) \/ CallReturns(t)
  <2>1. PICK t \in Turn : JobStep(t) \/ CallReturns(t)
    BY <1>4
  <2>2. CallTypes'
    BY <2>1, JobCallsStep DEF Types
  <2>3. CASE CallReturns(t)
    BY <2>2, <2>3 DEF CallReturns, StayInTurn, Types, AudioTypes, TurnTypes, OutputTypes, IdleTypes
  <2>4. CASE JobStep(t)
    <3>1. TurnTypes' /\ OutputTypes'
      BY <2>4, JobTypesStep, JobOutputsStep DEF Types
    <3>2. UNCHANGED <<heard, conn, pipe, tick, idleSince, quiet, halts>>
          /\ (halted' = halted \/ halted' = newest)
      BY <2>4 DEF JobStep, StayInTurn, Transcribe, Admit, Handle, Claim, BeginCall, CallAbandoned,
                  ImageAnswered, ModelAnswered, Validate, EnterApply, FenceVoice, ApplySay,
                  ApplyMotion, LeaveApply, FinishJob
    <3>3. AudioTypes' /\ IdleTypes'
      BY <3>2 DEF Types, AudioTypes, TurnTypes, IdleTypes
    <3> QED
      BY <2>2, <3>1, <3>3 DEF Types
  <2> QED
    BY <2>1, <2>3, <2>4
<1>5. CASE OrphanReturns
  <2>1. orphans' \in Nat
    BY <1>5 DEF OrphanReturns, Types, CallTypes
  <2> QED
    BY <1>5, <2>1 DEF Types, AudioTypes, TurnTypes, CallTypes, OutputTypes, IdleTypes, OrphanReturns, StayInTurn
<1>6. CASE HaltAll
  <2>1. halts' \in 0..MaxHalts /\ stopping' \in BOOLEAN
    BY <1>6 DEF HaltAll, FenceVoice, Types, IdleTypes
  <2> QED
    BY <1>6, <2>1 DEF Types, AudioTypes, TurnTypes, CallTypes, OutputTypes, IdleTypes, HaltAll,
                      InvalidatePending, FenceVoice
<1>7. CASE SayReturns
  <2>1. speech' \in Turn \cup {None}
    BY <1>7 DEF SayReturns, CallHasHolder, Types, OutputTypes
  <2> QED
    BY <1>7, <2>1 DEF Types, AudioTypes, TurnTypes, CallTypes, OutputTypes, IdleTypes, SayReturns
<1>8. CASE VoiceFenced \/ BodyFenced
  <2>1. CASE VoiceFenced
    BY <2>1 DEF Types, AudioTypes, TurnTypes, CallTypes, OutputTypes, IdleTypes, VoiceFenced
  <2>2. CASE BodyFenced
    BY <2>2 DEF Types, AudioTypes, TurnTypes, CallTypes, OutputTypes, IdleTypes, BodyFenced
  <2> QED
    BY <1>8, <2>1, <2>2
<1>9. CASE SpeechEnds \/ BodyEnds
  <2>1. CASE SpeechEnds
    <3>1. speech' \in Turn \cup {None} /\ queued' = None /\ stopping' = FALSE
      BY <2>1 DEF SpeechEnds, Types, OutputTypes
    <3>2. UNCHANGED <<audioVars, turnVars, callVars, activity, doing, body, idleVars, historyVars>>
      BY <2>1 DEF SpeechEnds
    <3>3. OutputTypes'
      BY <3>1, <3>2 DEF Types, OutputTypes
    <3> QED
      BY <3>2, <3>3 DEF Types, AudioTypes, TurnTypes, CallTypes, IdleTypes
  <2>2. CASE BodyEnds
    BY <2>2 DEF Types, AudioTypes, TurnTypes, CallTypes, OutputTypes, IdleTypes, BodyEnds
  <2> QED
    BY <1>9, <2>1, <2>2
<1>10. CASE TickReads \/ IntervalElapses
  <2>1. CASE TickReads
    BY <2>1 DEF Types, AudioTypes, TurnTypes, CallTypes, OutputTypes, IdleTypes, TickReads
  <2>2. CASE IntervalElapses
    BY <2>2 DEF Types, AudioTypes, TurnTypes, CallTypes, OutputTypes, IdleTypes, IntervalElapses
  <2> QED
    BY <1>10, <2>1, <2>2
<1>11. CASE TickActs
  <2>1. /\ tick' \in {"none", "quiet", "busy"} /\ idleSince' \in {"none", "counting", "elapsed", "failed"}
        /\ quiet' \in BOOLEAN /\ body' \in {body, None, Autonomy}
    BY <1>11 DEF TickActs, Stopped, Types, IdleTypes
  <2> QED
    BY <1>11, <2>1 DEF Types, AudioTypes, TurnTypes, CallTypes, OutputTypes, IdleTypes, TickActs
<1>12. CASE UNCHANGED vars
  BY <1>12 DEF Types, AudioTypes, TurnTypes, CallTypes, OutputTypes, IdleTypes, vars
<1> QED
  BY <1>1, <1>2, <1>3, <1>4, <1>5, <1>6, <1>7, <1>8, <1>9, <1>10, <1>11, <1>12
  DEF Next, ConnStep, Answers

\* Only accept_audio touches the gate, and it keeps the gate's invariant.
LEMMA GateStep ==
    ASSUME GateInv(vad), [Next]_vars
    PROVE  GateInv(vad)'
<1> USE DEF audioVars
<1>1. CASE \E loud, break \in BOOLEAN : AcceptAudio(loud, break)
  <2>1. PICK loud \in BOOLEAN, break \in BOOLEAN : AcceptAudio(loud, break)
    BY <1>1
  <2>2. GateInv(IF break THEN Empty ELSE vad)
    BY EmptyGate
  <2>3. GateInv(PushFrame(loud, break).vad)
    BY <2>2, PushGate DEF PushFrame
  <2>4. vad' = PushFrame(loud, break).vad
    BY <2>1 DEF AcceptAudio
  <2> QED
    BY <2>3, <2>4
<1>2. CASE \E t \in Turn : JobStep(t) \/ CallReturns(t)
  <2>1. PICK t \in Turn : JobStep(t) \/ CallReturns(t)
    BY <1>2
  <2>2. vad' = vad
    BY <2>1 DEF JobStep, StayInTurn, Transcribe, Admit, Handle, Claim, BeginCall, CallAbandoned,
                ImageAnswered, ModelAnswered, Validate, EnterApply, ApplySay, ApplyMotion,
                LeaveApply, FinishJob, CallReturns
  <2> QED
    BY <2>2
<1>3. CASE UNCHANGED vad
  BY <1>3
<1>4. \/ \E loud, break \in BOOLEAN : AcceptAudio(loud, break)
      \/ \E t \in Turn : JobStep(t) \/ CallReturns(t)
      \/ UNCHANGED vad
  BY DEF Next, ConnStep, Answers, NoteInputActivity, LaunchTakesCondition, Launch, Close, CloseReturns,
         OrphanReturns, StayInTurn, ApplyPayload, HaltAll, SayReturns, VoiceFenced, BodyFenced,
         SpeechEnds, BodyEnds, TickReads, TickActs, IntervalElapses, vars
<1> QED
  BY <1>1, <1>2, <1>3, <1>4

\* A call takes a slot only when one is free, and passes it to the orphan it becomes.
LEMMA SlotsStep ==
    ASSUME CallTypes, SlotsInv, [Next]_vars
    PROVE  SlotsInv'
<1> USE DEF callVars, StayInTurn
<1> DEFINE busy == Cardinality(Running(call))
<1>0. /\ busy + orphans <= MaxActiveCalls /\ busy \in Nat /\ orphans \in Nat
      /\ call \in [Turn -> {"none", "running", "ended"}]
  <2>1. CASE Turn = {}
    <3>1. Running(call) = {}
      BY <2>1 DEF Running
    <3> QED
      BY <3>1, FS_EmptySet, RunningCallsIs DEF SlotsInv, CallTypes
  <2>2. CASE Turn # {}
    BY <2>2, CallsCounted, RunningCallsIs DEF SlotsInv, CallTypes
  <2> QED
    BY <2>1, <2>2
<1>1. SUFFICES busy' + orphans' <= MaxActiveCalls
  BY DEF SlotsInv, RunningCalls, Running
<1>2. CASE \E t \in Turn : BeginCall(t)
  <2>1. PICK t \in Turn : BeginCall(t)
    BY <1>2
  <2>2. orphans' = orphans /\ (call' = call \/ (SlotFree /\ call' = [call EXCEPT ![t] = "running"]))
    BY <2>1 DEF BeginCall
  <2>3. CASE call' = call
    BY <1>0, <2>2, <2>3
  <2>4. CASE SlotFree /\ call' = [call EXCEPT ![t] = "running"]
    <3>1. busy + orphans < MaxActiveCalls
      BY <2>4, RunningCallsIs DEF SlotFree
    <3>2. busy' <= busy + 1 /\ busy' \in Nat
      <4>1. call' \in [Turn -> {"none", "running", "ended"}]
        BY <1>0, <2>4
      <4> QED
        BY <1>0, <2>4, <4>1, CallsCounted
    <3> HIDE DEF busy
    <3> QED
      BY <1>0, <2>2, <3>1, <3>2
  <2> QED
    BY <2>2, <2>3, <2>4
<1>3. CASE \E t \in Turn : CallAbandoned(t) \/ CallReturns(t) \/ ImageAnswered(t) \/ ModelAnswered(t)
  <2>1. PICK t \in Turn : CallAbandoned(t) \/ CallReturns(t) \/ ImageAnswered(t) \/ ModelAnswered(t)
    BY <1>3
  <2>2. /\ \E w \in {"none", "ended"} : call' = [call EXCEPT ![t] = w]
        /\ orphans' # orphans => call[t] = "running" /\ orphans' = orphans + 1
    BY <2>1 DEF CallAbandoned, CallReturns, ImageAnswered, ModelAnswered, Answered
  <2>3. busy' = busy - (IF call[t] = "running" THEN 1 ELSE 0)
    BY <1>0, <2>2, CallsCounted
  <2> HIDE DEF busy
  <2> QED
    BY <1>0, <2>2, <2>3
<1>4. CASE OrphanReturns
  <2>1. orphans' = orphans - 1 /\ call' = call
    BY <1>4 DEF OrphanReturns
  <2>2. busy' = busy
    BY <2>1
  <2> HIDE DEF busy
  <2> QED
    BY <1>0, <2>1, <2>2
<1>5. CASE UNCHANGED <<call, orphans>>
  BY <1>0, <1>5
<1>6. \/ \E t \in Turn : BeginCall(t)
      \/ \E t \in Turn : CallAbandoned(t) \/ CallReturns(t) \/ ImageAnswered(t) \/ ModelAnswered(t)
      \/ OrphanReturns
      \/ UNCHANGED <<call, orphans>>
  <2>1. CASE \E t \in Turn : JobStep(t) \/ CallReturns(t)
    BY <2>1 DEF JobStep, Transcribe, Admit, Handle, Claim, Validate, EnterApply, ApplySay, ApplyMotion,
                LeaveApply, FinishJob
  <2>2. CASE ~\E t \in Turn : JobStep(t) \/ CallReturns(t)
    BY <2>2 DEF Next, ConnStep, Answers, AcceptAudio, NoteInputActivity, LaunchTakesCondition, Launch,
                Close, CloseReturns, ApplyPayload, HaltAll, SayReturns, VoiceFenced, BodyFenced,
                SpeechEnds, BodyEnds, TickReads, TickActs, IntervalElapses, vars
  <2> QED
    BY <2>1, <2>2
<1> QED
  BY <1>2, <1>3, <1>4, <1>5, <1>6

\* A turn is sent to look only while it has a look left.
LEMMA SeenStep ==
    ASSUME TurnTypes, CallTypes, SeenInv, PlanHasPlace, [Next]_vars
    PROVE  SeenInv'
<1> USE DEF callVars, turnVars, StayInTurn
<1>0. /\ at \in [Turn -> Stages] /\ seen \in [Turn -> 0..MaxObservations]
      /\ MaxObservations \in Nat /\ MaxObservations > 0 /\ newest \in Nat
  BY DEF TurnTypes, CallTypes
<1>1. CASE \E t \in Turn : JobStep(t)
  <2>1. PICK t \in Turn : JobStep(t)
    BY <1>1
  <2> DEFINE Good(where) ==
        /\ where \in {"none", "stt", "admit", "handle"} => seen'[t] = 0
        /\ where \in {"image", "imageWait"} => seen'[t] < MaxObservations
  <2>2. SUFFICES /\ \A u \in Turn \ {t} : at'[u] = at[u] /\ seen'[u] = seen[u]
                 /\ Good(at'[t])
    BY <2>2 DEF SeenInv
  <2>3. CASE Transcribe(t) \/ Admit(t) \/ Claim(t) \/ Validate(t)
    BY <1>0, <2>3 DEF Transcribe, Admit, Claim, Validate, Superseded, Goto, SeenInv
  <2>4. CASE Handle(t)
    BY <1>0, <2>4 DEF Handle, Superseded, Goto, SeenInv
  <2>5. CASE BeginCall(t)
    BY <1>0, <2>5 DEF BeginCall, Superseded, Goto, SeenInv
  <2>6. CASE CallAbandoned(t)
    BY <1>0, <2>6 DEF CallAbandoned, Goto, SeenInv
  <2>7. CASE ImageAnswered(t)
    BY <1>0, <2>7 DEF ImageAnswered, Answered, Goto, SeenInv
  <2>8. CASE ModelAnswered(t)
    <3>1. \/ Goto(t, IF seen[t] >= MaxObservations THEN "claim" ELSE "image")
          \/ Goto(t, "validate") \/ Goto(t, "claim")
      BY <2>8 DEF ModelAnswered
    <3>2. seen' = seen
      BY <2>8 DEF ModelAnswered
    <3> QED
      BY <1>0, <3>1, <3>2 DEF Goto
  <2>9. CASE EnterApply(t) \/ LeaveApply(t)
    BY <1>0, <2>9 DEF EnterApply, LeaveApply, Superseded, Goto, SeenInv
  <2>10. CASE ApplySay(t) \/ ApplyMotion(t)
    BY <1>0, <2>10 DEF ApplySay, ApplyMotion, SeenInv
  <2>11. CASE FinishJob(t)
    BY <1>0, <2>11 DEF FinishJob, Goto
  <2> QED
    BY <2>1, <2>3, <2>4, <2>5, <2>6, <2>7, <2>8, <2>9, <2>10, <2>11 DEF JobStep
<1>2. CASE Launch \/ ApplyPayload
  <2>1. /\ newest + 1 \in Turn /\ seen' = seen
        /\ \E where \in {"stt", "claim", "dispatch"} : Goto(newest + 1, where)
    BY <1>0, <1>2 DEF Launch, ApplyPayload, BeginUtterance
  <2>2. seen[newest + 1] = 0
    BY <1>0, <2>1 DEF PlanHasPlace, SeenInv
  <2> QED
    BY <1>0, <2>1, <2>2 DEF SeenInv, Goto
<1>3. CASE UNCHANGED <<at, seen>>
  BY <1>3 DEF SeenInv
<1>4. \/ \E t \in Turn : JobStep(t)
      \/ Launch \/ ApplyPayload
      \/ UNCHANGED <<at, seen>>
  BY DEF Next, ConnStep, Answers, AcceptAudio, NoteInputActivity, LaunchTakesCondition, CallReturns,
         Close, CloseReturns, OrphanReturns, HaltAll, SayReturns, VoiceFenced, BodyFenced,
         SpeechEnds, BodyEnds, TickReads, TickActs, IntervalElapses, vars
<1> QED
  BY <1>1, <1>2, <1>3, <1>4

\* The tick and the idle clock.
LEMMA IdleStep ==
    ASSUME IdleInv, TurnTypes, ApplyHoldsLock, [Next]_vars
    PROVE  IdleInv'
<1> USE DEF audioVars, turnVars, callVars, lockVars, outputVars, idleVars, historyVars, StayInTurn
<1>0. /\ newest \in Nat /\ at \in [Turn -> Stages] /\ origin \in [Turn -> {"none", "audio", "api"}]
      /\ newest <= MaxTurns
  BY DEF TurnTypes
<1>1. CASE \E loud, break \in BOOLEAN : AcceptAudio(loud, break)
  BY <1>1 DEF AcceptAudio, IngestFree, IdleInv
<1>2. CASE NoteInputActivity
  BY <1>2 DEF NoteInputActivity, IdleInv, Jobs, Stopped
<1>3. CASE LaunchTakesCondition
  BY <1>3 DEF LaunchTakesCondition, IdleInv, Jobs
<1>4. CASE Launch
  BY <1>4 DEF Launch, BeginUtterance, IdleInv, Stopped
<1>5. CASE Close \/ CloseReturns
  BY <1>5 DEF Close, CloseReturns, IdleInv, Jobs
<1>6. CASE \E t \in Turn : JobStep(t) \/ CallReturns(t)
  <2>1. PICK t \in Turn : JobStep(t) \/ CallReturns(t)
    BY <1>6
  <2>2. UNCHANGED <<audioVars, idleVars, quiet, newest, origin>>
    BY <2>1 DEF JobStep, Transcribe, Admit, Handle, Claim, BeginCall, CallAbandoned, ImageAnswered,
                ModelAnswered, Validate, EnterApply, ApplySay, ApplyMotion, LeaveApply, FinishJob,
                CallReturns
  <2>3. /\ \A u \in Turn \ {t} : at'[u] = at[u]
        /\ at'[t] = at[t] \/ at[t] # "done"
    <3>1. CASE Transcribe(t) \/ Admit(t) \/ Claim(t) \/ FinishJob(t)
      BY <1>0, <3>1 DEF Transcribe, Admit, Claim, FinishJob, Goto
    <3>2. CASE Handle(t) \/ Validate(t)
      BY <1>0, <3>2 DEF Handle, Validate, Goto, Superseded
    <3>3. CASE BeginCall(t) \/ CallAbandoned(t)
      BY <1>0, <3>3 DEF BeginCall, CallAbandoned, Waiting, Goto, Superseded
    <3>4. CASE ImageAnswered(t) \/ ModelAnswered(t)
      BY <1>0, <3>4 DEF ImageAnswered, ModelAnswered, Answered, Goto
    <3>5. CASE EnterApply(t)
      BY <1>0, <3>5 DEF EnterApply, Goto, Superseded
    <3>6. CASE ApplySay(t) \/ ApplyMotion(t) \/ CallReturns(t)
      BY <3>6 DEF ApplySay, ApplyMotion, CallReturns
    <3>7. CASE LeaveApply(t)
      <4>1. at[t] = "apply"
        BY <3>7 DEF LeaveApply, ApplyHoldsLock
      <4> QED
        BY <1>0, <3>7, <4>1 DEF LeaveApply, Goto
    <3> QED
      BY <2>1, <3>1, <3>2, <3>3, <3>4, <3>5, <3>6, <3>7 DEF JobStep
  <2>4. Jobs = {} => Jobs' = {}
    BY <1>0, <2>2, <2>3 DEF Jobs
  <2> QED
    BY <2>2, <2>4 DEF IdleInv
<1>7. CASE ApplyPayload
  <2>1. /\ newest' = newest + 1 /\ newest + 1 \in Turn /\ UNCHANGED <<conn, tick, vad>>
        /\ origin' = [origin EXCEPT ![newest + 1] = "api"]
        /\ \A u \in 1..newest : at'[u] = at[u]
        /\ idleSince' \in {"none", "failed"}
    BY <1>0, <1>7 DEF ApplyPayload, BeginUtterance, BeginTurn, Goto, Stopped
  <2>2. Jobs' = Jobs
    BY <1>0, <2>1 DEF Jobs
  <2> QED
    BY <2>1, <2>2 DEF IdleInv
<1>8. CASE OrphanReturns \/ HaltAll \/ Answers \/ SpeechEnds \/ BodyEnds
  <2>1. UNCHANGED <<audioVars, idleVars, quiet, newest, origin, at>>
    BY <1>8 DEF OrphanReturns, HaltAll, Answers, SayReturns, VoiceFenced, BodyFenced, SpeechEnds, BodyEnds
  <2> QED
    BY <2>1 DEF IdleInv, Jobs
<1>9. CASE TickReads
  BY <1>9 DEF TickReads, IngestFree, IdleInv, Jobs
<1>10. CASE TickActs
  <2>1. /\ tick # "none" /\ tick' = "none" /\ UNCHANGED <<conn, vad>>
        /\ idleSince' \in {"counting", "elapsed"} =>
             quiet' \/ (idleSince = "counting" /\ quiet' = quiet)
    BY <1>10 DEF TickActs, Stopped
  <2> QED
    BY <2>1 DEF IdleInv
<1>11. CASE IntervalElapses
  BY <1>11 DEF IntervalElapses, IdleInv, Jobs
<1>12. CASE UNCHANGED vars
  BY <1>12 DEF vars, IdleInv, Jobs
<1> QED
  BY <1>1, <1>2, <1>3, <1>4, <1>5, <1>6, <1>7, <1>8, <1>9, <1>10, <1>11, <1>12
  DEF Next, ConnStep

----------------------------------------------------------------------------
(***************************************************************************)
(* The theorems.                                                           *)
(***************************************************************************)
Inv == TypeInv /\ TurnInv /\ IdleInv

\* The invariant is true of a program that starts, and every step keeps it.
LEMMA InvHolds == Spec => []Inv
<1>1. Init => Inv
  <2> SUFFICES ASSUME Init PROVE Inv
    OBVIOUS
  <2> USE DEF Init
  <2>1. Types
    <3>1. at \in [Turn -> Stages] /\ plan \in [Turn -> SUBSET {"say", "motion"}]
      BY DEF Stages
    <3>2. AudioTypes /\ TurnTypes
      BY <3>1 DEF AudioTypes, TurnTypes
    <3>3. MaxTurns \in Nat /\ MaxHalts \in Nat /\ MaxObservations \in Nat
      OBVIOUS
    <3>4. CallTypes
      BY <3>3 DEF CallTypes
    <3>5. OutputTypes
      BY DEF OutputTypes
    <3>6. 0 \in 0..MaxHalts /\ 0 \in 0..MaxTurns
      BY <3>3
    <3>7. IdleTypes
      BY <3>6 DEF IdleTypes
    <3> QED
      BY <3>2, <3>4, <3>5, <3>7 DEF Types
  <2>2. GateInv(vad)
    BY EmptyGate
  <2>3. SlotsInv
    <3>1. Running(call) = {}
      BY DEF Running
    <3> QED
      BY <3>1, FS_EmptySet, RunningCallsIs DEF SlotsInv
  <2>4. SeenInv
    BY DEF SeenInv
  <2>5. TurnInv
    BY DEF TurnInv, PendingIsNewest, ApplyHoldsLock, PlanHasPlace, CallHasHolder, WantedIsUnhalted, HaltHolds
  <2>6. IdleInv
    BY DEF IdleInv
  <2> QED
    BY <2>1, <2>2, <2>3, <2>4, <2>5, <2>6 DEF Inv, TypeInv
<1>2. Inv /\ [Next]_vars => Inv'
  <2> SUFFICES ASSUME Inv, [Next]_vars PROVE Inv'
    OBVIOUS
  <2>1. Types' /\ GateInv(vad)'
    BY TypesStep, GateStep DEF Inv, TypeInv, TurnInv
  <2>2. SlotsInv' /\ SeenInv'
    BY SlotsStep, SeenStep DEF Inv, TypeInv, TurnInv, Types
  <2>3. TurnInv' /\ IdleInv'
    BY TurnStep, IdleStep DEF Inv, TypeInv, TurnInv, Types
  <2> QED
    BY <2>1, <2>2, <2>3 DEF Inv, TypeInv
<1> QED
  BY <1>1, <1>2, PTL DEF Spec

\* Every variable of the interaction core keeps to its range: the gate's buffers
\* never outgrow their limits and never join audio across a break, and the calls
\* to the brain and the camera hold no more than max_active_calls slots.
THEOREM TypeCorrect == Spec => []TypeOK
<1>1. Inv => TypeOK
  <2> SUFFICES ASSUME Inv PROVE TypeOK
    OBVIOUS
  <2>0. Types /\ GateInv(vad) /\ SlotsInv
    BY DEF Inv, TypeInv
  <2>1. /\ vad \in Buffers /\ vad.kept \in 0..PreRoll /\ vad.candidate \in 0..StartTrigger
        /\ vad.voiced \in 0..MaxUtterance + PreRoll /\ vad.duration \in 0..MaxUtterance + PreRoll + 1
        /\ vad.silence \in 0..EndSilence
    BY <2>0, Limits DEF GateInv, Buffers
  <2>2. vad \in [active : BOOLEAN, kept : 0..PreRoll, candidate : 0..StartTrigger,
                voiced : 0..MaxUtterance + PreRoll, duration : 0..MaxUtterance + PreRoll + 1,
                silence : 0..EndSilence]
    BY <2>1 DEF Buffers
  <2>3. orphans \in 0..MaxActiveCalls /\ RunningCalls <= MaxActiveCalls
    <3>1. Cardinality(Running(call)) \in Nat
      <4>0. IsFiniteSet(Turn)
        BY FS_Interval
      <4>1. IsFiniteSet(Running(call))
        BY <4>0, FS_Subset DEF Running
      <4> QED
        BY <4>1, FS_CardinalityType
    <3> QED
      BY <2>0, <3>1, RunningCallsIs DEF SlotsInv, Types, CallTypes
  <2>4. {speech, queued} \subseteq Turn \cup {None}
    BY <2>0 DEF Types, OutputTypes
  <2> QED
    BY <2>0, <2>2, <2>3, <2>4 DEF TypeOK, Types, AudioTypes, TurnTypes, CallTypes, OutputTypes, IdleTypes
<1> QED
  BY <1>1, InvHolds, PTL

\* Once halt_all has returned, and until something newer is heard, nothing of the
\* turns before it is spoken, waits to be spoken, or moves the body.
THEOREM HaltIsKept == Spec => []HaltIsFinal
<1>1. Inv => HaltIsFinal
  BY DEF Inv, TurnInv, HaltHolds, HaltIsFinal
<1> QED
  BY <1>1, InvHolds, PTL

\* A turn's speech or cue is taken on only while nothing newer was heard and
\* nothing halted since it began.
THEOREM OnlyTheNewestActs == Spec => StaleTurnNeverActs
<1>1. ASSUME Inv, Next, NEW t \in Turn, Acts(t)
      PROVE  t = newest /\ t > halted
  <2> USE DEF lockVars, outputVars, StayInTurn
  <2>0. TurnInv
    BY <1>1 DEF Inv
  <2>1. CASE \E u \in Turn : ApplySay(u) \/ ApplyMotion(u)
    <3>1. PICK u \in Turn : ApplySay(u) \/ ApplyMotion(u)
      BY <2>1
    <3>2. u = newest /\ u > halted
      BY <2>0, <3>1 DEF ApplySay, ApplyMotion, TurnInv, PendingIsNewest, WantedIsUnhalted
    <3>3. speech' = speech /\ queued' \in {queued, None, u} /\ body' \in {body, u}
      BY <3>1 DEF ApplySay, ApplyMotion
    <3> QED
      BY <1>1, <3>2, <3>3 DEF Acts
  <2>2. CASE SayReturns
    <3>1. activity \in Turn /\ activity = newest /\ activity > halted
      BY <2>0, <2>2 DEF SayReturns, TurnInv, CallHasHolder, PendingIsNewest, WantedIsUnhalted
    <3>2. speech' \in {speech, activity} /\ queued' = queued /\ body' = body
      BY <2>2 DEF SayReturns
    <3> QED
      BY <1>1, <3>1, <3>2 DEF Acts
  <2>3. CASE /\ speech' \in {speech, queued, None} /\ queued' \in {queued, None}
             /\ body' \in {body, None, Autonomy}
    BY <1>1, <2>3 DEF Acts
  <2>4. CASE \E u \in Turn : (JobStep(u) \/ CallReturns(u)) /\ ~ApplySay(u) /\ ~ApplyMotion(u)
    <3>1. PICK u \in Turn : (JobStep(u) \/ CallReturns(u)) /\ ~ApplySay(u) /\ ~ApplyMotion(u)
      BY <2>4
    <3>2. speech' = speech /\ queued' \in {queued, None} /\ body' = body
      BY <3>1 DEF JobStep, Transcribe, Admit, Handle, Claim, BeginCall, CallAbandoned, ImageAnswered,
                  ModelAnswered, Validate, EnterApply, FenceVoice, LeaveApply, FinishJob, CallReturns
    <3> QED
      BY <2>3, <3>2
  <2>5. CASE ~\E u \in Turn : JobStep(u) \/ CallReturns(u)
    <3>1. \/ SayReturns
          \/ /\ speech' \in {speech, queued, None} /\ queued' \in {queued, None}
             /\ body' \in {body, None, Autonomy}
      BY <1>1, <2>5 DEF Next, ConnStep, Answers, AcceptAudio, NoteInputActivity, LaunchTakesCondition,
                Launch, Close, CloseReturns, OrphanReturns, ApplyPayload, HaltAll, FenceVoice, VoiceFenced,
                BodyFenced, SpeechEnds, BodyEnds, TickReads, TickActs, IntervalElapses
    <3> QED
      BY <2>2, <2>3, <3>1
  <2> QED
    BY <1>1, <2>1, <2>4, <2>5
<1>2. Inv /\ [Next]_vars => [\A t \in Turn : Acts(t) => t = newest /\ t > halted]_vars
  BY <1>1
<1> QED
  BY <1>2, InvHolds, PTL DEF Spec, StaleTurnNeverActs

\* An idle cue starts only in a quiet that lasted since the policy's clock started.
THEOREM IdleIsEarned == Spec => IdleOnlyInLastingQuiet
<1>1. ASSUME Inv, Next, body' = Autonomy, body # Autonomy
      PROVE  quiet /\ ~vad.active /\ Jobs = {} /\ pending = None /\ speech = None
  <2> USE DEF outputVars, StayInTurn
  <2>1. CASE TickActs
    BY <1>1, <2>1 DEF TickActs, Eligible, Inv, IdleInv
  <2>2. CASE \E t \in Turn : JobStep(t) \/ CallReturns(t)
    <3>1. PICK t \in Turn : JobStep(t) \/ CallReturns(t)
      BY <2>2
    <3>2. body' \in {body, t}
      BY <3>1 DEF JobStep, Transcribe, Admit, Handle, Claim, BeginCall, CallAbandoned, ImageAnswered,
                  ModelAnswered, Validate, EnterApply, ApplySay, ApplyMotion, LeaveApply, FinishJob,
                  CallReturns
    <3> QED
      BY <1>1, <3>2
  <2>3. CASE body' \in {body, None}
    BY <1>1, <2>3
  <2>4. TickActs \/ (\E t \in Turn : JobStep(t) \/ CallReturns(t)) \/ body' \in {body, None}
    BY <1>1 DEF Next, ConnStep, Answers, AcceptAudio, NoteInputActivity, LaunchTakesCondition,
              Launch, Close, CloseReturns, OrphanReturns, ApplyPayload, HaltAll, SayReturns, VoiceFenced,
              BodyFenced, SpeechEnds, BodyEnds, TickReads, IntervalElapses
  <2> QED
    BY <2>1, <2>2, <2>3, <2>4
<1>2. Inv /\ [Next]_vars => [body' = Autonomy /\ body # Autonomy =>
        quiet /\ ~vad.active /\ Jobs = {} /\ pending = None /\ speech = None]_vars
  BY <1>1
<1> QED
  BY <1>2, InvHolds, PTL DEF Spec, IdleOnlyInLastingQuiet
================================================================================
