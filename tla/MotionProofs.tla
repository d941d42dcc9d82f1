---------------------------- MODULE MotionProofs ----------------------------
(***************************************************************************)
(* Proofs about Motion, for any number of cues, halts and output sessions; *)
(* and about PoseOutput, for any trackers, axes and face parameters.       *)
(***************************************************************************)
EXTENDS Motion, PoseOutput, FiniteSetTheorems, TLAPS

(***************************************************************************)
(* The inductive invariant, part by part.                                  *)
(***************************************************************************)

\* The objects of the director and its stream.
Objects ==
    /\ cue \in Cues \cup {None}
    /\ sess \in Sessions \cup {None}
    /\ gen \in Producers \cup {None}
    /\ start \in Starts \cup {None}
    /\ play \in Playbacks \cup {None}

\* Where the threads are.
Threads ==
    /\ mgr \in [at : {"loop", "locked", "gone", "fail", "neutral", "authorize", "recheck",
                     "create", "reconcile", "prompt", "overtaken", "raise"}, fence : Nat]
    /\ pb \in {"none", "run", "event", "stop", "dead"}
    /\ sub \in [at : {"idle", "failing", "neutral"}, fence : Nat]
    /\ hal \in [at : {"idle", "neutral", "set", "join", "gone"}, fence : Nat, stop : BOOLEAN]

Scalars ==
    /\ state \in {"STOPPED", "WAITING_OUTPUT", "STARTING", "IDLE", "PREPARING_CUE", "CUE",
                  "RETURNING_IDLE", "STOPPING", "HALTED", "FAILED"}
    /\ enabled \in BOOLEAN /\ ending \in BOOLEAN /\ dark \in BOOLEAN
    /\ cues \in Nat /\ halts \in Nat /\ event \in Nat

Links ==
    /\ link \in {"down", "open", "up", "lost"}
    /\ sid \in 0..MaxSessions
    /\ link # "down" => sid > 0
    /\ out \in {None} \cup 1..MaxSessions

\* A fence is newer than the lease it fences, and the newest token there is.
Tokens ==
    /\ token \in Nat /\ lease \in 0..token /\ fence \in Nat
    /\ fence # 0 => lease # 0 /\ fence > lease /\ fence = token

Starting == {"authorize", "recheck", "create", "reconcile", "prompt", "overtaken", "raise"}

\* While there is a playback it has a session, a lease and a thread.  While the
\* manager starts a stream there is none, and a session only between its making
\* and its handing over; otherwise a session is a playback's.
Phases ==
    /\ play # None => sess # None /\ lease # 0 /\ pb # "none"
    /\ play = None => pb = "none"
    /\ mgr.at \in Starting => play = None /\ start # None /\ lease # 0
    /\ mgr.at \in {"reconcile", "prompt", "overtaken"} => sess # None
    /\ play = None /\ mgr.at \notin {"reconcile", "prompt", "overtaken"} => sess = None
    /\ mgr.at = "locked" => play = None

\* The producer that holds the model is that of the session there is, and a
\* playback that is over has waited for it.
OneModel ==
    /\ ModelHasOneUser
    /\ pb = "dead" => gen = None

\* Who is not wanted has been told to stop.
Silence ==
    /\ ~enabled /\ play # None => sess.stopped
    /\ dark => ~enabled /\ dev.shown = 0

\* A stream plays what it was asked for, or asked for before; the callback of a
\* prompt that started is about a prompt that played; and the cue's phase says
\* which revisions it knows.
Revisions ==
    /\ sess # None => sess.rev > 0 /\ sess.playing <= sess.rev
    /\ pb = "event" => event > 0 /\ event <= sess.playing
    /\ cue # None =>
         /\ cue.phase # "PREPARING" => cue.rev # 0
         /\ cue.idleRev # 0 <=> cue.phase = "RETURNING_IDLE"
         /\ cue.phase # "PREPARING" /\ play # None => cue.rev <= sess.playing

Devices ==
    /\ dev \in [high : Nat, owner : Nat, shown : Nat]
    /\ dev.owner <= dev.high /\ dev.shown <= token

IInv ==
    /\ Objects /\ Threads /\ Scalars /\ Links /\ Tokens
    /\ Phases /\ OneModel /\ Silence /\ Revisions /\ Devices
----------------------------------------------------------------------------
(***************************************************************************)
(* What the operations on a session make of it.                            *)
(***************************************************************************)
Sound(s) == s \in Sessions /\ s.rev > 0 /\ s.playing <= s.rev

\* The session stays that of its stream, forgets neither a prompt it was given
\* nor that it was told to stop, and plays only what it was asked for.
Moves(s, r) ==
    /\ Sound(s) /\ Sound(r) /\ r.stream = s.stream
    /\ r.rev >= s.rev /\ r.playing >= s.playing
    /\ s.stopped => r.stopped

\* A prompt is a new revision of the same session.
LEMMA PromptMoves ==
    ASSUME NEW s, Sound(s), NEW k \in Kinds \cup {"idle"}
    PROVE  /\ Moves(s, Prompted(s, k))
           /\ Prompted(s, k).rev = s.rev + 1 /\ Prompted(s, k).playing = s.playing
<1> DEFINE n == s.rev + 1
           r == Prompted(s, k)
<1>1. n \in Nat /\ s \in Sessions /\ s.rev \in Nat /\ s.playing \in Nat
  BY DEF Sound, Sessions
<1>2. r = [s EXCEPT !.rev = n, !.kind = k, !.done = FALSE, !.buffered = FALSE, !.broken = FALSE]
  BY DEF Prompted
<1>3. n = s.rev + 1
  OBVIOUS
<1> HIDE DEF n, r
<1>4. r \in Sessions
  BY <1>1, <1>2 DEF Sessions
<1>5. r.rev = n /\ r.playing = s.playing /\ r.stream = s.stream /\ r.stopped = s.stopped
  BY <1>1, <1>2 DEF Sessions
<1> QED
  BY <1>1, <1>3, <1>4, <1>5 DEF Moves, Sound, r

\* A change of its flags is no change of what it was asked for or plays.
LEMMA FlagMoves ==
    ASSUME NEW s, Sound(s), NEW r \in Sessions, r.stream = s.stream, r.rev = s.rev,
           r.playing = s.playing, s.stopped => r.stopped
    PROVE  Moves(s, r)
<1>1. s \in Sessions /\ s.rev \in Nat /\ s.playing \in Nat
  BY DEF Sound, Sessions
<1> QED
  BY <1>1 DEF Moves, Sound

\* It is told to stop, or its threads were joined.
LEMMA StopMoves ==
    ASSUME NEW s, Sound(s)
    PROVE  /\ Moves(s, Stopped(s)) /\ Stopped(s).stopped
           /\ Stopped(s).rev = s.rev /\ Stopped(s).playing = s.playing
           /\ Moves(s, [s EXCEPT !.started = FALSE])
<1> DEFINE r == [s EXCEPT !.stopped = TRUE]
           q == [s EXCEPT !.started = FALSE]
<1>1. s \in Sessions /\ s # None
  BY MotionAssumption DEF Sound
<1>2. Stopped(s) = r
  BY <1>1 DEF Stopped
<1>3. r \in Sessions /\ r.stream = s.stream /\ r.rev = s.rev /\ r.playing = s.playing /\ r.stopped
  BY <1>1 DEF Sessions
<1>4. q \in Sessions /\ q.stream = s.stream /\ q.rev = s.rev /\ q.playing = s.playing
      /\ q.stopped = s.stopped
  BY <1>1 DEF Sessions
<1> HIDE DEF r, q
<1>5. Moves(s, r)
  BY <1>3, FlagMoves
<1>6. Moves(s, q)
  BY <1>4, FlagMoves
<1> QED
  BY <1>2, <1>3, <1>5, <1>6 DEF q

\* The producer answers, or ends in an error.
LEMMA GeneratedMoves ==
    ASSUME NEW s, Sound(s)
    PROVE  Moves(s, [s EXCEPT !.buffered = TRUE]) /\ Moves(s, [s EXCEPT !.broken = TRUE])
<1> DEFINE r == [s EXCEPT !.buffered = TRUE]
           q == [s EXCEPT !.broken = TRUE]
<1>1. s \in Sessions
  BY DEF Sound
<1>3. r \in Sessions /\ r.stream = s.stream /\ r.rev = s.rev /\ r.playing = s.playing
      /\ r.stopped = s.stopped
  BY <1>1 DEF Sessions
<1>4. q \in Sessions /\ q.stream = s.stream /\ q.rev = s.rev /\ q.playing = s.playing
      /\ q.stopped = s.stopped
  BY <1>1 DEF Sessions
<1> HIDE DEF r, q
<1>5. Moves(s, r) /\ Moves(s, q)
  BY <1>3, <1>4, FlagMoves
<1> QED
  BY <1>5 DEF r, q

\* A frame that was sent is one of the prompt asked for, or of the one before.
LEMMA SentMoves ==
    ASSUME NEW s, Sound(s), NEW seen \in {s.rev, s.playing}, NEW ends \in BOOLEAN, NEW more \in BOOLEAN
    PROVE  /\ Moves(s, [s EXCEPT !.playing = seen, !.done = ends, !.buffered = more])
           /\ [s EXCEPT !.playing = seen, !.done = ends, !.buffered = more].playing = seen
<1>1. s \in Sessions /\ s.rev \in Nat /\ s.playing \in Nat /\ seen \in Nat /\ seen >= s.playing /\ seen <= s.rev
  BY DEF Sound, Sessions
<1> DEFINE r == [s EXCEPT !.playing = seen, !.done = ends, !.buffered = more]
<1>2. r \in Sessions
  BY <1>1 DEF Sessions
<1>3. r.rev = s.rev /\ r.playing = seen /\ r.stream = s.stream /\ r.stopped = s.stopped
  BY <1>1 DEF Sessions
<1> HIDE DEF r
<1> QED
  BY <1>1, <1>2, <1>3 DEF Moves, Sound, r
----------------------------------------------------------------------------
(***************************************************************************)
(* One step at a time.                                                     *)
(***************************************************************************)
Submits == \E k \in Kinds : SubmitCue(k)

SessionIsMade == StartCreates /\ sess' = NewSession(start.kind) /\ gen' = [stream |-> lease, rev |-> 0]

SessionIsLeft == LoopFinishes \/ StartAbandons

\* A cue of the idle policy is a cue.
LEMMA SubmitsAny == (\E k \in CueKind : SubmitCue(k)) \/ SubmitIdleCue => Submits
  BY MotionAssumption DEF SubmitIdleCue, Submits

\* The session that is there is sound.
LEMMA SessionIsSound == IInv /\ sess # None => Sound(sess)
  BY DEF IInv, Objects, Revisions, Sound

\* A session is made, or left, or it moves.
LEMMA SessionStep ==
    ASSUME IInv, [Next]_vars
    PROVE  \/ sess' = sess
           \/ sess # None /\ Moves(sess, sess')
           \/ SessionIsMade \/ SessionIsLeft
<1> USE SessionIsSound
<1>1. CASE Submits
  <2>1. PICK k \in Kinds : SubmitCue(k)
    BY <1>1 DEF Submits
  <2>2. sess' = sess \/ (play # None /\ sess' = Prompted(sess, k))
    BY <2>1 DEF SubmitCue, Steerable
  <2> QED
    BY <2>2, PromptMoves DEF IInv, Phases
<1>2. CASE SubmitFails \/ FailStream \/ StopSets \/ DetachOutput \/ \E stop \in BOOLEAN : Halt(stop)
  <2>1. sess' = sess \/ (play # None /\ sess' = Stopped(sess))
    BY <1>2 DEF SubmitFails, FailStream, Fail, Halt, StopSets, DetachOutput, StopStream
  <2> QED
    BY <2>1, StopMoves DEF IInv, Phases
<1>3. CASE LoopReturns
  BY <1>3, PromptMoves DEF LoopReturns, CanReturn, IInv, Phases
<1>4. CASE StartReconciles
  <2>1. sess # None /\ (sess' = sess \/ sess' = Stopped(sess))
    BY <1>4 DEF StartReconciles, IInv, Phases
  <2> QED
    BY <2>1, StopMoves
<1>5. CASE StartPrompts
  <2>1. sess # None /\ start.kind \in Kinds \cup {"idle"} /\ sess' = Prompted(sess, start.kind)
    BY <1>5 DEF StartPrompts, IInv, Phases, Objects, Starts, Starting
  <2> QED
    BY <2>1, PromptMoves
<1>6. CASE \E counts, clipEnds \in BOOLEAN : SendNext(counts, clipEnds)
  <2>1. PICK counts \in BOOLEAN, clipEnds \in BOOLEAN : SendNext(counts, clipEnds)
    BY <1>6
  <2>2. sess # None /\ sess \in Sessions
    BY <2>1 DEF SendNext, IInv, Phases, Objects
  <2> DEFINE seen == IF counts THEN sess.rev ELSE sess.playing
             done == sess.done \/ clipEnds
  <2>3. seen \in {sess.rev, sess.playing} /\ done \in BOOLEAN
    OBVIOUS
  <2>4. PICK more \in {FALSE, sess.buffered} :
            sess' = [sess EXCEPT !.playing = seen, !.done = done, !.buffered = more]
    BY <2>1 DEF SendNext
  <2>5. more \in BOOLEAN
    BY <2>2 DEF Sessions
  <2> HIDE DEF seen, done
  <2> QED
    BY <2>2, <2>3, <2>4, <2>5, SentMoves
<1>7. CASE PlaybackEnds \/ PlaybackStops
  <2>1. sess # None /\ (sess' = Stopped(sess) \/ sess' = [sess EXCEPT !.started = FALSE])
    BY <1>7 DEF PlaybackEnds, PlaybackStops, IInv, Phases
  <2> QED
    BY <2>1, StopMoves
<1>8. CASE Generated
  <2>1. \/ sess' = sess
        \/ /\ sess # None
           /\ sess' = [sess EXCEPT !.buffered = TRUE] \/ sess' = [sess EXCEPT !.broken = TRUE]
    BY <1>8 DEF Generated
  <2> QED
    BY <2>1, GeneratedMoves
<1>9. CASE StartCreates
  BY <1>9 DEF StartCreates, SessionIsMade
<1>10. CASE SessionIsLeft
  BY <1>10
<1>11. \/ Submits
       \/ SubmitFails \/ FailStream \/ StopSets \/ DetachOutput \/ \E stop \in BOOLEAN : Halt(stop)
       \/ LoopReturns \/ StartReconciles \/ StartPrompts
       \/ \E counts, clipEnds \in BOOLEAN : SendNext(counts, clipEnds)
       \/ PlaybackEnds \/ PlaybackStops \/ Generated \/ StartCreates \/ SessionIsLeft
       \/ sess' = sess
  BY SubmitsAny DEF Next, Manager, Playback, Producer, Callers, Bridge, vars, streamVars, SessionIsLeft,
         SubmitNeutralizes, HaltNeutralizes, StopJoins, LoopExits, LoopFails, LoopStarts, LoopWaits,
         FailNeutralizes, StartAuthorizes, StartRechecks, StartRaises, PromptStarted, Generates,
         ProducerExits, LinkOpens, AttachOutput, LinkLost
<1> QED
  BY <1>1, <1>2, <1>3, <1>4, <1>5, <1>6, <1>7, <1>8, <1>9, <1>10, <1>11

\* A session that is made has played nothing and was told nothing.
LEMMA MadeSession ==
    ASSUME IInv, SessionIsMade
    PROVE  Sound(sess') /\ sess'.stream = lease /\ sess'.playing = 0
<1>1. start \in Starts /\ lease \in Nat
  BY DEF SessionIsMade, StartCreates, IInv, Phases, Objects, Starting, Tokens
<1> DEFINE k == start.kind
<1>2. k \in Kinds \cup {"idle"}
  BY <1>1 DEF Starts
<1>3. sess' = [stream |-> lease, rev |-> 1, kind |-> k, playing |-> 0, done |-> FALSE,
               buffered |-> FALSE, broken |-> FALSE, started |-> TRUE, stopped |-> FALSE]
  BY DEF SessionIsMade, NewSession
<1> HIDE DEF k
<1>4. sess' \in Sessions
  BY <1>1, <1>2, <1>3 DEF Sessions
<1> QED
  BY <1>3, <1>4 DEF Sound

\* What is done to a cue leaves a cue.
LEMMA CueKept ==
    ASSUME NEW c \in Cues, NEW r \in Nat
    PROVE  /\ BindRevision(c, r) \in Cues /\ BindRevision(c, r).phase = "PREPARING"
           /\ BindRevision(c, r).idleRev = 0
           /\ [c EXCEPT !.phase = "PLAYING"] \in Cues
           /\ [c EXCEPT !.phase = "RETURNING_IDLE", !.idleRev = r] \in Cues
  BY DEF BindRevision, Cues

\* A cue begins unstarted and without a prompt of its own.
LEMMA CueMade ==
    ASSUME NEW k \in Kinds, NEW n \in Nat
    PROVE  NewCue(n, k) \in Cues /\ NewCue(n, k).phase = "PREPARING" /\ NewCue(n, k).idleRev = 0
  BY DEF NewCue, Cues

\* The objects keep to their types.
LEMMA ObjectsStep ==
    ASSUME IInv, [Next]_vars
    PROVE  Objects'
<1> USE DEF vars, directorVars, managerVars, streamVars
<1>0. /\ cue \in Cues \cup {None} /\ sess \in Sessions \cup {None} /\ gen \in Producers \cup {None}
      /\ start \in Starts \cup {None} /\ play \in Playbacks \cup {None}
  BY DEF IInv, Objects
<1>1. sess' \in Sessions \cup {None}
  <2>1. CASE sess # None /\ Moves(sess, sess')
    BY <2>1 DEF Moves, Sound
  <2>2. CASE SessionIsMade
    BY <2>2, MadeSession DEF Sound
  <2>3. CASE SessionIsLeft
    BY <2>3 DEF SessionIsLeft, LoopFinishes, StartAbandons
  <2> QED
    BY <1>0, <2>1, <2>2, <2>3, SessionStep
<1>2. cue' \in Cues \cup {None}
  <2>1. CASE Submits
    <3>1. PICK k \in Kinds : SubmitCue(k)
      BY <2>1 DEF Submits
    <3> DEFINE c == NewCue(cues + 1, k)
    <3>2. c \in Cues
      BY CueMade DEF IInv, Scalars
    <3>3. cue' = c \/ (play # None /\ cue' = BindRevision(c, sess.rev + 1))
      BY <3>1 DEF SubmitCue, Steerable
    <3>4. play # None => sess.rev + 1 \in Nat
      BY SessionIsSound DEF IInv, Phases, Sound, Sessions
    <3> HIDE DEF c
    <3> QED
      BY <3>2, <3>3, <3>4, CueKept
  <2>2. CASE LoopReturns
    <3>1. cue \in Cues /\ sess # None
      BY <1>0, <2>2 DEF LoopReturns, CueIsOver, CanReturn, IInv, Phases
    <3>2. sess.rev + 1 \in Nat
      BY <3>1, SessionIsSound DEF Sound, Sessions
    <3>3. cue' = [cue EXCEPT !.phase = "RETURNING_IDLE", !.idleRev = sess.rev + 1]
      BY <2>2 DEF LoopReturns
    <3> QED
      BY <3>1, <3>2, <3>3, CueKept
  <2>3. CASE StartReconciles
    <3>1. cue' = cue \/ cue' = None \/ (cue # None /\ cue' = BindRevision(cue, sess.rev))
      BY <2>3 DEF StartReconciles
    <3>2. sess.rev \in Nat
      BY <2>3, SessionIsSound DEF StartReconciles, IInv, Phases, Sound, Sessions
    <3> QED
      BY <1>0, <3>1, <3>2, CueKept
  <2>4. CASE PromptStarted
    <3>1. cue' = cue \/ cue' = None \/ (cue # None /\ cue' = [cue EXCEPT !.phase = "PLAYING"])
      BY <2>4 DEF PromptStarted, CueStarted
    <3>2. 0 \in Nat
      OBVIOUS
    <3> QED
      BY <1>0, <3>1, <3>2, CueKept
  <2>5. CASE cue' \in {cue, None}
    BY <1>0, <2>5
  <2>6. Submits \/ LoopReturns \/ StartReconciles \/ PromptStarted \/ cue' \in {cue, None}
    BY SubmitsAny DEF Next, Manager, Playback, Producer, Callers, Bridge,
         SubmitFails, SubmitNeutralizes, Halt, HaltNeutralizes, StopSets, StopJoins, LoopFinishes, LoopExits,
         LoopFails, LoopStarts, LoopWaits, FailStream, Fail, FailNeutralizes, StartAuthorizes, StartRechecks,
         StartCreates, StartPrompts, StartAbandons, StartRaises, SendNext, PlaybackEnds, PlaybackStops,
         Generates, Generated, ProducerExits, LinkOpens, AttachOutput, LinkLost, DetachOutput
  <2> QED
    BY <2>1, <2>2, <2>3, <2>4, <2>5, <2>6
<1>3. gen' \in Producers \cup {None}
  <2>1. CASE StartCreates
    <3>1. lease \in Nat
      BY DEF IInv, Tokens
    <3> QED
      BY <1>0, <2>1, <3>1 DEF StartCreates, Producers
  <2>2. CASE Generates
    <3>1. sess.rev \in Nat /\ gen \in Producers
      BY <1>0, <2>2, SessionIsSound DEF Generates, Sound, Sessions
    <3> QED
      BY <2>2, <3>1 DEF Generates, Producers
  <2>3. CASE Generated
    BY <1>0, <2>3 DEF Generated, Producers
  <2>4. CASE gen' \in {gen, None}
    BY <1>0, <2>4
  <2>5. StartCreates \/ Generates \/ Generated \/ gen' \in {gen, None}
    BY SubmitsAny DEF Next, Manager, Playback, Producer, Callers, Bridge, Submits, SubmitCue,
         SubmitFails, SubmitNeutralizes, Halt, HaltNeutralizes, StopSets, StopJoins, LoopFinishes, LoopExits,
         LoopFails, LoopStarts, LoopReturns, LoopWaits, FailStream, FailNeutralizes, StartAuthorizes,
         StartRechecks, StartReconciles, StartPrompts, StartAbandons, StartRaises, SendNext, PlaybackEnds,
         PlaybackStops, PromptStarted, ProducerExits, LinkOpens, AttachOutput, LinkLost, DetachOutput
  <2> QED
    BY <2>1, <2>2, <2>3, <2>4, <2>5
<1>4. start' \in Starts \cup {None}
  <2>0. /\ Prompt(cue) \in Kinds \cup {"idle"} /\ CueId(cue) \in Nat
    BY <1>0 DEF Prompt, CueId, Cues
  <2>1. CASE LoopStarts
    <3>1. out \in Nat
      BY <2>1 DEF LoopStarts, IInv, Links
    <3> QED
      BY <2>0, <2>1, <3>1 DEF LoopStarts, Starts
  <2>2. CASE StartReconciles
    <3>1. start \in Starts
      BY <1>0, <2>2 DEF StartReconciles, IInv, Phases, Starting
    <3>2. start' = start \/ start' = None
          \/ start' = [start EXCEPT !.kind = Prompt(cue), !.cue = CueId(cue)]
      BY <2>2 DEF StartReconciles
    <3> QED
      BY <2>0, <3>1, <3>2 DEF Starts
  <2>3. CASE start' \in {start, None}
    BY <1>0, <2>3
  <2>4. LoopStarts \/ StartReconciles \/ start' \in {start, None}
    BY SubmitsAny DEF Next, Manager, Playback, Producer, Callers, Bridge, Submits, SubmitCue, GiveUp,
         SubmitFails, SubmitNeutralizes, Halt, HaltNeutralizes, StopSets, StopJoins, LoopFinishes, LoopExits,
         LoopFails, LoopReturns, LoopWaits, FailStream, FailNeutralizes, StartAuthorizes, StartRechecks,
         StartCreates, StartPrompts, StartAbandons, StartRaises, SendNext, PlaybackEnds, PlaybackStops,
         PromptStarted, Generates, Generated, ProducerExits, LinkOpens, AttachOutput, LinkLost, DetachOutput
  <2> QED
    BY <2>1, <2>2, <2>3, <2>4
<1>5. play' \in Playbacks \cup {None}
  <2>1. play' \in {play, None, "alive", "halted", "failed", "output_detached", "shutdown"}
    BY SubmitsAny DEF Next, Manager, Playback, Producer, Callers, Bridge, Submits, SubmitCue, Fail, StopStream,
         SubmitFails, SubmitNeutralizes, Halt, HaltNeutralizes, StopSets, StopJoins, LoopFinishes, LoopExits,
         LoopFails, LoopStarts, LoopReturns, LoopWaits, FailStream, FailNeutralizes, StartAuthorizes,
         StartRechecks, StartCreates, StartReconciles, StartPrompts, StartAbandons, StartRaises, SendNext,
         PlaybackEnds, PlaybackStops, PromptStarted, Generates, Generated, ProducerExits, LinkOpens,
         AttachOutput, LinkLost, DetachOutput
  <2> QED
    BY <1>0, <2>1 DEF Playbacks
<1> QED
  BY <1>1, <1>2, <1>3, <1>4, <1>5 DEF Objects

\* The threads keep to theirs.
LEMMA ThreadsStep ==
    ASSUME IInv, [Next]_vars
    PROVE  Threads'
<1> USE DEF vars, managerVars, callerVars, streamVars
<1>0. Threads /\ token \in Nat /\ lease \in Nat
  BY DEF IInv, Tokens
<1>1. NewFence \in Nat
  BY <1>0 DEF NewFence
<1>2. (sub \in [at : {"idle", "failing", "neutral"}, fence : Nat])'
  <2>1. \/ sub' = sub \/ sub' = [sub EXCEPT !.at = "failing"] \/ sub' = [sub EXCEPT !.at = "idle"]
        \/ sub' = [at |-> "neutral", fence |-> NewFence] \/ sub' = [at |-> "idle", fence |-> 0]
    BY SubmitsAny DEF Next, Manager, Playback, Producer, Callers, Bridge, Submits,
         SubmitCue, SubmitFails, SubmitNeutralizes, Halt, HaltNeutralizes, StopSets,
         StopJoins, LoopFinishes, LoopExits, LoopFails, LoopStarts, LoopReturns, LoopWaits,
         FailStream, FailNeutralizes, StartAuthorizes, StartRechecks, StartCreates,
         StartReconciles, StartPrompts, StartAbandons, StartRaises, SendNext, PlaybackEnds,
         PlaybackStops, PromptStarted, Generates, Generated, ProducerExits, LinkOpens,
         AttachOutput, LinkLost, DetachOutput
  <2> QED
    BY <1>0, <1>1, <2>1 DEF Threads
<1>3. (hal \in [at : {"idle", "neutral", "set", "join", "gone"}, fence : Nat, stop : BOOLEAN])'
  <2>1. CASE \E stop \in BOOLEAN : Halt(stop)
    <3>1. PICK stop \in BOOLEAN : Halt(stop)
      BY <2>1
    <3> DEFINE where == IF Fences THEN "neutral" ELSE IF stop THEN "set" ELSE "idle"
               n == IF Fences THEN NewFence ELSE 0
    <3>2. where \in {"idle", "neutral", "set"} /\ n \in Nat
      BY <1>1
    <3>3. hal' = [at |-> where, fence |-> n, stop |-> stop]
      BY <3>1 DEF Halt
    <3> HIDE DEF where, n
    <3> QED
      BY <3>2, <3>3
  <2>2. CASE HaltNeutralizes
    <3>1. PICK ok \in BOOLEAN :
            hal' = [at |-> IF hal.stop /\ ok THEN "set" ELSE "idle", fence |-> 0, stop |-> hal.stop]
      BY <2>2 DEF HaltNeutralizes
    <3>2. hal.stop \in BOOLEAN
      BY <1>0 DEF Threads
    <3> DEFINE where == IF hal.stop /\ ok THEN "set" ELSE "idle"
    <3>3. where \in {"idle", "set"} /\ hal' = [at |-> where, fence |-> 0, stop |-> hal.stop]
      BY <3>1
    <3> HIDE DEF where
    <3> QED
      BY <3>2, <3>3
  <2>3. CASE hal' = hal \/ hal' = [hal EXCEPT !.at = "join"] \/ hal' = [hal EXCEPT !.at = "gone"]
    BY <1>0, <2>3 DEF Threads
  <2>4. \/ \E stop \in BOOLEAN : Halt(stop)
        \/ HaltNeutralizes
        \/ hal' = hal \/ hal' = [hal EXCEPT !.at = "join"] \/ hal' = [hal EXCEPT !.at = "gone"]
    BY SubmitsAny DEF Next, Manager, Playback, Producer, Callers, Bridge, Submits,
         SubmitCue, SubmitFails, SubmitNeutralizes, StopSets, StopJoins, LoopFinishes,
         LoopExits, LoopFails, LoopStarts, LoopReturns, LoopWaits, FailStream,
         FailNeutralizes, StartAuthorizes, StartRechecks, StartCreates, StartReconciles,
         StartPrompts, StartAbandons, StartRaises, SendNext, PlaybackEnds, PlaybackStops,
         PromptStarted, Generates, Generated, ProducerExits, LinkOpens, AttachOutput,
         LinkLost, DetachOutput
  <2> QED
    BY <2>1, <2>2, <2>3, <2>4
<1>4. (pb \in {"none", "run", "event", "stop", "dead"})'
  <2>1. pb' \in {pb, "none", "run", "event", "stop", "dead"}
    BY SubmitsAny DEF Next, Manager, Playback, Producer, Callers, Bridge, Submits,
         SubmitCue, SubmitFails, SubmitNeutralizes, Halt, HaltNeutralizes, StopSets,
         StopJoins, LoopFinishes, LoopExits, LoopFails, LoopStarts, LoopReturns, LoopWaits,
         FailStream, FailNeutralizes, StartAuthorizes, StartRechecks, StartCreates,
         StartReconciles, StartPrompts, StartAbandons, StartRaises, SendNext, PlaybackEnds,
         PlaybackStops, PromptStarted, Generates, Generated, ProducerExits, LinkOpens,
         AttachOutput, LinkLost, DetachOutput
  <2> QED
    BY <1>0, <2>1 DEF Threads
<1>5. mgr' \in [at : {"loop", "locked", "gone", "fail", "neutral"} \cup Starting, fence : Nat]
  <2>1. \/ mgr' = mgr
        \/ \E where \in {"loop", "locked", "gone", "fail"} \cup Starting : mgr' = [mgr EXCEPT !.at = where]
        \/ mgr' = [at |-> "neutral", fence |-> NewFence] \/ mgr' = [at |-> "loop", fence |-> 0]
    BY SubmitsAny DEF Next, Manager, Playback, Producer, Callers, Bridge, Submits,
         SubmitCue, SubmitFails, SubmitNeutralizes, Halt, HaltNeutralizes, StopSets,
         StopJoins, LoopFinishes, LoopExits, LoopFails, LoopStarts, LoopReturns, LoopWaits,
         FailStream, FailNeutralizes, StartAuthorizes, StartRechecks, StartCreates,
         StartReconciles, StartPrompts, StartAbandons, StartRaises, SendNext, PlaybackEnds,
         PlaybackStops, PromptStarted, Generates, Generated, ProducerExits, LinkOpens,
         AttachOutput, LinkLost, DetachOutput, GiveUp, Starting
  <2> QED
    BY <1>0, <1>1, <2>1 DEF Threads, Starting
<1> QED
  BY <1>2, <1>3, <1>4, <1>5 DEF Threads, Starting

\* So do the director's own variables and those of the connection.
LEMMA ScalarsStep ==
    ASSUME IInv, [Next]_vars
    PROVE  Scalars' /\ Links'
<1> USE DEF vars, directorVars, streamVars, linkVars, historyVars
<1>0. Scalars /\ Links /\ Threads
  BY DEF IInv
<1>1. state' \in {state, "STOPPED", "WAITING_OUTPUT", "STARTING", "IDLE", "PREPARING_CUE", "CUE",
                  "RETURNING_IDLE", "STOPPING", "HALTED", "FAILED"}
  BY SubmitsAny DEF Next, Manager, Playback, Producer, Callers, Bridge, Submits,
         SubmitCue, SubmitFails, SubmitNeutralizes, Halt, HaltNeutralizes, StopSets,
         StopJoins, LoopFinishes, LoopExits, LoopFails, LoopStarts, LoopReturns, LoopWaits,
         FailStream, FailNeutralizes, StartAuthorizes, StartRechecks, StartCreates,
         StartReconciles, StartPrompts, StartAbandons, StartRaises, SendNext, PlaybackEnds,
         PlaybackStops, PromptStarted, Generates, Generated, ProducerExits, LinkOpens,
         AttachOutput, LinkLost, DetachOutput, Fail
<1>2. enabled' \in BOOLEAN /\ ending' \in BOOLEAN
  BY <1>0, SubmitsAny DEF Next, Manager, Playback, Producer, Callers, Bridge, Submits,
         SubmitCue, SubmitFails, SubmitNeutralizes, Halt, HaltNeutralizes, StopSets,
         StopJoins, LoopFinishes, LoopExits, LoopFails, LoopStarts, LoopReturns, LoopWaits,
         FailStream, FailNeutralizes, StartAuthorizes, StartRechecks, StartCreates,
         StartReconciles, StartPrompts, StartAbandons, StartRaises, SendNext, PlaybackEnds,
         PlaybackStops, PromptStarted, Generates, Generated, ProducerExits, LinkOpens,
         AttachOutput, LinkLost, DetachOutput, Fail, Scalars
<1>3. dark' \in BOOLEAN
  BY <1>0, SubmitsAny DEF Next, Manager, Playback, Producer, Callers, Bridge, Submits,
         SubmitCue, SubmitFails, SubmitNeutralizes, Halt, HaltNeutralizes, StopSets,
         StopJoins, LoopFinishes, LoopExits, LoopFails, LoopStarts, LoopReturns, LoopWaits,
         FailStream, FailNeutralizes, StartAuthorizes, StartRechecks, StartCreates,
         StartReconciles, StartPrompts, StartAbandons, StartRaises, SendNext, PlaybackEnds,
         PlaybackStops, PromptStarted, Generates, Generated, ProducerExits, LinkOpens,
         AttachOutput, LinkLost, DetachOutput, Fail, Scalars
<1>4. cues' \in {cues, cues + 1} /\ halts' \in {halts, halts + 1}
  BY SubmitsAny DEF Next, Manager, Playback, Producer, Callers, Bridge, Submits,
         SubmitCue, SubmitFails, SubmitNeutralizes, Halt, HaltNeutralizes, StopSets,
         StopJoins, LoopFinishes, LoopExits, LoopFails, LoopStarts, LoopReturns, LoopWaits,
         FailStream, FailNeutralizes, StartAuthorizes, StartRechecks, StartCreates,
         StartReconciles, StartPrompts, StartAbandons, StartRaises, SendNext, PlaybackEnds,
         PlaybackStops, PromptStarted, Generates, Generated, ProducerExits, LinkOpens,
         AttachOutput, LinkLost, DetachOutput, Fail, Scalars
<1>5. event' \in Nat
  <2>1. sess # None => sess.rev \in Nat /\ sess.playing \in Nat
    BY SessionIsSound DEF Sound, Sessions
  <2>2. CASE \E counts, clipEnds \in BOOLEAN : SendNext(counts, clipEnds)
    BY <1>0, <2>1, <2>2 DEF SendNext, IInv, Phases, Scalars
  <2>3. CASE event' \in {event, 0}
    BY <1>0, <2>3 DEF Scalars
  <2>4. (\E counts, clipEnds \in BOOLEAN : SendNext(counts, clipEnds)) \/ event' \in {event, 0}
    BY SubmitsAny DEF Next, Manager, Playback, Producer, Callers, Bridge, Submits,
         SubmitCue, SubmitFails, SubmitNeutralizes, Halt, HaltNeutralizes, StopSets,
         StopJoins, LoopFinishes, LoopExits, LoopFails, LoopStarts, LoopReturns, LoopWaits,
         FailStream, FailNeutralizes, StartAuthorizes, StartRechecks, StartCreates,
         StartReconciles, StartPrompts, StartAbandons, StartRaises, PlaybackEnds,
         PlaybackStops, PromptStarted, Generates, Generated, ProducerExits, LinkOpens,
         AttachOutput, LinkLost, DetachOutput
  <2> QED
    BY <2>2, <2>3, <2>4
<1>6. Links'
  <2>1. \/ LinkOpens \/ AttachOutput \/ LinkLost \/ DetachOutput
        \/ UNCHANGED <<link, sid, out>>
    BY SubmitsAny DEF Next, Manager, Playback, Producer, Callers, Bridge, Submits,
         SubmitCue, SubmitFails, SubmitNeutralizes, Halt, HaltNeutralizes, StopSets,
         StopJoins, LoopFinishes, LoopExits, LoopFails, LoopStarts, LoopReturns, LoopWaits,
         FailStream, FailNeutralizes, StartAuthorizes, StartRechecks, StartCreates,
         StartReconciles, StartPrompts, StartAbandons, StartRaises, SendNext, PlaybackEnds,
         PlaybackStops, PromptStarted, Generates, Generated, ProducerExits
  <2>2. CASE LinkOpens
    BY <1>0, <2>2, MotionAssumption DEF LinkOpens, Links
  <2>3. CASE AttachOutput
    BY <1>0, <2>3 DEF AttachOutput, Links
  <2>4. CASE LinkLost
    BY <1>0, <2>4 DEF LinkLost, Links
  <2>5. CASE DetachOutput
    BY <1>0, <2>5 DEF DetachOutput, Links
  <2>6. CASE UNCHANGED <<link, sid, out>>
    BY <1>0, <2>6 DEF Links
  <2> QED
    BY <2>1, <2>2, <2>3, <2>4, <2>5, <2>6
<1> QED
  BY <1>0, <1>1, <1>2, <1>3, <1>4, <1>5, <1>6 DEF Scalars

\* A stream is started under a newer token, and fenced once, under a newer one still.
LEMMA TokensStep ==
    ASSUME IInv, [Next]_vars
    PROVE  Tokens' /\ token' >= token
<1> USE DEF vars, directorVars
<1>0. /\ token \in Nat /\ lease \in Nat /\ lease <= token /\ fence \in Nat
      /\ fence # 0 => lease # 0 /\ fence > lease /\ fence = token
  BY DEF IInv, Tokens
<1>1. CASE LoopStarts
  BY <1>0, <1>1 DEF LoopStarts, Tokens
<1>2. CASE Fence /\ lease' = lease
  BY <1>0, <1>2 DEF Fence, Fences, NewFence, Tokens
<1>3. CASE lease' = 0 /\ fence' = 0 /\ token' = token
  BY <1>0, <1>3 DEF Tokens
<1>4. CASE UNCHANGED <<token, lease, fence>>
  BY <1>0, <1>4 DEF Tokens
<1>5. \/ LoopStarts
      \/ Fence /\ lease' = lease
      \/ lease' = 0 /\ fence' = 0 /\ token' = token
      \/ UNCHANGED <<token, lease, fence>>
  BY SubmitsAny DEF Next, Manager, Playback, Producer, Callers, Bridge, Submits,
         SubmitCue, SubmitFails, SubmitNeutralizes, Halt, HaltNeutralizes, StopSets,
         StopJoins, LoopFinishes, LoopExits, LoopFails, LoopReturns, LoopWaits, FailStream,
         FailNeutralizes, StartAuthorizes, StartRechecks, StartCreates, StartReconciles,
         StartPrompts, StartAbandons, StartRaises, SendNext, PlaybackEnds, PlaybackStops,
         PromptStarted, Generates, Generated, ProducerExits, LinkOpens, AttachOutput,
         LinkLost, DetachOutput, Fail, GiveUp
<1> QED
  BY <1>1, <1>2, <1>3, <1>4, <1>5

\* Who is where, and what there is then: kept by a step that neither begins nor
\* ends any of it.
LEMMA PhasesKept ==
    ASSUME Phases, play' = None <=> play = None, pb' = "none" <=> pb = "none",
           sess' = None <=> sess = None, start' = start, lease' = lease,
           \/ mgr'.at = mgr.at
           \/ /\ mgr.at \notin Starting /\ mgr'.at \notin Starting
              /\ mgr'.at = "locked" => play = None
           \/ /\ mgr.at \in {"authorize", "recheck", "create", "raise"}
              /\ mgr'.at \in {"authorize", "recheck", "create", "raise"}
           \/ /\ mgr.at \in {"reconcile", "prompt", "overtaken"}
              /\ mgr'.at \in {"reconcile", "prompt", "overtaken"}
    PROVE  Phases'
  BY DEF Phases, Starting

\* Every step keeps it.
LEMMA PhasesStep ==
    ASSUME IInv, [Next]_vars
    PROVE  Phases'
<1> USE DEF vars, directorVars, managerVars, streamVars, callerVars
<1>0. /\ Phases /\ Threads /\ Tokens
      /\ mgr \in [at : {"loop", "locked", "gone", "fail", "neutral"} \cup Starting, fence : Nat]
  BY DEF IInv, Threads, Starting
<1>1. \/ (sess' = None <=> sess = None) \/ SessionIsMade \/ SessionIsLeft
  BY SessionStep, MotionAssumption DEF Moves, Sound
<1>2. CASE ~Manager
  <2>1. UNCHANGED <<mgr, start, lease>>
    BY <1>2, SubmitsAny DEF Next, Playback, Producer, Callers, Bridge, Submits, SubmitCue,
         SubmitFails, SubmitNeutralizes, Halt, HaltNeutralizes, StopSets, StopJoins,
         SendNext, PlaybackEnds, PlaybackStops, PromptStarted, Generates, Generated,
         ProducerExits, LinkOpens, AttachOutput, LinkLost, DetachOutput
  <2>2. play' = None <=> play = None
    BY <1>2, MotionAssumption, SubmitsAny DEF Next, Manager, Playback, Producer, Callers,
         Bridge, Submits, SubmitCue, SubmitFails, SubmitNeutralizes, Halt, HaltNeutralizes,
         StopSets, StopJoins, SendNext, PlaybackEnds, PlaybackStops, PromptStarted,
         Generates, Generated, ProducerExits, LinkOpens, AttachOutput, LinkLost,
         DetachOutput, StopStream, Playbacks, Fail
  <2>3. pb' = "none" <=> pb = "none"
    BY <1>2, SubmitsAny DEF Next, Manager, Playback, Producer, Callers, Bridge, Submits,
         SubmitCue, SubmitFails, SubmitNeutralizes, Halt, HaltNeutralizes, StopSets,
         StopJoins, SendNext, PlaybackEnds, PlaybackStops, PromptStarted, Generates,
         Generated, ProducerExits, LinkOpens, AttachOutput, LinkLost, DetachOutput
  <2>4. ~SessionIsMade /\ ~SessionIsLeft
    BY <1>2 DEF SessionIsMade, SessionIsLeft, Manager
  <2> QED
    BY <1>0, <1>1, <2>1, <2>2, <2>3, <2>4, PhasesKept
<1>3. CASE LoopFinishes
  BY <1>0, <1>3 DEF LoopFinishes, Phases, Starting
<1>4. CASE LoopExits \/ LoopReturns \/ LoopFails \/ LoopWaits
  <2>1. /\ UNCHANGED <<start, lease, play, pb>>
        /\ mgr.at \in {"loop", "locked"} /\ mgr'.at \in {"loop", "gone", "fail"}
    BY <1>0, <1>4 DEF LoopExits, LoopReturns, LoopFails, LoopWaits, Goes, Turns
  <2>2. ~SessionIsMade /\ ~SessionIsLeft
    BY <1>0, <1>4 DEF SessionIsMade, SessionIsLeft, StartCreates, StartAbandons, LoopFinishes, LoopExits,
                      LoopReturns, LoopFails, LoopWaits, Goes, Turns
  <2> QED
    BY <1>0, <1>1, <2>1, <2>2, PhasesKept DEF Starting
<1>5. CASE LoopStarts
  <2>1. /\ play' = None /\ play = None /\ pb' = pb /\ sess' = sess /\ start' # None /\ lease' # 0
        /\ mgr'.at = "authorize" /\ mgr.at \in {"loop", "locked"}
    <3>1. start' \in Starts \cup {None} /\ start' = [out |-> out, kind |-> Prompt(cue), cue |-> CueId(cue)]
      BY <1>5, ObjectsStep DEF LoopStarts, Objects
    <3>2. Prompt(cue) \in Kinds \cup {"idle"} /\ CueId(cue) \in Nat /\ out \in Nat
      BY <1>5 DEF LoopStarts, IInv, Objects, Links, Prompt, CueId, Cues
    <3>3. start' \in Starts
      BY <3>1, <3>2 DEF Starts
    <3> QED
      BY <1>0, <1>5, <3>3, MotionAssumption DEF LoopStarts, Goes, Turns, Tokens
  <2> QED
    BY <1>0, <2>1 DEF Phases, Starting
<1>6. CASE FailStream \/ FailNeutralizes
  <2>1. /\ UNCHANGED <<start, lease, pb>>
        /\ mgr.at \in {"fail", "neutral"} /\ mgr'.at \in {"loop", "neutral"}
    BY <1>0, <1>6 DEF FailStream, FailNeutralizes
  <2>2. play' = None <=> play = None
    BY <1>6, MotionAssumption DEF FailStream, FailNeutralizes, Fail, Playbacks
  <2>3. ~SessionIsMade /\ ~SessionIsLeft
    BY <2>1 DEF SessionIsMade, SessionIsLeft, StartCreates, StartAbandons, LoopFinishes
  <2> QED
    BY <1>0, <1>1, <2>1, <2>2, <2>3, PhasesKept DEF Starting
<1>7. CASE StartAuthorizes
  <2>1. /\ UNCHANGED <<start, lease, play, pb, sess>> /\ mgr.at = "authorize"
        /\ mgr'.at \in {"recheck", "raise"}
    BY <1>0, <1>7 DEF StartAuthorizes
  <2> QED
    BY <1>0, <2>1, PhasesKept
<1>8. CASE StartRechecks
  <2>1. /\ play' = play /\ pb' = pb /\ sess' = sess /\ mgr.at = "recheck"
        /\ \/ UNCHANGED <<start, lease>> /\ mgr'.at = "create"
           \/ mgr'.at = "loop"
    BY <1>0, <1>8 DEF StartRechecks, GiveUp
  <2> QED
    BY <1>0, <2>1 DEF Phases, Starting
<1>9. CASE StartCreates
  <2>1. CASE SessionIsMade
    <3>1. sess' # None
      BY <2>1, MadeSession, MotionAssumption DEF Sound
    <3>2. mgr.at = "create" /\ mgr'.at \in {"reconcile", "raise"} /\ UNCHANGED <<start, lease, play, pb>>
      BY <1>0, <1>9 DEF StartCreates
    <3>3. mgr'.at = "reconcile"
      BY <1>0, <1>9, <2>1, <3>1 DEF StartCreates, SessionIsMade, Phases, Starting
    <3> QED
      BY <1>0, <3>1, <3>2, <3>3 DEF Phases, Starting
  <2>2. CASE ~SessionIsMade
    <3>1. /\ UNCHANGED <<start, lease, play, pb, sess>> /\ mgr.at = "create" /\ mgr'.at = "raise"
      BY <1>0, <1>9, <2>2 DEF StartCreates, SessionIsMade
    <3> QED
      BY <1>0, <3>1, PhasesKept
  <2> QED
    BY <2>1, <2>2
<1>10. CASE StartReconciles
  <2>1. sess # None /\ sess' # None /\ play = None /\ pb = "none" /\ start # None /\ lease # 0 /\ lease' = lease
    <3>1. ~SessionIsMade /\ ~SessionIsLeft
      BY <1>0, <1>10 DEF StartReconciles, SessionIsMade, SessionIsLeft, StartCreates, StartAbandons, LoopFinishes
    <3> QED
      BY <1>0, <1>1, <1>10, <3>1 DEF StartReconciles, Phases, Starting
  <2>2. \/ play' = "alive" /\ pb' = "run" /\ mgr'.at = "loop"
        \/ play' = play /\ pb' = pb /\ start' # None /\ mgr'.at \in {"prompt", "overtaken"}
    <3>1. start' \in Starts \cup {None}
      BY ObjectsStep DEF Objects
    <3>2. start \in Starts
      BY <2>1 DEF IInv, Objects
    <3>3. [start EXCEPT !.kind = Prompt(cue), !.cue = CueId(cue)] # None
      <4>1. Prompt(cue) \in Kinds \cup {"idle"} /\ CueId(cue) \in Nat
        BY DEF IInv, Objects, Prompt, CueId, Cues
      <4>2. [start EXCEPT !.kind = Prompt(cue), !.cue = CueId(cue)] \in Starts
        BY <3>2, <4>1 DEF Starts
      <4> QED
        BY <4>2, MotionAssumption
    <3> QED
      BY <1>0, <1>10, <2>1, <3>3 DEF StartReconciles
  <2> QED
    BY <1>0, <2>1, <2>2, MotionAssumption DEF Phases, Starting, Playbacks
<1>11. CASE StartPrompts
  <2>1. /\ UNCHANGED <<start, lease, play, pb>> /\ mgr.at = "prompt" /\ mgr'.at = "reconcile"
    BY <1>0, <1>11 DEF StartPrompts
  <2>2. ~SessionIsMade /\ ~SessionIsLeft
    BY <2>1 DEF SessionIsMade, SessionIsLeft, StartCreates, StartAbandons, LoopFinishes
  <2> QED
    BY <1>0, <1>1, <2>1, <2>2, PhasesKept
<1>12. CASE StartAbandons \/ StartRaises
  <2>1. /\ play' = play /\ pb' = pb /\ mgr'.at = "loop" /\ mgr.at \in {"overtaken", "raise"}
        /\ (mgr.at = "overtaken" => sess' = None) /\ (mgr.at = "raise" => sess' = sess)
    BY <1>0, <1>12 DEF StartAbandons, StartRaises, GiveUp
  <2> QED
    BY <1>0, <2>1 DEF Phases, Starting
<1> QED
  BY <1>2, <1>3, <1>4, <1>5, <1>6, <1>7, <1>8, <1>9, <1>10, <1>11, <1>12 DEF Manager

\* The model passes from one producer to the next only over its end.
LEMMA OneModelStep ==
    ASSUME IInv, [Next]_vars
    PROVE  OneModel' /\ (gen # None /\ gen' # None => gen'.stream = gen.stream)
<1> USE DEF vars, streamVars
<1>0. OneModel /\ Phases /\ gen \in Producers \cup {None}
  BY DEF IInv, Objects
<1>1. \/ gen' \in {gen, None}
      \/ gen # None /\ \E r \in Nat : gen' = [gen EXCEPT !.rev = r]
      \/ SessionIsMade
  <2>1. CASE Generates
    <3>1. sess.rev \in Nat
      BY <2>1, SessionIsSound DEF Generates, Sound, Sessions
    <3> QED
      BY <2>1, <3>1 DEF Generates
  <2>2. CASE Generated
    BY <2>2 DEF Generated
  <2>3. CASE ~Generates /\ ~Generated
    BY <2>3, SubmitsAny DEF Next, Manager, Playback, Producer, Callers, Bridge, Submits,
         SubmitCue, SubmitFails, SubmitNeutralizes, Halt, HaltNeutralizes, StopSets,
         StopJoins, LoopFinishes, LoopExits, LoopFails, LoopStarts, LoopReturns, LoopWaits,
         FailStream, FailNeutralizes, StartAuthorizes, StartRechecks, StartCreates,
         StartReconciles, StartPrompts, StartAbandons, StartRaises, SendNext, PlaybackEnds,
         PlaybackStops, PromptStarted, ProducerExits, LinkOpens, AttachOutput, LinkLost,
         DetachOutput, SessionIsMade
  <2> QED
    BY <2>1, <2>2, <2>3
<1>2. pb' = "dead" => pb = "dead" \/ (gen = None /\ gen' = gen)
  BY SubmitsAny DEF Next, Manager, Playback, Producer, Callers, Bridge, Submits, SubmitCue,
       SubmitFails, SubmitNeutralizes, Halt, HaltNeutralizes, StopSets, StopJoins,
       LoopFinishes, LoopExits, LoopFails, LoopStarts, LoopReturns, LoopWaits, FailStream,
       FailNeutralizes, StartAuthorizes, StartRechecks, StartCreates, StartReconciles,
       StartPrompts, StartAbandons, StartRaises, SendNext, PlaybackEnds, PlaybackStops,
       PromptStarted, Generates, Generated, ProducerExits, LinkOpens, AttachOutput,
       LinkLost, DetachOutput, JoinsProducer
<1>3. CASE SessionIsMade
  <2>1. sess' # None /\ sess'.stream = lease /\ gen'.stream = lease
    BY <1>3, MadeSession, MotionAssumption DEF Sound, SessionIsMade
  <2>2. pb' # "dead" /\ sess = None
    BY <1>0, <1>3 DEF SessionIsMade, StartCreates, Phases, Starting
  <2>3. gen = None
    BY <1>0, <2>2 DEF OneModel, ModelHasOneUser
  <2> QED
    BY <2>1, <2>2, <2>3 DEF OneModel, ModelHasOneUser
<1>4. CASE ~SessionIsMade
  <2>1. gen = None => gen' = None
    BY <1>1, <1>4
  <2>2. gen' # None => gen # None /\ gen'.stream = gen.stream
    BY <1>0, <1>1, <1>4 DEF Producers
  <2>3. CASE SessionIsLeft
    <3>1. gen = None
      BY <1>0, <2>3 DEF SessionIsLeft, LoopFinishes, Ended, StartAbandons, OneModel
    <3> QED
      BY <2>1, <3>1 DEF OneModel, ModelHasOneUser
  <2>4. CASE ~SessionIsLeft
    <3>1. sess' = sess \/ (sess # None /\ sess' # None /\ sess'.stream = sess.stream)
      BY <1>4, <2>4, SessionStep, MotionAssumption DEF Moves, Sound
    <3>2. ModelHasOneUser'
      BY <1>0, <2>2, <3>1 DEF OneModel, ModelHasOneUser
    <3>3. pb' = "dead" => gen' = None
      BY <1>0, <1>2, <2>1 DEF OneModel
    <3> QED
      BY <2>2, <3>2, <3>3 DEF OneModel
  <2> QED
    BY <2>3, <2>4
<1> QED
  BY <1>3, <1>4

\* What is asked of the device, or sent to it, leaves it a device, and only a pose
\* of the owner lights it.
LEMMA DeviceKept ==
    ASSUME Devices, Tokens, NEW n \in Nat,
           \/ \E ok \in BOOLEAN : Authorize(n, ok) \/ Neutralize(n, ok)
           \/ SendPose(lease)
           \/ dev' = NewDevice
    PROVE  /\ dev' \in [high : Nat, owner : Nat, shown : Nat]
           /\ dev'.owner <= dev'.high /\ dev'.shown <= token
           /\ dev'.shown \in {0, dev.shown} \/ SendPose(lease)
<1>0. /\ dev \in [high : Nat, owner : Nat, shown : Nat] /\ dev.owner <= dev.high
      /\ dev.shown <= token /\ lease \in Nat /\ lease <= token /\ token \in Nat
  BY DEF Devices, Tokens
<1>1. CASE \/ dev' = [dev EXCEPT !.high = n, !.owner = n] \/ dev' = [dev EXCEPT !.high = n, !.owner = 0, !.shown = 0]
           \/ dev' = dev \/ dev' = [high |-> 0, owner |-> 0, shown |-> 0]
  <2>1. CASE dev' = [dev EXCEPT !.high = n, !.owner = n]
    <3>1. dev'.high = n /\ dev'.owner = n /\ dev'.shown = dev.shown
      BY <1>0, <2>1
    <3>2. dev' \in [high : Nat, owner : Nat, shown : Nat]
      BY <1>0, <2>1
    <3> QED
      BY <1>0, <3>1, <3>2
  <2>2. CASE dev' = [dev EXCEPT !.high = n, !.owner = 0, !.shown = 0]
    <3>1. dev'.high = n /\ dev'.owner = 0 /\ dev'.shown = 0
      BY <1>0, <2>2
    <3>2. dev' \in [high : Nat, owner : Nat, shown : Nat]
      BY <1>0, <2>2
    <3> QED
      BY <1>0, <3>1, <3>2
  <2>3. CASE dev' = dev
    BY <1>0, <2>3
  <2>4. CASE dev' = [high |-> 0, owner |-> 0, shown |-> 0]
    BY <1>0, <2>4
  <2> QED
    BY <1>1, <2>1, <2>2, <2>3, <2>4
<1>2. CASE SendPose(lease)
  <2>1. dev' = dev \/ dev' = [dev EXCEPT !.shown = lease]
    BY <1>2 DEF SendPose
  <2> QED
    BY <1>0, <1>2, <2>1
<1> QED
  BY <1>1, <1>2 DEF Authorize, Authorized, Neutralize, Neutralized, NewDevice

\* Every change of the device is one of these.
LEMMA DevicesStep ==
    ASSUME IInv, [Next]_vars
    PROVE  /\ Devices'
           /\ \/ dev' = dev
              \/ dev'.shown \in {0, dev.shown}
              \/ \E counts, clipEnds \in BOOLEAN : SendNext(counts, clipEnds)
<1> USE DEF vars
<1>0. /\ Devices /\ Tokens /\ lease \in Nat /\ token \in Nat /\ token' \in Nat /\ token' >= token
      /\ mgr.fence \in Nat /\ sub.fence \in Nat /\ hal.fence \in Nat
  BY TokensStep DEF IInv, Tokens, Threads
<1>1. CASE \E n \in Nat : \/ \E ok \in BOOLEAN : Authorize(n, ok) \/ Neutralize(n, ok)
                          \/ dev' = NewDevice
  <2>1. PICK n \in Nat : \/ \E ok \in BOOLEAN : Authorize(n, ok) \/ Neutralize(n, ok)
                        \/ dev' = NewDevice
    BY <1>1
  <2>2. dev' = dev \/ dev'.shown \in {0, dev.shown}
    <3>1. \/ dev' = dev \/ dev' = [dev EXCEPT !.high = n, !.owner = n]
          \/ dev' = [dev EXCEPT !.high = n, !.owner = 0, !.shown = 0]
          \/ dev' = [high |-> 0, owner |-> 0, shown |-> 0]
      BY <2>1 DEF Authorize, Authorized, Neutralize, Neutralized, NewDevice
    <3>2. dev \in [high : Nat, owner : Nat, shown : Nat]
      BY <1>0 DEF Devices
    <3>3. CASE dev' = [dev EXCEPT !.high = n, !.owner = n]
      BY <3>2, <3>3
    <3>4. CASE dev' = [dev EXCEPT !.high = n, !.owner = 0, !.shown = 0]
      BY <3>2, <3>4
    <3> QED
      BY <3>1, <3>3, <3>4
  <2>3. /\ dev' \in [high : Nat, owner : Nat, shown : Nat]
        /\ dev'.owner <= dev'.high /\ dev'.shown <= token
    BY <1>0, <2>1, DeviceKept
  <2>4. Devices'
    BY <1>0, <2>3 DEF Devices
  <2> QED
    BY <2>2, <2>4
<1>2. CASE \E counts, clipEnds \in BOOLEAN : SendNext(counts, clipEnds)
  <2>1. SendPose(lease)
    BY <1>2 DEF SendNext
  <2>2. /\ dev' \in [high : Nat, owner : Nat, shown : Nat]
        /\ dev'.owner <= dev'.high /\ dev'.shown <= token
    BY <1>0, <2>1, DeviceKept
  <2> QED
    BY <1>0, <1>2, <2>2 DEF Devices
<1>3. CASE dev' = dev
  BY <1>0, <1>3 DEF Devices
<1>4. \/ \E n \in Nat : \/ \E ok \in BOOLEAN : Authorize(n, ok) \/ Neutralize(n, ok)
                       \/ dev' = NewDevice
      \/ \E counts, clipEnds \in BOOLEAN : SendNext(counts, clipEnds)
      \/ dev' = dev
  BY <1>0, SubmitsAny DEF Next, Manager, Playback, Producer, Callers, Bridge, Submits,
       SubmitCue, SubmitFails, SubmitNeutralizes, Halt, HaltNeutralizes, StopSets,
       StopJoins, LoopFinishes, LoopExits, LoopFails, LoopStarts, LoopReturns, LoopWaits,
       FailStream, FailNeutralizes, StartAuthorizes, StartRechecks, StartCreates,
       StartReconciles, StartPrompts, StartAbandons, StartRaises, PlaybackEnds,
       PlaybackStops, PromptStarted, Generates, Generated, ProducerExits, LinkOpens,
       AttachOutput, LinkLost, DetachOutput
<1> QED
  BY <1>1, <1>2, <1>3, <1>4

\* Whoever disables the director has stopped the stream before it says so; and a
\* device that was darkened since stays dark, for only a stream lights it.
LEMMA SilenceStep ==
    ASSUME IInv, [Next]_vars
    PROVE  Silence'
<1> USE DEF vars, directorVars, streamVars, historyVars
<1>0. Silence /\ Phases /\ enabled \in BOOLEAN /\ dark \in BOOLEAN
  BY DEF IInv, Scalars
<1>1. ~enabled' /\ play' # None => sess'.stopped
  <2>1. CASE SubmitFails \/ FailStream \/ \E stop \in BOOLEAN : Halt(stop)
    <3>1. play' # None => play # None /\ sess' = Stopped(sess)
      BY <2>1, MotionAssumption DEF SubmitFails, FailStream, Fail, Halt, StopStream, Playbacks
    <3> QED
      BY <1>0, <3>1, SessionIsSound, StopMoves DEF Phases
  <2>2. CASE Submits \/ LoopFinishes \/ StartRaises
    BY <1>0, <2>2 DEF Submits, SubmitCue, LoopFinishes, StartRaises, Phases, Starting
  <2>3. CASE StartReconciles
    <3>1. enabled' = enabled /\ play = None /\ (play' # None => enabled)
      BY <1>0, <2>3 DEF StartReconciles, StillCurrent, Phases, Starting
    <3> QED
      BY <3>1
  <2>4. CASE enabled' = enabled /\ (play' # None => play # None)
    <3>1. play # None => sess # None /\ (play' # None => ~SessionIsLeft)
      BY <1>0 DEF Phases, SessionIsLeft, LoopFinishes, StartAbandons, Starting
    <3>2. play # None => ~SessionIsMade
      BY <1>0 DEF Phases, SessionIsMade, StartCreates, Starting
    <3>3. play # None /\ play' # None => sess' = sess \/ Moves(sess, sess')
      BY <3>1, <3>2, SessionStep
    <3> QED
      BY <1>0, <2>4, <3>1, <3>3 DEF Silence, Moves
  <2>5. \/ SubmitFails \/ FailStream \/ \E stop \in BOOLEAN : Halt(stop)
        \/ Submits \/ LoopFinishes \/ StartRaises \/ StartReconciles
        \/ enabled' = enabled /\ (play' # None => play # None)
    BY <1>0, MotionAssumption, SubmitsAny DEF Next, Manager, Playback, Producer, Callers,
         Bridge, SubmitNeutralizes, HaltNeutralizes, StopSets, StopJoins, LoopExits,
         LoopFails, LoopStarts, LoopReturns, LoopWaits, FailNeutralizes, StartAuthorizes,
         StartRechecks, StartCreates, StartPrompts, StartAbandons, SendNext, PlaybackEnds,
         PlaybackStops, PromptStarted, Generates, Generated, ProducerExits, LinkOpens,
         AttachOutput, LinkLost, DetachOutput, StopStream, Playbacks
  <2> QED
    BY <2>1, <2>2, <2>3, <2>4, <2>5
<1>2. dark' => ~enabled' /\ dev'.shown = 0
  <2>1. CASE Submits
    BY <2>1 DEF Submits, SubmitCue
  <2>2. CASE HaltNeutralizes
    <3>1. PICK ok \in BOOLEAN : Neutralize(hal.fence, ok) /\ dark' = (dark \/ (ok /\ ~enabled))
      BY <2>2 DEF HaltNeutralizes
    <3>2. enabled' = enabled
      BY <2>2 DEF HaltNeutralizes
    <3>3. ok => dev'.shown = 0
      BY <3>1 DEF Neutralize, Neutralized, IInv, Devices
    <3>4. dev' = dev \/ dev'.shown = 0
      BY <3>1 DEF Neutralize, Neutralized, IInv, Devices
    <3> QED
      BY <1>0, <3>1, <3>2, <3>3, <3>4 DEF Silence
  <2>3. CASE dark' = dark /\ (enabled' => enabled)
    <3>1. dark => ~\E counts, clipEnds \in BOOLEAN : SendNext(counts, clipEnds)
      BY <1>0 DEF Silence, SendNext, Phases
    <3> QED
      BY <1>0, <2>3, <3>1, DevicesStep DEF Silence
  <2>4. Submits \/ HaltNeutralizes \/ (dark' = dark /\ (enabled' => enabled))
    BY <1>0, SubmitsAny DEF Next, Manager, Playback, Producer, Callers, Bridge, SubmitFails,
         SubmitNeutralizes, Halt, StopSets, StopJoins, LoopFinishes, LoopExits, LoopFails,
         LoopStarts, LoopReturns, LoopWaits, FailStream, FailNeutralizes, StartAuthorizes,
         StartRechecks, StartCreates, StartReconciles, StartPrompts, StartAbandons,
         StartRaises, SendNext, PlaybackEnds, PlaybackStops, PromptStarted, Generates,
         Generated, ProducerExits, LinkOpens, AttachOutput, LinkLost, DetachOutput, Fail
  <2> QED
    BY <2>1, <2>2, <2>3, <2>4
<1> QED
  BY <1>1, <1>2 DEF Silence

\* A session that a playback has stays until it is over, and only moves.
LEMMA SessionOfPlayback ==
    ASSUME IInv, [Next]_vars, play # None, play' # None
    PROVE  sess # None /\ sess' # None /\ (sess' = sess \/ Moves(sess, sess'))
<1>1. ~SessionIsMade /\ ~SessionIsLeft /\ sess # None
  BY DEF IInv, Phases, SessionIsMade, SessionIsLeft, StartCreates, StartAbandons, LoopFinishes, Starting
<1>2. sess' = sess \/ Moves(sess, sess')
  BY <1>1, SessionStep
<1> QED
  BY <1>1, <1>2, MotionAssumption DEF Moves, Sound

\* What was played is what was asked for, and the cue knows it.
LEMMA RevisionsStep ==
    ASSUME IInv, [Next]_vars
    PROVE  Revisions'
<1> USE DEF vars, directorVars, streamVars
<1>0. /\ Revisions /\ Phases /\ cue \in Cues \cup {None} /\ event \in Nat
      /\ sess # None => sess \in Sessions /\ sess.rev \in Nat /\ sess.playing \in Nat
  BY SessionIsSound DEF IInv, Objects, Sound, Sessions, Scalars
<1>1. sess' # None => sess'.rev > 0 /\ sess'.playing <= sess'.rev
  <2>1. CASE sess # None /\ Moves(sess, sess')
    BY <2>1 DEF Moves, Sound
  <2>2. CASE SessionIsMade
    BY <2>2, MadeSession DEF Sound
  <2>3. CASE SessionIsLeft
    BY <2>3 DEF SessionIsLeft, LoopFinishes, StartAbandons
  <2>4. CASE sess' = sess
    BY <1>0, <2>4 DEF Revisions
  <2> QED
    BY <2>1, <2>2, <2>3, <2>4, SessionStep
<1>2. pb' = "event" => event' > 0 /\ event' <= sess'.playing
  <2>1. CASE \E counts, clipEnds \in BOOLEAN : SendNext(counts, clipEnds)
    <3>1. PICK counts \in BOOLEAN, clipEnds \in BOOLEAN : SendNext(counts, clipEnds)
      BY <2>1
    <3>2. sess # None /\ pb = "run"
      BY <1>0, <3>1 DEF SendNext, Phases
    <3> DEFINE seen == IF counts THEN sess.rev ELSE sess.playing
               done == sess.done \/ clipEnds
    <3>3. PICK more \in {FALSE, sess.buffered} :
            sess' = [sess EXCEPT !.playing = seen, !.done = done, !.buffered = more]
      BY <3>1 DEF SendNext
    <3>4. pb' = "event" => event' = seen /\ seen = sess.rev
      BY <3>1, <3>2 DEF SendNext
    <3>5. seen \in {sess.rev, sess.playing} /\ done \in BOOLEAN
      OBVIOUS
    <3>6. more \in BOOLEAN
      BY <1>0, <3>2 DEF Sessions
    <3> HIDE DEF seen, done
    <3>8. Sound(sess)
      BY <3>2, SessionIsSound
    <3>9. [sess EXCEPT !.playing = seen, !.done = done, !.buffered = more].playing = seen
      BY <3>5, <3>6, <3>8, SentMoves
    <3>7. sess'.playing = seen
      BY <3>3, <3>9
    <3> QED
      BY <1>0, <3>2, <3>4, <3>7 DEF Revisions
  <2>2. CASE pb' = pb /\ event' = event
    <3>1. CASE pb = "event"
      <4>1. play # None /\ play' # None
        BY <1>0, <2>2, <3>1, PhasesStep DEF Phases
      <4>2. sess'.playing \in Nat /\ sess'.playing >= sess.playing
        BY <1>0, <4>1, SessionOfPlayback DEF Moves, Sound, Sessions
      <4>3. sess # None
        BY <1>0, <4>1 DEF Phases
      <4> QED
        BY <1>0, <2>2, <3>1, <4>2, <4>3 DEF Revisions
    <3> QED
      BY <2>2, <3>1
  <2>3. CASE pb' # "event"
    BY <2>3
  <2>4. \/ \E counts, clipEnds \in BOOLEAN : SendNext(counts, clipEnds)
        \/ pb' = pb /\ event' = event
        \/ pb' # "event"
    BY SubmitsAny DEF Next, Manager, Playback, Producer, Callers, Bridge, Submits,
         SubmitCue, SubmitFails, SubmitNeutralizes, Halt, HaltNeutralizes, StopSets,
         StopJoins, LoopFinishes, LoopExits, LoopFails, LoopStarts, LoopReturns, LoopWaits,
         FailStream, FailNeutralizes, StartAuthorizes, StartRechecks, StartCreates,
         StartReconciles, StartPrompts, StartAbandons, StartRaises, PlaybackEnds,
         PlaybackStops, PromptStarted, Generates, Generated, ProducerExits, LinkOpens,
         AttachOutput, LinkLost, DetachOutput
  <2> QED
    BY <2>1, <2>2, <2>3, <2>4
<1> DEFINE Known(c, s, p) ==
      /\ c.phase # "PREPARING" => c.rev # 0
      /\ c.idleRev # 0 <=> c.phase = "RETURNING_IDLE"
      /\ c.phase # "PREPARING" /\ p # None => c.rev <= s.playing
<1>3. cue' # None => Known(cue', sess', play')
  <2>1. CASE Submits
    <3>1. PICK k \in Kinds : SubmitCue(k)
      BY <2>1 DEF Submits
    <3> DEFINE c == NewCue(cues + 1, k)
    <3>2. c \in Cues /\ c.phase = "PREPARING" /\ c.idleRev = 0
      BY CueMade DEF IInv, Scalars
    <3>3. cue' = c \/ (play # None /\ cue' = BindRevision(c, sess.rev + 1))
      BY <3>1 DEF SubmitCue, Steerable
    <3>4. play # None => sess.rev + 1 \in Nat
      BY <1>0 DEF Phases
    <3> HIDE DEF c
    <3>5. cue'.phase = "PREPARING" /\ cue'.idleRev = 0
      BY <3>2, <3>3, <3>4, CueKept
    <3> QED
      BY <3>5
  <2>2. CASE LoopReturns
    <3>1. cue \in Cues /\ cue # None /\ cue.phase = "PLAYING" /\ sess # None /\ play # None /\ play' = play
      BY <1>0, <2>2 DEF LoopReturns, CueIsOver, CueExpires, CanReturn, Phases
    <3> DEFINE n == sess.rev + 1
    <3>2. n \in Nat /\ n # 0
      BY <1>0, <3>1
    <3>3. cue' = [cue EXCEPT !.phase = "RETURNING_IDLE", !.idleRev = n]
      BY <2>2 DEF LoopReturns
    <3> HIDE DEF n
    <3>4. cue'.phase = "RETURNING_IDLE" /\ cue'.idleRev = n /\ cue'.rev = cue.rev /\ cue.rev \in Nat
      BY <3>1, <3>3 DEF Cues
    <3>5. cue.rev # 0 /\ cue.rev <= sess.playing
      BY <1>0, <3>1 DEF Revisions
    <3>6. sess'.playing \in Nat /\ sess'.playing >= sess.playing
      BY <1>0, <3>1, SessionOfPlayback DEF Moves, Sound, Sessions
    <3> QED
      BY <1>0, <3>1, <3>2, <3>4, <3>5, <3>6
  <2>3. CASE StartReconciles /\ play' # play
    <3>1. cue' = None \/ (cue # None /\ cue' = BindRevision(cue, sess.rev))
      BY <2>3 DEF StartReconciles
    <3>2. sess.rev \in Nat
      BY <1>0, <2>3 DEF StartReconciles, Phases
    <3>3. cue' # None => cue'.phase = "PREPARING" /\ cue'.idleRev = 0
      BY <1>0, <3>1, <3>2, CueKept
    <3> QED
      BY <3>3
  <2>4. CASE PromptStarted
    <3>1. pb = "event" /\ play # None /\ sess # None /\ sess' = sess /\ play' = play
      BY <1>0, <2>4 DEF PromptStarted, Phases
    <3>2. CASE cue' = [cue EXCEPT !.phase = "PLAYING"] /\ CueStarted(cue, event)
      <4>1. /\ cue \in Cues /\ cue # None /\ cue.phase = "PREPARING" /\ cue.rev = event
        BY <1>0, <3>2 DEF CueStarted
      <4>2. cue'.phase = "PLAYING" /\ cue'.rev = cue.rev /\ cue'.idleRev = cue.idleRev
        BY <3>2, <4>1 DEF Cues
      <4>3. cue.idleRev = 0 /\ event # 0 /\ event <= sess.playing
        BY <1>0, <3>1, <4>1 DEF Revisions
      <4> QED
        BY <3>1, <4>1, <4>2, <4>3
    <3>3. CASE cue' = None
      BY <3>3
    <3>4. CASE cue' = cue
      BY <1>0, <3>1, <3>4 DEF Revisions
    <3> QED
      BY <2>4, <3>2, <3>3, <3>4 DEF PromptStarted
  <2>5. CASE cue' = cue /\ (play' # None => play # None)
    <3>1. CASE cue # None /\ cue.phase # "PREPARING" /\ play' # None
      <4>1. cue.rev \in Nat /\ cue.rev <= sess.playing /\ sess.playing \in Nat /\ cue.rev # 0
            /\ (cue.idleRev # 0 <=> cue.phase = "RETURNING_IDLE")
        BY <1>0, <2>5, <3>1 DEF Revisions, Phases, Cues
      <4>2. sess'.playing \in Nat /\ sess'.playing >= sess.playing
        BY <1>0, <2>5, <3>1, SessionOfPlayback DEF Moves, Sound, Sessions
      <4> QED
        BY <2>5, <4>1, <4>2
    <3> QED
      BY <1>0, <2>5, <3>1 DEF Revisions
  <2>6. CASE cue' = None
    BY <2>6
  <2>7. \/ Submits \/ LoopReturns \/ PromptStarted \/ cue' = None
        \/ StartReconciles /\ play' # play
        \/ cue' = cue /\ (play' # None => play # None)
    <3>1. CASE StartReconciles
      BY <1>0, <3>1, MotionAssumption DEF StartReconciles, Phases, Starting, Playbacks
    <3>2. CASE ~StartReconciles
      <4>1. play' # None => play # None
        BY <3>2, MotionAssumption, SubmitsAny DEF Next, Manager, Playback, Producer,
             Callers, Bridge, Submits, SubmitCue, SubmitFails, SubmitNeutralizes, Halt,
             HaltNeutralizes, StopSets, StopJoins, LoopFinishes, LoopExits, LoopFails,
             LoopStarts, LoopReturns, LoopWaits, FailStream, FailNeutralizes,
             StartAuthorizes, StartRechecks, StartCreates, StartPrompts, StartAbandons,
             StartRaises, SendNext, PlaybackEnds, PlaybackStops, PromptStarted, Generates,
             Generated, ProducerExits, LinkOpens, AttachOutput, LinkLost, DetachOutput,
             Fail, StopStream, Playbacks
      <4>2. Submits \/ LoopReturns \/ PromptStarted \/ cue' \in {cue, None}
        BY <3>2, SubmitsAny DEF Next, Manager, Playback, Producer, Callers, Bridge,
             SubmitFails, SubmitNeutralizes, Halt, HaltNeutralizes, StopSets, StopJoins,
             LoopFinishes, LoopExits, LoopFails, LoopStarts, LoopWaits, FailStream,
             FailNeutralizes, StartAuthorizes, StartRechecks, StartCreates, StartPrompts,
             StartAbandons, StartRaises, SendNext, PlaybackEnds, PlaybackStops, Generates,
             Generated, ProducerExits, LinkOpens, AttachOutput, LinkLost, DetachOutput, Fail
      <4> QED
        BY <4>1, <4>2
    <3> QED
      BY <3>1, <3>2
  <2> QED
    BY <2>1, <2>2, <2>3, <2>4, <2>5, <2>6, <2>7
<1> QED
  BY <1>1, <1>2, <1>3 DEF Revisions

----------------------------------------------------------------------------
(***************************************************************************)
(* The theorems.                                                           *)
(***************************************************************************)
\* The invariant is true of a director that is made, and every step keeps it.
LEMMA InvHolds == Spec => []IInv
<1>1. Init => IInv
  <2> SUFFICES ASSUME Init PROVE IInv
    OBVIOUS
  <2> USE DEF Init
  <2>1. Objects
    BY DEF Objects
  <2>2. Threads
    BY DEF Threads
  <2>3. Scalars
    BY DEF Scalars
  <2>6. MaxSessions \in Nat
    BY MotionAssumption
  <2>7. Links
    BY <2>6 DEF Links
  <2>4. Tokens /\ Devices
    BY DEF Tokens, Devices, NewDevice
  <2>5. Phases /\ OneModel /\ Silence /\ Revisions
    BY DEF Phases, OneModel, ModelHasOneUser, Silence, Revisions, Starting
  <2> QED
    BY <2>1, <2>2, <2>3, <2>4, <2>5, <2>7 DEF IInv
<1>2. IInv /\ [Next]_vars => IInv'
  <2> SUFFICES ASSUME IInv, [Next]_vars PROVE IInv'
    OBVIOUS
  <2> QED
    BY ObjectsStep, ThreadsStep, ScalarsStep, TokensStep, PhasesStep, OneModelStep, SilenceStep,
       RevisionsStep, DevicesStep DEF IInv
<1> QED
  BY <1>1, <1>2, PTL DEF Spec

\* The director's variables keep to their ranges; a fence is newer than the lease it
\* fences, and a cue counts as started only once a frame of its own prompt was sent.
THEOREM TypeCorrect == Spec => []TypeOK
<1>1. IInv => TypeOK
  <2> SUFFICES ASSUME IInv PROVE TypeOK
    OBVIOUS
  <2>1. /\ lease \in 0..token /\ play \in Playbacks \cup {None}
        /\ fence # 0 => lease # 0 /\ fence > lease /\ fence = token
        /\ out \in {None} \cup 1..MaxSessions
    BY DEF IInv, Tokens, Objects, Links
  <2>2. /\ mgr.at \in {"loop", "locked", "gone", "fail", "neutral", "authorize", "recheck",
                       "create", "reconcile", "prompt", "overtaken", "raise"}
        /\ pb \in {"none", "run", "event", "stop", "dead"}
        /\ play # None => sess # None /\ lease # 0 /\ pb # "none"
    BY DEF IInv, Threads, Phases
  <2>3. cue # None =>
         /\ cue.phase \in {"PREPARING", "PLAYING", "RETURNING_IDLE"}
         /\ cue.phase # "PREPARING" => cue.rev # 0
         /\ cue.idleRev # 0 <=> cue.phase = "RETURNING_IDLE"
         /\ cue.phase # "PREPARING" /\ play # None => cue.rev <= sess.playing
    BY DEF IInv, Objects, Cues, Revisions
  <2>4. dev.owner \in 0..dev.high /\ dev.shown \in 0..token
    BY DEF IInv, Devices, Tokens
  <2> QED
    BY <2>1, <2>2, <2>3, <2>4 DEF TypeOK, IInv, Scalars
<1> QED
  BY <1>1, InvHolds, PTL

\* After a halt, a failure or a stop no stream sends poses, and a device that was
\* fenced stays dark until somebody asks for motion.
THEOREM HaltIsSilent == Spec => []HaltSilences
<1>1. IInv => HaltSilences
  BY DEF IInv, Silence, Phases, HaltSilences
<1> QED
  BY <1>1, InvHolds, PTL

\* The resident model is used by the producer of the stream there is.
THEOREM OneUser == Spec => []ModelHasOneUser
<1>1. IInv => ModelHasOneUser
  BY DEF IInv, OneModel
<1> QED
  BY <1>1, InvHolds, PTL

\* And it passes from one stream's producer to another's only over the end of the
\* first: no stream is begun while a generation that cannot be cancelled still runs.
THEOREM UserIsWaitedFor ==
    Spec => [][gen # None /\ gen' # None => gen'.stream = gen.stream]_vars
<1>1. IInv /\ [Next]_vars => [gen # None /\ gen' # None => gen'.stream = gen.stream]_vars
  BY OneModelStep
<1> QED
  BY <1>1, InvHolds, PTL DEF Spec

----------------------------------------------------------------------------
(***************************************************************************)
(* PoseOutput: a call's packets as sets, from which the invariant follows. *)
(***************************************************************************)
PoseSpec == PoseInit /\ [][PoseNext]_poseVars

Kind == {"opentrack", "vmt", "osc", "axis", "face"}
Name == Tracker \cup Axis \cup Face \cup {"head"}
Packet == (Kind \X Name) \X {"driven", "rest", "level"}

Value(n, driven) == IF n \in driven THEN "driven" ELSE "rest"
About(kind, names, driven) == {<<<<kind, n>>, Value(n, driven)>> : n \in names}
InAll(packets) == {packets[i] : i \in 1..Len(packets)}

\* What is shown once some packets have been sent.
After(sent) ==
    [c \in Channel |-> IF \E p \in sent : p[1] = c THEN (CHOOSE p \in sent : p[1] = c)[2]
                       ELSE shown[c]]

LEMMA OrderIs ==
    ASSUME NEW S, IsFiniteSet(S)
    PROVE  /\ Cardinality(S) \in Nat
           /\ InOrder(S) \in [1..Cardinality(S) -> S]
           /\ \A n \in S : \E i \in 1..Cardinality(S) : InOrder(S)[i] = n
<1>1. Cardinality(S) \in Nat /\ ExistsBijection(1..Cardinality(S), S)
  BY FS_CardinalityType
<1>2. PICK f \in Bijection(1..Cardinality(S), S) : TRUE
  BY <1>1 DEF ExistsBijection
<1>3. f \in [1..Cardinality(S) -> S] /\ \A n \in S : n \in {f[i] : i \in DOMAIN f}
  BY <1>2 DEF Bijection, Surjection
<1>4. /\ InOrder(S) \in [1..Cardinality(S) -> S]
      /\ \A n \in S : n \in {InOrder(S)[i] : i \in DOMAIN InOrder(S)}
  BY <1>3 DEF InOrder
<1> QED
  BY <1>1, <1>4

\* Packets has one packet for each name.
LEMMA PacketsAre ==
    ASSUME NEW kind \in Kind, NEW S \in SUBSET Name, NEW D, IsFiniteSet(S)
    PROVE  /\ Packets(kind, S, D) \in Seq(Packet)
           /\ InAll(Packets(kind, S, D)) = About(kind, S, D)
<1> DEFINE order == InOrder(S)
           packets == [i \in 1..Cardinality(S) |-> <<<<kind, order[i]>>, Value(order[i], D)>>]
<1>1. /\ Cardinality(S) \in Nat /\ order \in [1..Cardinality(S) -> S]
      /\ \A n \in S : \E i \in 1..Cardinality(S) : order[i] = n
  BY OrderIs
<1>2. Packets(kind, S, D) = packets
  BY <1>1 DEF Packets, Value
<1>3. \A i \in 1..Cardinality(S) : packets[i] \in Packet
  BY <1>1 DEF Packet, Value
<1>4. packets \in Seq(Packet) /\ Len(packets) = Cardinality(S)
  BY <1>1, <1>3
<1>5. InAll(packets) = About(kind, S, D)
  BY <1>1, <1>4 DEF InAll, About
<1> QED
  BY <1>2, <1>4, <1>5

LEMMA BothAre ==
    ASSUME NEW p \in Seq(Packet), NEW q \in Seq(Packet)
    PROVE  p \o q \in Seq(Packet) /\ InAll(p \o q) = InAll(p) \cup InAll(q)
<1>1. /\ p \o q \in Seq(Packet) /\ Len(p \o q) = Len(p) + Len(q)
      /\ Len(p) \in Nat /\ Len(q) \in Nat
  OBVIOUS
<1>2. \A i \in 1..Len(p) : i \in 1..Len(p \o q) /\ (p \o q)[i] = p[i]
  BY <1>1
<1>3. \A i \in 1..Len(q) : i + Len(p) \in 1..Len(p \o q) /\ (p \o q)[i + Len(p)] = q[i]
  BY <1>1
<1>4. \A i \in 1..Len(p \o q) : i \in 1..Len(p) \/ i - Len(p) \in 1..Len(q)
  BY <1>1
<1>5. \A i \in 1..Len(p \o q) : i \in 1..Len(p) \/ (p \o q)[i] = q[i - Len(p)]
  BY <1>1
<1>6. InAll(p) \subseteq InAll(p \o q)
  BY <1>2 DEF InAll
<1>7. InAll(q) \subseteq InAll(p \o q)
  BY <1>3 DEF InAll
<1>8. InAll(p \o q) \subseteq InAll(p) \cup InAll(q)
  BY <1>2, <1>4, <1>5 DEF InAll
<1> QED
  BY <1>1, <1>6, <1>7, <1>8

\* A call shows all that it sends, or some of it and then what it was about is not known.
LEMMA SendsSome ==
    ASSUME NEW packets \in Seq(Packet), NEW whole, NEW parts, Sends(packets, whole, parts)
    PROVE  \E sent \in SUBSET InAll(packets) :
             /\ shown' = After(sent)
             /\ \/ sent = InAll(packets) /\ told' = whole
                \/ told' = [inputs |-> IF "inputs" \in parts THEN {} ELSE told.inputs,
                            pose   |-> IF "pose" \in parts THEN {} ELSE told.pose]
<1>1. PICK n \in 0..Len(packets) :
        /\ shown' = After({packets[i] : i \in 1..n})
        /\ told' = IF n = Len(packets) THEN whole
                   ELSE [inputs |-> IF "inputs" \in parts THEN {} ELSE told.inputs,
                         pose   |-> IF "pose" \in parts THEN {} ELSE told.pose]
  BY DEF Sends, After
<1>2. {packets[i] : i \in 1..n} \in SUBSET InAll(packets)
  BY DEF InAll
<1>3. n = Len(packets) => {packets[i] : i \in 1..n} = InAll(packets)
  BY DEF InAll
<1> QED
  BY <1>1, <1>2, <1>3

----------------------------------------------------------------------------
(***************************************************************************)
(* What each call sends: faces, axes, trackers, and what nobody asks after.*)
(***************************************************************************)
Quiet == ({"opentrack", "osc"} \X Name) \X {"driven", "rest", "level"}
Faces(known, moves) == IF Has("face") THEN About("face", known, moves) ELSE {}
Axes(moves) == IF Has("locomotion") THEN About("axis", Axis, moves) ELSE {}
Inputs(known, moves) == Faces(known, moves) \cup Axes(moves)
Poses(active) == About("vmt", Tracker, active)

LEMMA NamesAreFinite ==
    /\ IsFiniteSet(Axis) /\ IsFiniteSet(Tracker) /\ IsFiniteSet({"head"})
    /\ \A S \in SUBSET Face : IsFiniteSet(S)
    /\ \A S \in SUBSET Body : IsFiniteSet(S \cup {"head"})
    /\ IsFiniteSet({})
<1>1. \A S \in SUBSET Face : IsFiniteSet(S)
  BY PoseAssumption, FS_Subset
<1>2. \A S \in SUBSET Body : IsFiniteSet(S)
  BY PoseAssumption, FS_Subset
<1>3. \A S \in SUBSET Body : IsFiniteSet(S \cup {"head"})
  BY <1>2, FS_AddElement
<1>4. IsFiniteSet(Tracker)
  BY PoseAssumption, FS_Union DEF Tracker
<1> QED
  BY <1>1, <1>3, <1>4, PoseAssumption, FS_Singleton, FS_EmptySet

LEMMA NothingIsSent == <<>> \in Seq(Packet) /\ InAll(<<>>) = {}
BY DEF InAll

LEMMA InputsAre ==
    ASSUME NEW known \in SUBSET Face, NEW moves
    PROVE  /\ FacePackets(known, moves) \in Seq(Packet)
           /\ InAll(FacePackets(known, moves)) = Faces(known, moves)
           /\ AxisPackets(moves) \in Seq(Packet)
           /\ InAll(AxisPackets(moves)) = Axes(moves)
<1>1. /\ Packets("face", known, moves) \in Seq(Packet)
      /\ InAll(Packets("face", known, moves)) = About("face", known, moves)
  BY PacketsAre, NamesAreFinite DEF Kind, Name
<1>2. /\ Packets("axis", Axis, moves) \in Seq(Packet)
      /\ InAll(Packets("axis", Axis, moves)) = About("axis", Axis, moves)
  BY PacketsAre, NamesAreFinite DEF Kind, Name
<1> QED
  BY <1>1, <1>2, NothingIsSent DEF FacePackets, AxisPackets, Faces, Axes

LEMMA InputRestIs ==
    ASSUME remembered \in SUBSET Face
    PROVE  InputRest \in Seq(Packet) /\ InAll(InputRest) = Inputs(remembered, {})
BY InputsAre, BothAre DEF InputRest, Inputs

LEMMA HeadRestIs == HeadRest \in Seq(Packet) /\ InAll(HeadRest) \subseteq Quiet
<1>1. HeadRest \in Seq(Packet) /\ InAll(HeadRest) = About("opentrack", {"head"}, {})
  BY PacketsAre, NamesAreFinite DEF HeadRest, Kind, Name
<1> QED
  BY <1>1 DEF About, Value, Quiet, Name

LEMMA PoseRestIs ==
    ASSUME remembered \in SUBSET Face
    PROVE  /\ PoseRest \in Seq(Packet)
           /\ \E quiet \in SUBSET Quiet :
                InAll(PoseRest) = Inputs(remembered, {}) \cup quiet \cup Poses({})
<1>1. /\ Packets("vmt", Tracker, {}) \in Seq(Packet)
      /\ InAll(Packets("vmt", Tracker, {})) = Poses({})
  BY PacketsAre, NamesAreFinite DEF Kind, Name, Poses
<1>2. InputRest \o HeadRest \in Seq(Packet)
  BY InputRestIs, HeadRestIs, BothAre
<1>3. InAll(InputRest \o HeadRest) = Inputs(remembered, {}) \cup InAll(HeadRest)
  BY InputRestIs, HeadRestIs, BothAre
<1>4. PoseRest = (InputRest \o HeadRest) \o Packets("vmt", Tracker, {})
  BY DEF PoseRest
<1>5. /\ PoseRest \in Seq(Packet)
      /\ InAll(PoseRest) = InAll(InputRest \o HeadRest) \cup Poses({})
  BY <1>1, <1>2, <1>4, BothAre
<1> QED
  BY <1>3, <1>5, HeadRestIs

LEMMA PosePacketsAre ==
    ASSUME NEW active \in SUBSET Tracker
    PROVE  /\ PosePackets(active) \in Seq(Packet)
           /\ \E quiet \in SUBSET Quiet :
                InAll(PosePackets(active)) = quiet \cup Poses(Enabled(active))
<1> DEFINE head == <<<<<<"opentrack", "head">>, IF Has("lock_head") THEN "level" ELSE "driven">>>>
           trackers == Packets("vmt", Tracker, Enabled(active))
           names == IF Has("osc_body") THEN (active \cap Body) \cup {"head"} ELSE {}
           body == Packets("osc", names, names)
<1>1. head \in Seq(Packet) /\ InAll(head) \subseteq Quiet
  <2>1. <<<<"opentrack", "head">>, IF Has("lock_head") THEN "level" ELSE "driven">> \in Packet \cap Quiet
    BY DEF Packet, Quiet, Kind, Name
  <2>2. Len(head) = 1
    OBVIOUS
  <2> QED
    BY <2>1, <2>2 DEF InAll
<1>2. trackers \in Seq(Packet) /\ InAll(trackers) = Poses(Enabled(active))
  BY PacketsAre, NamesAreFinite DEF Kind, Name, Poses
<1>3. names \in SUBSET Name /\ IsFiniteSet(names)
  BY NamesAreFinite DEF Name, Tracker
<1>4. body \in Seq(Packet) /\ InAll(body) = About("osc", names, names)
  BY <1>3, PacketsAre DEF Kind
<1>5. InAll(body) \subseteq Quiet
  <2> HIDE DEF names, body
  <2>1. \A n \in names : <<<<"osc", n>>, Value(n, names)>> \in Quiet
    BY <1>3 DEF Value, Quiet
  <2> QED
    BY <1>4, <2>1 DEF About
<1>6. PosePackets(active) = (head \o trackers) \o body
  BY DEF PosePackets
<1>7. head \o trackers \in Seq(Packet) /\ InAll(head \o trackers) = InAll(head) \cup InAll(trackers)
  BY <1>1, <1>2, BothAre
<1>8. /\ (head \o trackers) \o body \in Seq(Packet)
      /\ InAll((head \o trackers) \o body) = InAll(head \o trackers) \cup InAll(body)
  BY <1>4, <1>7, BothAre
<1> HIDE DEF head, trackers, names, body
<1>9. InAll(PosePackets(active)) = (InAll(head) \cup InAll(body)) \cup Poses(Enabled(active))
  BY <1>2, <1>6, <1>7, <1>8
<1> QED
  BY <1>1, <1>5, <1>6, <1>8, <1>9

----------------------------------------------------------------------------
\* What a call shows: for a channel it sends to, the value it sends; for another,
\* what was shown.
Shows(known, moves, active, pose, sent) ==
    /\ \A f \in Face :
         /\ f \notin known \/ ~Has("face") => shown'[<<"face", f>>] = shown[<<"face", f>>]
         /\ f \in known /\ Has("face") /\ Inputs(known, moves) \subseteq sent =>
              (shown'[<<"face", f>>] = "driven" <=> f \in moves)
    /\ \A a \in Axis :
         /\ ~Has("locomotion") => shown'[<<"axis", a>>] = shown[<<"axis", a>>]
         /\ Has("locomotion") /\ Inputs(known, moves) \subseteq sent =>
              (shown'[<<"axis", a>>] = "driven" <=> a \in moves)
    /\ \A t \in Tracker :
         /\ pose = {} => shown'[<<"vmt", t>>] = shown[<<"vmt", t>>]
         /\ pose = Poses(active) /\ pose \subseteq sent =>
              (shown'[<<"vmt", t>>] = "driven" <=> t \in active)

LEMMA CallShows ==
    ASSUME NEW known \in SUBSET Face, NEW moves, NEW active, NEW pose, NEW quiet, NEW sent,
           pose = {} \/ pose = Poses(active), quiet \subseteq Quiet,
           sent \subseteq Inputs(known, moves) \cup quiet \cup pose,
           shown' = After(sent)
    PROVE  Shows(known, moves, active, pose, sent)
<1>0. ASSUME NEW c \in Channel
      PROVE  /\ (\A p \in sent : p[1] # c) => shown'[c] = shown[c]
             /\ \A p \in sent, v \in {"driven", "rest"} :
                  p[1] = c /\ (\A q \in sent : q[1] = c => q[2] = v) => shown'[c] = v
  BY DEF After
<1>1. ASSUME NEW p \in sent
      PROVE  \/ /\ Has("face")
                /\ \E f \in known : p[1] = <<"face", f>> /\ p[2] = Value(f, moves)
             \/ /\ Has("locomotion")
                /\ \E a \in Axis : p[1] = <<"axis", a>> /\ p[2] = Value(a, moves)
             \/ \E k \in {"opentrack", "osc"}, n \in Name : p[1] = <<k, n>>
             \/ /\ pose # {}
                /\ \E t \in Tracker : p[1] = <<"vmt", t>> /\ p[2] = Value(t, active)
  <2>1. CASE p \in Faces(known, moves)
    BY <2>1 DEF Faces, About
  <2>2. CASE p \in Axes(moves)
    BY <2>2 DEF Axes, About
  <2>3. CASE p \in quiet
    BY <2>3 DEF Quiet
  <2>4. CASE p \in pose
    BY <2>4 DEF Poses, About
  <2> QED
    BY <1>1, <2>1, <2>2, <2>3, <2>4 DEF Inputs
<1>2. ASSUME NEW f \in Face
      PROVE  /\ f \notin known \/ ~Has("face") => shown'[<<"face", f>>] = shown[<<"face", f>>]
             /\ f \in known /\ Has("face") /\ Inputs(known, moves) \subseteq sent =>
                  (shown'[<<"face", f>>] = "driven" <=> f \in moves)
  <2>1. <<"face", f>> \in Channel
    BY DEF Channel
  <2>2. \A p \in sent : p[1] = <<"face", f>> => Has("face") /\ f \in known /\ p[2] = Value(f, moves)
    BY <1>1
  <2>3. ASSUME f \in known, Has("face"), Inputs(known, moves) \subseteq sent
        PROVE  <<<<"face", f>>, Value(f, moves)>> \in sent
    BY <2>3 DEF Inputs, Faces, About
  <2> QED
    BY <1>0, <2>1, <2>2, <2>3 DEF Value
<1>3. ASSUME NEW a \in Axis
      PROVE  /\ ~Has("locomotion") => shown'[<<"axis", a>>] = shown[<<"axis", a>>]
             /\ Has("locomotion") /\ Inputs(known, moves) \subseteq sent =>
                  (shown'[<<"axis", a>>] = "driven" <=> a \in moves)
  <2>1. <<"axis", a>> \in Channel
    BY DEF Channel
  <2>2. \A p \in sent : p[1] = <<"axis", a>> => Has("locomotion") /\ p[2] = Value(a, moves)
    BY <1>1
  <2>3. ASSUME Has("locomotion"), Inputs(known, moves) \subseteq sent
        PROVE  <<<<"axis", a>>, Value(a, moves)>> \in sent
    BY <2>3 DEF Inputs, Axes, About
  <2> QED
    BY <1>0, <2>1, <2>2, <2>3 DEF Value
<1>4. ASSUME NEW t \in Tracker
      PROVE  /\ pose = {} => shown'[<<"vmt", t>>] = shown[<<"vmt", t>>]
             /\ pose = Poses(active) /\ pose \subseteq sent =>
                  (shown'[<<"vmt", t>>] = "driven" <=> t \in active)
  <2>1. <<"vmt", t>> \in Channel
    BY DEF Channel
  <2>2. \A p \in sent : p[1] = <<"vmt", t>> => pose # {} /\ p[2] = Value(t, active)
    BY <1>1
  <2>3. ASSUME pose = Poses(active), pose \subseteq sent
        PROVE  <<<<"vmt", t>>, Value(t, active)>> \in sent
    BY <2>3 DEF Poses, About
  <2> QED
    BY <1>0, <2>1, <2>2, <2>3 DEF Value
<1> QED
  BY <1>2, <1>3, <1>4 DEF Shows

----------------------------------------------------------------------------
(***************************************************************************)
(* The inductive invariant: what is driven is remembered, or never was     *)
(* driven by a sink set up otherwise.                                      *)
(***************************************************************************)
Wishes == [inputs : SUBSET SUBSET (Axis \cup Face), pose : SUBSET SUBSET Tracker]

PoseInv ==
    /\ remembered \in SUBSET Face /\ told \in Wishes
    /\ \A f \in Face : shown[<<"face", f>>] = "driven" => Has("face") /\ f \in remembered
    /\ \A a \in Axis : shown[<<"axis", a>>] = "driven" => Has("locomotion")
    /\ OutputIsAsAsked

\* A call that asks for some inputs, and for a pose or not.
LEMMA CallKeeps ==
    ASSUME PoseInv, options' = options,
           remembered' \in SUBSET Face, remembered \subseteq remembered',
           NEW moves \in SUBSET (Axis \cup Face), Has("face") => moves \cap Face \subseteq remembered',
           NEW active \in SUBSET Tracker, NEW pose, NEW quiet \in SUBSET Quiet,
           NEW packets \in Seq(Packet),
           InAll(packets) = Inputs(remembered', moves) \cup quiet \cup pose,
           NEW whole \in Wishes, whole.inputs = {moves},
           NEW parts \in SUBSET {"inputs", "pose"}, "inputs" \in parts,
           \/ pose = {} /\ whole.pose = told.pose
           \/ pose = Poses(Enabled(active)) /\ whole.pose = {active} /\ "pose" \in parts,
           Sends(packets, whole, parts)
    PROVE  PoseInv'
<1> DEFINE partial == [inputs |-> IF "inputs" \in parts THEN {} ELSE told.inputs,
                       pose   |-> IF "pose" \in parts THEN {} ELSE told.pose]
<1>0. PICK sent \in SUBSET InAll(packets) :
        shown' = After(sent) /\ ((sent = InAll(packets) /\ told' = whole) \/ told' = partial)
  BY SendsSome
<1>1. /\ told \in Wishes /\ partial \in Wishes /\ partial.inputs = {}
      /\ partial.pose = (IF "pose" \in parts THEN {} ELSE told.pose)
  <2>1. told \in Wishes
    BY DEF PoseInv
  <2>2. partial = [inputs |-> {}, pose |-> IF "pose" \in parts THEN {} ELSE told.pose]
    OBVIOUS
  <2> QED
    BY <2>1, <2>2 DEF Wishes
<1> HIDE DEF partial
<1>2. pose \in {{}, Poses(Enabled(active))}
  OBVIOUS
<1>3. Shows(remembered', moves, Enabled(active), pose, sent)
  <2>1. sent \subseteq Inputs(remembered', moves) \cup quiet \cup pose /\ shown' = After(sent)
    BY <1>0
  <2> QED
    BY <1>2, <2>1, CallShows
<1>4. /\ \A f \in Face : shown'[<<"face", f>>] = "driven" => Has("face") /\ f \in remembered'
      /\ \A a \in Axis : shown'[<<"axis", a>>] = "driven" => Has("locomotion")
  BY <1>3 DEF PoseInv, Shows
<1>5. ASSUME NEW m \in told'.inputs
      PROVE  /\ \A a \in Axis : shown'[<<"axis", a>>] = "driven" <=> Has("locomotion") /\ a \in m
             /\ \A f \in Face : shown'[<<"face", f>>] = "driven" <=> Has("face") /\ f \in m
  <2>1. sent = InAll(packets) /\ m = moves
    BY <1>0, <1>1, <1>5
  <2> QED
    BY <1>0, <1>3, <1>4, <2>1 DEF Shows
<1>6. ASSUME NEW d \in told'.pose, NEW t \in Tracker
      PROVE  shown'[<<"vmt", t>>] = "driven" <=> t \in Enabled(d)
  <2>1. CASE pose = {} /\ whole.pose = told.pose
    <3>1. d \in told.pose
      BY <1>0, <1>1, <1>6, <2>1
    <3> QED
      BY <1>3, <1>6, <2>1, <3>1 DEF PoseInv, OutputIsAsAsked, Shows
  <2>2. CASE pose = Poses(Enabled(active)) /\ whole.pose = {active} /\ "pose" \in parts
    <3>1. sent = InAll(packets) /\ d = active
      BY <1>0, <1>1, <1>6, <2>2
    <3> QED
      BY <1>0, <1>3, <1>6, <2>2, <3>1 DEF Shows
  <2> QED
    BY <2>1, <2>2
<1>7. told' \in Wishes
  BY <1>0, <1>1
<1> QED
  BY <1>4, <1>5, <1>6, <1>7 DEF PoseInv, OutputIsAsAsked, Has, Enabled

LEMMA WishesAre ==
    ASSUME told \in Wishes
    PROVE  /\ [told EXCEPT !.inputs = {{}}] \in Wishes
           /\ [told EXCEPT !.inputs = {{}}].inputs = {{}}
           /\ [told EXCEPT !.inputs = {{}}].pose = told.pose
           /\ AllAtRest \in Wishes /\ AllAtRest.inputs = {{}} /\ AllAtRest.pose = {{}}
           /\ \A m \in SUBSET (Axis \cup Face), a \in SUBSET Tracker :
                [inputs |-> {m}, pose |-> {a}] \in Wishes
BY DEF Wishes, AllAtRest

LEMMA FrameKeeps ==
    ASSUME PoseInv, NEW frame \in Frame, SendFrame(frame)
    PROVE  PoseInv'
<1> DEFINE moves == frame.moves
           active == frame.active
           known == Remembered(moves)
           packets == FacePackets(known, moves) \o PosePackets(active) \o AxisPackets(moves)
           whole == [inputs |-> {moves}, pose |-> {active}]
<1>1. moves \in SUBSET (Axis \cup Face) /\ active \in SUBSET Tracker
  BY DEF Frame
<1>2. remembered \in SUBSET Face /\ told \in Wishes
  BY DEF PoseInv
<1>3. /\ remembered' = known /\ known \in SUBSET Face /\ remembered \subseteq known
      /\ Has("face") => moves \cap Face \subseteq known
      /\ options' = options /\ Sends(packets, whole, {"inputs", "pose"})
  BY <1>2 DEF SendFrame, Remembered
<1>4. whole \in Wishes /\ whole.inputs = {moves} /\ whole.pose = {active}
  BY <1>1, <1>2, WishesAre
<1> HIDE DEF moves, active, known, whole
<1>5. PICK quiet \in SUBSET Quiet : InAll(PosePackets(active)) = quiet \cup Poses(Enabled(active))
  BY <1>1, PosePacketsAre
<1>6. /\ FacePackets(known, moves) \o PosePackets(active) \in Seq(Packet)
      /\ InAll(FacePackets(known, moves) \o PosePackets(active))
           = Faces(known, moves) \cup InAll(PosePackets(active))
  BY <1>1, <1>3, BothAre, InputsAre, PosePacketsAre
<1>7. /\ packets \in Seq(Packet)
      /\ InAll(packets) = InAll(FacePackets(known, moves) \o PosePackets(active)) \cup Axes(moves)
  BY <1>3, <1>6, BothAre, InputsAre
<1> HIDE DEF packets
<1>8. InAll(packets) = Inputs(remembered', moves) \cup quiet \cup Poses(Enabled(active))
  BY <1>3, <1>5, <1>6, <1>7 DEF Inputs
<1> QED
  BY <1>1, <1>3, <1>4, <1>7, <1>8, CallKeeps

\* A call that neutralizes the inputs, and whatever nobody asks after.
LEMMA InputRestKeeps ==
    ASSUME PoseInv, UNCHANGED <<options, remembered>>,
           NEW rest \in Seq(Packet), InAll(rest) \subseteq Quiet,
           Sends(InputRest \o rest, [told EXCEPT !.inputs = {{}}], {"inputs"})
    PROVE  PoseInv'
<1>1. remembered \in SUBSET Face /\ told \in Wishes
  BY DEF PoseInv
<1>2. /\ InputRest \o rest \in Seq(Packet)
      /\ InAll(InputRest \o rest) = Inputs(remembered, {}) \cup InAll(rest) \cup {}
  BY <1>1, BothAre, InputRestIs
<1>3. /\ [told EXCEPT !.inputs = {{}}] \in Wishes /\ [told EXCEPT !.inputs = {{}}].inputs = {{}}
      /\ [told EXCEPT !.inputs = {{}}].pose = told.pose
  BY <1>1, WishesAre
<1> DEFINE whole == [told EXCEPT !.inputs = {{}}]
           packets == InputRest \o rest
<1> HIDE DEF whole, packets
<1>4. /\ whole \in Wishes /\ whole.inputs = {{}} /\ whole.pose = told.pose
      /\ Sends(packets, whole, {"inputs"}) /\ packets \in Seq(Packet)
      /\ InAll(packets) = Inputs(remembered', {}) \cup InAll(rest) \cup {}
  BY <1>2, <1>3 DEF whole, packets
<1> QED
  BY <1>1, <1>4, CallKeeps

LEMMA PoseRestKeeps ==
    ASSUME PoseInv, UNCHANGED <<options, remembered>>,
           Sends(PoseRest, AllAtRest, {"inputs", "pose"})
    PROVE  PoseInv'
<1>1. remembered \in SUBSET Face /\ told \in Wishes
  BY DEF PoseInv
<1>2. PICK quiet \in SUBSET Quiet : InAll(PoseRest) = Inputs(remembered, {}) \cup quiet \cup Poses({})
  BY <1>1, PoseRestIs
<1>3. Enabled({}) = {}
  BY DEF Enabled
<1>4. AllAtRest \in Wishes /\ AllAtRest.inputs = {{}} /\ AllAtRest.pose = {{}}
  BY <1>1, WishesAre
<1>5. /\ PoseRest \in Seq(Packet)
      /\ InAll(PoseRest) = Inputs(remembered', {}) \cup quiet \cup Poses(Enabled({}))
  BY <1>1, <1>2, <1>3, PoseRestIs
<1> QED
  BY <1>1, <1>4, <1>5, CallKeeps

\* The inductive invariant of the sink: whatever a call that failed left driven is
\* still known, so that the next call brings it to rest.
THEOREM PoseInvHolds == PoseSpec => []PoseInv
<1>1. PoseInit => PoseInv
  <2> SUFFICES ASSUME PoseInit
               PROVE  PoseInv
    OBVIOUS
  <2>1. \A c \in Channel : shown[c] # "driven"
    BY DEF PoseInit
  <2>2. /\ \A f \in Face : <<"face", f>> \in Channel
        /\ \A a \in Axis : <<"axis", a>> \in Channel
        /\ \A t \in Tracker : <<"vmt", t>> \in Channel
    BY DEF Channel
  <2>3. /\ told = AllAtRest /\ remembered = {} /\ told.inputs = {{}} /\ told.pose = {{}}
        /\ told \in Wishes
    BY DEF PoseInit, AllAtRest, Wishes
  <2>4. Enabled({}) = {}
    BY DEF Enabled
  <2> QED
    BY <2>1, <2>2, <2>3, <2>4 DEF PoseInv, OutputIsAsAsked
<1>2. PoseInv /\ PoseNext => PoseInv'
  <2> SUFFICES ASSUME PoseInv, PoseNext
               PROVE  PoseInv'
    OBVIOUS
  <2>1. CASE \E frame \in Frame : SendFrame(frame)
    BY <2>1, FrameKeeps
  <2>2. CASE NeutralizeInputs
    <3>1. InputRest \o <<>> = InputRest
      BY InputRestIs DEF PoseInv
    <3> QED
      BY <2>2, <3>1, NothingIsSent, InputRestKeeps DEF NeutralizeInputs
  <2>3. CASE NeutralizePose
    BY <2>3, PoseRestKeeps DEF NeutralizePose
  <2>4. CASE Close
    <3>1. CASE UNCHANGED <<shown, told, options, remembered>>
      BY <3>1 DEF PoseInv, OutputIsAsAsked, Has, Enabled
    <3>2. CASE Sends(PoseRest, AllAtRest, {"inputs", "pose"})
      BY <2>4, <3>2, PoseRestKeeps DEF Close
    <3>3. CASE Sends(InputRest \o IF Has("park_head") THEN HeadRest ELSE <<>>,
                     [told EXCEPT !.inputs = {{}}], {"inputs"})
      <4> DEFINE rest == IF Has("park_head") THEN HeadRest ELSE <<>>
      <4>1. rest \in Seq(Packet) /\ InAll(rest) \subseteq Quiet
        BY HeadRestIs, NothingIsSent
      <4>2. Sends(InputRest \o rest, [told EXCEPT !.inputs = {{}}], {"inputs"})
        BY <3>3
      <4> HIDE DEF rest
      <4> QED
        BY <2>4, <4>1, <4>2, InputRestKeeps DEF Close
    <3> QED
      BY <2>4, <3>1, <3>2, <3>3 DEF Close
  <2> QED
    BY <2>1, <2>2, <2>3, <2>4 DEF PoseNext
<1>3. PoseInv /\ UNCHANGED poseVars => PoseInv'
  BY DEF PoseInv, OutputIsAsAsked, Has, Enabled, poseVars
<1> QED
  BY <1>1, <1>2, <1>3, PTL DEF PoseSpec

\* Once a call has gone through, the inputs and the pose are what it asked for and
\* nothing else, whatever earlier calls did or failed to do (live_sink.py).
THEOREM OutputIsTheLast == PoseSpec => []OutputIsAsAsked
<1>1. PoseInv => OutputIsAsAsked
  BY DEF PoseInv
<1> QED
  BY <1>1, PoseInvHolds, PTL
=============================================================================
