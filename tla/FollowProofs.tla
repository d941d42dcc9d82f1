----------------------------- MODULE FollowProofs -----------------------------
(***************************************************************************)
(* Proofs about Follow, for any times and any observations, and about      *)
(* Perception, for any people, places and number of misses.                *)
(***************************************************************************)
EXTENDS Follow, Perception, TLAPS

(***************************************************************************)
(* Follow: the inductive invariant, part by part.                          *)
(***************************************************************************)
States == {"lost", "observe", "search", "relocate", "align", "follow", "hold"}

Ranges ==
    /\ now \in 0..MaxNow
    /\ latest \in Observations \cup {None} /\ (latest # None => latest.at <= now)
    /\ state \in States /\ side \in Side
    /\ decision \in [state : States, forward : BOOLEAN, turn : Side]

Threads ==
    /\ loop \in {"top", "send", "record", "finally", "emit", "gone"}
    /\ main \in {"run", "join", "emit", "close", "done"}
    /\ stop \in BOOLEAN /\ neutralized \in BOOLEAN /\ closed \in BOOLEAN

\* A button that VRChat shows as held is one that the pulse will release.
Sink ==
    /\ shown \in [forward : BOOLEAN, button : Side] /\ missed \in BOOLEAN
    /\ pulse \in [pressed : BOOLEAN, direction : Side, next : Int]
    /\ pulse.next \in 0..(now + PulseInterval)
    /\ shown.button # 0 /\ ~missed => pulse.pressed /\ shown.button = pulse.direction

\* The pauses of a loss: what lies between it and now and was no pause is all that
\* counts.
Pausing == IF pausedSince = None THEN 0 ELSE now - pausedSince

Losses ==
    /\ lostSince \in 0..now \cup {None} /\ pausedSince \in 0..now \cup {None} /\ paused \in 0..now
    /\ searched \in 0..Delay
    /\ lostSince # None => lostSince + paused + Pausing <= now

\* The history says no less than the controller reckons.
Reckoning ==
    lostSince # None =>
      /\ pausedSince # None <=> state = "observe"
      /\ now - lostSince - paused - Pausing <= searched \/ searched = Delay

\* The avatar stands still, unless that could not be sent.
Still == shown = Axes(Neutral("lost")) \/ missed

\* Who has claimed the neutral has sent it, or is about to; and nothing that is
\* sent after it is kept from being followed by another.
Neutrals ==
    /\ closed <=> main = "done"
    /\ main \in {"run", "join"} /\ neutralized => loop \in {"emit", "gone"}
    /\ neutralized /\ loop \in {"top", "send", "finally"} /\ main # "emit" => Still
    /\ loop = "gone" /\ main # "emit" => Still
    /\ main = "done" => Still

IInv == Ranges /\ Threads /\ Sink /\ Losses /\ Reckoning /\ SearchIsEarned /\ Neutrals
----------------------------------------------------------------------------
(***************************************************************************)
(* What the controller decides.                                            *)
(***************************************************************************)

\* In the search the avatar waits until Delay is over, and then looks around or
\* walks, for a search it has earned.
LEMMA SearchWaits ==
    ASSUME NEW elapsed \in Int, side \in Side
    PROVE  /\ Search(elapsed) \in [state : {"lost", "search", "relocate"}, forward : BOOLEAN, turn : Side]
           /\ elapsed < Delay => Search(elapsed).state = "lost"
<1> DEFINE cycle == Sweep + RelocateTurn + RelocateForward
           phase == (elapsed - Delay) % cycle
           turn  == IF ((elapsed - Delay) \div cycle) % 2 = 0 THEN side ELSE -side
<1>1. turn \in Side
  BY DEF Side
<1>2. Search(elapsed) =
        IF elapsed < Delay THEN Neutral("lost")
        ELSE IF phase < Sweep THEN Decision("search", FALSE, turn)
        ELSE IF phase < Sweep + RelocateTurn THEN Decision("relocate", FALSE, turn)
        ELSE Decision("relocate", TRUE, 0)
  BY DEF Search
<1> HIDE DEF cycle, phase, turn
<1> QED
  BY <1>1, <1>2 DEF Neutral, Decision, Side

\* The three answers of a step.
LEMMA StepCases ==
    ASSUME Step
    PROVE  StepLost \/ StepScanned \/ (latest # None /\ latest.seen # None /\ StepVisible(latest))
BY DEF Step, Fresh

\* What a step decides is a decision, and what it keeps of the loss is in the past.
LEMMA StepRanges ==
    ASSUME Ranges, Losses, Step
    PROVE  /\ decision' \in [state : States, forward : BOOLEAN, turn : Side]
           /\ state' = decision'.state /\ side' \in Side
<1>1. CASE StepLost
  <2>1. now - Lost - PausedInAll \in Int
    BY <1>1, ConfigAssumption, NoneAssumption DEF Ranges, Losses, Lost, PausedInAll, PausedBefore, PausedSince
  <2>2. Search(now - Lost - PausedInAll) \in
          [state : {"lost", "search", "relocate"}, forward : BOOLEAN, turn : Side]
    BY <2>1, SearchWaits DEF Ranges
  <2> QED
    BY <1>1, <2>2 DEF StepLost, Decides, Ranges, States
<1>2. CASE StepScanned
  BY <1>2 DEF StepScanned, Decides, Neutral, Decision, Ranges, States, Side
<1>3. CASE latest # None /\ latest.seen # None /\ StepVisible(latest)
  <2>1. latest.seen \in Side
    BY <1>3 DEF Ranges, Observations
  <2>2. \A d \in Approaches : d \in [state : States, forward : BOOLEAN, turn : Side]
    <3> DEFINE D == [state : States, forward : BOOLEAN, turn : Side]
    <3>1. Decision("align", FALSE, -1) \in D /\ Decision("align", FALSE, 1) \in D
      BY DEF Decision, States, Side
    <3>2. Decision("follow", TRUE, 0) \in D /\ Neutral("hold") \in D
      BY DEF Neutral, Decision, States, Side
    <3> HIDE DEF D
    <3>3. \A d \in Approaches : d \in D
      BY <3>1, <3>2 DEF Approaches
    <3> QED
      BY <3>3 DEF D
  <2> QED
    BY <1>3, <2>1, <2>2 DEF StepVisible, Decides, Ranges
<1> QED
  BY <1>1, <1>2, <1>3, StepCases
----------------------------------------------------------------------------
(***************************************************************************)
(* Each part holds after a step.                                           *)
(***************************************************************************)

\* Observations and decisions keep to their ranges.
LEMMA RangesStep ==
    ASSUME Ranges, Losses, [Next]_vars
    PROVE  Ranges'
<1>1. CASE Passes
  <2>1. now' = now + 1 /\ now' \in 0..MaxNow /\ UNCHANGED <<state, side, decision>>
    BY <1>1, NoneAssumption DEF Passes, Ranges
  <2>2. latest' \in Observations \cup {None} /\ (latest' # None => latest # None /\ latest'.at = latest.at)
    BY <1>1, NoneAssumption DEF Passes, Ranges, Forgotten, Observations
  <2>3. latest # None => latest.at \in Nat
    BY DEF Ranges, Observations
  <2> QED
    BY <2>1, <2>2, <2>3 DEF Ranges
<1>2. CASE Receive
  <2>1. latest' \in Observations /\ latest'.at = now
    BY <1>2 DEF Receive, Ranges, Observations
  <2> QED
    BY <1>2, <2>1 DEF Receive, Ranges, controlVars
<1>3. CASE TickDecides
  <2>1. UNCHANGED <<now, latest>>
    BY <1>3 DEF TickDecides, storeVars
  <2> QED
    BY <1>3, <2>1, StepRanges DEF TickDecides, Ranges
<1>4. CASE TickSends
  BY <1>4 DEF TickSends, Ranges, storeVars, controlVars, Neutral, Decision, States, Side
<1>5. CASE \/ TickRecords \/ LoopStops \/ LoopClaims \/ LoopNeutral \/ Main \/ UNCHANGED vars
  BY <1>5 DEF Ranges, vars, storeVars, controlVars, TickRecords, LoopStops, LoopClaims, LoopNeutral,
              Main, Stop, MainClaims, MainNeutral, CloseSink
<1> QED
  BY <1>1, <1>2, <1>3, <1>4, <1>5 DEF Next, Loop

\* The threads are somewhere.
LEMMA ThreadsStep ==
    ASSUME Threads, [Next]_vars
    PROVE  Threads'
<1>1. CASE Passes \/ Receive \/ UNCHANGED vars
  BY <1>1 DEF Threads, Passes, Receive, vars, sinkVars
<1>2. CASE TickDecides \/ TickRecords \/ LoopStops \/ LoopClaims
  BY <1>2 DEF Threads, TickDecides, TickRecords, Records, LoopStops, LoopClaims, Claims, sinkVars
<1>3. CASE TickSends \/ LoopNeutral \/ MainNeutral
  BY <1>3 DEF Threads, TickSends, LoopNeutral, MainNeutral, NeutralSent, Sends, SendRaises, sinkVars
<1>4. CASE Stop \/ MainClaims \/ CloseSink
  BY <1>4 DEF Threads, Stop, MainClaims, Claims, CloseSink, sinkVars
<1> QED
  BY <1>1, <1>2, <1>3, <1>4 DEF Next, Loop, Main

\* A loss counts from when it began, less its pauses; and what the controller
\* reckons it waited, it has.
LEMMA LossStep ==
    ASSUME Ranges, Losses, Reckoning, SearchIsEarned, [Next]_vars
    PROVE  Losses' /\ Reckoning' /\ SearchIsEarned'
<1>1. now \in Nat /\ None \notin Int /\ Delay \in Nat /\ searched \in Nat /\ paused \in Nat
  BY NoneAssumption, ConfigAssumption DEF Ranges, Losses
<1>2. CASE Passes
  <2>1. /\ now' = now + 1 /\ UNCHANGED <<state, lostSince, pausedSince, paused>>
        /\ searched' = IF Searches /\ searched < Delay THEN searched + 1 ELSE searched
    BY <1>2 DEF Passes
  <2>2. searched' \in 0..Delay /\ searched' >= searched
    BY <1>1, <2>1 DEF Losses
  <2>3. lostSince # None => lostSince + paused + Pausing' <= now'
    BY <1>1, <2>1 DEF Losses, Pausing
  <2>4. Losses'
    BY <1>1, <2>1, <2>2, <2>3 DEF Losses
  <2>5. Reckoning'
    BY <1>1, <2>1, <2>2 DEF Losses, Reckoning, Pausing, Searches
  <2>6. SearchIsEarned'
    BY <1>1, <2>1, <2>2 DEF SearchIsEarned
  <2> QED
    BY <2>4, <2>5, <2>6
<1>3. CASE TickDecides
  <2>1. Step /\ now' = now
    BY <1>3 DEF TickDecides, storeVars
  <2>2. CASE StepLost
    <3> DEFINE waited == now - Lost - PausedInAll
    <3>1. /\ Lost \in 0..now /\ PausedInAll \in 0..now /\ Lost + PausedInAll <= now
          /\ Searched \in 0..Delay /\ (waited <= Searched \/ Searched = Delay)
      BY <1>1 DEF Losses, Reckoning, Pausing, Lost, PausedInAll, PausedBefore, PausedSince, Searched
    <3>2. /\ lostSince' = Lost /\ paused' = PausedInAll /\ pausedSince' = None /\ searched' = Searched
          /\ state' = Search(waited).state
      BY <2>2 DEF StepLost, Decides
    <3>3. waited \in Int
      BY <1>1, <3>1
    <3> HIDE DEF waited
    <3>4. state' \in {"lost", "search", "relocate"} /\ (waited < Delay => state' = "lost")
      BY <3>2, <3>3, SearchWaits DEF Ranges
    <3>5. waited = now' - lostSince' - paused' - Pausing' /\ Pausing' = 0
      BY <1>1, <2>1, <3>1, <3>2 DEF waited, Pausing
    <3>6. Losses'
      BY <1>1, <2>1, <3>1, <3>2, <3>5 DEF Losses
    <3>7. Reckoning'
      BY <3>1, <3>2, <3>4, <3>5 DEF Reckoning
    <3>8. SearchIsEarned'
      BY <1>1, <3>1, <3>2, <3>3, <3>4 DEF SearchIsEarned
    <3> QED
      BY <3>6, <3>7, <3>8
  <2>3. CASE StepScanned
    <3> DEFINE since == IF PausedSince = None THEN now ELSE PausedSince
    <3>1. /\ Lost \in 0..now /\ PausedBefore \in 0..now /\ Searched \in 0..Delay
          /\ since \in 0..now /\ Lost + PausedBefore <= since
          /\ since - Lost - PausedBefore <= Searched \/ Searched = Delay
      <4>1. CASE lostSince = None
        BY <1>1, <4>1 DEF Losses, Lost, PausedBefore, PausedSince, Searched
      <4>2. CASE lostSince # None /\ pausedSince = None
        BY <1>1, <4>2 DEF Losses, Reckoning, Pausing, Lost, PausedBefore, PausedSince, Searched
      <4>3. CASE lostSince # None /\ pausedSince # None
        BY <1>1, <4>3 DEF Losses, Reckoning, Pausing, Lost, PausedBefore, PausedSince, Searched
      <4> QED
        BY <4>1, <4>2, <4>3
    <3>2. /\ lostSince' = Lost /\ paused' = PausedBefore /\ searched' = Searched
          /\ pausedSince' = since /\ state' = "observe"
      BY <2>3 DEF StepScanned, Decides, Neutral, Decision
    <3> HIDE DEF since
    <3>3. pausedSince' \in 0..now /\ pausedSince' # None
      BY <1>1, <3>1, <3>2
    <3>4. Pausing' = now - since
      BY <2>1, <3>2, <3>3 DEF Pausing
    <3>5. Losses'
      <4>1. Lost + PausedBefore + Pausing' <= now
        BY <1>1, <3>1, <3>4
      <4> QED
        BY <1>1, <2>1, <3>1, <3>2, <3>3, <4>1 DEF Losses
    <3>6. Reckoning'
      BY <1>1, <2>1, <3>1, <3>2, <3>3, <3>4 DEF Reckoning
    <3> QED
      BY <3>2, <3>5, <3>6 DEF SearchIsEarned
  <2>4. CASE latest # None /\ latest.seen # None /\ StepVisible(latest)
    <3>1. /\ lostSince' = None /\ pausedSince' = None /\ paused' = 0 /\ searched' = 0
          /\ \E d \in Approaches : state' = d.state
      BY <2>4 DEF StepVisible, Decides
    <3>2. state' \notin {"search", "relocate"}
      BY <3>1 DEF Approaches, Decision, Neutral
    <3> QED
      BY <1>1, <2>1, <3>1, <3>2 DEF Losses, Reckoning, SearchIsEarned
  <2> QED
    BY <2>1, <2>2, <2>3, <2>4, StepCases
<1>4. CASE \/ Receive \/ TickSends \/ TickRecords \/ LoopStops \/ LoopClaims \/ LoopNeutral
           \/ Main \/ UNCHANGED vars
  <2>1. UNCHANGED <<now, state, lostSince, pausedSince, paused, searched>>
    BY <1>4 DEF vars, storeVars, controlVars, Receive, TickSends, TickRecords, LoopStops, LoopClaims,
                LoopNeutral, Main, Stop, MainClaims, MainNeutral, CloseSink
  <2> QED
    BY <2>1 DEF Losses, Reckoning, SearchIsEarned, Pausing
<1> QED
  BY <1>2, <1>3, <1>4 DEF Next, Loop

\* What is pressed is a turn, and the pulse knows of it.
LEMMA Pulses ==
    ASSUME Ranges, Sink, NEW turn \in Side
    PROVE  /\ Pressed(turn) \in Side
           /\ NextPulse(turn) \in [pressed : BOOLEAN, direction : Side, next : Int]
           /\ NextPulse(turn).next \in 0..(now + PulseInterval)
           /\ Pressed(turn) # 0 => NextPulse(turn).pressed /\ Pressed(turn) = NextPulse(turn).direction
<1>1. now \in Nat /\ PulseInterval \in Nat /\ pulse.next \in 0..(now + PulseInterval)
  BY NoneAssumption, ConfigAssumption DEF Ranges, Sink
<1>2. Pressed(turn) \in {0, turn}
  BY DEF Pressed
<1>3. Pressed(turn) \in Side
  BY <1>2 DEF Side
<1> DEFINE due == IF Pressed(turn) # 0 THEN now + PulseInterval
                  ELSE IF turn # pulse.direction THEN now ELSE pulse.next
<1>4. due \in 0..(now + PulseInterval)
  BY <1>1
<1>5. NextPulse(turn) = IF turn = 0 THEN [pressed |-> FALSE, direction |-> 0, next |-> now]
                        ELSE [pressed |-> Pressed(turn) # 0, direction |-> turn, next |-> due]
  BY DEF NextPulse
<1>6. due \in Int
  BY <1>1, <1>4
<1> HIDE DEF due
<1>7. NextPulse(turn) \in [pressed : BOOLEAN, direction : Side, next : Int]
  BY <1>1, <1>5, <1>6 DEF Side
<1>8. NextPulse(turn).next \in 0..(now + PulseInterval)
  BY <1>1, <1>4, <1>5
<1>9. Pressed(turn) # 0 => NextPulse(turn).pressed /\ Pressed(turn) = NextPulse(turn).direction
  <2> SUFFICES ASSUME Pressed(turn) # 0
               PROVE  NextPulse(turn).pressed /\ Pressed(turn) = NextPulse(turn).direction
    OBVIOUS
  <2>1. turn # 0 /\ Pressed(turn) = turn
    BY <1>2
  <2>2. NextPulse(turn).pressed = (Pressed(turn) # 0) /\ NextPulse(turn).direction = turn
    BY <1>5, <2>1
  <2>3. NextPulse(turn).pressed
    BY <2>2, Zenon
  <2> QED
    BY <2>1, <2>2, <2>3
<1> QED
  BY <1>3, <1>7, <1>8, <1>9

\* Whatever is sent, or fails to be, the sink is what it was.
LEMMA SinkSends ==
    ASSUME Ranges, Sink, UNCHANGED now,
           NEW d \in [state : States, forward : BOOLEAN, turn : Side], Sends(d) \/ SendRaises(d)
    PROVE  Sink'
<1>1. d.turn \in Side /\ d.forward \in BOOLEAN
  OBVIOUS
<1>2. CASE Sends(d)
  BY <1>1, <1>2, Pulses DEF Sends, Sink
<1>3. CASE SendRaises(d)
  <2>1. CASE closed
    BY <1>3, <2>1 DEF SendRaises, Sink, sinkVars
  <2>2. CASE ~closed
    <3>1. shown' \in [forward : BOOLEAN, button : Side] /\ pulse' = NextPulse(d.turn) /\ missed'
      BY <1>1, <1>3, <2>2 DEF SendRaises, Sink
    <3> QED
      BY <1>1, <1>3, <2>2, <3>1, Pulses DEF SendRaises, Sink
  <2> QED
    BY <2>1, <2>2
<1> QED
  BY <1>2, <1>3

\* A neutral decision is one.
LEMMA NeutralIsDecision ==
    Neutral("lost") \in [state : States, forward : BOOLEAN, turn : Side]
BY DEF Neutral, Decision, States, Side

\* A button that is shown is released by the pulse that pressed it.
LEMMA SinkStep ==
    ASSUME Ranges, Sink, [Next]_vars
    PROVE  Sink'
<1>1. CASE Passes
  <2>1. now \in Nat /\ PulseInterval \in Nat /\ pulse.next \in 0..(now + PulseInterval)
    BY NoneAssumption, ConfigAssumption DEF Ranges, Sink
  <2> DEFINE n == IF pulse.next > now THEN pulse.next ELSE now'
  <2>2. /\ now' = now + 1 /\ pulse' = [pulse EXCEPT !.next = n] /\ UNCHANGED <<shown, missed>>
    BY <1>1 DEF Passes
  <2>3. n \in 0..(now' + PulseInterval) /\ n \in Int
    BY <2>1, <2>2
  <2> HIDE DEF n
  <2>4. /\ pulse' \in [pressed : BOOLEAN, direction : Side, next : Int] /\ pulse'.next = n
        /\ pulse'.pressed = pulse.pressed /\ pulse'.direction = pulse.direction
    BY <2>2, <2>3 DEF Sink
  <2> QED
    BY <2>2, <2>3, <2>4 DEF Sink
<1>2. CASE TickSends
  BY <1>2, SinkSends DEF TickSends, Ranges, storeVars
<1>3. CASE LoopNeutral \/ MainNeutral
  BY <1>3, SinkSends, NeutralIsDecision DEF LoopNeutral, MainNeutral, NeutralSent, storeVars
<1>4. CASE CloseSink
  <2>1. UNCHANGED <<now, pulse>>
    BY <1>4 DEF CloseSink, storeVars
  <2>2. CASE shown' = Axes(Neutral("lost")) /\ missed' = FALSE
    BY <2>1, <2>2 DEF Sink, Axes, Neutral, Decision, Side
  <2>3. CASE shown' \in {shown, [shown EXCEPT !.forward = FALSE]} /\ missed' = TRUE
    BY <2>1, <2>3 DEF Sink
  <2> QED
    BY <1>4, <2>2, <2>3 DEF CloseSink
<1>5. CASE \/ Receive \/ TickDecides \/ TickRecords \/ LoopStops \/ LoopClaims \/ Stop \/ MainClaims
           \/ UNCHANGED vars
  BY <1>5 DEF Sink, vars, storeVars, sinkVars, Receive, TickDecides, TickRecords, LoopStops, LoopClaims,
              Stop, MainClaims
<1> QED
  BY <1>1, <1>2, <1>3, <1>4, <1>5 DEF Next, Loop, Main

\* What is neutral when sent is still, and so is what could not be sent.
LEMMA NeutralStills ==
    ASSUME NeutralSent
    PROVE  /\ closed' = closed
           /\ ~closed => Still'
           /\ Still => Still'
BY DEF NeutralSent, Sends, SendRaises, Still, Axes, Neutral, Decision, Pressed, sinkVars

\* Whichever thread has to see to it, the avatar is left standing.
LEMMA NeutralsStep ==
    ASSUME Threads, Neutrals, [Next]_vars
    PROVE  Neutrals'
<1>1. CASE Passes \/ Receive \/ TickDecides \/ LoopStops \/ UNCHANGED vars
  BY <1>1 DEF Neutrals, Still, vars, sinkVars, Passes, Receive, TickDecides, LoopStops
<1>2. CASE TickSends
  <2>1. /\ loop = "send" /\ UNCHANGED <<main, neutralized>>
        /\ \/ Sends(decision) /\ loop' = "record"
           \/ SendRaises(decision) /\ loop' = "finally"
    BY <1>2 DEF TickSends
  <2>2. closed' = closed /\ (closed => UNCHANGED sinkVars)
    BY <2>1 DEF Sends, SendRaises, sinkVars
  <2>3. loop' = "record" \/ missed' \/ UNCHANGED sinkVars
    BY <2>1 DEF SendRaises
  <2> QED
    BY <2>1, <2>2, <2>3 DEF Neutrals, Still, sinkVars
<1>3. CASE TickRecords
  BY <1>3 DEF Neutrals, Still, sinkVars, TickRecords, Records
<1>4. CASE LoopClaims
  BY <1>4 DEF Neutrals, Still, sinkVars, LoopClaims, Claims, Threads
<1>5. CASE LoopNeutral
  <2>1. NeutralSent /\ loop' = "gone" /\ UNCHANGED <<main, neutralized>>
    BY <1>5 DEF LoopNeutral
  <2>2. closed' = closed /\ (~closed => Still') /\ (Still => Still')
    BY <2>1, NeutralStills
  <2> QED
    BY <2>1, <2>2 DEF Neutrals
<1>6. CASE Stop
  BY <1>6 DEF Neutrals, Still, sinkVars, Stop
<1>7. CASE MainClaims
  BY <1>7 DEF Neutrals, Still, sinkVars, MainClaims, Claims, Threads
<1>8. CASE MainNeutral
  <2>1. NeutralSent /\ main = "emit" /\ main' = "close" /\ UNCHANGED <<loop, neutralized>>
    BY <1>8 DEF MainNeutral
  <2>2. closed' = closed /\ (~closed => Still')
    BY <2>1, NeutralStills
  <2> QED
    BY <2>1, <2>2 DEF Neutrals
<1>9. CASE CloseSink
  <2>1. Still' /\ closed' /\ main = "close" /\ main' = "done" /\ UNCHANGED <<loop, neutralized>>
    BY <1>9 DEF CloseSink, Still
  <2> QED
    BY <2>1 DEF Neutrals
<1> QED
  BY <1>1, <1>2, <1>3, <1>4, <1>5, <1>6, <1>7, <1>8, <1>9 DEF Next, Loop, Main

\* The invariant of the follower holds at first and after every step.
THEOREM InvHolds == Spec => []IInv
<1>1. Init => IInv
  <2> SUFFICES ASSUME Init PROVE IInv
    OBVIOUS
  <2>1. Ranges
    BY NoneAssumption DEF Init, Ranges, States, Side, Neutral, Decision
  <2>2. Threads /\ Neutrals
    BY DEF Init, Threads, Neutrals, Still
  <2>3. Sink
    <3>1. shown = [forward |-> FALSE, button |-> 0] /\ ~missed /\ now = 0
      BY DEF Init, Axes, Neutral, Decision
    <3>2. pulse = [pressed |-> FALSE, direction |-> 0, next |-> 0] /\ missed \in BOOLEAN
      BY DEF Init
    <3>3. pulse.next \in 0..(now + PulseInterval)
      BY <3>1, <3>2, ConfigAssumption
    <3> QED
      BY <3>1, <3>2, <3>3 DEF Sink, Side
  <2>4. Losses /\ Reckoning /\ SearchIsEarned
    BY ConfigAssumption DEF Init, Losses, Reckoning, SearchIsEarned, Pausing
  <2> QED
    BY <2>1, <2>2, <2>3, <2>4 DEF IInv
<1>2. IInv /\ [Next]_vars => IInv'
  BY RangesStep, ThreadsStep, SinkStep, LossStep, NeutralsStep DEF IInv
<1> QED
  BY <1>1, <1>2, PTL DEF Spec

\* The follower's variables keep to their ranges, and a button that VRChat shows as
\* held is one that the pulse will release.
THEOREM TypeCorrect == Spec => []TypeOK
<1>1. IInv => TypeOK
  <2> SUFFICES ASSUME IInv PROVE TypeOK
    OBVIOUS
  <2>1. latest # None => latest.at \in 0..now
    BY DEF IInv, Ranges, Observations
  <2>2. /\ shown.forward \in BOOLEAN /\ shown.button \in Side
        /\ pulse.direction \in Side /\ pulse.next \in 0..(now + PulseInterval)
        /\ shown.button # 0 /\ ~missed => pulse.pressed /\ shown.button = pulse.direction
    BY DEF IInv, Sink
  <2> QED
    BY <2>1, <2>2 DEF TypeOK, IInv, Ranges, Threads, Losses, States
<1> QED
  BY <1>1, InvHolds, PTL

\* The avatar looks around or walks off only after it has really searched so long.
THEOREM EveryWaitIsWaited == Spec => []SearchIsEarned
<1>1. IInv => SearchIsEarned
  BY DEF IInv
<1> QED
  BY <1>1, InvHolds, PTL

\* With the decision thread gone the avatar stands, whoever had to see to it.
THEOREM StandsStill == Spec => []StopStandsStill
<1>1. IInv => StopStandsStill
  BY DEF IInv, Neutrals, Still, StopStandsStill
<1> QED
  BY <1>1, InvHolds, PTL
----------------------------------------------------------------------------
(***************************************************************************)
(* Perception: the inductive invariant, part by part.                      *)
(***************************************************************************)

\* The bodies of a frame are people's, with numbers or without.
Bodies == [who : Person, id : {0, 1, 2}]

Places ==
    /\ named \in BOOLEAN
    /\ bodies \subseteq Bodies
    /\ frame \in Frame
    /\ plate \in Place \cup {Nobody} /\ (runner \in {"start", "read", "track", "locate"} => plate = Nobody)
    /\ missing \in Nat /\ gone \in 0..Misses

\* With a name to look for, everything that is remembered of a plate is of one that
\* bears it, and so is whoever is followed by his body.
Bears ==
    named =>
      /\ anchor # NoAnchor => Cut = Sought
      /\ look \in {Nobody, Sought}
      /\ runner = "select" /\ plate # Nobody => frame[plate] = Sought
      /\ target.who \in {Nobody, Sought} /\ observed.who \in {Nobody, Sought}
      /\ followed = Nothing

\* Without one there are no plates; the target is whom the selector followed last,
\* missed for as many frames as nobody was shown, or given up after all of them.
Follows ==
    ~named =>
      /\ reader.at = "dead" /\ anchor = NoAnchor /\ look = Nobody /\ plate = Nobody
      /\ observed.who \in {Nobody, followed.who}
      /\ followed.id # 0 =>
           \/ target # NoBody /\ target.who = followed.who /\ target.id = followed.id /\ missing = gone
           \/ target = NoBody /\ gone >= Misses

PInv == Places /\ Bears /\ Follows

\* Only people are detected.
LEMMA DetectionsAreBodies ==
    ASSUME NEW f \in Frame, NEW d \in Detections(f)
    PROVE  d \subseteq Bodies
<1>1. PICK found \in SUBSET Seen(f) :
        d \in {{[who |-> p, id |-> id[p]] : p \in found} : id \in [found -> {1, 2}] \cup {[p \in found |-> 0]}}
  BY DEF Detections
<1>2. PICK id \in [found -> {1, 2}] \cup {[p \in found |-> 0]} : d = {[who |-> p, id |-> id[p]] : p \in found}
  BY <1>1
<1>3. \A p \in found : id[p] \in {0, 1, 2}
  BY <1>2
<1>4. \A p \in found : p \in Person
  BY DEF Seen, Frame
<1> QED
  BY <1>2, <1>3, <1>4 DEF Bodies

\* A frame may be empty.
LEMMA EmptyFrame == NoFrame \in Frame
BY DEF NoFrame, Frame

\* What a selection may have chosen.
LEMMA SelectCases ==
    ASSUME PInv, runner = "select", SelectNamed \/ SelectTarget \/ SelectNothingYet \/ SelectAnew
    PROVE  \/ /\ plate # Nobody
              /\ \/ \E b \in bodies : /\ b.who = frame[plate] /\ target' = Numbered(b)
                                      /\ missing' = 0 /\ observed'.who = b.who
                 \/ observed'.who = frame[plate] /\ UNCHANGED <<target, missing>>
           \/ /\ plate = Nobody /\ target # NoBody /\ target \in bodies
              /\ observed'.who = target.who /\ observed'.id = target.id
              /\ missing' = 0 /\ target' = target
           \/ /\ plate = Nobody /\ target # NoBody /\ missing + 1 < Misses
              /\ observed' = Nothing /\ missing' = missing + 1 /\ target' = target
           \/ /\ plate = Nobody /\ (target = NoBody \/ missing + 1 >= Misses)
              /\ \/ observed' = Nothing /\ target' = NoBody /\ missing' = 0
                 \/ \E b \in bodies : /\ ~named /\ target' = Numbered(b) /\ missing' = 0
                                      /\ observed'.who = b.who /\ observed'.id = b.id
<1>1. missing \in Nat /\ Misses \in Nat
  BY PerceptionAssumption DEF PInv, Places
<1>2. CASE SelectNamed
  BY <1>2 DEF SelectNamed, Shows, NoBody
<1>3. CASE SelectTarget
  BY <1>3 DEF SelectTarget, Shows
<1>4. CASE SelectNothingYet
  BY <1>1, <1>4 DEF SelectNothingYet, LastMiss
<1>5. CASE SelectAnew
  BY <1>5 DEF SelectAnew, GivenUp, LastMiss, Shows, Forget
<1> QED
  BY <1>2, <1>3, <1>4, <1>5

\* Bodies, the plate and the counts are what they should be.
LEMMA PlacesStep ==
    ASSUME PInv, [PerceptionNext]_perceptionVars
    PROVE  Places'
<1>1. Places /\ Misses \in Nat \ {0}
  BY PerceptionAssumption DEF PInv
<1>2. CASE Capture
  BY <1>1, <1>2 DEF Capture, Places, selectorVars
<1>3. CASE Track
  <2>1. bodies' \subseteq Bodies
    <3>1. bodies' = {} \/ bodies' \in Detections(frame)
      BY <1>3 DEF Track
    <3> QED
      BY <3>1, DetectionsAreBodies DEF PInv, Places
  <2> QED
    BY <1>1, <1>3, <2>1 DEF Track, Places, selectorVars
<1>4. CASE Locate
  <2>1. /\ UNCHANGED <<named, frame, bodies, missing, gone>> /\ runner' = "select"
        /\ plate' \in Place \cup {Nobody}
    BY <1>4 DEF Locate, selectorVars
  <2> QED
    BY <1>1, <2>1 DEF Places
<1>5. CASE Select
  <2>1. runner = "select" /\ runner' = "read" /\ bodies' = {} /\ plate' = Nobody /\ named' = named
        /\ frame' \in Frame
    BY <1>5, EmptyFrame DEF Select
  <2>2. missing' \in Nat
    BY <1>1, <1>5, <2>1, SelectCases DEF Select, Places
  <2>3. gone' \in 0..Misses
    BY <1>1, <1>5 DEF Select, Remember, Places
  <2> QED
    BY <1>1, <2>1, <2>2, <2>3 DEF Places
<1>6. CASE \/ ReaderTakes \/ ReaderAnswers \/ ReaderFails \/ Start \/ Leave \/ Close
           \/ UNCHANGED perceptionVars
  <2>1. /\ UNCHANGED <<named, frame, bodies, plate, missing, gone>>
        /\ runner' \in {"start", "read", "track", "locate"} => runner' = runner \/ runner = "start"
    BY <1>6 DEF ReaderTakes, ReaderAnswers, ReaderFails, Start, Leave, Close, perceptionVars, runnerVars,
                selectorVars
  <2> QED
    BY <1>1, <2>1 DEF Places
<1> QED
  BY <1>2, <1>3, <1>4, <1>5, <1>6 DEF PerceptionNext

\* A plate is remembered as it looked where and when it was read.
LEMMA BearsStep ==
    ASSUME PInv, [PerceptionNext]_perceptionVars
    PROVE  Bears'
<1>1. Bears /\ Places /\ Nobody \notin Place
  BY PerceptionAssumption DEF PInv
<1> SUFFICES ASSUME named' PROVE Bears'
  BY DEF Bears
<1>2. CASE ReaderAnswers
  <2>1. UNCHANGED <<named, runner, frame, plate, look, target, observed, followed>>
    BY <1>2 DEF ReaderAnswers, runnerVars, locatorVars, selectorVars
  <2>2. \/ anchor' = anchor
        \/ \E p \in Place : reader.frame[p] = Sought /\ anchor' = [frame |-> reader.frame, place |-> p]
    BY <1>2 DEF ReaderAnswers
  <2>3. anchor' # NoAnchor => Cut' = Sought
    BY <1>1, <2>1, <2>2 DEF Bears, Cut
  <2> QED
    BY <1>1, <2>1, <2>3 DEF Bears
<1>3. CASE ReaderFails
  BY <1>1, <1>3 DEF ReaderFails, Bears, runnerVars, selectorVars
<1>4. CASE Capture
  BY <1>1, <1>4 DEF Capture, Bears, Cut, locatorVars, selectorVars
<1>5. CASE Locate
  <2>1. /\ UNCHANGED <<named, frame, observed, target, followed>> /\ anchor' = NoAnchor
        /\ runner' = "select"
    BY <1>5 DEF Locate, selectorVars
  <2> DEFINE known == IF anchor = NoAnchor THEN look ELSE Cut
  <2>2. known \in {Nobody, Sought}
    BY <1>1, <2>1 DEF Bears
  <2>3. /\ look' \in {Nobody, known}
        /\ plate' = Nobody \/ (known # Nobody /\ frame[plate'] = known)
    BY <1>5 DEF Locate
  <2> HIDE DEF known
  <2> QED
    BY <1>1, <2>1, <2>2, <2>3 DEF Bears
<1>6. CASE Select
  <2>1. /\ UNCHANGED <<named, anchor, look>> /\ runner' = "read" /\ runner = "select" /\ named
        /\ followed' = followed
    BY <1>6 DEF Select, Remember, readerVars, locatorVars
  <2>2. target'.who \in {Nobody, Sought} /\ observed'.who \in {Nobody, Sought}
    BY <1>1, <1>6, <2>1, SelectCases DEF Select, Bears, Numbered, NoBody, Nothing
  <2> QED
    BY <1>1, <2>1, <2>2 DEF Bears, Cut
<1>7. CASE ReaderTakes \/ Start \/ Track \/ Leave \/ UNCHANGED perceptionVars
  <2>1. /\ UNCHANGED <<named, frame, plate, observed, anchor, look, target, followed>>
        /\ runner' = "select" => runner = "select"
    BY <1>7 DEF ReaderTakes, Start, Track, Leave, perceptionVars, runnerVars, readerVars, locatorVars,
                selectorVars
  <2> QED
    BY <1>1, <2>1 DEF Bears, Cut
<1>8. CASE Close
  BY <1>1, <1>8 DEF Close, Bears, selectorVars
<1> QED
  BY <1>2, <1>3, <1>4, <1>5, <1>6, <1>7, <1>8 DEF PerceptionNext

\* Without a name a body is followed by its number, until it was missed too often;
\* and whoever is then shown instead was waited for.
LEMMA FollowsStep ==
    ASSUME PInv, [PerceptionNext]_perceptionVars
    PROVE  /\ Follows'
           /\ observed'.who \notin {Nobody, followed.who} /\ followed.id # 0 => gone >= Misses - 1
<1>1. /\ Follows /\ Bears /\ Places /\ Misses \in Nat \ {0} /\ gone \in Nat /\ missing \in Nat
      /\ Nobody \notin Person
  BY PerceptionAssumption DEF PInv, Places
<1>2. named' = named
  BY DEF PerceptionNext, ReaderTakes, ReaderAnswers, ReaderFails, Start, Capture, Track, Locate, Select,
         Leave, Close, perceptionVars
<1>3. CASE named
  <2>1. followed.id = 0
    BY <1>1, <1>3 DEF Bears, Nothing
  <2> QED
    BY <1>2, <1>3, <2>1 DEF Follows
<1>4. CASE ~named /\ ~Select
  <2>1. UNCHANGED <<observed, followed, gone, target, missing>>
    BY <1>4 DEF PerceptionNext, ReaderTakes, ReaderAnswers, ReaderFails, Start, Capture, Track, Locate,
                Leave, Close, perceptionVars, runnerVars, selectorVars
  <2>2. reader'.at = "dead" /\ anchor' = NoAnchor /\ look' = Nobody /\ plate' = Nobody
    <3>1. CASE ReaderTakes \/ ReaderAnswers \/ ReaderFails
      BY <1>1, <1>4, <3>1 DEF Follows, ReaderTakes, ReaderAnswers, ReaderFails
    <3>2. CASE Start \/ Track \/ Leave \/ UNCHANGED perceptionVars
      BY <1>1, <1>4, <3>2 DEF Follows, Start, Track, Leave, NoReader, perceptionVars, runnerVars,
                              readerVars, locatorVars
    <3>3. CASE Capture
      BY <1>1, <1>4, <3>3 DEF Follows, Capture, Submits, ShouldSubmit, locatorVars
    <3>4. CASE Locate
      BY <1>1, <1>4, <3>4 DEF Follows, Locate
    <3>5. CASE Close
      BY <1>1, <1>4, <3>5 DEF Follows, Close, NoReader
    <3> QED
      BY <1>4, <3>1, <3>2, <3>3, <3>4, <3>5 DEF PerceptionNext
  <2> QED
    BY <1>1, <1>2, <1>4, <2>1, <2>2 DEF Follows
<1>5. CASE ~named /\ Select
  <2>1. /\ UNCHANGED <<reader, anchor, look>> /\ plate' = Nobody /\ runner = "select" /\ plate = Nobody
        /\ IF observed'.who = Nobody
             THEN followed' = followed /\ gone' = IF gone < Misses THEN gone + 1 ELSE gone
             ELSE followed' = observed' /\ gone' = 0
    BY <1>1, <1>5 DEF Select, Remember, Follows, readerVars, locatorVars
  <2>2. \/ /\ target # NoBody /\ target \in bodies /\ missing' = 0 /\ target' = target
           /\ observed'.who = target.who /\ observed'.id = target.id
        \/ /\ target # NoBody /\ missing + 1 < Misses
           /\ observed' = Nothing /\ missing' = missing + 1 /\ target' = target
        \/ /\ target = NoBody \/ missing + 1 >= Misses
           /\ \/ observed' = Nothing /\ target' = NoBody /\ missing' = 0
              \/ \E b \in bodies : /\ target' = Numbered(b) /\ missing' = 0
                                   /\ observed'.who = b.who /\ observed'.id = b.id
    BY <1>5, <2>1, SelectCases DEF Select
  <2>3. \A b \in bodies : b.who \in Person /\ b.who # Nobody /\ b # NoBody
    BY <1>1 DEF Places, Bodies, NoBody
  <2>4. observed'.who \in {Nobody, followed'.who}
    BY <2>1
  <2>5. CASE observed' = Nothing
    <3>1. observed'.who = Nobody
      BY <2>5 DEF Nothing
    <3>2. followed' = followed /\ gone' = IF gone < Misses THEN gone + 1 ELSE gone
      BY <2>1, <3>1
    <3>3. followed'.id # 0 =>
             \/ target' # NoBody /\ target'.who = followed'.who /\ target'.id = followed'.id /\ missing' = gone'
             \/ target' = NoBody /\ gone' >= Misses
      <4>1. CASE target # NoBody /\ missing + 1 < Misses /\ missing' = missing + 1 /\ target' = target
        BY <1>1, <1>5, <3>2, <4>1 DEF Follows
      <4>2. CASE (target = NoBody \/ missing + 1 >= Misses) /\ target' = NoBody
        BY <1>1, <1>5, <3>2, <4>2 DEF Follows
      <4> QED
        BY <2>2, <2>3, <3>1, <4>1, <4>2
    <3> QED
      BY <1>1, <1>2, <1>5, <2>1, <2>4, <3>1, <3>3 DEF Follows
  <2>6. CASE /\ target # NoBody /\ target \in bodies /\ missing' = 0 /\ target' = target
             /\ observed'.who = target.who /\ observed'.id = target.id
    <3>1. followed' = observed' /\ gone' = 0
      BY <2>1, <2>3, <2>6
    <3>2. Follows'
      BY <1>1, <1>2, <1>5, <2>1, <2>4, <2>6, <3>1 DEF Follows
    <3>3. observed'.who # followed.who /\ followed.id # 0 => gone >= Misses
      BY <1>1, <1>5, <2>6 DEF Follows
    <3> QED
      BY <1>1, <3>2, <3>3
  <2>7. CASE /\ target = NoBody \/ missing + 1 >= Misses
             /\ \E b \in bodies : /\ target' = Numbered(b) /\ missing' = 0
                                  /\ observed'.who = b.who /\ observed'.id = b.id
    <3>1. PICK b \in bodies : /\ target' = Numbered(b) /\ missing' = 0
                              /\ observed'.who = b.who /\ observed'.id = b.id
      BY <2>7
    <3>2. followed' = observed' /\ gone' = 0
      BY <2>1, <2>3, <3>1
    <3>3. Follows'
      BY <1>1, <1>2, <1>5, <2>1, <2>3, <2>4, <3>1, <3>2 DEF Follows, Numbered
    <3>4. followed.id # 0 => gone >= Misses - 1
      BY <1>1, <1>5, <2>7 DEF Follows
    <3> QED
      BY <3>3, <3>4
  <2> QED
    BY <2>2, <2>5, <2>6, <2>7
<1> QED
  BY <1>3, <1>4, <1>5

\* The invariant of the perception process holds at first and after every step.
THEOREM PerceptionInvHolds == PerceptionSpec => []PInv
<1>1. PerceptionInit => PInv
  <2> SUFFICES ASSUME PerceptionInit PROVE PInv
    OBVIOUS
  <2>1. Places
    BY EmptyFrame, PerceptionAssumption DEF PerceptionInit, Places
  <2>2. Bears /\ Follows
    BY DEF PerceptionInit, Bears, Follows, Nothing, NoBody, NoReader
  <2> QED
    BY <2>1, <2>2 DEF PInv
<1>2. PInv /\ [PerceptionNext]_perceptionVars => PInv'
  BY PlacesStep, BearsStep, FollowsStep DEF PInv
<1> QED
  BY <1>1, <1>2, PTL DEF PerceptionSpec

\* Whoever is shown bears the name that is looked for; without one, another body is
\* taken for the one that was followed only after that was missed for so many frames.
THEOREM ShowsTheSame == PerceptionSpec => ShowsWhomItFollows
<1>1. PInv => (named => observed.who \in {Nobody, Sought})
  BY DEF PInv, Bears
<1>2. PInv /\ [PerceptionNext]_perceptionVars =>
        [observed'.who \notin {Nobody, followed.who} /\ followed.id # 0 => gone >= Misses - 1]_perceptionVars
  BY FollowsStep
<1> QED
  BY <1>1, <1>2, PerceptionInvHolds, PTL DEF PerceptionSpec, ShowsWhomItFollows
=============================================================================
