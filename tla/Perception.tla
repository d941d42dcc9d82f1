----------------------------- MODULE Perception -----------------------------
(***************************************************************************)
(* The perception process, which tells the follower where its player is    *)
(* seen.  The runner's thread takes a frame, finds the bodies in it,       *)
(* relocates the name it knows by the look of its plate, and chooses whom  *)
(* to show.  A second thread reads names, which takes seconds: its answer  *)
(* is about a frame that is long over when it comes.                       *)
(*                                                                         *)
(* A frame is who stands at which place.  The library that tracks bodies   *)
(* may miss one, or lose it and give it another number, but does not give  *)
(* the number of one to another; people stand so far apart that a plate is *)
(* over no body but its own; the reader takes no other name for the one    *)
(* sought, and the look of a plate is found again only on the one it was   *)
(* cut from.  All of that is geometry and recognition.  Time is left out:  *)
(* an anchor may have expired and a scan may be too early whenever the     *)
(* code asks.  That a scan is under way, which an observation also tells,  *)
(* is Follow's scan.                                                       *)
(***************************************************************************)
EXTENDS Naturals

CONSTANTS
    Person, Place,
    Nobody,             \* no person, no plate, no number
    Sought,             \* whose name is looked for
    Misses              \* reacquire_after_missed_frames

ASSUME PerceptionAssumption ==
    Sought \in Person /\ Nobody \notin Person \cup Place /\ Misses \in Nat \ {0}

VARIABLES
    named,      \* whether a name is looked for
    \* WindowsPerceptionRunner.run: where it is, with the frame, its bodies and the
    \* place of the plate; what it showed last
    runner, frame, bodies, plate, observed,
    \* AsyncNameplateTracker: its thread and the frame that has; the scans so far
    \* ("none", the "first", or one is "done"); its last answer; whose plate the
    \* locator has the look of; whether it found that last
    reader, scans, anchor, look, healthy,
    \* TargetFusionSelector
    target, missing,
    \* history, when no name is looked for: who was shown last, and for how many
    \* frames nobody was since
    followed, gone

runnerVars == <<runner, frame, bodies, plate, observed>>
readerVars == <<reader, scans, anchor>>
locatorVars == <<look, healthy>>
selectorVars == <<target, missing, followed, gone>>
perceptionVars == <<named, runnerVars, readerVars, locatorVars, selectorVars>>

Frame == {f \in [Place -> Person \cup {Nobody}] :
              \A p, q \in Place : p # q /\ f[p] = f[q] => f[p] = Nobody}
NoFrame == [p \in Place |-> Nobody]
Seen(f) == {f[p] : p \in Place} \ {Nobody}

\* A body and its number: a person may be known by two, one after the other.
NoBody == [who |-> Nobody, id |-> 0]
Numbered(b) == IF b.id = 0 THEN NoBody ELSE b

\* Either all bodies of a frame have numbers or none has.
Detections(f) ==
    UNION {{{[who |-> p, id |-> id[p]] : p \in found} : id \in [found -> {1, 2}] \cup {[p \in found |-> 0]}}
               : found \in SUBSET Seen(f)}

Nothing == [who |-> Nobody, source |-> "none", id |-> 0]

----------------------------------------------------------------------------
(***************************************************************************)
(* The thread that reads names.                                            *)
(***************************************************************************)
NoReader == [at |-> "dead", frame |-> NoFrame]
NoAnchor == [frame |-> NoFrame, place |-> Nobody]
Runs == reader.at # "dead"

ReaderTakes ==
    /\ reader.at = "waiting" /\ runner # "over"
    /\ reader' = [reader EXCEPT !.at = "reading"]
    /\ UNCHANGED <<named, runnerVars, scans, anchor, locatorVars, selectorVars>>

\* The name is found where it is, unless it cannot be read.
ReaderAnswers ==
    /\ reader.at = "reading"
    /\ \/ UNCHANGED anchor
       \/ \E p \in Place : reader.frame[p] = Sought /\ anchor' = [frame |-> reader.frame, place |-> p]
    /\ scans' = "done"
    /\ reader' = IF runner = "over" THEN NoReader ELSE [at |-> "idle", frame |-> NoFrame]
    /\ UNCHANGED <<named, runnerVars, locatorVars, selectorVars>>

\* It ends at the first error: what the locator knows stays.
ReaderFails ==
    /\ reader.at = "reading"
    /\ reader' = NoReader
    /\ anchor' = NoAnchor
    /\ healthy' = FALSE
    /\ UNCHANGED <<named, runnerVars, scans, look, selectorVars>>

----------------------------------------------------------------------------
(***************************************************************************)
(* The runner.                                                             *)
(***************************************************************************)
Start ==
    /\ runner = "start"
    /\ runner' = "read"
    /\ reader' = IF named THEN [NoReader EXCEPT !.at = "idle"] ELSE NoReader
    /\ UNCHANGED <<named, frame, bodies, plate, observed, scans, anchor, locatorVars, selectorVars>>

\* A target that is followed by its body needs no name.
ShouldSubmit == named /\ observed.source # "body"

\* The tracker takes no frame while it relocates the plate by its look, or is busy,
\* or finds it too soon.
Submits == ShouldSubmit /\ Runs /\ ~healthy /\ reader.at = "idle"

Capture ==
    /\ runner = "read"
    /\ frame' \in Frame
    /\ \/ /\ Submits
          /\ reader' = [at |-> "waiting", frame |-> frame']
          /\ scans' = IF scans = "none" THEN "first" ELSE scans
       \/ UNCHANGED <<reader, scans>>
    /\ runner' = "track"
    /\ UNCHANGED <<named, bodies, plate, observed, anchor, locatorVars, selectorVars>>

\* The bodies wait for the first scan.
FirstScanPending == named /\ Runs /\ scans = "first"

Track ==
    /\ runner = "track"
    /\ bodies' \in IF FirstScanPending THEN {{}} ELSE Detections(frame)
    /\ runner' = "locate"
    /\ UNCHANGED <<named, frame, plate, observed, readerVars, locatorVars, selectorVars>>

\* Faulty: the plate as it looks there by now.
CutFromThisFrame == frame[anchor.place]

\* What the locator is given: the plate as it looked where and when it was read.
Cut == anchor.frame[anchor.place]

Locate ==
    /\ runner = "locate"
    /\ anchor' = NoAnchor
    /\ LET known == IF anchor = NoAnchor THEN look ELSE Cut
       IN \/ /\ known = Nobody
             /\ plate' = Nobody /\ look' = Nobody
             /\ UNCHANGED healthy
          \/ /\ known # Nobody                    \* it has expired
             /\ plate' = Nobody /\ look' = Nobody /\ healthy' = FALSE
          \/ /\ known # Nobody
             /\ plate' \in {Nobody} \cup {p \in Place : frame[p] = known}
             /\ look' = known /\ healthy' = (plate' # Nobody)
    /\ runner' = "select"
    /\ UNCHANGED <<named, frame, bodies, observed, reader, scans, selectorVars>>

----------------------------------------------------------------------------
(***************************************************************************)
(* TargetFusionSelector.select, and what is sent of it.                    *)
(***************************************************************************)
Shows(b, source) == observed' = [who |-> b.who, source |-> source, id |-> b.id]
Forget == target' = NoBody /\ missing' = 0

\* By the plate: its body's, if there is one, is the number to follow.
SelectNamed ==
    /\ plate # Nobody
    /\ \/ \E b \in bodies :
              /\ b.who = frame[plate]
              /\ Shows(b, "fused")
              /\ target' = Numbered(b) /\ missing' = 0
       \/ /\ \A b \in bodies : b.who # frame[plate]
          /\ Shows([NoBody EXCEPT !.who = frame[plate]], "nameplate")
          /\ UNCHANGED <<target, missing>>

SelectTarget ==
    /\ plate = Nobody /\ target # NoBody /\ target \in bodies
    /\ Shows(target, "body")
    /\ missing' = 0
    /\ UNCHANGED target

LastMiss == missing + 1 >= Misses

SelectNothingYet ==
    /\ plate = Nobody /\ target # NoBody /\ target \notin bodies /\ ~LastMiss
    /\ observed' = Nothing
    /\ missing' = missing + 1
    /\ UNCHANGED target

GivenUp == target = NoBody \/ (target \notin bodies /\ LastMiss)

\* A body without the name may be anybody's.
SelectAnew ==
    /\ plate = Nobody /\ GivenUp
    /\ \/ /\ named \/ bodies = {}
          /\ observed' = Nothing
          /\ Forget
       \/ \E b \in bodies :
              /\ ~named
              /\ Shows(b, "body")
              /\ target' = Numbered(b) /\ missing' = 0

\* The history of a run without a name.
Remember ==
    IF named THEN UNCHANGED <<followed, gone>>
    ELSE IF observed'.who = Nobody
      THEN followed' = followed /\ gone' = IF gone < Misses THEN gone + 1 ELSE gone
      ELSE followed' = observed' /\ gone' = 0

Select ==
    /\ runner = "select"
    /\ SelectNamed \/ SelectTarget \/ SelectNothingYet \/ SelectAnew
    /\ Remember
    /\ runner' = "read"
    /\ frame' = NoFrame /\ bodies' = {} /\ plate' = Nobody
    /\ UNCHANGED <<named, readerVars, locatorVars>>

\* The loop is left when it is told to stop or its time is over, or by whatever
\* raises on the way.
Leave ==
    /\ runner \in {"start", "read", "track", "locate", "select"}
    /\ runner' = "end"
    /\ UNCHANGED <<named, frame, bodies, plate, observed, readerVars, locatorVars, selectorVars>>

\* The reader is told to stop and waited for, in vain if it reads for too long.
Close ==
    /\ runner = "end"
    /\ runner' = "over"
    /\ reader' \in {NoReader} \cup (IF reader.at = "reading" THEN {reader} ELSE {})
    /\ anchor' = NoAnchor /\ healthy' = FALSE
    /\ UNCHANGED <<named, frame, bodies, plate, observed, scans, look, selectorVars>>

----------------------------------------------------------------------------
PerceptionInit ==
    /\ named \in BOOLEAN
    /\ runner = "start" /\ frame = NoFrame /\ bodies = {} /\ plate = Nobody /\ observed = Nothing
    /\ reader = NoReader /\ scans = "none" /\ anchor = NoAnchor
    /\ look = Nobody /\ healthy = FALSE
    /\ target = NoBody /\ missing = 0
    /\ followed = Nothing /\ gone = 0

PerceptionNext ==
    \/ ReaderTakes \/ ReaderAnswers \/ ReaderFails
    \/ Start \/ Capture \/ Track \/ Locate \/ Select
    \/ Leave \/ Close

PerceptionSpec == PerceptionInit /\ [][PerceptionNext]_perceptionVars

\* Property: with a name to look for, whoever is shown bears it: though the name
\* was read seconds ago somewhere else, the plate went out of sight, and bodies
\* were lost and found under other numbers.  Without one, another body is taken
\* for the one that was followed only after that was missed for so many frames.
ShowsWhomItFollows ==
    /\ [](named => observed.who \in {Nobody, Sought})
    /\ [][observed'.who \notin {Nobody, followed.who} /\ followed.id # 0 => gone >= Misses - 1]_perceptionVars
=============================================================================
