------------------------------ MODULE EnergyVad ------------------------------
(***************************************************************************)
(* The energy gate that cuts the microphone's 20 ms frames into            *)
(* utterances, as operators on its buffers.  A frame is only loud or not,  *)
(* and lengths are counted in frames.                                      *)
(***************************************************************************)
EXTENDS Integers

CONSTANTS
    StartTrigger,   \* consecutive loud frames that open an utterance
    EndSilence,     \* quiet frames that close it
    PreRoll,        \* frames kept ahead of an utterance
    MinSpeech,      \* loud frames an utterance must have, or it is discarded
    MaxUtterance    \* frames after which it is cut

ASSUME VadAssumption ==
    /\ {StartTrigger, EndSilence, MinSpeech, MaxUtterance} \subseteq Nat \ {0}
    /\ PreRoll \in Nat
    /\ MaxUtterance >= StartTrigger

Empty == [active |-> FALSE, kept |-> 0, candidate |-> 0, voiced |-> 0,
          duration |-> 0, silence |-> 0]

Least(a, b) == IF a <= b THEN a ELSE b

\* _push_inactive_locked: a quiet frame joins the pre-roll and drops the
\* candidate; enough loud ones in a row open an utterance with both.
PushInactive(v, loud) ==
    IF ~loud
    THEN [v EXCEPT !.candidate = 0, !.kept = Least(@ + 1, PreRoll)]
    ELSE IF v.candidate + 1 < StartTrigger
    THEN [v EXCEPT !.candidate = @ + 1]
    ELSE [active |-> TRUE, kept |-> 0, candidate |-> 0,
          voiced |-> v.candidate + 1, duration |-> v.kept + v.candidate + 1,
          silence |-> 0]

PushActive(v, loud) ==
    [v EXCEPT !.duration = @ + 1,
              !.voiced = IF loud THEN @ + 1 ELSE @,
              !.silence = IF loud THEN 0 ELSE @ + 1]

\* _finish_locked: the silent tail stays as the next utterance's pre-roll, and
\* an utterance with too little speech is discarded.
Finish(v, keepTail) ==
    [vad |-> IF keepTail /\ PreRoll > 0
             THEN [Empty EXCEPT !.kept = Least(v.duration, PreRoll)]
             ELSE Empty,
     utterance |-> IF v.voiced < MinSpeech THEN "none" ELSE "speech"]

\* Push returns the buffers and the utterance it closes, if any.
Push(v, loud) ==
    LET next == IF v.active THEN PushActive(v, loud) ELSE PushInactive(v, loud)
    IN  IF next.active /\ next.silence >= EndSilence THEN Finish(next, TRUE)
        ELSE IF next.active /\ next.duration >= MaxUtterance THEN Finish(next, FALSE)
        ELSE [vad |-> next, utterance |-> "none"]
==============================================================================
