------------------------------- MODULE Decision -------------------------------
(***************************************************************************)
(* What becomes of the brain's answer, as data: a chat response is decoded *)
(* to a decision, the observation loop fetches the images it asks for or   *)
(* lacks, the final plan is validated into a bundle, and the bundle's      *)
(* actions are submitted one after another.  Each stage has checks of its  *)
(* own, and what one stage lets through the next has to be able to carry   *)
(* out.                                                                    *)
(*                                                                         *)
(* One turn.  Turns that supersede each other, deadlines' threads and the  *)
(* locks around the dispatch are Interaction's, and the stream behind the  *)
(* director is Motion's: here any call to a service, to the supervisor or  *)
(* to the director may fail.  Texts, durations and names stand for their   *)
(* classes.                                                                *)
(***************************************************************************)
EXTENDS Integers, Sequences, FiniteSets

CONSTANTS
    Clip, Loop,         \* the registered motions: a finite clip, and another
    MaxObservations     \* ObservationLoop's max_observations

VARIABLES
    policy,     \* ObservationLoop's policy
    provider,   \* "none", "live" or "replay": what fetches an image
    assets,     \* whether the director has motion_assets
    behaviors,  \* their behaviors, those of the registered motions the avatar can do
    stage,      \* "look", "ask", "dispatch", "raising", "done" or "failed"
    seen,       \* observation_count
    view,       \* the last image: "none", "fresh", or "old" beyond max_frame_age
    needs,      \* requires_visual of the decision that became the plan
    plan,       \* the validated actions
    started,    \* those whose submission returned
    cue,        \* the director holds a cue of this turn
    refusal     \* why the dispatch failed, or "none"

composition == <<policy, provider, assets, behaviors>>
submitted == <<started, cue, refusal>>
decisionVars == <<composition, stage, seen, view, needs, plan, submitted>>

(***************************************************************************)
(* What a brain may answer.                                                *)
(***************************************************************************)
Envelope ==
    [choice : BOOLEAN,                          \* there is a first choice
     finish : {"stop", "length"},
     failed : BOOLEAN,                          \* the service reports a failure
     message : {"plain", "tools", "missing"},
     content : {"blank", "broken", "list", "object"}]

\* An item of a plan.  "exact" is whether it has the fields of its type, no more.
Say == [type : {"say"}, exact : BOOLEAN,
        text : {"plain", "padded", "blank", "long", "wordy"}]
Ardy == [type : {"ardy_motion"}, exact : BOOLEAN,
         prompt : {"plain", "padded", "blank", "long", "foreign", "reserved"},
         duration : {"within", "beyond", "flag"}]
Preset == [type : {"motion"}, exact : BOOLEAN, name : {Clip, Loop, "unknown"},
           duration : {"absent", "null", "within", "beyond", "flag"}]
Item == Say \cup Ardy \cup Preset \cup [type : {"unknown"}, exact : {TRUE}]

(***************************************************************************)
(* Decoding the response.  Production's adapter and the benchmark's are    *)
(* two pieces of code.                                                     *)
(***************************************************************************)
ChatAccepts(e) ==
    /\ e.choice /\ e.finish = "stop" /\ ~e.failed
    /\ e.message = "plain"
    /\ e.content = "object"

HermesAccepts(e) ==
    /\ e.choice /\ e.finish = "stop" /\ ~e.failed
    /\ e.message \notin {"missing", "tools"}
    /\ e.content # "blank"
    /\ e.content \notin {"broken", "list"}

(***************************************************************************)
(* validate_action_bundle.                                                 *)
(***************************************************************************)
SayValid(i) == i.exact /\ i.text \in {"plain", "padded"}

ArdyValid(i) ==
    /\ i.exact
    /\ i.prompt \in {"plain", "padded", "reserved"}
    /\ i.duration = "within"

\* Faulty: what the profile registers, those the avatar cannot do included.
CatalogueOfProfile == {Clip, Loop}

\* The registered motions the runtime validates against: the assets' behaviors.
Catalogue == behaviors

\* A clip takes no duration; the other motions may.
PresetValid(i, known) ==
    /\ i.exact
    /\ i.name \in known
    /\ i.duration \in IF i.name = Clip THEN {"absent"} ELSE {"absent", "within"}

Valid(i) ==
    CASE i.type = "say"         -> SayValid(i)
      [] i.type = "ardy_motion" -> ArdyValid(i)
      [] i.type = "motion"      -> PresetValid(i, Catalogue)
      [] OTHER                  -> FALSE

ResourceOf(i) == IF i.type = "say" THEN "VOICE_OUTPUT" ELSE "FULL_BODY_POSE"

\* What the validated action keeps of the item.
Parsed(i) ==
    CASE i.type = "say"         -> [i EXCEPT !.text = "plain"]
      [] i.type = "ardy_motion" -> [i EXCEPT !.prompt = IF @ = "padded" THEN "plain" ELSE @]
      [] OTHER                  -> i

BundleValid(items) ==
    /\ Len(items) \in 1..2
    /\ \A k \in 1..Len(items) : Valid(items[k])
    /\ \A k, l \in 1..Len(items) : k # l => ResourceOf(items[k]) # ResourceOf(items[l])

(***************************************************************************)
(* ObservationLoop.run.                                                    *)
(***************************************************************************)
Fail == stage' = "failed" /\ UNCHANGED <<seen, view, needs, plan>>

\* An image is fetched, unless the turn had its share of them or the call fails.
Acquire ==
    /\ stage = "look"
    /\ \/ Fail
       \/ /\ seen < MaxObservations /\ provider # "none"
          /\ seen' = seen + 1 /\ view' = "fresh" /\ stage' = "ask"
          /\ UNCHANGED <<needs, plan>>
    /\ UNCHANGED <<composition, submitted>>

\* max_frame_age goes by since the image was asked for.  A replayed one is as
\* good as on its first day.
Ages ==
    /\ stage = "ask" /\ view = "fresh" /\ provider = "live"
    /\ view' = "old"
    /\ UNCHANGED <<composition, stage, seen, needs, plan, submitted>>

\* Faulty: any image of the turn will do.
GroundedByAny(visual) == visual => view # "none"

\* A plan about the scene is only taken with a fresh image.
Grounded(visual) == visual => view = "fresh"

\* The brain asks to look, its query from 1 to 1000 characters.
AsksToLook ==
    /\ \/ stage' = "look" /\ UNCHANGED <<seen, view, needs, plan>>
       \/ Fail
    /\ UNCHANGED <<composition, submitted>>

\* The brain's final plan.  One that lacks a fresh image makes the loop fetch
\* one and ask again; one that is not valid fails the turn.
Proposes(visual, items) ==
    /\ IF ~Grounded(visual)
       THEN stage' = "look" /\ UNCHANGED <<seen, view, needs, plan>>
       ELSE IF BundleValid(items)
            THEN /\ stage' = "dispatch"
                 /\ needs' = visual
                 /\ plan' = [k \in 1..Len(items) |-> Parsed(items[k])]
                 /\ UNCHANGED <<seen, view>>
            ELSE Fail
    /\ UNCHANGED <<composition, submitted>>

AnswerRefused ==
    /\ \E e \in Envelope : ~ChatAccepts(e)
    /\ Fail
    /\ UNCHANGED <<composition, submitted>>

Plans == UNION {[1..n -> Item] : n \in 0..2}

Answer ==
    /\ stage = "ask"
    /\ \/ AnswerRefused
       \/ AsksToLook
       \/ \E visual \in BOOLEAN, items \in Plans : Proposes(visual, items)

(***************************************************************************)
(* _dispatch_bundle: in the plan's order, a say to the supervisor, a       *)
(* motion to the director.  A call that raises fails the turn, whatever    *)
(* was started before it.                                                  *)
(***************************************************************************)
\* Evaluation, whose images are the replayed ones, records the plan instead.
RecordsPlan ==
    /\ provider = "replay"
    /\ stage' = "done"
    /\ UNCHANGED submitted

Accepted(a) ==
    /\ started' = Append(started, a)
    /\ stage' = IF Len(started) + 1 = Len(plan) THEN "done" ELSE "dispatch"
    /\ UNCHANGED refusal

Refused(why) == stage' = "failed" /\ refusal' = why /\ UNCHANGED started

\* What submit_cue makes of a registered motion before it validates it again.
Resubmitted(a) == [type |-> "motion", exact |-> TRUE, name |-> a.name, duration |-> a.duration]

\* What the director, by its own assets, has against an action.
Objection(a) ==
    CASE a.type = "ardy_motion" /\ a.prompt = "reserved" -> "reserved"
      [] a.type = "motion" /\ ~assets                    -> "assets"
      [] a.type = "motion" /\ assets /\ ~PresetValid(Resubmitted(a), behaviors) -> "unknown"
      [] OTHER                                           -> "none"

\* submit_cue: an action the director objects to, or one that finds it not
\* running, raises before the cue is placed.  Once it is placed the stream that
\* runs is given the prompt, if one does, and that call may raise.
SubmitCue(a) ==
    \/ Objection(a) # "none" /\ Refused(Objection(a)) /\ UNCHANGED cue
    \/ /\ Objection(a) = "none"
       /\ \/ Refused("not running") /\ UNCHANGED cue
          \/ cue' = TRUE /\ Accepted(a)
          \/ cue' = TRUE /\ stage' = "raising" /\ UNCHANGED <<started, refusal>>

\* apply_bundle returns, or raises (a thread that cannot start).  An output that
\* refuses the speech is the supervisor's to see to, and fails no turn.
ApplySay(a) == (Accepted(a) \/ Refused("raised")) /\ UNCHANGED cue

Dispatch ==
    /\ stage = "dispatch"
    /\ \/ RecordsPlan
       \/ /\ provider # "replay"
          /\ LET a == plan[Len(started) + 1]
             IN  IF a.type = "say" THEN ApplySay(a) ELSE SubmitCue(a)
    /\ UNCHANGED <<composition, seen, view, needs, plan>>

\* Faulty: _fail_stream leaves the cue to the next stream.
CueAfterFailureKept == cue

\* _fail_stream takes the cue back.
CueAfterFailure == FALSE

\* The stream that was given the prompt raised: it is failed, and the error is
\* the turn's.
PromptFails ==
    /\ stage = "raising"
    /\ cue' = CueAfterFailure
    /\ Refused("prompt")
    /\ UNCHANGED <<composition, seen, view, needs, plan>>

\* The director's own threads end the cue: its time is over or its stream failed.
CueEndsAlone ==
    /\ cue /\ cue' = FALSE
    /\ UNCHANGED <<composition, stage, seen, view, needs, plan, started, refusal>>

\* The runtime and the director of a companion are given the same assets, and
\* the benchmark's have none.
DecisionInit ==
    /\ policy \in {"always", "selective"}
    /\ provider \in {"none", "live", "replay"}
    /\ assets \in BOOLEAN
    /\ behaviors \in SUBSET {Clip, Loop}
    /\ ~assets => behaviors = {}
    /\ provider = "replay" => ~assets
    /\ stage = IF policy = "always" THEN "look" ELSE "ask"
    /\ seen = 0 /\ view = "none" /\ needs = FALSE /\ plan = <<>>
    /\ started = <<>> /\ cue = FALSE /\ refusal = "none"

DecisionNext == Acquire \/ Ages \/ Answer \/ Dispatch \/ PromptFails \/ CueEndsAlone

\* Property: what a turn starts is what its plan says, as far as it gets.  A plan
\* about the scene starts nothing without an image that was fresh when the plan
\* came.  What is started is a beginning of the validated plan, in its order and
\* with its fields, no device is given two actions, and a turn is done when all
\* of it is started, or recorded.  A turn whose dispatch fails was not started
\* whole, and the motion it failed on leaves no cue behind, though the director
\* had placed it.  It may well fail after its speech was started: on a prompt
\* that is reserved for registered motions, which the validator passes, on a
\* director that does not run, on a stream that refuses the prompt and on a
\* speech whose thread cannot start, and nothing takes back what stood before
\* it.  It never fails on a registered motion: what the validator passed, the
\* director's second look passes.
StartsWhatItPlanned ==
    /\ started # <<>> /\ needs => view = "fresh"
    /\ \A k, l \in 1..Len(started) : k # l => ResourceOf(started[k]) # ResourceOf(started[l])
    /\ started = SubSeq(plan, 1, Len(started))
    /\ stage = "done" => started = IF provider = "replay" THEN <<>> ELSE plan
    /\ refusal # "none" => stage = "failed" /\ Len(started) < Len(plan)
    /\ refusal \notin {"assets", "unknown"}
    /\ cue => stage = "raising" \/ \E k \in 1..Len(started) : started[k].type # "say"
    /\ \A k \in 1..Len(started) : started[k].type = "motion" /\ started[k].name = Clip =>
          started[k].duration = "absent"
=============================================================================
