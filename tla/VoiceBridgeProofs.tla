-------------------------- MODULE VoiceBridgeProofs --------------------------
(***************************************************************************)
(* What holds of VoiceBridge for every set of actions and sessions, with   *)
(* an inductive invariant of twelve parts, and that it implements          *)
(* NewestOwner.                                                            *)
(***************************************************************************)
EXTENDS VoiceBridge, FiniteSetTheorems, TLAPS

Voiced == resources[Voice]

OnWin == {toWin[i] : i \in DOMAIN toWin}
OnMac == {toMac[i] : i \in DOMAIN toMac}
Control(m) == m.kind \in {"authorize", "neutralize"}
Calling(stages) == call # None /\ call.stage \in stages
FencesCurrent == call # None /\ call.then \in {"stop", "finish"}
\* Windows holds the voice in session x.
HeldIn(x) == session # None /\ session = x /\ Voiced.action # None
StartAt(i, x) == toWin[i].kind = "authorize" /\ toWin[i].session = x
\* A fence in session x that a holder with token k falls to
FenceAt(j, x, k) ==
    toWin[j].kind = "neutralize" /\ toWin[j].session = x /\ toWin[j].token >= k

----------------------------------------------------------------------------
\* Every variable has its type, and play_wav sends only under a session it read.
Types == TypeOK /\ \A a \in Action : pc[a] = "send" => playSession[a] # None

\* An action that is new or waits has no executor, the current one has, the
\* voice is nobody's when nothing runs, and the one that waits is pending.
Supervisor ==
    /\ \A a \in Action : state[a] \in {"new", "pending"} => pc[a] = "new"
    /\ current # None => pc[current] \notin {"new", "ended"}
    /\ call = None /\ (current = None \/ ~CurrentRuns) => owner = None
    /\ pending # None => state[pending] = "pending"

\* What the call under way was made for is still so: the condition is held.
CallMeans ==
    call # None =>
         /\ call.token = token
         /\ call.kind = "authorize" <=> call.then = "start"
         /\ call.then = "start" =>
              /\ call.action # None /\ current = None /\ owner = call.action
              /\ state[call.action] \in {"new", "pending"}
              /\ pending # call.action
         /\ call.then # "start" => owner = None
         /\ call.then \in {"stop", "finish"} => current # None
         /\ call.then = "finish" => pc[current] \in {"returned", "raised"}
         /\ call.then = "idle" => current = None
         /\ call.stage \in {"send", "wait"} => call.session # None

\* Both sides serve the same session, which only this connection opened.
Connection ==
    /\ macSession \in used \cup {None}
    /\ opened \subseteq used
    /\ session \in opened \cup {None}
    /\ exclusive = None
    /\ macSession = None <=> macPhase = "closed"
    /\ link = "up" => macSession # None /\ win # "offline"
    /\ win = "serving" <=> session # None
    /\ win = "serving" /\ macSession # None => session = macSession
    /\ win = "offline" => toWin = <<>> /\ link = "down"
    /\ \A i \in DOMAIN toWin : toWin[i].kind = "open" =>
          macSession \in {None, toWin[i].session} /\ toWin[i].session \in used

\* No token is ahead of the supervisor's, and an authorization that is still to
\* be sent has one that nobody had before.
Tokens ==
    /\ \A m \in OnWin : Control(m) => m.token <= token
    /\ Voiced.token <= token
    /\ Calling({"read", "send"}) /\ call.kind = "authorize" =>
         /\ Voiced.action # None => Voiced.token < token
         /\ \A m \in OnWin : m.kind = "authorize" => m.token < token

\* The id of the call that waits is on one message or in its answer, not both.
Asks(m) == Control(m) /\ m.id = call.id
Answers(m) == m.kind = "ack" /\ m.id = call.id
Ids ==
    Calling({"wait"}) =>
        /\ \A m \in OnWin : Asks(m) => m.kind = call.kind
        /\ \A i, j \in DOMAIN toWin : Asks(toWin[i]) /\ Asks(toWin[j]) => i = j
        /\ \A m \in OnMac, n \in OnWin : ~(Answers(m) /\ Asks(n))

\* The action of an authorization on the wire has not started: its start failed
\* or is the call that still waits.
Starting(m) ==
    /\ pc[m.action] = "new"
    /\ \/ state[m.action] = "failed"
       \/ /\ call # None /\ call.kind = "authorize" /\ call.action = m.action
          /\ call.stage = "failed" \/ (call.stage = "wait" /\ call.id = m.id)
Starts == \A m \in OnWin : m.kind = "authorize" => Starting(m)

\* An action whose fence was answered, be the answer counted, read or still on
\* the wire, has no lease and no speech, and no authorization to come.
Silenced(a) ==
    /\ pc[a] # "new"
    /\ Voiced.action # a
    /\ player # None => player.lease.action # a
Fences ==
    /\ \A a \in quiet : Silenced(a)
    /\ FencesCurrent /\ call.stage = "ok" => Silenced(current)
    /\ FencesCurrent /\ call.stage = "wait" =>
         \A m \in OnMac : Answers(m) /\ m.accepted => Silenced(current)

\* Who holds the voice on Windows, or is about to be given it by an
\* authorization on the wire, is the supervisor's owner under its token, unless
\* the fence against it is on the wire behind that or about to be sent.
FencePending(x, k) ==
    /\ call # None /\ call.kind = "neutralize" /\ call.token >= k
    /\ call.stage = "read" \/ (call.stage = "send" /\ call.session = x)
Justified(i, k, b) ==
    \/ \E j \in DOMAIN toWin : j > i /\ FenceAt(j, macSession, k)
    \/ k = token /\ b = owner
    \/ FencePending(macSession, k)
HolderIsJustified ==
    link = "up" /\ HeldIn(macSession) => Justified(0, Voiced.token, Voiced.action)
StartsAreJustified ==
    link = "up" =>
        \A i \in DOMAIN toWin :
           StartAt(i, macSession) => Justified(i, toWin[i].token, toWin[i].action)
Claims == HolderIsJustified /\ StartsAreJustified

\* Between the holder, or an authorization on the wire, and the next
\* authorization of the same session there is a fence.
FencedBetween(i, n, x, k) ==
    \E j \in DOMAIN toWin : i < j /\ j < n /\ FenceAt(j, x, k)
Separated ==
    /\ \A n \in DOMAIN toWin, x \in Session :
          StartAt(n, x) /\ HeldIn(x) => FencedBetween(0, n, x, Voiced.token)
    /\ \A i, n \in DOMAIN toWin, x \in Session :
          i < n /\ StartAt(i, x) /\ StartAt(n, x) => FencedBetween(i, n, x, toWin[i].token)
    /\ link = "up" /\ Calling({"send"}) /\ call.session # macSession =>
         \A m \in OnWin : ~Control(m)

\* Speech that was not told to stop plays under the lease that stands, which
\* has taken its one envelope.
Plays ==
    player # None /\ ~player.stop =>
        /\ Gateway!Owner(Voice) = player.lease
        /\ Voiced.sequence >= 0

\* Whatever says of an action that it is completed, Windows played it.
Completes ==
    /\ \A m \in OnMac :
          m.kind = "completed" /\ m.state = "completed" => m.action \in played
    /\ \A a \in Action : heard[a] = "completed" => a \in played
    /\ \A a \in Action \ cancelled : pc[a] = "returned" => a \in played
    /\ \A a \in Action : state[a] = "completed" => a \in played

IInv ==
    /\ Types /\ Supervisor /\ CallMeans /\ Connection /\ Tokens /\ Ids
    /\ Starts /\ Fences /\ Claims /\ Separated /\ Plays /\ Completes


----------------------------------------------------------------------------
\* What the wire holds
Messages == Openings \cup Authorizations \cup Neutralizations \cup Speeches
Answerings == Acknowledgements \cup Completions
Cancellations == {m \in Completions : m.state = "cancelled"}

Pushed(m) == toWin' = Append(toWin, m)
Popped == toWin # <<>> /\ toWin' = Tail(toWin)

\* A message put on the wire comes after all the others.
LEMMA PushFacts ==
    ASSUME Types, NEW m \in Messages, Pushed(m)
    PROVE  /\ toWin' \in Seq(Messages)
           /\ Len(toWin) \in Nat /\ DOMAIN toWin = 1..Len(toWin)
           /\ DOMAIN toWin' = 1..(Len(toWin) + 1)
           /\ \A i \in DOMAIN toWin : toWin'[i] = toWin[i]
           /\ toWin'[Len(toWin) + 1] = m
  BY DEF Pushed, Types, TypeOK, Messages

\* A message taken from the wire leaves the others in their order.
LEMMA PopFacts ==
    ASSUME Types, Popped
    PROVE  /\ toWin' \in Seq(Messages)
           /\ 1 \in DOMAIN toWin /\ Head(toWin) = toWin[1] /\ toWin[1] \in Messages
           /\ DOMAIN toWin \subseteq Nat \ {0}
           /\ \A i \in DOMAIN toWin' : i + 1 \in DOMAIN toWin /\ toWin'[i] = toWin[i + 1]
           /\ \A j \in DOMAIN toWin : j > 1 => j - 1 \in DOMAIN toWin' /\ toWin'[j - 1] = toWin[j]
<1>1. toWin \in Seq(Messages)
  BY DEF Types, TypeOK, Messages
<1>2. Len(toWin) \in Nat /\ Len(toWin) > 0 /\ DOMAIN toWin = 1..Len(toWin)
  BY <1>1 DEF Popped
<1>3. /\ toWin' \in Seq(Messages) /\ DOMAIN toWin' = 1..(Len(toWin) - 1)
      /\ \A i \in 1..(Len(toWin) - 1) : toWin'[i] = toWin[i + 1]
  BY <1>1, <1>2 DEF Popped
<1>4. Head(toWin) = toWin[1] /\ toWin[1] \in Messages
  BY <1>1, <1>2
<1>5. \A i \in DOMAIN toWin' : i + 1 \in DOMAIN toWin /\ toWin'[i] = toWin[i + 1]
  BY <1>2, <1>3
<1>6. ASSUME NEW j \in DOMAIN toWin, j > 1
      PROVE  j - 1 \in DOMAIN toWin' /\ toWin'[j - 1] = toWin[j]
  <2>1. j - 1 \in 1..(Len(toWin) - 1) /\ (j - 1) + 1 = j
    BY <1>2, <1>6
  <2> QED
    BY <2>1, <1>3
<1> QED
  BY <1>2, <1>3, <1>4, <1>5, <1>6

\* A message put on the wire joins those on it.
LEMMA OnWinPushed ==
    ASSUME Types, NEW m \in Messages, Pushed(m)
    PROVE  OnWin' = OnWin \cup {m}
<1>1. /\ Len(toWin) \in Nat /\ DOMAIN toWin = 1..Len(toWin)
      /\ DOMAIN toWin' = 1..(Len(toWin) + 1)
      /\ \A i \in DOMAIN toWin : toWin'[i] = toWin[i]
      /\ toWin'[Len(toWin) + 1] = m
  BY PushFacts
<1>2. OnWin \subseteq OnWin' /\ m \in OnWin'
  BY <1>1 DEF OnWin
<1>3. OnWin' \subseteq OnWin \cup {m}
  BY <1>1 DEF OnWin
<1> QED
  BY <1>2, <1>3

\* Taking the first message adds none.
LEMMA OnWinPopped ==
    ASSUME Types, Popped
    PROVE  OnWin' \subseteq OnWin /\ Head(toWin) \in OnWin /\ Head(toWin) \in Messages
  BY PopFacts DEF OnWin

\* Every message on the wire to Windows is of one of the four kinds.
LEMMA OnWinType == ASSUME Types PROVE OnWin \subseteq Messages
  BY DEF Types, TypeOK, OnWin, Messages

\* Answers are added behind those that are there.
LEMMA ConcatFacts ==
    ASSUME NEW S, NEW s \in Seq(S), NEW T, NEW t \in Seq(T)
    PROVE  /\ s \o t \in Seq(S \cup T)
           /\ \A i \in DOMAIN (s \o t) :
                (\E j \in DOMAIN s : (s \o t)[i] = s[j]) \/ (s \o t)[i] \in T
<1>1. s \in Seq(S \cup T) /\ t \in Seq(S \cup T)
  OBVIOUS
<1>2. s \o t \in Seq(S \cup T) /\ DOMAIN (s \o t) = 1..(Len(s) + Len(t))
  BY <1>1
<1>3. ASSUME NEW i \in DOMAIN (s \o t)
      PROVE  (\E j \in DOMAIN s : (s \o t)[i] = s[j]) \/ (s \o t)[i] \in T
  <2>1. CASE i <= Len(s)
    <3>1. i \in DOMAIN s /\ (s \o t)[i] = s[i]
      BY <1>2, <2>1
    <3> QED
      BY <3>1
  <2>2. CASE ~(i <= Len(s))
    <3>1. (s \o t)[i] = t[i - Len(s)] /\ i - Len(s) \in 1..Len(t)
      BY <1>2, <2>2
    <3> QED
      BY <3>1
  <2> QED
    BY <2>1, <2>2
<1> QED
  BY <1>2, <1>3

\* Nothing is on its way back but what was and what is sent now.
Hears(new) == OnMac' \subseteq OnMac \cup new

\* What Windows sends reaches the wire or is lost with the connection.
LEMMA SendToMacFacts ==
    ASSUME Types, NEW T \in SUBSET Answerings, NEW ms \in Seq(T), SendToMac(ms)
    PROVE  toMac' \in Seq(Answerings) /\ Hears(T)
<1>0. toMac \in Seq(Answerings)
  BY DEF Types, TypeOK, Answerings
<1>1. CASE toMac' = toMac
  BY <1>0, <1>1 DEF Hears, OnMac
<1>2. CASE toMac' = toMac \o ms
  <2>1. toMac \o ms \in Seq(Answerings \cup T) /\ Answerings \cup T = Answerings
    BY <1>0, ConcatFacts
  <2>2. \A i \in DOMAIN toMac' : (\E j \in DOMAIN toMac : toMac'[i] = toMac[j]) \/ toMac'[i] \in T
    BY <1>0, <1>2, ConcatFacts
  <2> QED
    BY <1>2, <2>1, <2>2 DEF Hears, OnMac
<1> QED
  BY <1>1, <1>2 DEF SendToMac

\* Every message on the wire to the Mac is an answer or a completion.
LEMMA OnMacType ==
    ASSUME Types
    PROVE  OnMac \subseteq Answerings /\ (toMac # <<>> => Head(toMac) \in OnMac)
<1>1. toMac \in Seq(Answerings)
  BY DEF Types, TypeOK, Answerings
<1>2. toMac # <<>> => Head(toMac) = toMac[1] /\ 1 \in DOMAIN toMac
  BY <1>1
<1> QED
  BY <1>1, <1>2 DEF OnMac

\* Taking the first answer adds none.
LEMMA MacTail ==
    ASSUME Types, toMac # <<>>, toMac' = Tail(toMac)
    PROVE  toMac' \in Seq(Answerings) /\ Hears({})
<1>1. toMac \in Seq(Answerings)
  BY DEF Types, TypeOK, Answerings
<1>2. /\ toMac' \in Seq(Answerings)
      /\ \A i \in DOMAIN toMac' : i + 1 \in DOMAIN toMac /\ toMac'[i] = toMac[i + 1]
  BY <1>1
<1> QED
  BY <1>2 DEF Hears, OnMac

----------------------------------------------------------------------------
\* The ids of the messages in flight, which FreshId avoids
InFlight ==
    {toWin[i].id : i \in {j \in DOMAIN toWin : toWin[j].kind \in {"authorize", "neutralize"}}}
    \cup {toMac[i].id : i \in {j \in DOMAIN toMac : toMac[j].kind = "ack"}}

\* The values of a function on a finite set are finitely many.
LEMMA FiniteImage ==
    ASSUME NEW S, IsFiniteSet(S), NEW f, f = [i \in S |-> f[i]]
    PROVE  IsFiniteSet({f[i] : i \in S})
<1>1. f \in Surjection(S, {f[i] : i \in S})
  BY DEF Surjection
<1> QED
  BY <1>1, FS_Surjection

\* The id that is drawn for a message is on no message in flight.
LEMMA FreshIdFacts ==
    ASSUME Types
    PROVE  /\ FreshId \in Nat
           /\ \A m \in OnWin : Control(m) => m.id # FreshId
           /\ \A m \in OnMac : m.kind = "ack" => m.id # FreshId
<1> DEFINE W == {j \in DOMAIN toWin : toWin[j].kind \in {"authorize", "neutralize"}}
           M == {j \in DOMAIN toMac : toMac[j].kind = "ack"}
<1>1. /\ Len(toWin) \in Nat /\ DOMAIN toWin = 1..Len(toWin)
      /\ Len(toMac) \in Nat /\ DOMAIN toMac = 1..Len(toMac)
  BY DEF Types, TypeOK
<1>2. IsFiniteSet(DOMAIN toWin) /\ IsFiniteSet(DOMAIN toMac)
  BY <1>1, FS_Interval
<1>3. IsFiniteSet(W) /\ IsFiniteSet(M)
  BY <1>2, FS_Subset
<1>4. IsFiniteSet({toWin[i].id : i \in W}) /\ IsFiniteSet({toMac[i].id : i \in M})
  <2> DEFINE f == [i \in W |-> toWin[i].id]
             g == [i \in M |-> toMac[i].id]
  <2>0. f = [i \in W |-> f[i]] /\ g = [i \in M |-> g[i]]
    OBVIOUS
  <2>1. IsFiniteSet({f[i] : i \in W}) /\ IsFiniteSet({g[i] : i \in M})
    <3> HIDE DEF f, g, W, M
    <3> QED
      BY <1>3, <2>0, FiniteImage
  <2>2. {f[i] : i \in W} = {toWin[i].id : i \in W} /\ {g[i] : i \in M} = {toMac[i].id : i \in M}
    OBVIOUS
  <2> QED
    BY <2>1, <2>2
<1>5. IsFiniteSet(InFlight)
  BY <1>4, FS_Union DEF InFlight
<1>6. Cardinality(InFlight) \in Nat
  BY <1>5, FS_CardinalityType
<1> DEFINE c == Cardinality(InFlight)
<1>7. \E n \in 0..c : n \notin InFlight
  <2>1. SUFFICES ASSUME 0..c \subseteq InFlight PROVE FALSE
    OBVIOUS
  <2>2. Cardinality(0..c) <= c
    BY <1>5, <2>1, FS_Subset
  <2>3. Cardinality(0..c) = c + 1
    BY <1>6, FS_Interval
  <2> QED
    BY <1>6, <2>2, <2>3
<1>8. FreshId = CHOOSE n \in 0..c : n \notin InFlight
  BY DEF FreshId, InFlight
<1>9. FreshId \in 0..c /\ FreshId \notin InFlight
  BY <1>7, <1>8
<1>10. \A m \in OnWin : Control(m) => m.id \in InFlight
  BY DEF InFlight, Control, OnWin
<1>11. \A m \in OnMac : m.kind = "ack" => m.id \in InFlight
  BY DEF InFlight, OnMac
<1> QED
  BY <1>6, <1>9, <1>10, <1>11

----------------------------------------------------------------------------
\* What an output call is made of, and what is left of it when it returned
LEMMA CallFacts ==
    ASSUME NEW kind \in {"authorize", "neutralize"}, NEW t \in Nat, NEW a \in Action \cup {None},
           NEW then \in {"start", "stop", "idle", "finish"}
    PROVE  LET c == Call(kind, t, a, then) IN
           /\ c \in Calls /\ c # None
           /\ c.kind = kind /\ c.token = t /\ c.action = a /\ c.then = then /\ c.stage = "read"
<1>1. Call(kind, t, a, then) \in Calls
  BY DEF Call, Calls
<1> QED
  BY <1>1, VoiceAssumption DEF Call

\* The same for the call of a fence
LEMMA NeutralizeCallFacts ==
    ASSUME NEW t \in Nat, NEW then \in {"start", "stop", "idle", "finish"}
    PROVE  LET c == NeutralizeCall(t, then) IN
           /\ c \in Calls /\ c # None
           /\ c.kind = "neutralize" /\ c.token = t /\ c.then = then /\ c.stage = "read"
  BY CallFacts DEF NeutralizeCall

\* The same call, further on
SameCall(c) ==
    /\ c \in Calls /\ c # None
    /\ c.kind = call.kind /\ c.token = call.token /\ c.action = call.action /\ c.then = call.then

\* A call that returned is still the call it was,
LEMMA EndedFacts ==
    ASSUME call \in Calls, NEW outcome \in {"ok", "failed"}
    PROVE  SameCall(Ended(call, outcome)) /\ Ended(call, outcome).stage = outcome
<1>1. Ended(call, outcome) \in Calls
  BY DEF Ended, Calls
<1> QED
  BY <1>1, VoiceAssumption DEF Ended, SameCall, Calls

\* as is one that read the session id,
LEMMA SendingFacts ==
    ASSUME call \in Calls, NEW s \in Session
    PROVE  LET c == [call EXCEPT !.stage = "send", !.session = s] IN
           SameCall(c) /\ c.stage = "send" /\ c.session = s
<1>1. [call EXCEPT !.stage = "send", !.session = s] \in Calls
  BY DEF Calls
<1> QED
  BY <1>1, VoiceAssumption DEF SameCall, Calls

\* and one whose message was sent.
LEMMA WaitingFacts ==
    ASSUME call \in Calls, NEW n \in Nat
    PROVE  LET c == [call EXCEPT !.stage = "wait", !.id = n] IN
           SameCall(c) /\ c.stage = "wait" /\ c.id = n /\ c.session = call.session
<1>1. [call EXCEPT !.stage = "wait", !.id = n] \in Calls
  BY DEF Calls
<1> QED
  BY <1>1, VoiceAssumption DEF SameCall, Calls

----------------------------------------------------------------------------
\* A player that is told to stop has stopped, or was told so.
PlayerStops == player' = None \/ (player # None /\ player' # None /\ player'.stop
                                  /\ player'.lease = player.lease /\ player'.phase = player.phase)

\* A player that stops in time has its last word; one that hangs is told to stop.
LEMMA StoppedFacts ==
    ASSUME Types, NEW failed \in SUBSET {Voice}, MayFail(failed)
    PROVE  /\ StoppedPlayer(failed) \in Playbacks \cup {None}
           /\ (player' = StoppedPlayer(failed) => PlayerStops)
           /\ (failed = {} => StoppedPlayer(failed) = None)
           /\ LastWord(failed) \in Seq(Cancellations)
<1>0. player \in Playbacks \cup {None}
  BY DEF Types, TypeOK
<1>1. CASE failed = {}
  <2>1. StoppedPlayer(failed) = None
    BY <1>1 DEF StoppedPlayer
  <2>2. CASE player # None /\ player.phase = "playing" /\ player.lease.session = session
    <3>1. player.lease \in Gateway!Lease
      BY <1>0, <2>2 DEF Playbacks
    <3>2. CompletedMessage(player.lease, "cancelled") \in Cancellations
      BY <3>1 DEF Gateway!Lease, CompletedMessage, Cancellations, Completions
    <3> QED
      BY <1>1, <2>1, <2>2, <3>2 DEF LastWord, PlayerStops
  <2>3. CASE ~(player # None /\ player.phase = "playing" /\ player.lease.session = session)
    BY <2>1, <2>3 DEF LastWord, PlayerStops
  <2> QED
    BY <2>2, <2>3
<1>2. CASE failed # {}
  <2>1. player # None
    BY <1>2 DEF MayFail
  <2>2. player \in Playbacks /\ StoppedPlayer(failed) = [player EXCEPT !.stop = TRUE]
    BY <1>0, <1>2, <2>1 DEF StoppedPlayer
  <2>3. [player EXCEPT !.stop = TRUE] \in Playbacks
    BY <2>2 DEF Playbacks
  <2>4. [player EXCEPT !.stop = TRUE] # None
    BY <2>3, VoiceAssumption
  <2>5. LET p == [player EXCEPT !.stop = TRUE] IN
        p.stop /\ p.lease = player.lease /\ p.phase = player.phase
    BY <2>2 DEF Playbacks
  <2>6. LastWord(failed) = <<>>
    BY <1>2 DEF LastWord
  <2>7. player' = StoppedPlayer(failed) => PlayerStops
    BY <2>1, <2>2, <2>4, <2>5 DEF PlayerStops
  <2>8. <<>> \in Seq(Cancellations)
    OBVIOUS
  <2> QED
    BY <1>2, <2>2, <2>3, <2>6, <2>7, <2>8
<1> QED
  BY <1>1, <1>2

----------------------------------------------------------------------------
\* What the gateway's methods do to the voice

\* The voice and the session on the gateway have their types.
LEMMA VoicedType ==
    ASSUME Types
    PROVE  /\ Voiced \in Gateway!ResourceState /\ Voiced.token \in Nat
           /\ Voiced.action \in Action \cup {None} /\ Voiced.sequence \in Int
           /\ session \in Session \cup {None} /\ exclusive \in Session \cup {None}
           /\ opened \subseteq Session /\ now \in Nat
           /\ Gateway!Owner(Voice) \in Gateway!Lease \cup {None}
<1>1. Voiced \in Gateway!ResourceState
  BY DEF Types, TypeOK, Gateway!TypeOK, Voiced
<1>2. /\ Voiced.token \in Nat /\ Voiced.action \in Action \cup {None} /\ Voiced.sequence \in Int
  BY <1>1 DEF Gateway!ResourceState
<1>3. /\ session \in Session \cup {None} /\ exclusive \in Session \cup {None}
      /\ opened \subseteq Session /\ now \in Nat
  BY DEF Types, TypeOK, Gateway!TypeOK
<1>4. Gateway!Owner(Voice) \in Gateway!Lease \cup {None}
  <2>1. ASSUME session # None, Voiced.action # None
        PROVE  [session |-> session, token |-> Voiced.token, action |-> Voiced.action] \in Gateway!Lease
    BY <1>2, <1>3, <2>1 DEF Gateway!Lease
  <2> QED
    BY <2>1 DEF Gateway!Owner, Voiced
<1> QED
  BY <1>1, <1>2, <1>3, <1>4

\* Revoking leases keeps the record of the revoked ones well formed,
LEMMA GatewayRetires ==
    ASSUME Types, NEW R, Gateway!Retire(R)
    PROVE  revoked' \in [{Voice} -> SUBSET Gateway!Lease]
  BY VoicedType DEF Gateway!Retire, Gateway!TypeOK, Types, TypeOK

\* and neutralizing keeps the devices well formed.
LEMMA GatewayNeutral ==
    ASSUME Types, NEW R, NEW failed, Gateway!SafeNeutralize(R, failed)
    PROVE  device' \in [{Voice} -> Gateway!Frame \cup {None}]
  BY DEF Gateway!SafeNeutralize, Gateway!TypeOK, Types, TypeOK

\* A session that opens starts with a voice nobody holds.
LEMMA GatewayOpens ==
    ASSUME Types, NEW s \in Session, NEW failed, Gateway!OpenSession(s, failed)
    PROVE  /\ Gateway!TypeOK'
           /\ session' = s /\ opened' = opened \cup {s} /\ UNCHANGED exclusive
           /\ Voiced'.token = 0 /\ Voiced'.action = None
<1>1. /\ session' = s /\ opened' = opened \cup {s} /\ UNCHANGED <<exclusive, now>>
      /\ resources' = [r \in {Voice} |-> Gateway!NewResourceState]
  BY DEF Gateway!OpenSession, Gateway!StartSession
<1>2. Gateway!NewResourceState \in Gateway!ResourceState
  BY DEF Gateway!NewResourceState, Gateway!ResourceState
<1>3. resources' \in [{Voice} -> Gateway!ResourceState]
  BY <1>1, <1>2
<1>4. Voiced'.token = 0 /\ Voiced'.action = None
  BY <1>1 DEF Voiced, Gateway!NewResourceState
<1>5. /\ device' \in [{Voice} -> Gateway!Frame \cup {None}]
      /\ revoked' \in [{Voice} -> SUBSET Gateway!Lease]
  BY GatewayRetires, GatewayNeutral DEF Gateway!OpenSession, Gateway!StartSession
<1> QED
  BY <1>1, <1>3, <1>4, <1>5, VoicedType DEF Gateway!TypeOK

\* A session that closes takes the voice from its holder.
LEMMA GatewayCloses ==
    ASSUME Types, NEW s, NEW failed, Gateway!CloseSession(s, failed)
    PROVE  /\ Gateway!TypeOK'
           /\ session' = None /\ exclusive' = None /\ UNCHANGED opened
           /\ Voiced'.token = Voiced.token /\ Voiced'.action = None
<1>1. /\ session' = None /\ exclusive' = None /\ UNCHANGED <<opened, now>>
      /\ resources' = [r \in {Voice} |-> Gateway!Disowned(resources[r])]
  BY DEF Gateway!CloseSession
<1>2. Gateway!Disowned(Voiced) \in Gateway!ResourceState
  BY VoicedType DEF Gateway!Disowned, Gateway!ResourceState
<1>3. resources' \in [{Voice} -> Gateway!ResourceState]
  BY <1>1, <1>2 DEF Voiced
<1>4. Voiced'.token = Voiced.token /\ Voiced'.action = None
  BY <1>1 DEF Voiced, Gateway!Disowned
<1>5. /\ device' \in [{Voice} -> Gateway!Frame \cup {None}]
      /\ revoked' \in [{Voice} -> SUBSET Gateway!Lease]
  BY GatewayRetires, GatewayNeutral DEF Gateway!CloseSession
<1> QED
  BY <1>1, <1>3, <1>4, <1>5, VoicedType DEF Gateway!TypeOK

\* An authorization that is granted is of this session and not older.
LEMMA GatewayAuthorizes ==
    ASSUME Types, NEW s, NEW t \in Nat, NEW a \in Action, Gateway!Authorize(s, Voice, t, a)
    PROVE  /\ Gateway!TypeOK'
           /\ UNCHANGED <<session, exclusive, opened>>
           /\ Voiced'.token = t /\ Voiced'.action = a
           /\ s = session /\ t >= Voiced.token
<1> DEFINE N == [token |-> t, action |-> a, sequence |-> -1, expires |-> None]
<1>1. /\ UNCHANGED <<session, exclusive, device, now, opened>>
      /\ resources' = [resources EXCEPT ![Voice] = N]
  BY DEF Gateway!Authorize
<1>2. N \in Gateway!ResourceState
  BY DEF Gateway!ResourceState
<1>3. resources' \in [{Voice} -> Gateway!ResourceState] /\ Voiced' = N
  BY <1>1, <1>2 DEF Types, TypeOK, Gateway!TypeOK, Voiced
<1>4. revoked' \in [{Voice} -> SUBSET Gateway!Lease]
  BY GatewayRetires DEF Gateway!Authorize
<1>5. s = session /\ t >= Voiced.token
  BY VoicedType DEF Gateway!Authorize, Gateway!AuthorizeVerdict, Voiced
<1> QED
  BY <1>1, <1>3, <1>4, <1>5 DEF Gateway!TypeOK, Types, TypeOK

\* A fence that is taken is of this session and not older.
LEMMA GatewayNeutralizes ==
    ASSUME Types, NEW s, NEW t \in Nat, NEW failed, Gateway!Neutralize(s, Voice, t, failed)
    PROVE  /\ Gateway!TypeOK'
           /\ UNCHANGED <<session, exclusive, opened>>
           /\ Voiced'.token = t /\ Voiced'.action = None
<1> DEFINE N == [token |-> t, action |-> None, expires |-> None,
                 sequence |-> IF t > Voiced.token THEN -1 ELSE Voiced.sequence]
<1>1. /\ UNCHANGED <<session, exclusive, now, opened>>
      /\ resources' = [resources EXCEPT ![Voice] = N]
  BY DEF Gateway!Neutralize, Voiced
<1>2. N \in Gateway!ResourceState
  BY VoicedType DEF Gateway!ResourceState
<1>3. resources' \in [{Voice} -> Gateway!ResourceState] /\ Voiced' = N
  BY <1>1, <1>2 DEF Types, TypeOK, Gateway!TypeOK, Voiced
<1>4. /\ device' \in [{Voice} -> Gateway!Frame \cup {None}]
      /\ revoked' \in [{Voice} -> SUBSET Gateway!Lease]
  BY GatewayRetires, GatewayNeutral DEF Gateway!Neutralize
<1> QED
  BY <1>1, <1>3, <1>4 DEF Gateway!TypeOK, Types, TypeOK

\* Speech that is taken is the holder's and uses its sequence number up.
LEMMA GatewayApplies ==
    ASSUME Types, NEW s \in Session, NEW t \in Nat, NEW a \in Action,
           Gateway!ApplyEnvelope(s, Voice, t, a, 0, 1, now, now)
    PROVE  /\ Gateway!TypeOK'
           /\ UNCHANGED <<session, exclusive, opened>>
           /\ Voiced'.token = Voiced.token /\ Voiced'.action = Voiced.action
           /\ Voiced'.sequence = 0
           /\ s = session /\ t = Voiced.token /\ a = Voiced.action
<1> DEFINE N == [token |-> Voiced.token, action |-> Voiced.action,
                 sequence |-> 0, expires |-> now + 1]
           L == [session |-> s, token |-> t, action |-> a]
           F == [lease |-> L, sequence |-> 0]
<1>1. N \in Gateway!ResourceState
  BY VoicedType DEF Gateway!ResourceState
<1>2. L \in Gateway!Lease
  BY DEF Gateway!Lease
<1>3. F \in Gateway!Frame
  <2> HIDE DEF L
  <2> QED
    BY <1>2 DEF Gateway!Frame
<1>4. /\ resources' = [resources EXCEPT ![Voice] = N] /\ device' = [device EXCEPT ![Voice] = F]
      /\ UNCHANGED <<session, exclusive, now, opened, revoked>>
  BY DEF Gateway!ApplyEnvelope, Voiced
<1>5. resources' \in [{Voice} -> Gateway!ResourceState] /\ Voiced' = N
  BY <1>1, <1>4 DEF Types, TypeOK, Gateway!TypeOK, Voiced
<1>6. device' \in [{Voice} -> Gateway!Frame \cup {None}]
  <2> HIDE DEF F
  <2> QED
    BY <1>3, <1>4 DEF Types, TypeOK, Gateway!TypeOK
<1>7. s = session /\ t = Voiced.token /\ a = Voiced.action
  BY DEF Gateway!ApplyEnvelope, Gateway!EnvelopeVerdict, Voiced
<1> QED
  BY <1>4, <1>5, <1>6, <1>7 DEF Gateway!TypeOK, Types, TypeOK

\* The watchdog takes the voice from its holder.
LEMMA GatewayExpires ==
    ASSUME Types, NEW failed, Gateway!PollExpired(now, failed), Gateway!Overdue(now) # {}
    PROVE  /\ Gateway!TypeOK'
           /\ UNCHANGED <<session, exclusive, opened>>
           /\ Voiced'.token = Voiced.token /\ Voiced'.action = None
<1>1. Gateway!Overdue(now) = {Voice}
  BY DEF Gateway!Overdue
<1>2. /\ UNCHANGED <<session, exclusive, opened, now>>
      /\ resources' = [r \in {Voice} |-> Gateway!Disowned(resources[r])]
  BY <1>1 DEF Gateway!PollExpired
<1>3. Gateway!Disowned(Voiced) \in Gateway!ResourceState
  BY VoicedType DEF Gateway!Disowned, Gateway!ResourceState
<1>4. resources' \in [{Voice} -> Gateway!ResourceState]
  BY <1>2, <1>3 DEF Voiced
<1>5. Voiced'.token = Voiced.token /\ Voiced'.action = None
  BY <1>2 DEF Voiced, Gateway!Disowned
<1>6. /\ device' \in [{Voice} -> Gateway!Frame \cup {None}]
      /\ revoked' \in [{Voice} -> SUBSET Gateway!Lease]
  BY GatewayRetires, GatewayNeutral DEF Gateway!PollExpired
<1> QED
  BY <1>2, <1>4, <1>5, <1>6, VoicedType DEF Gateway!TypeOK

\* Time changes nobody's lease.
LEMMA GatewayTicks ==
    ASSUME Types, Gateway!Tick
    PROVE  Gateway!TypeOK' /\ UNCHANGED <<session, exclusive, resources, opened>>
  BY DEF Gateway!Tick, Gateway!TypeOK, Types, TypeOK

----------------------------------------------------------------------------
\* The steps of Windows, by what they do to the wire, the lease and the player
GatewayStands == UNCHANGED <<session, exclusive, opened>> /\ Voiced' = Voiced
NoHolder == Voiced'.token \in {0, Voiced.token} /\ Voiced'.action = None

\* The session of the first message is opened.
Opens ==
    /\ win = "hello" /\ win' = "serving" /\ UNCHANGED link
    /\ Popped /\ Head(toWin).kind = "open"
    /\ session' = Head(toWin).session /\ opened' = opened \cup {session'} /\ UNCHANGED exclusive
    /\ Voiced'.token = 0 /\ Voiced'.action = None
    /\ PlayerStops /\ Hears({})

\* The connection is left.
Leaves ==
    /\ win' = "offline" /\ link' = "down" /\ toWin' = <<>>
    /\ UNCHANGED opened
    /\ \/ /\ session' = None /\ exclusive' = None
          /\ Voiced'.token = Voiced.token /\ Voiced'.action = None
          /\ PlayerStops
       \/ win = "hello" /\ GatewayStands /\ UNCHANGED player
    /\ Hears(Cancellations)

\* The message at the head of the wire is answered.
Answering == win = "serving" /\ Popped /\ UNCHANGED <<win, link, exclusive, session, opened>>

\* An authorization is granted,
Grants ==
    /\ Answering /\ Head(toWin).kind = "authorize"
    /\ Head(toWin).session = session /\ Head(toWin).token >= Voiced.token
    /\ Voiced'.token = Head(toWin).token /\ Voiced'.action = Head(toWin).action
    /\ UNCHANGED player
    /\ Hears({AckMessage(Head(toWin), TRUE)})

\* or was granted before or is refused;
Declines ==
    /\ Answering /\ Head(toWin).kind = "authorize"
    /\ Voiced' = Voiced /\ UNCHANGED player
    /\ Hears({AckMessage(Head(toWin), TRUE), AckMessage(Head(toWin), FALSE)})

\* a fence is raised, and acknowledged only if the player stopped,
FencesOff ==
    /\ Answering /\ Head(toWin).kind = "neutralize"
    /\ Voiced'.token = Head(toWin).token /\ Voiced'.action = None
    /\ PlayerStops
    /\ \/ player' = None /\ Hears(Cancellations \cup {AckMessage(Head(toWin), TRUE)})
       \/ Hears(Cancellations \cup {AckMessage(Head(toWin), FALSE)})

\* or refused;
Overtaken ==
    /\ Answering /\ Head(toWin).kind = "neutralize"
    /\ Head(toWin).session # session \/ ~(Head(toWin).token >= Voiced.token)
    /\ Voiced' = Voiced /\ UNCHANGED player
    /\ Hears({AckMessage(Head(toWin), FALSE)})

\* speech starts to play.
StartsToPlay ==
    /\ Answering /\ Head(toWin).kind = "data"
    /\ Head(toWin).session = session /\ Head(toWin).token = Voiced.token
    /\ Head(toWin).action = Voiced.action
    /\ Voiced'.token = Voiced.token /\ Voiced'.action = Voiced.action /\ Voiced'.sequence = 0
    /\ player = None /\ player' # None
    /\ player'.lease = [session |-> session, token |-> Voiced.token, action |-> Voiced.action]
    /\ Hears({})

\* The speech is overdue.
Expires ==
    /\ UNCHANGED <<link, win, toWin, session, exclusive, opened>>
    /\ Voiced'.token = Voiced.token /\ Voiced'.action = None
    /\ PlayerStops /\ Hears(Cancellations)

\* The player comes to its end by itself, or time passes.
Reports == {m \in Completions : m.state = "completed" => m.action \in played'}
PlaysOn ==
    /\ UNCHANGED <<link, win, toWin, session, exclusive, opened, resources>>
    /\ \/ player' = None
       \/ player # None /\ player' # None /\ player'.lease = player.lease /\ player'.stop = player.stop
       \/ UNCHANGED player
    /\ Hears(Reports)

WindowsTypes ==
    /\ toWin \in Seq(Messages) /\ toMac \in Seq(Answerings)
    /\ player \in Playbacks \cup {None} /\ link \in {"up", "down"}
    /\ win \in {"offline", "hello", "serving"} /\ Gateway!TypeOK

\* The types of what Windows and the wire keep
LEMMA TypesOfWindows == Types => WindowsTypes
  BY DEF Types, TypeOK, WindowsTypes, Messages, Answerings

\* A step that leaves the gateway alone keeps its types.
LEMMA StandsStill ==
    ASSUME Types, UNCHANGED gatewayVars
    PROVE  Gateway!TypeOK' /\ GatewayStands
  BY DEF Types, TypeOK, gatewayVars, Gateway!TypeOK, GatewayStands, Voiced

\* What the head of the wire is, by its kind
LEMMA HeadFacts ==
    ASSUME Types, toWin # <<>>
    PROVE  /\ Head(toWin) \in Messages
           /\ (Head(toWin).kind = "open" => Head(toWin) \in Openings)
           /\ (Head(toWin).kind = "authorize" => Head(toWin) \in Authorizations)
           /\ (Head(toWin).kind = "neutralize" => Head(toWin) \in Neutralizations)
           /\ (Head(toWin).kind = "data" => Head(toWin) \in Speeches)
<1>1. Head(toWin) \in Messages
  BY TypesOfWindows DEF WindowsTypes
<1> QED
  BY <1>1 DEF Messages, Openings, Authorizations, Neutralizations, Speeches

\* A cancellation is a completion.
LEMMA CancellationsAre == Cancellations \subseteq Answerings
  BY DEF Cancellations, Answerings

\* A step that leaves the wire to the Mac alone adds nothing to it.
LEMMA SilentIs ==
    ASSUME Types, UNCHANGED toMac
    PROVE  toMac' \in Seq(Answerings) /\ \A new : Hears(new)
  BY TypesOfWindows DEF WindowsTypes, Hears, OnMac

\* Leaving the connection is leaving in the sense above.
LEMMA CloseFacts ==
    ASSUME Types, NEW failed \in SUBSET {Voice}, CloseConnection(failed)
    PROVE  Leaves /\ WindowsTypes'
<1>1. PlayerStops /\ player' \in Playbacks \cup {None} /\ LastWord(failed) \in Seq(Cancellations)
  BY StoppedFacts DEF CloseConnection
<1>2. Hears(Cancellations) /\ toMac' \in Seq(Answerings)
  BY <1>1, CancellationsAre, SendToMacFacts DEF CloseConnection
<1>3. /\ Gateway!TypeOK' /\ session' = None /\ exclusive' = None /\ UNCHANGED opened
      /\ Voiced'.token = Voiced.token /\ Voiced'.action = None
  BY GatewayCloses DEF CloseConnection
<1>4. win' = "offline" /\ link' = "down" /\ toWin' = <<>>
  BY DEF CloseConnection
<1> QED
  BY <1>1, <1>2, <1>3, <1>4 DEF Leaves, WindowsTypes

\* The first message opens the session or ends the connection.
LEMMA WinOpenActs ==
    ASSUME Types, WinOpen
    PROVE  (Opens \/ Leaves) /\ WindowsTypes'
<1>0. Hears({}) /\ Hears(Cancellations) /\ toMac' \in Seq(Answerings)
  BY SilentIs DEF WinOpen
<1>1. CASE Head(toWin).kind = "open"
  <2>1. PICK failed \in SUBSET {Voice} :
          /\ MayFail(failed)
          /\ Gateway!OpenSession(Head(toWin).session, failed)
          /\ player' = StoppedPlayer(failed)
    BY <1>1 DEF WinOpen
  <2>2. win = "hello" /\ toWin # <<>> /\ win' = "serving" /\ toWin' = Tail(toWin) /\ UNCHANGED link
    BY <1>1 DEF WinOpen
  <2>3. Head(toWin).session \in Session
    BY <1>1, <2>2, HeadFacts DEF Openings
  <2>4. /\ Gateway!TypeOK' /\ session' = Head(toWin).session
        /\ opened' = opened \cup {Head(toWin).session} /\ UNCHANGED exclusive
        /\ Voiced'.token = 0 /\ Voiced'.action = None
    BY <2>1, <2>3, GatewayOpens
  <2>5. PlayerStops /\ player' \in Playbacks \cup {None}
    BY <2>1, StoppedFacts
  <2>6. Popped /\ toWin' \in Seq(Messages)
    BY <2>2, PopFacts DEF Popped
  <2> QED
    BY <1>0, <1>1, <2>2, <2>4, <2>5, <2>6, TypesOfWindows DEF Opens, WindowsTypes
<1>2. CASE Head(toWin).kind # "open"
  <2>1. /\ win = "hello" /\ win' = "offline" /\ link' = "down" /\ toWin' = <<>>
        /\ UNCHANGED player /\ UNCHANGED gatewayVars
    BY <1>2 DEF WinOpen
  <2>2. Gateway!TypeOK' /\ GatewayStands
    BY <2>1, StandsStill
  <2> QED
    BY <1>0, <2>1, <2>2, TypesOfWindows DEF Leaves, WindowsTypes, GatewayStands
<1> QED
  BY <1>1, <1>2

\* An acknowledgement is an answer.
LEMMA AckFacts ==
    ASSUME Types, toWin # <<>>, Control(Head(toWin)), NEW ok \in BOOLEAN
    PROVE  /\ AckMessage(Head(toWin), ok) \in Acknowledgements
           /\ AckMessage(Head(toWin), ok).accepted = ok
           /\ AckMessage(Head(toWin), ok).id = Head(toWin).id
           /\ AckMessage(Head(toWin), ok).kind = "ack"
<1>1. Head(toWin).id \in Nat
  BY HeadFacts DEF Control, Authorizations, Neutralizations
<1> QED
  BY <1>1 DEF AckMessage, Acknowledgements

\* An authorization is granted or declined.
LEMMA WinAuthorizeActs ==
    ASSUME Types, WinAuthorize
    PROVE  (Grants \/ Declines) /\ WindowsTypes'
<1> DEFINE m == Head(toWin)
           verdict == Gateway!AuthorizeVerdict(m.session, Voice, m.token, m.action)
           ok == verdict \in {"accepted", "again"}
<1>1. /\ win = "serving" /\ toWin # <<>> /\ m.kind = "authorize" /\ UNCHANGED <<link, win, player>>
      /\ toWin' = Tail(toWin) /\ SendToMac(<<AckMessage(m, ok)>>)
  BY DEF WinAuthorize
<1>2. /\ m.token \in Nat /\ m.action \in Action /\ m.session \in Session
  BY <1>1, HeadFacts DEF Authorizations
<1>3. Popped /\ toWin' \in Seq(Messages)
  BY <1>1, PopFacts DEF Popped
<1>4. Hears({AckMessage(m, ok)}) /\ toMac' \in Seq(Answerings)
  <2>1. ok \in BOOLEAN
    OBVIOUS
  <2>2. AckMessage(m, ok) \in Acknowledgements
    BY <1>1, <2>1, AckFacts DEF Control
  <2>3. {AckMessage(m, ok)} \in SUBSET Answerings
    BY <2>2 DEF Answerings
  <2>4. <<AckMessage(m, ok)>> \in Seq({AckMessage(m, ok)})
    OBVIOUS
  <2> HIDE DEF m, ok
  <2> QED
    BY <1>1, <2>3, <2>4, SendToMacFacts
<1>5. CASE verdict = "accepted"
  <2>1. Gateway!Authorize(m.session, Voice, m.token, m.action)
    BY <1>5 DEF WinAuthorize
  <2>2. /\ Gateway!TypeOK' /\ UNCHANGED <<session, exclusive, opened>>
        /\ Voiced'.token = m.token /\ Voiced'.action = m.action
        /\ m.session = session /\ m.token >= Voiced.token
    BY <1>2, <2>1, GatewayAuthorizes
  <2>3. AckMessage(m, ok) = AckMessage(m, TRUE)
    BY <1>5
  <2> QED
    BY <1>1, <1>3, <1>4, <2>2, <2>3, TypesOfWindows DEF Grants, Answering, WindowsTypes
<1>6. CASE verdict # "accepted"
  <2>1. UNCHANGED gatewayVars
    BY <1>6 DEF WinAuthorize
  <2>2. Gateway!TypeOK' /\ GatewayStands
    BY <2>1, StandsStill
  <2>3. Hears({AckMessage(m, TRUE), AckMessage(m, FALSE)})
    <3>1. ok \in BOOLEAN
      OBVIOUS
    <3> HIDE DEF m, ok
    <3>2. ok = TRUE \/ ok = FALSE
      BY <3>1
    <3>3. AckMessage(m, ok) \in {AckMessage(m, TRUE), AckMessage(m, FALSE)}
      BY <3>2
    <3> QED
      BY <1>4, <3>3 DEF Hears
  <2> QED
    BY <1>1, <1>3, <1>4, <2>2, <2>3, TypesOfWindows DEF Declines, Answering, WindowsTypes, GatewayStands
<1> QED
  BY <1>5, <1>6

\* A fence is raised or refused.
LEMMA WinNeutralizeActs ==
    ASSUME Types, WinNeutralize
    PROVE  (FencesOff \/ Overtaken) /\ WindowsTypes'
<1> DEFINE m == Head(toWin)
           verdict == Gateway!NeutralizeVerdict(m.session, Voice, m.token)
<1>1. /\ win = "serving" /\ toWin # <<>> /\ m.kind = "neutralize" /\ UNCHANGED <<link, win>>
      /\ toWin' = Tail(toWin)
  BY DEF WinNeutralize
<1>2. m.token \in Nat /\ m.session \in Session
  BY <1>1, HeadFacts DEF Neutralizations
<1>3. Popped /\ toWin' \in Seq(Messages)
  BY <1>1, PopFacts DEF Popped
<1>4. \A ok \in BOOLEAN : AckMessage(m, ok) \in Answerings
  BY <1>1, AckFacts DEF Control, Answerings
<1>5. CASE verdict = "accepted"
  <2>1. PICK failed \in SUBSET {Voice} :
          /\ MayFail(failed)
          /\ Gateway!Neutralize(m.session, Voice, m.token, failed)
          /\ player' = StoppedPlayer(failed)
          /\ SendToMac(LastWord(failed) \o <<AckMessage(m, failed = {})>>)
    BY <1>5 DEF WinNeutralize
  <2>2. /\ Gateway!TypeOK' /\ UNCHANGED <<session, exclusive, opened>>
        /\ Voiced'.token = m.token /\ Voiced'.action = None
    BY <1>2, <2>1, GatewayNeutralizes
  <2>3. /\ PlayerStops /\ player' \in Playbacks \cup {None} /\ (failed = {} => player' = None)
        /\ LastWord(failed) \in Seq(Cancellations)
    BY <2>1, StoppedFacts
  <2>4. ASSUME NEW ok \in BOOLEAN, ok = (failed = {})
        PROVE  Hears(Cancellations \cup {AckMessage(m, ok)}) /\ toMac' \in Seq(Answerings)
    <3> DEFINE A == AckMessage(m, ok)
    <3>1. A \in Answerings
      BY <1>4
    <3>2. AckMessage(m, failed = {}) = A
      BY <2>4
    <3> HIDE DEF A
    <3>3. <<A>> \in Seq({A})
      OBVIOUS
    <3>4. LastWord(failed) \o <<A>> \in Seq(Cancellations \cup {A})
      BY <2>3, <3>3, ConcatFacts
    <3>5. Cancellations \cup {A} \in SUBSET Answerings
      BY <3>1, CancellationsAre
    <3>6. SendToMac(LastWord(failed) \o <<A>>)
      BY <2>1, <3>2
    <3>7. Hears(Cancellations \cup {A}) /\ toMac' \in Seq(Answerings)
      BY <3>4, <3>5, <3>6, SendToMacFacts
    <3> QED
      BY <3>7 DEF A
  <2>5. toMac' \in Seq(Answerings)
        /\ \/ player' = None /\ Hears(Cancellations \cup {AckMessage(m, TRUE)})
           \/ Hears(Cancellations \cup {AckMessage(m, FALSE)})
    <3>1. CASE failed = {}
      BY <2>3, <2>4, <3>1
    <3>2. CASE failed # {}
      BY <2>4, <3>2
    <3> QED
      BY <3>1, <3>2
  <2> QED
    BY <1>1, <1>3, <2>2, <2>3, <2>5, TypesOfWindows DEF FencesOff, Answering, WindowsTypes
<1>6. CASE verdict # "accepted"
  <2>1. /\ SendToMac(<<AckMessage(m, FALSE)>>)
        /\ UNCHANGED player /\ UNCHANGED gatewayVars
    BY <1>6 DEF WinNeutralize
  <2>2. Gateway!TypeOK' /\ GatewayStands
    BY <2>1, StandsStill
  <2>3. Hears({AckMessage(m, FALSE)}) /\ toMac' \in Seq(Answerings)
    <3> DEFINE A == AckMessage(m, FALSE)
    <3>1. A \in Answerings
      BY <1>4
    <3>2. SendToMac(<<A>>)
      BY <2>1
    <3> HIDE DEF A
    <3>3. {A} \in SUBSET Answerings /\ <<A>> \in Seq({A})
      BY <3>1
    <3>4. Hears({A}) /\ toMac' \in Seq(Answerings)
      BY <3>2, <3>3, SendToMacFacts
    <3> QED
      BY <3>4 DEF A
  <2>4. m.session # session \/ ~(m.token >= Voiced.token)
    BY <1>2, <1>6, VoicedType DEF Gateway!NeutralizeVerdict, Voiced
  <2> QED
    BY <1>1, <1>3, <2>1, <2>2, <2>3, <2>4, TypesOfWindows
    DEF Overtaken, Answering, WindowsTypes, GatewayStands
<1> QED
  BY <1>5, <1>6

\* Speech starts to play or ends the connection.
LEMMA WinDataActs ==
    ASSUME Types, WinData
    PROVE  (StartsToPlay \/ Leaves) /\ WindowsTypes'
<1> DEFINE m == Head(toWin)
           p == [phase |-> "playing", stop |-> FALSE,
                 lease |-> [session |-> m.session, token |-> m.token, action |-> m.action]]
<1>1. /\ win = "serving" /\ toWin # <<>> /\ m.kind = "data"
  BY DEF WinData
<1>2. /\ m.token \in Nat /\ m.session \in Session /\ m.action \in Action
  BY <1>1, HeadFacts DEF Speeches
<1>3. CASE DataVerdict = "accepted" /\ player = None
  <2>1. /\ Gateway!ApplyEnvelope(m.session, Voice, m.token, m.action, 0, 1, now, now)
        /\ player' = p /\ toWin' = Tail(toWin) /\ UNCHANGED <<win, link, toMac>>
    BY <1>3 DEF WinData
  <2>2. /\ Gateway!TypeOK' /\ UNCHANGED <<session, exclusive, opened>>
        /\ Voiced'.token = Voiced.token /\ Voiced'.action = Voiced.action
        /\ Voiced'.sequence = 0
        /\ m.session = session /\ m.token = Voiced.token /\ m.action = Voiced.action
    BY <1>2, <2>1, GatewayApplies
  <2>3. p \in Playbacks /\ p # None
    <3>1. p.lease \in Gateway!Lease
      BY <1>2 DEF Gateway!Lease
    <3>2. p \in Playbacks
      BY <3>1 DEF Playbacks
    <3> QED
      BY <3>2, VoiceAssumption
  <2>4. Popped /\ toWin' \in Seq(Messages)
    BY <1>1, <2>1, PopFacts DEF Popped
  <2>5. Hears({}) /\ toMac' \in Seq(Answerings)
    BY <2>1, SilentIs
  <2>6. player'.lease = [session |-> session, token |-> Voiced.token, action |-> Voiced.action]
    BY <2>1, <2>2
  <2>7. player' \in Playbacks \cup {None} /\ player' # None
    BY <2>1, <2>3
  <2> QED
    BY <1>1, <1>3, <2>1, <2>2, <2>4, <2>5, <2>6, <2>7, TypesOfWindows
    DEF StartsToPlay, Answering, WindowsTypes
<1>4. CASE ~(DataVerdict = "accepted" /\ player = None)
  <2>1. PICK failed \in SUBSET {Voice} : CloseConnection(failed)
    BY <1>4 DEF WinData
  <2> QED
    BY <2>1, CloseFacts
<1> QED
  BY <1>3, <1>4

\* The watchdog's poll makes the speech expire.
LEMMA WinPollActs ==
    ASSUME Types, WinPoll
    PROVE  Expires /\ WindowsTypes'
<1>1. PICK failed \in SUBSET {Voice} :
         /\ MayFail(failed)
         /\ Gateway!PollExpired(now, failed)
         /\ player' = StoppedPlayer(failed)
         /\ SendToMac(LastWord(failed))
  BY DEF WinPoll
<1>2. UNCHANGED <<link, toWin, win>> /\ Gateway!Overdue(now) # {}
  BY DEF WinPoll
<1>3. PlayerStops /\ player' \in Playbacks \cup {None} /\ LastWord(failed) \in Seq(Cancellations)
  BY <1>1, StoppedFacts
<1>4. Hears(Cancellations) /\ toMac' \in Seq(Answerings)
  BY <1>1, <1>3, CancellationsAre, SendToMacFacts
<1>5. /\ Gateway!TypeOK' /\ UNCHANGED <<session, exclusive, opened>>
      /\ Voiced'.token = Voiced.token /\ Voiced'.action = None
  BY <1>1, <1>2, GatewayExpires
<1> QED
  BY <1>2, <1>3, <1>4, <1>5, TypesOfWindows DEF Expires, WindowsTypes

\* The client leaves a connection that is gone.
LEMMA WinEndsActs ==
    ASSUME Types, WinEnds
    PROVE  Leaves /\ WindowsTypes'
<1>1. ASSUME NEW failed \in SUBSET {Voice}, CloseConnection(failed)
      PROVE  Leaves /\ WindowsTypes'
  BY <1>1, CloseFacts
<1>2. CASE /\ win = "hello" /\ win' = "offline" /\ toWin' = <<>>
           /\ UNCHANGED <<link, toMac, player, gatewayVars>>
  <2>1. Gateway!TypeOK' /\ GatewayStands
    BY <1>2, StandsStill
  <2>2. Hears(Cancellations) /\ toMac' \in Seq(Answerings)
    BY <1>2, SilentIs
  <2>3. link' = "down"
    BY <1>2 DEF WinEnds
  <2> QED
    BY <1>2, <2>1, <2>2, <2>3, TypesOfWindows DEF Leaves, WindowsTypes, GatewayStands
<1> QED
  BY <1>1, <1>2 DEF WinEnds

\* The playback thread reports what became of its speech.
LEMMA PlayerEndsActs ==
    ASSUME Types, NEW result \in {"completed", "failed", "cancelled"}, PlayerEnds(result)
    PROVE  PlaysOn /\ WindowsTypes' /\ played \subseteq played' /\ played' \subseteq Action
<1>1. player \in Playbacks /\ player.lease \in Gateway!Lease /\ player.lease.action \in Action
  BY DEF PlayerEnds, Types, TypeOK, Playbacks, Gateway!Lease
<1>2. /\ [player EXCEPT !.phase = "ending"] \in Playbacks
      /\ [player EXCEPT !.phase = "ending"].lease = player.lease
      /\ [player EXCEPT !.phase = "ending"].stop = player.stop
  BY <1>1 DEF Playbacks
<1>3. /\ player' \in Playbacks /\ player' # None /\ player # None
      /\ player'.lease = player.lease /\ player'.stop = player.stop
  BY <1>2, VoiceAssumption DEF PlayerEnds
<1> DEFINE M == CompletedMessage(player.lease, result)
<1>4. /\ UNCHANGED <<link, toWin, win, gatewayVars>>
      /\ played' = IF result = "completed" THEN played \cup {player.lease.action} ELSE played
  BY DEF PlayerEnds
<1>5. M \in Reports /\ M \in Completions
  BY <1>1, <1>4 DEF CompletedMessage, Reports, Completions, Gateway!Lease
<1>6. Hears(Reports) /\ toMac' \in Seq(Answerings)
  <2>1. CASE SendToMac(<<M>>)
    <3>1. <<M>> \in Seq({M}) /\ {M} \in SUBSET Answerings
      <4> HIDE DEF M
      <4> QED
        BY <1>5 DEF Answerings
    <3>2. Hears({M}) /\ toMac' \in Seq(Answerings)
      <4> HIDE DEF M
      <4> QED
        BY <2>1, <3>1, SendToMacFacts
    <3> HIDE DEF M
    <3> QED
      BY <1>5, <3>2 DEF Hears
  <2>2. CASE UNCHANGED toMac
    BY <2>2, SilentIs
  <2> QED
    BY <2>1, <2>2 DEF PlayerEnds
<1>7. Gateway!TypeOK' /\ GatewayStands /\ UNCHANGED resources
  BY <1>4, StandsStill DEF gatewayVars
<1>8. played \subseteq played' /\ played' \subseteq Action
  BY <1>1, <1>4 DEF Types, TypeOK
<1> QED
  BY <1>3, <1>4, <1>6, <1>7, <1>8, TypesOfWindows DEF PlaysOn, WindowsTypes, GatewayStands

\* The player is free again.
LEMMA PlayerIdles ==
    ASSUME Types, PlayerIdle
    PROVE  PlaysOn /\ WindowsTypes' /\ UNCHANGED played
<1>1. player' = None /\ UNCHANGED <<link, toWin, toMac, win, gatewayVars, played>>
  BY DEF PlayerIdle, wireVars, historyVars
<1>2. Gateway!TypeOK' /\ GatewayStands /\ UNCHANGED resources
  BY <1>1, StandsStill DEF gatewayVars
<1>3. Hears(Reports) /\ toMac' \in Seq(Answerings)
  BY <1>1, SilentIs
<1> QED
  BY <1>1, <1>2, <1>3, TypesOfWindows DEF PlaysOn, WindowsTypes, GatewayStands

\* Time passes.
LEMMA Ticks ==
    ASSUME Types, Tick
    PROVE  PlaysOn /\ WindowsTypes' /\ UNCHANGED played
<1>1. UNCHANGED <<link, toWin, toMac, win, player, played>>
  BY DEF Tick, wireVars, historyVars
<1>2. Gateway!TypeOK' /\ UNCHANGED <<session, exclusive, resources, opened>>
  BY GatewayTicks DEF Tick
<1>3. Hears(Reports) /\ toMac' \in Seq(Answerings)
  BY <1>1, SilentIs
<1> QED
  BY <1>1, <1>2, <1>3, TypesOfWindows DEF PlaysOn, WindowsTypes

\* What Windows leaves alone
Elsewhere == UNCHANGED <<supervisorVars, executorVars, macVars, halts, quiet>>

\* Every step of Windows is one of these and keeps the types.
LEMMA WindowsActs ==
    ASSUME Types, WindowsStep
    PROVE  /\ \/ Opens \/ Leaves \/ Grants \/ Declines \/ FencesOff \/ Overtaken
              \/ StartsToPlay \/ Expires \/ PlaysOn
           /\ WindowsTypes' /\ Elsewhere
           /\ played \subseteq played' /\ played' \subseteq Action
           /\ (UNCHANGED played \/ PlaysOn)
<1>0. played \subseteq Action
  BY DEF Types, TypeOK
<1>1. CASE WinOpen
  BY <1>0, <1>1, WinOpenActs DEF WinOpen, Elsewhere, historyVars
<1>2. CASE WinAuthorize
  BY <1>0, <1>2, WinAuthorizeActs DEF WinAuthorize, Elsewhere, historyVars
<1>3. CASE WinNeutralize
  BY <1>0, <1>3, WinNeutralizeActs DEF WinNeutralize, Elsewhere, historyVars
<1>4. CASE WinData
  BY <1>0, <1>4, WinDataActs DEF WinData, Elsewhere, historyVars
<1>5. CASE WinPoll
  BY <1>0, <1>5, WinPollActs DEF WinPoll, Elsewhere, historyVars
<1>6. CASE WinEnds
  BY <1>0, <1>6, WinEndsActs DEF WinEnds, Elsewhere, historyVars
<1>7. ASSUME NEW result \in {"completed", "failed", "cancelled"}, PlayerEnds(result)
      PROVE  /\ PlaysOn /\ WindowsTypes' /\ Elsewhere
             /\ played \subseteq played' /\ played' \subseteq Action
  BY <1>7, PlayerEndsActs DEF PlayerEnds, Elsewhere
<1>8. CASE PlayerIdle
  BY <1>0, <1>8, PlayerIdles DEF PlayerIdle, Elsewhere, historyVars
<1>9. CASE Tick
  BY <1>0, <1>9, Ticks DEF Tick, Elsewhere, historyVars
<1> QED
  BY <1>1, <1>2, <1>3, <1>4, <1>5, <1>6, <1>7, <1>8, <1>9 DEF WindowsStep

----------------------------------------------------------------------------
\* The types, group by group
SupervisorTypes ==
    /\ token \in Nat /\ owner \in Action \cup {None}
    /\ current \in Action \cup {None} /\ pending \in Action \cup {None}
    /\ state \in [Action -> {"new", "pending", "preparing", "running", "stopping"} \cup Final]
    /\ lease \in [Action -> Nat] /\ cancelled \subseteq Action
    /\ call \in Calls \cup {None}
ExecutorTypes ==
    /\ pc \in [Action -> {"new", "synthesize", "announce", "play", "send", "wait",
                          "returned", "raised", "ended"}]
    /\ playSession \in [Action -> Session \cup {None}]
    /\ heard \in [Action -> {None, "completed", "failed", "cancelled", "error"}]
    /\ \A a \in Action : pc[a] = "send" => playSession[a] # None
MacTypes ==
    /\ macSession \in Session \cup {None} /\ macPhase \in {"closed", "opening", "serving"}
    /\ used \subseteq Session /\ halts \in 0..MaxHalts
    /\ quiet \subseteq Action /\ played \subseteq Action

\* The types, by the part of the program that keeps the variable
LEMMA TypesAre == Types <=> SupervisorTypes /\ ExecutorTypes /\ MacTypes /\ WindowsTypes
  BY DEF Types, TypeOK, SupervisorTypes, ExecutorTypes, MacTypes, WindowsTypes, Messages, Answerings

\* None is no action, session, number, call, playback or lease.
LEMMA NoneIsNone ==
    /\ None \notin Action /\ None \notin Session /\ None \notin Nat /\ None \notin Calls
    /\ None \notin Playbacks /\ None \notin Gateway!Lease
  BY VoiceAssumption

\* The start of an action
Launches(a) ==
    /\ token' = token + 1 /\ owner' = a
    /\ lease' = [lease EXCEPT ![a] = token + 1] /\ lease' \in [Action -> Nat]
    /\ call' \in Calls /\ call' # None
    /\ call'.kind = "authorize" /\ call'.token = token' /\ call'.action = a
    /\ call'.then = "start" /\ call'.stage = "read"

\* _start_locked launches the action.
LEMMA BeginStartActs ==
    ASSUME SupervisorTypes, NEW a \in Action, BeginStart(a, token)
    PROVE  Launches(a) /\ token' \in Nat
<1>1. token + 1 \in Nat /\ token' = token + 1 /\ owner' = a
  BY DEF BeginStart, SupervisorTypes
<1>2. lease' = [lease EXCEPT ![a] = token + 1] /\ lease' \in [Action -> Nat]
  BY <1>1 DEF BeginStart, SupervisorTypes
<1>3. call' = Call("authorize", token + 1, a, "start")
  BY DEF BeginStart
<1> QED
  BY <1>1, <1>2, <1>3, CallFacts DEF Launches

\* A fence that is to be sent
FenceCalls(then) ==
    /\ owner' = None
    /\ call' \in Calls /\ call' # None
    /\ call'.kind = "neutralize" /\ call'.token = token'
    /\ call'.then = then /\ call'.stage = "read"
    /\ UNCHANGED lease

\* A fence gets the next token and leaves the voice without an owner.
LEMMA NextFence ==
    ASSUME SupervisorTypes, NEW then \in {"start", "stop", "idle", "finish"},
           token' = token + 1, owner' = None, call' = NeutralizeCall(token + 1, then),
           UNCHANGED lease
    PROVE  FenceCalls(then) /\ token' \in Nat
<1>1. token + 1 \in Nat
  BY DEF SupervisorTypes
<1> QED
  BY <1>1, NeutralizeCallFacts DEF FenceCalls

----------------------------------------------------------------------------
\* The steps of the supervisor, by what they do to its variables

\* An action is taken in and starts at once,
TakesIn(a) ==
    /\ call = None /\ state[a] = "new" /\ current = None
    /\ Launches(a)
    /\ UNCHANGED <<current, pending, state, cancelled, pc, halts, quiet>>

\* or waits for the one that runs;
Waits(a) ==
    /\ call = None /\ state[a] = "new" /\ current # None
    /\ pending' = a
    /\ state' = [b \in Action |-> IF b = a THEN "pending"
                                  ELSE IF b = pending THEN "cancelled" ELSE state[b]]
    /\ \/ CurrentRuns /\ token' = token + 1 /\ FenceCalls("stop")
       \/ ~CurrentRuns /\ UNCHANGED <<token, owner, call, lease>>
    /\ UNCHANGED <<current, cancelled, pc, halts, quiet>>

\* a halt takes the one that waits away.
Halts ==
    /\ call = None /\ halts' \in 0..MaxHalts
    /\ pending' = None
    /\ state' = [b \in Action |-> IF b = pending THEN "cancelled" ELSE state[b]]
    /\ \/ CurrentRuns /\ token' = token + 1 /\ FenceCalls("stop")
       \/ current = None /\ token' = token /\ FenceCalls("idle")
       \/ current # None /\ ~CurrentRuns /\ UNCHANGED <<token, owner, call, lease>>
    /\ UNCHANGED <<current, cancelled, pc, quiet>>

\* The call under way goes on,
GoesOn ==
    /\ call # None /\ SameCall(call')
    /\ UNCHANGED <<token, owner, current, pending, state, lease, cancelled>>

\* or comes back: to the fence of an action that was told to stop,
Returned == call # None /\ call.stage \in {"ok", "failed"}
ComesToStop ==
    /\ Returned /\ call.then = "stop"
    /\ state' = [state EXCEPT ![current] = "stopping"]
    /\ cancelled' = cancelled \cup {current}
    /\ quiet' = IF call.stage = "ok" THEN quiet \cup {current} ELSE quiet
    /\ call' = None
    /\ UNCHANGED <<token, owner, current, pending, lease, pc, halts>>

\* to nothing,
ComesToNothing ==
    /\ Returned /\ call.then = "idle" /\ call' = None
    /\ UNCHANGED <<token, owner, current, pending, state, lease, cancelled, pc, halts, quiet>>

\* to a start that succeeds
Succeeds ==
    /\ call # None /\ call.stage = "ok" /\ call.then = "start"
    /\ current' = call.action
    /\ state' = [state EXCEPT ![call.action] = "preparing"]
    /\ pc' = [pc EXCEPT ![call.action] = "synthesize"]
    /\ call' = None
    /\ UNCHANGED <<token, owner, pending, lease, cancelled, halts, quiet>>

\* or fails,
Fails ==
    /\ call # None /\ call.stage = "failed" /\ call.then = "start"
    /\ state' = [state EXCEPT ![call.action] = "failed"]
    /\ token' = token + 1 /\ FenceCalls("idle")
    /\ UNCHANGED <<current, pending, pc, cancelled, halts, quiet>>

\* to the end of an action, which may have had no fence to wait for.
Ends ==
    /\ current # None
    /\ \/ Returned /\ call.then = "finish"
          /\ quiet' = IF call.stage = "ok" THEN quiet \cup {current} ELSE quiet
       \/ call = None /\ pc[current] \in {"returned", "raised"} /\ ~CurrentRuns /\ UNCHANGED quiet
    /\ state' = [state EXCEPT ![current] = Outcome(current)]
    /\ pc' = [pc EXCEPT ![current] = "ended"]
    /\ current' = None /\ pending' = None
    /\ \/ pending = None /\ call' = None /\ UNCHANGED <<token, owner, lease>>
       \/ pending # None /\ Launches(pending)
    /\ UNCHANGED <<cancelled, halts>>

\* An executor that is done is fenced off before its action ends.
Finishes ==
    /\ call = None /\ current # None
    /\ pc[current] \in {"returned", "raised"}
    /\ token' = token + 1 /\ FenceCalls("finish")
    /\ UNCHANGED <<current, pending, state, cancelled, pc, halts, quiet>>

\* What the supervisor leaves alone, but for the message of a call
Outside == UNCHANGED <<playSession, heard, macVars, link, toMac, windowsVars, played>>

\* apply_bundle takes an action in or lets it wait.
LEMMA RequestActs ==
    ASSUME Types, NEW a \in Action, Request(a)
    PROVE  (TakesIn(a) \/ Waits(a)) /\ SupervisorTypes' /\ Outside /\ UNCHANGED toWin
<1>0. SupervisorTypes
  BY TypesAre
<1>1. Outside /\ UNCHANGED toWin
  BY DEF Request, Outside, executorVars, wireVars, historyVars
<1>2. CASE current = None
  <2>1. BeginStart(a, token)
    BY <1>2 DEF Request
  <2>2. UNCHANGED <<current, pending, state, cancelled, pc, halts, quiet>>
    BY <1>2 DEF Request, executorVars, historyVars
  <2>3. TakesIn(a) /\ token' \in Nat
    BY <1>0, <1>2, <2>1, <2>2, BeginStartActs DEF TakesIn, Request
  <2> QED
    BY <1>0, <1>1, <2>2, <2>3 DEF TakesIn, Launches, SupervisorTypes
<1>3. CASE current # None
  <2>1. /\ pending' = a
        /\ state' = [b \in Action |-> IF b = a THEN "pending"
                                      ELSE IF b = pending THEN "cancelled" ELSE state[b]]
        /\ UNCHANGED <<current, cancelled, pc, halts, quiet>>
    BY <1>3 DEF Request, executorVars, historyVars
  <2>2. state' \in [Action -> {"new", "pending", "preparing", "running", "stopping"} \cup Final]
    BY <1>0, <2>1 DEF SupervisorTypes, Final
  <2>3. CASE CurrentRuns /\ BeginCancel
    <3>1. FenceCalls("stop") /\ token' \in Nat /\ token' = token + 1
      BY <1>0, <2>3, NextFence DEF BeginCancel
    <3>2. Waits(a)
      BY <1>3, <2>1, <2>3, <3>1 DEF Waits, Request
    <3> QED
      BY <1>0, <1>1, <2>1, <2>2, <3>1, <3>2 DEF FenceCalls, SupervisorTypes
  <2>4. CASE ~CurrentRuns /\ UNCHANGED <<token, owner, lease, call>>
    <3>1. Waits(a)
      BY <1>3, <2>1, <2>4 DEF Waits, Request
    <3> QED
      BY <1>0, <1>1, <2>1, <2>2, <2>4, <3>1 DEF SupervisorTypes
  <2> QED
    BY <1>3, <2>3, <2>4 DEF Request
<1> QED
  BY <1>2, <1>3

\* halt_all fences what runs, or the idle voice.
LEMMA HaltActs ==
    ASSUME Types, Supervisor, Halt
    PROVE  Halts /\ SupervisorTypes' /\ Outside /\ UNCHANGED toWin
<1>0. SupervisorTypes /\ MacTypes
  BY TypesAre
<1>1. Outside /\ UNCHANGED toWin
  BY DEF Halt, Outside, executorVars, wireVars
<1>2. /\ pending' = None
      /\ state' = [b \in Action |-> IF b = pending THEN "cancelled" ELSE state[b]]
      /\ UNCHANGED <<current, cancelled, pc, quiet>> /\ call = None
  BY DEF Halt, executorVars
<1>3. state' \in [Action -> {"new", "pending", "preparing", "running", "stopping"} \cup Final]
  BY <1>0, <1>2 DEF SupervisorTypes, Final
<1>4. halts' \in 0..MaxHalts
  BY <1>0, VoiceAssumption DEF Halt, MacTypes
<1>5. CASE CurrentRuns /\ BeginCancel
  <2>1. FenceCalls("stop") /\ token' \in Nat /\ token' = token + 1
    BY <1>0, <1>5, NextFence DEF BeginCancel
  <2> QED
    BY <1>0, <1>1, <1>2, <1>3, <1>4, <1>5, <2>1 DEF Halts, FenceCalls, SupervisorTypes
<1>6. CASE /\ current = None
           /\ call' = NeutralizeCall(token, "idle")
           /\ UNCHANGED <<token, owner, lease>>
  <2>1. token \in Nat /\ token' = token /\ owner' = None
    BY <1>0, <1>2, <1>6 DEF SupervisorTypes, Supervisor
  <2>2. FenceCalls("idle")
    BY <1>6, <2>1, NeutralizeCallFacts DEF FenceCalls
  <2> QED
    BY <1>0, <1>1, <1>2, <1>3, <1>4, <1>6, <2>1, <2>2 DEF Halts, FenceCalls, SupervisorTypes
<1>7. CASE /\ current # None /\ ~CurrentRuns
           /\ UNCHANGED <<token, owner, lease, call>>
  BY <1>0, <1>1, <1>2, <1>3, <1>4, <1>7 DEF Halts, SupervisorTypes
<1> QED
  BY <1>5, <1>6, <1>7 DEF Halt

\* The stages of a call that goes on
LEMMA CallReadActs ==
    ASSUME Types, CallRead
    PROVE  /\ GoesOn /\ SupervisorTypes' /\ Outside /\ UNCHANGED <<toWin, pc, halts, quiet>>
           /\ call.stage = "read"
           /\ \/ call'.stage = "failed" /\ macSession = None
              \/ call'.stage = "send" /\ call'.session = macSession /\ macSession # None
<1>0. SupervisorTypes /\ MacTypes
  BY TypesAre
<1>1. call \in Calls /\ call # None /\ call.stage = "read"
  BY <1>0 DEF CallRead, SupervisorTypes
<1>2. /\ Outside /\ UNCHANGED <<toWin, pc, halts, quiet>>
      /\ UNCHANGED <<token, owner, current, pending, state, lease, cancelled>>
  BY DEF CallRead, Outside, executorVars, wireVars, historyVars
<1>3. CASE macSession = None
  <2>1. call' = Ended(call, "failed")
    BY <1>3 DEF CallRead
  <2> QED
    BY <1>0, <1>1, <1>2, <1>3, <2>1, EndedFacts DEF GoesOn, SupervisorTypes, SameCall
<1>4. CASE macSession # None
  <2>1. call' = [call EXCEPT !.stage = "send", !.session = macSession] /\ macSession \in Session
    BY <1>0, <1>4 DEF CallRead, MacTypes
  <2> QED
    BY <1>0, <1>1, <1>2, <1>4, <2>1, SendingFacts DEF GoesOn, SupervisorTypes, SameCall
<1> QED
  BY <1>3, <1>4

\* What the message of a call is
Carries(m) ==
    /\ m.kind = call.kind /\ m.session = call.session /\ m.token = call.token
    /\ (call.kind = "authorize" => m.action = call.action)

\* authorize and neutralize send what the call carries, or fail.
LEMMA CallSendActs ==
    ASSUME Types, CallMeans, CallSend
    PROVE  /\ GoesOn /\ SupervisorTypes' /\ Outside /\ UNCHANGED <<pc, halts, quiet>>
           /\ call.stage = "send" /\ call'.stage \in {"wait", "failed"}
           /\ (call'.stage = "wait" => call'.id = FreshId /\ call'.session = call.session)
           /\ (link = "up" /\ macSession # None => call'.stage = "wait")
           /\ \/ UNCHANGED toWin /\ (link = "down" \/ macSession = None)
              \/ link = "up" /\ \E m \in Messages : Pushed(m) /\ Carries(m) /\ m.id = FreshId
           /\ toWin' \in Seq(Messages)
<1>0. SupervisorTypes /\ MacTypes /\ WindowsTypes
  BY TypesAre
<1>1. /\ call \in Calls /\ call # None /\ call.stage = "send" /\ call.session \in Session
      /\ (call.kind = "authorize" => call.action \in Action)
      /\ call.kind \in {"authorize", "neutralize"} /\ call.token \in Nat
  BY <1>0 DEF CallSend, SupervisorTypes, CallMeans, Calls
<1>2. /\ Outside /\ UNCHANGED <<pc, halts, quiet>>
      /\ UNCHANGED <<token, owner, current, pending, state, lease, cancelled>>
  BY DEF CallSend, Outside, executorVars, historyVars
<1>3. FreshId \in Nat
  BY FreshIdFacts
<1> DEFINE c == [call EXCEPT !.stage = "wait", !.id = FreshId]
           m == IF c.kind = "authorize" THEN AuthorizeMessage(c) ELSE NeutralizeMessage(c)
<1>4. SameCall(c) /\ c.stage = "wait" /\ c.id = FreshId /\ c.session = call.session
  BY <1>1, <1>3, WaitingFacts
<1>5. SameCall(Ended(call, "failed")) /\ Ended(call, "failed").stage = "failed"
  BY <1>1, EndedFacts
<1>6. CASE macSession = None
  <2>1. call' = Ended(call, "failed") /\ UNCHANGED toWin
    BY <1>6 DEF CallSend
  <2> QED
    BY <1>0, <1>1, <1>2, <1>5, <1>6, <2>1 DEF GoesOn, SupervisorTypes, SameCall, WindowsTypes
<1>7. CASE macSession # None
  <2>1. (call' = c \/ (link = "down" /\ call' = Ended(call, "failed"))) /\ SendToWin(m)
    BY <1>7 DEF CallSend
  <2>2. m \in Messages /\ Carries(m) /\ m.id = FreshId
    <3> HIDE DEF c
    <3>1. CASE call.kind = "authorize"
      <4>1. m = AuthorizeMessage(c)
        BY <1>4, <3>1 DEF SameCall
      <4>2. AuthorizeMessage(c) \in Authorizations
        BY <1>1, <1>3, <1>4, <3>1 DEF SameCall, AuthorizeMessage, Authorizations
      <4> HIDE DEF m
      <4>3. m \in Messages
        BY <4>1, <4>2 DEF Messages
      <4> QED
        BY <1>4, <3>1, <4>1, <4>3 DEF Carries, AuthorizeMessage, SameCall
    <3>2. CASE call.kind = "neutralize"
      <4>1. m = NeutralizeMessage(c)
        BY <1>4, <3>2 DEF SameCall
      <4>2. NeutralizeMessage(c) \in Neutralizations
        BY <1>1, <1>3, <1>4, <3>2 DEF SameCall, NeutralizeMessage, Neutralizations
      <4> HIDE DEF m
      <4>3. m \in Messages
        BY <4>1, <4>2 DEF Messages
      <4> QED
        BY <1>4, <3>2, <4>1, <4>3 DEF Carries, NeutralizeMessage, SameCall
    <3> QED
      BY <1>1, <3>1, <3>2
  <2> HIDE DEF m, c
  <2>3. \/ UNCHANGED toWin /\ link = "down"
        \/ link = "up" /\ Pushed(m)
    BY <1>0, <2>1 DEF SendToWin, Pushed, WindowsTypes
  <2>4. toWin' \in Seq(Messages)
    BY <1>0, <2>2, <2>3, PushFacts DEF WindowsTypes
  <2>5. GoesOn /\ SupervisorTypes'
    BY <1>0, <1>1, <1>2, <1>4, <1>5, <2>1 DEF GoesOn, SupervisorTypes, SameCall
  <2> QED
    BY <1>1, <1>2, <1>4, <1>5, <2>1, <2>2, <2>3, <2>4, <2>5
<1> QED
  BY <1>6, <1>7

\* A call that waited too long fails.
LEMMA CallTimeoutActs ==
    ASSUME Types, CallTimeout
    PROVE  /\ GoesOn /\ SupervisorTypes' /\ Outside /\ UNCHANGED <<toWin, pc, halts, quiet>>
           /\ call.stage = "wait" /\ call'.stage = "failed"
<1>0. SupervisorTypes
  BY TypesAre
<1>1. call \in Calls /\ call # None /\ call.stage = "wait" /\ call' = Ended(call, "failed")
  BY <1>0 DEF CallTimeout, SupervisorTypes
<1>2. /\ Outside /\ UNCHANGED <<toWin, pc, halts, quiet>>
      /\ UNCHANGED <<token, owner, current, pending, state, lease, cancelled>>
  BY DEF CallTimeout, Outside, executorVars, wireVars, historyVars
<1> QED
  BY <1>0, <1>1, <1>2, EndedFacts DEF GoesOn, SupervisorTypes, SameCall

\* What a call comes back to
LEMMA ReturnActs ==
    ASSUME Types, CallMeans, ReturnStop \/ ReturnIdle \/ ReturnStart \/ ReturnFinish
    PROVE  /\ ComesToStop \/ ComesToNothing \/ Succeeds \/ Fails \/ Ends
           /\ SupervisorTypes' /\ Outside /\ UNCHANGED toWin
           /\ pc' \in [Action -> {"new", "synthesize", "announce", "play", "send", "wait",
                                  "returned", "raised", "ended"}]
<1>0. SupervisorTypes /\ ExecutorTypes
  BY TypesAre
<1>a. call # None /\ call.stage \in {"ok", "failed"}
  BY DEF ReturnStop, ReturnIdle, ReturnStart, ReturnFinish
<1>1. CASE ReturnStop
  <2>1. ComesToStop /\ Outside /\ UNCHANGED toWin
    BY <1>1 DEF ReturnStop, ComesToStop, Returned, Outside, executorVars, wireVars
  <2>2. current \in Action
    BY <1>0, <1>1 DEF ReturnStop, CallMeans, SupervisorTypes
  <2> QED
    BY <1>0, <2>1, <2>2 DEF ComesToStop, SupervisorTypes, ExecutorTypes
<1>2. CASE ReturnIdle
  <2>1. ComesToNothing /\ Outside /\ UNCHANGED toWin
    BY <1>2 DEF ReturnIdle, ComesToNothing, Returned, Outside, executorVars, wireVars, historyVars
  <2> QED
    BY <1>0, <2>1 DEF ComesToNothing, SupervisorTypes, ExecutorTypes
<1>3. CASE ReturnStart
  <2>1. call.action \in Action /\ call \in Calls
    BY <1>0, <1>3 DEF ReturnStart, CallMeans, SupervisorTypes, Calls
  <2>2. Outside /\ UNCHANGED <<toWin, pending, lease, cancelled, halts, quiet>>
    BY <1>3 DEF ReturnStart, Outside, executorVars, wireVars, historyVars
  <2>3. CASE call.stage = "ok"
    <3>1. Succeeds
      BY <1>3, <2>2, <2>3 DEF ReturnStart, Succeeds
    <3> QED
      BY <1>0, <2>1, <2>2, <3>1 DEF Succeeds, SupervisorTypes, ExecutorTypes
  <2>4. CASE call.stage # "ok"
    <3>1. /\ state' = [state EXCEPT ![call.action] = "failed"]
          /\ token' = token + 1 /\ owner' = None
          /\ call' = NeutralizeCall(token + 1, "idle")
          /\ UNCHANGED <<current, pc>>
      BY <1>3, <2>4 DEF ReturnStart
    <3>2. FenceCalls("idle") /\ token' \in Nat
      BY <1>0, <2>2, <3>1, NextFence
    <3>3. Fails
      BY <1>3, <1>a, <2>2, <2>4, <3>1, <3>2 DEF Fails, ReturnStart
    <3> QED
      BY <1>0, <2>1, <2>2, <3>1, <3>2, <3>3 DEF Final, FenceCalls, SupervisorTypes, ExecutorTypes
  <2> QED
    BY <2>3, <2>4
<1>4. CASE ReturnFinish
  <2>1. current \in Action /\ current # None
    BY <1>0, <1>4 DEF ReturnFinish, CallMeans, SupervisorTypes
  <2>2. /\ Outside /\ UNCHANGED <<toWin, cancelled, halts>>
        /\ Returned /\ call.then = "finish"
        /\ quiet' = IF call.stage = "ok" THEN quiet \cup {current} ELSE quiet
    BY <1>4 DEF ReturnFinish, Outside, Returned, executorVars, wireVars
  <2>3. EndCurrent
    BY <1>4 DEF ReturnFinish
  <2>4. Outcome(current) \in Final
    BY DEF Outcome, Final
  <2>5. /\ state' = [state EXCEPT ![current] = Outcome(current)]
        /\ pc' = [pc EXCEPT ![current] = "ended"]
        /\ current' = None /\ pending' = None
    BY <2>3 DEF EndCurrent
  <2>6. CASE pending = None
    <3>1. call' = None /\ UNCHANGED <<token, owner, lease>>
      BY <2>3, <2>6 DEF EndCurrent
    <3>2. Ends
      BY <2>1, <2>2, <2>5, <2>6, <3>1 DEF Ends
    <3> QED
      BY <1>0, <2>2, <2>4, <2>5, <3>1, <3>2 DEF SupervisorTypes, ExecutorTypes
  <2>7. CASE pending # None
    <3>1. BeginStart(pending, token) /\ pending \in Action
      BY <1>0, <2>3, <2>7 DEF EndCurrent, SupervisorTypes
    <3>2. Launches(pending) /\ token' \in Nat
      BY <1>0, <3>1, BeginStartActs
    <3>3. Ends
      BY <2>1, <2>2, <2>5, <2>7, <3>2 DEF Ends
    <3> QED
      BY <1>0, <2>2, <2>4, <2>5, <3>1, <3>2, <3>3 DEF Launches, SupervisorTypes, ExecutorTypes
  <2> QED
    BY <2>6, <2>7
<1> QED
  BY <1>1, <1>2, <1>3, <1>4

\* _finish_handle fences the executor that is done, or ends its action.
LEMMA FinishHandleActs ==
    ASSUME Types, NEW a \in Action, FinishHandle(a)
    PROVE  /\ Ends \/ Finishes
           /\ SupervisorTypes' /\ Outside /\ UNCHANGED toWin
           /\ pc' \in [Action -> {"new", "synthesize", "announce", "play", "send", "wait",
                                  "returned", "raised", "ended"}]
<1>0. SupervisorTypes /\ ExecutorTypes
  BY TypesAre
<1>1. /\ call = None /\ pc[a] \in {"returned", "raised"} /\ current = a /\ current # None
      /\ Outside /\ UNCHANGED <<toWin, cancelled, halts, quiet>>
  BY NoneIsNone DEF FinishHandle, Outside, executorVars, wireVars, historyVars
<1>2. CASE CurrentRuns
  <2>1. /\ token' = token + 1 /\ owner' = None
        /\ call' = NeutralizeCall(token + 1, "finish")
        /\ UNCHANGED <<current, pending, state, lease, pc>>
    BY <1>2 DEF FinishHandle
  <2>2. FenceCalls("finish") /\ token' \in Nat
    BY <1>0, <2>1, NextFence
  <2>3. Finishes
    BY <1>1, <2>1, <2>2 DEF Finishes
  <2> QED
    BY <1>0, <1>1, <2>1, <2>2, <2>3 DEF FenceCalls, SupervisorTypes, ExecutorTypes
<1>3. CASE ~CurrentRuns
  <2>3. EndCurrent
    BY <1>3 DEF FinishHandle
  <2>4. Outcome(current) \in Final
    BY DEF Outcome, Final
  <2>5. /\ state' = [state EXCEPT ![current] = Outcome(current)]
        /\ pc' = [pc EXCEPT ![current] = "ended"]
        /\ current' = None /\ pending' = None
    BY <2>3 DEF EndCurrent
  <2>6. CASE pending = None
    <3>1. call' = None /\ UNCHANGED <<token, owner, lease>>
      BY <2>3, <2>6 DEF EndCurrent
    <3>2. Ends
      BY <1>1, <1>3, <2>5, <2>6, <3>1 DEF Ends
    <3> QED
      BY <1>0, <1>1, <2>4, <2>5, <3>1, <3>2 DEF SupervisorTypes, ExecutorTypes
  <2>7. CASE pending # None
    <3>1. BeginStart(pending, token) /\ pending \in Action
      BY <1>0, <2>3, <2>7 DEF EndCurrent, SupervisorTypes
    <3>2. Launches(pending) /\ token' \in Nat
      BY <1>0, <3>1, BeginStartActs
    <3>3. Ends
      BY <1>1, <1>3, <2>5, <2>7, <3>2 DEF Ends
    <3> QED
      BY <1>0, <1>1, <2>4, <2>5, <3>1, <3>2, <3>3 DEF Launches, SupervisorTypes, ExecutorTypes
  <2> QED
    BY <2>6, <2>7
<1> QED
  BY <1>2, <1>3

----------------------------------------------------------------------------
\* The steps of the executors
Working == {"synthesize", "announce", "play", "send", "wait"}
Later == {"announce", "play", "send", "wait", "returned", "raised"}

Executes(a) ==
    /\ pc[a] \in Working
    /\ \E stage \in Later :
         /\ pc' = [pc EXCEPT ![a] = stage]
         /\ (stage = "returned" /\ a \notin cancelled => heard[a] = "completed")
    /\ \A b \in Action : heard'[b] \in {heard[b], None}
    /\ UNCHANGED state \/ (state[a] = "preparing" /\ state' = [state EXCEPT ![a] = "running"])
    /\ UNCHANGED toWin \/ (link = "up" /\ \E m \in Speeches : Pushed(m))
    /\ UNCHANGED <<token, owner, current, pending, lease, cancelled, call>>
    /\ UNCHANGED <<macVars, link, toMac, windowsVars, historyVars>>

\* Every step of an executor is of this kind.
LEMMA ExecutorActs ==
    ASSUME Types, NEW a \in Action,
           Synthesize(a) \/ MarkRunning(a) \/ PlayRead(a) \/ PlaySend(a) \/ PlayWait(a)
    PROVE  Executes(a) /\ SupervisorTypes' /\ ExecutorTypes' /\ toWin' \in Seq(Messages)
<1>0. SupervisorTypes /\ ExecutorTypes /\ MacTypes /\ WindowsTypes
  BY TypesAre
<1>w. toWin \in Seq(Messages) /\ link \in {"up", "down"}
  BY <1>0 DEF WindowsTypes
<1>1. CASE Synthesize(a)
  <2>1. /\ UNCHANGED <<playSession, heard, toWin>> /\ pc[a] = "synthesize"
        /\ UNCHANGED <<token, owner, current, pending, state, lease, cancelled, call>>
        /\ UNCHANGED <<macVars, link, toMac, windowsVars, historyVars>>
    BY <1>1 DEF Synthesize, supervisorVars, wireVars
  <2>2. PICK stage \in {"raised", "returned", "announce"} :
           pc' = [pc EXCEPT ![a] = stage] /\ (stage = "returned" => a \in cancelled)
    <3>1. CASE a \in cancelled
      BY <1>1, <3>1 DEF Synthesize
    <3>2. CASE a \notin cancelled
      BY <1>1, <3>2 DEF Synthesize
    <3> QED
      BY <3>1, <3>2
  <2>3. ExecutorTypes'
    BY <1>0, <2>1, <2>2 DEF ExecutorTypes
  <2>4. SupervisorTypes'
    BY <1>0, <2>1 DEF SupervisorTypes
  <2> QED
    BY <1>w, <2>1, <2>2, <2>3, <2>4 DEF Executes, Working, Later
<1>2. CASE MarkRunning(a)
  <2>1. /\ UNCHANGED <<playSession, heard, toWin>> /\ pc[a] = "announce"
        /\ UNCHANGED <<token, owner, current, pending, lease, cancelled, call>>
        /\ UNCHANGED <<macVars, link, toMac, windowsVars, historyVars>>
        /\ pc' = [pc EXCEPT ![a] = "play"]
    BY <1>2 DEF MarkRunning, wireVars
  <2>2. \/ UNCHANGED state
        \/ (state[a] = "preparing" /\ state' = [state EXCEPT ![a] = "running"])
    BY <1>2 DEF MarkRunning
  <2>3. ExecutorTypes'
    BY <1>0, <2>1 DEF ExecutorTypes
  <2>4. SupervisorTypes'
    BY <1>0, <2>1, <2>2 DEF SupervisorTypes
  <2> QED
    BY <1>w, <2>1, <2>2, <2>3, <2>4 DEF Executes, Working, Later
<1>3. CASE PlayRead(a)
  <2>1. /\ UNCHANGED <<heard, toWin>> /\ pc[a] = "play"
        /\ UNCHANGED <<token, owner, current, pending, state, lease, cancelled, call>>
        /\ UNCHANGED <<macVars, link, toMac, windowsVars, historyVars>>
        /\ playSession' = [playSession EXCEPT ![a] = macSession]
    BY <1>3 DEF PlayRead, supervisorVars, wireVars
  <2>2. PICK stage \in {"raised", "send"} :
           pc' = [pc EXCEPT ![a] = stage] /\ (stage = "send" => macSession # None)
    BY <1>3 DEF PlayRead
  <2>3. ExecutorTypes'
    BY <1>0, <2>1, <2>2 DEF ExecutorTypes, MacTypes
  <2>4. SupervisorTypes'
    BY <1>0, <2>1 DEF SupervisorTypes
  <2> QED
    BY <1>w, <2>1, <2>2, <2>3, <2>4 DEF Executes, Working, Later
<1>4. CASE PlaySend(a)
  <2>1. /\ UNCHANGED <<playSession, heard>> /\ pc[a] = "send"
        /\ UNCHANGED <<token, owner, current, pending, state, lease, cancelled, call>>
        /\ UNCHANGED <<macVars, link, toMac, windowsVars, historyVars>>
    BY <1>4 DEF PlaySend, supervisorVars
  <2>2. PICK stage \in {"raised", "wait"} : pc' = [pc EXCEPT ![a] = stage]
    BY <1>4 DEF PlaySend
  <2>3. playSession[a] \in Session /\ lease[a] \in Nat
    BY <1>0, <2>1 DEF ExecutorTypes, SupervisorTypes
  <2> DEFINE m == DataMessage(playSession[a], a)
  <2>4. m \in Speeches
    BY <2>3 DEF DataMessage, Speeches
  <2>5. UNCHANGED toWin \/ (link = "up" /\ Pushed(m))
    BY <1>4 DEF PlaySend, SendToWin, Pushed
  <2>6. toWin' \in Seq(Messages)
    <3> HIDE DEF m
    <3>1. m \in Messages
      BY <2>4 DEF Messages
    <3> QED
      BY <1>w, <2>5, <3>1, PushFacts
  <2>7. ExecutorTypes'
    BY <1>0, <2>1, <2>2 DEF ExecutorTypes
  <2>8. SupervisorTypes'
    BY <1>0, <2>1 DEF SupervisorTypes
  <2> HIDE DEF m
  <2> QED
    BY <2>1, <2>2, <2>4, <2>5, <2>6, <2>7, <2>8 DEF Executes, Working, Later
<1>5. CASE PlayWait(a)
  <2>1. /\ PlayForgets(a) /\ UNCHANGED toWin /\ pc[a] = "wait"
        /\ UNCHANGED <<token, owner, current, pending, state, lease, cancelled, call>>
        /\ UNCHANGED <<macVars, link, toMac, windowsVars, historyVars>>
    BY <1>5 DEF PlayWait, supervisorVars, wireVars
  <2>2. PICK stage \in {"raised", "returned"} :
          /\ pc' = [pc EXCEPT ![a] = stage]
          /\ (stage = "returned" /\ a \notin cancelled => heard[a] = "completed")
    BY <1>5 DEF PlayWait
  <2>3. \A b \in Action : heard'[b] \in {heard[b], None} /\ playSession'[b] \in {playSession[b], None}
    BY <1>0, <2>1 DEF PlayForgets, ExecutorTypes
  <2>4. ExecutorTypes'
    BY <1>0, <2>1, <2>2 DEF ExecutorTypes, PlayForgets
  <2>5. SupervisorTypes'
    BY <1>0, <2>1 DEF SupervisorTypes
  <2> QED
    BY <1>w, <2>1, <2>2, <2>3, <2>4, <2>5 DEF Executes, Working, Later
<1> QED
  BY <1>1, <1>2, <1>3, <1>4, <1>5

----------------------------------------------------------------------------
\* The steps of the Mac's side of the connection

\* An answer is taken from the wire: the call under way may have waited for it.
Answered(m) ==
    /\ call # None /\ call.stage = "wait" /\ m.kind = "ack" /\ m.id = call.id
    /\ GoesOn /\ call'.stage = IF m.accepted THEN "ok" ELSE "failed"
Receives ==
    /\ toMac # <<>> /\ Hears({})
    /\ \E m \in OnMac :
         /\ UNCHANGED call \/ Answered(m)
         /\ \A a \in Action :
              \/ heard'[a] = heard[a]
              \/ m.kind = "completed" /\ m.action = a /\ heard'[a] = m.state
    /\ UNCHANGED <<token, owner, current, pending, state, lease, cancelled>>
    /\ UNCHANGED <<pc, playSession, macVars, link, toWin, windowsVars, historyVars>>

\* output.receive hands an answer to the one that waits for it.
LEMMA MacReceiveActs ==
    ASSUME Types, MacReceive
    PROVE  Receives /\ SupervisorTypes' /\ ExecutorTypes' /\ toMac' \in Seq(Answerings)
<1>0. SupervisorTypes /\ ExecutorTypes
  BY TypesAre
<1> DEFINE m == Head(toMac)
<1>1. /\ toMac # <<>> /\ toMac' = Tail(toMac)
      /\ UNCHANGED <<token, owner, current, pending, state, lease, cancelled>>
      /\ UNCHANGED <<pc, playSession, macVars, link, toWin, windowsVars, historyVars>>
  BY DEF MacReceive
<1>2. Hears({}) /\ toMac' \in Seq(Answerings)
  BY <1>1, MacTail
<1>3. m \in OnMac /\ m \in Answerings
  BY <1>1, OnMacType
<1>4. CASE /\ m.kind = "ack"
           /\ call' = IF call # None /\ call.stage = "wait" /\ call.id = m.id
                      THEN Ended(call, IF m.accepted THEN "ok" ELSE "failed")
                      ELSE call
           /\ UNCHANGED heard
  <2>1. CASE call # None /\ call.stage = "wait" /\ call.id = m.id
    <3>1. PICK outcome \in {"ok", "failed"} : outcome = IF m.accepted THEN "ok" ELSE "failed"
      OBVIOUS
    <3>2. call' = Ended(call, outcome) /\ call \in Calls
      BY <1>0, <1>4, <2>1, <3>1 DEF SupervisorTypes
    <3>3. SameCall(call') /\ call'.stage = outcome
      BY <3>2, EndedFacts
    <3>4. Answered(m)
      BY <1>1, <1>4, <2>1, <3>1, <3>3 DEF Answered, GoesOn
    <3>5. SupervisorTypes'
      BY <1>0, <1>1, <3>3 DEF SupervisorTypes, SameCall
    <3>6. ExecutorTypes'
      BY <1>0, <1>1, <1>4 DEF ExecutorTypes
    <3> HIDE DEF m
    <3> QED
      BY <1>1, <1>2, <1>3, <1>4, <3>4, <3>5, <3>6 DEF Receives
  <2>2. CASE ~(call # None /\ call.stage = "wait" /\ call.id = m.id)
    <3>1. UNCHANGED call
      BY <1>4, <2>2
    <3>2. SupervisorTypes'
      BY <1>0, <1>1, <3>1 DEF SupervisorTypes
    <3>3. ExecutorTypes'
      BY <1>0, <1>1, <1>4 DEF ExecutorTypes
    <3> HIDE DEF m
    <3> QED
      BY <1>1, <1>2, <1>3, <1>4, <3>1, <3>2, <3>3 DEF Receives
  <2> QED
    BY <2>1, <2>2
<1>5. CASE /\ m.kind = "completed"
           /\ heard' = [a \in Action |->
                 IF /\ pc[a] = "wait" /\ a = m.action
                    /\ playSession[a] = m.session /\ lease[a] = m.token
                 THEN m.state ELSE heard[a]]
           /\ UNCHANGED call
  <2>1. m.state \in {"completed", "failed", "cancelled"}
    BY <1>3, <1>5 DEF Answerings, Acknowledgements, Completions
  <2>2. SupervisorTypes'
    BY <1>0, <1>1, <1>5 DEF SupervisorTypes
  <2> HIDE DEF m
  <2>3. ExecutorTypes'
    BY <1>0, <1>1, <1>5, <2>1 DEF ExecutorTypes
  <2>4. \A a \in Action :
           \/ heard'[a] = heard[a]
           \/ m.kind = "completed" /\ m.action = a /\ heard'[a] = m.state
    BY <1>5
  <2> QED
    BY <1>1, <1>2, <1>3, <1>5, <2>2, <2>3, <2>4 DEF Receives
<1> QED
  BY <1>4, <1>5 DEF MacReceive

\* The others
Connects(s) ==
    /\ s \in Session \ used /\ link = "down" /\ macSession = None /\ win = "offline"
    /\ used' = used \cup {s} /\ macSession' = s /\ macPhase' = "opening"
    /\ link' = "up" /\ win' = "hello" /\ toWin' = <<>> /\ OnMac' = {}
    /\ UNCHANGED <<supervisorVars, executorVars, player, gatewayVars, historyVars>>
SendsOpen ==
    /\ macPhase = "opening" /\ macPhase' = "serving"
    /\ \/ UNCHANGED toWin
       \/ link = "up" /\ \E m \in Openings : Pushed(m) /\ m.session = macSession
    /\ UNCHANGED <<macSession, used, link, toMac>>
    /\ UNCHANGED <<supervisorVars, executorVars, windowsVars, historyVars>>
Gives ==
    /\ link = "down" /\ macSession # None /\ macSession' = None /\ macPhase' = "closed"
    /\ OnMac' = {}
    /\ UNCHANGED call \/ (GoesOn /\ call'.stage = "failed")
    /\ \A a \in Action : heard'[a] \in {heard[a], "error"}
    /\ UNCHANGED <<token, owner, current, pending, state, lease, cancelled>>
    /\ UNCHANGED <<pc, playSession, used, link, toWin, windowsVars, historyVars>>

\* The types after a step, from their parts
LEMMA TypesNext ==
    ASSUME SupervisorTypes', ExecutorTypes', MacTypes', WindowsTypes'
    PROVE  Types'
  BY DEF Types, TypeOK, SupervisorTypes, ExecutorTypes, MacTypes, WindowsTypes, Messages, Answerings

\* Every step of the Mac's side of the connection is one of these.
LEMMA BridgeActs ==
    ASSUME Types, Connection, BridgeStep
    PROVE  /\ (\E s \in Session : Connects(s)) \/ SendsOpen \/ Receives \/ Gives \/ Break
           /\ Types'
<1>0. SupervisorTypes /\ ExecutorTypes /\ MacTypes /\ WindowsTypes
  BY TypesAre
<1>1. ASSUME NEW s \in Session, Connect(s)
      PROVE  Connects(s) /\ Types'
  <2>1. Connects(s)
    BY <1>1 DEF Connect, Connects, OnMac
  <2>2. SupervisorTypes' /\ ExecutorTypes'
    BY <1>0, <1>1 DEF Connect, supervisorVars, executorVars, SupervisorTypes, ExecutorTypes
  <2>3. MacTypes'
    BY <1>0, <1>1 DEF Connect, historyVars, MacTypes
  <2>4. Gateway!TypeOK'
    BY <1>1, StandsStill DEF Connect
  <2>5. WindowsTypes'
    BY <1>0, <1>1, <2>4 DEF Connect, WindowsTypes
  <2> QED
    BY <2>1, <2>2, <2>3, <2>5, TypesNext
<1>2. CASE SendOpen
  <2>1. macSession \in Session
    BY <1>0, <1>2 DEF SendOpen, Connection, MacTypes
  <2> DEFINE m == OpenMessage(macSession)
  <2>2. m \in Openings /\ m.session = macSession
    BY <2>1 DEF OpenMessage, Openings
  <2>3. UNCHANGED toWin \/ (link = "up" /\ Pushed(m))
    BY <1>2 DEF SendOpen, SendToWin, Pushed
  <2>4. toWin' \in Seq(Messages)
    <3> HIDE DEF m
    <3>1. m \in Messages
      BY <2>2 DEF Messages
    <3> QED
      BY <1>0, <2>3, <3>1, PushFacts DEF WindowsTypes
  <2>5. SendsOpen
    <3> HIDE DEF m
    <3> QED
      BY <1>2, <2>2, <2>3 DEF SendOpen, SendsOpen
  <2>6. SupervisorTypes' /\ ExecutorTypes'
    BY <1>0, <1>2 DEF SendOpen, supervisorVars, executorVars, SupervisorTypes, ExecutorTypes
  <2>7. MacTypes'
    BY <1>0, <1>2 DEF SendOpen, historyVars, MacTypes
  <2>8. Gateway!TypeOK'
    BY <1>2, StandsStill DEF SendOpen, windowsVars
  <2>9. WindowsTypes'
    BY <1>0, <1>2, <2>4, <2>8 DEF SendOpen, windowsVars, WindowsTypes
  <2> QED
    BY <2>5, <2>6, <2>7, <2>9, TypesNext
<1>3. CASE MacReceive
  <2>1. Receives /\ SupervisorTypes' /\ ExecutorTypes' /\ toMac' \in Seq(Answerings)
    BY <1>3, MacReceiveActs
  <2>2. MacTypes'
    BY <1>0, <2>1 DEF Receives, macVars, historyVars, MacTypes
  <2>3. Gateway!TypeOK'
    BY <2>1, StandsStill DEF Receives, windowsVars
  <2>4. WindowsTypes'
    BY <1>0, <2>1, <2>3 DEF Receives, windowsVars, WindowsTypes
  <2> QED
    BY <2>1, <2>2, <2>4, TypesNext
<1>4. CASE MacEnds
  <2>1. /\ link = "down" /\ macSession # None /\ macSession' = None /\ macPhase' = "closed"
        /\ toMac' = <<>>
        /\ UNCHANGED <<token, owner, current, pending, state, lease, cancelled>>
        /\ UNCHANGED <<pc, playSession, used, link, toWin, windowsVars, historyVars>>
    BY <1>4 DEF MacEnds
  <2>2. /\ SupervisorTypes'
        /\ UNCHANGED call \/ (GoesOn /\ call'.stage = "failed")
    <3>1. CASE call # None /\ call.stage = "wait"
      <4>1. call' = Ended(call, "failed") /\ call \in Calls
        BY <1>0, <1>4, <3>1 DEF MacEnds, SupervisorTypes
      <4> QED
        BY <1>0, <2>1, <3>1, <4>1, EndedFacts DEF GoesOn, SupervisorTypes, SameCall
    <3>2. CASE ~(call # None /\ call.stage = "wait")
      <4>1. UNCHANGED call
        BY <1>4, <3>2 DEF MacEnds
      <4> QED
        BY <1>0, <2>1, <4>1 DEF SupervisorTypes
    <3> QED
      BY <3>1, <3>2
  <2>3. heard' = [a \in Action |-> IF pc[a] = "wait" THEN "error" ELSE heard[a]]
    BY <1>4 DEF MacEnds
  <2>4. ExecutorTypes'
    BY <1>0, <2>1, <2>3 DEF ExecutorTypes
  <2>5. Gives
    BY <2>1, <2>2, <2>3 DEF Gives, OnMac
  <2>6. MacTypes'
    BY <1>0, <2>1 DEF historyVars, MacTypes
  <2>7. Gateway!TypeOK'
    BY <2>1, StandsStill DEF windowsVars
  <2>8. WindowsTypes'
    BY <1>0, <2>1, <2>7 DEF windowsVars, WindowsTypes
  <2> QED
    BY <2>2, <2>4, <2>5, <2>6, <2>8, TypesNext
<1>5. CASE Break
  <2>1. SupervisorTypes' /\ ExecutorTypes'
    BY <1>0, <1>5 DEF Break, supervisorVars, executorVars, SupervisorTypes, ExecutorTypes
  <2>2. MacTypes'
    BY <1>0, <1>5 DEF Break, macVars, historyVars, MacTypes
  <2>3. Gateway!TypeOK'
    BY <1>5, StandsStill DEF Break, windowsVars
  <2>4. WindowsTypes'
    BY <1>0, <1>5, <2>3 DEF Break, windowsVars, WindowsTypes
  <2> QED
    BY <1>5, <2>1, <2>2, <2>4, TypesNext
<1> QED
  BY <1>1, <1>2, <1>3, <1>4, <1>5 DEF BridgeStep

----------------------------------------------------------------------------
\* Every step of the program is one of these.
Decides ==
    /\ Outside /\ UNCHANGED toWin
    /\ \/ \E a \in Action : TakesIn(a) \/ Waits(a)
       \/ Halts \/ ComesToStop \/ ComesToNothing \/ Succeeds \/ Fails \/ Ends \/ Finishes
Reads ==
    /\ GoesOn /\ Outside /\ UNCHANGED <<toWin, pc, halts, quiet>>
    /\ call.stage = "read"
    /\ \/ call'.stage = "failed" /\ macSession = None
       \/ call'.stage = "send" /\ call'.session = macSession /\ macSession # None
Sends ==
    /\ GoesOn /\ Outside /\ UNCHANGED <<pc, halts, quiet>>
    /\ call.stage = "send" /\ call'.stage \in {"wait", "failed"}
    /\ (call'.stage = "wait" => call'.id = FreshId /\ call'.session = call.session)
    /\ (link = "up" /\ macSession # None => call'.stage = "wait")
    /\ \/ UNCHANGED toWin /\ (link = "down" \/ macSession = None)
       \/ link = "up" /\ \E m \in Messages : Pushed(m) /\ Carries(m) /\ m.id = FreshId
TimesOut ==
    /\ GoesOn /\ Outside /\ UNCHANGED <<toWin, pc, halts, quiet>>
    /\ call.stage = "wait" /\ call'.stage = "failed"
WindowsMoves ==
    /\ \/ Opens \/ Leaves \/ Grants \/ Declines \/ FencesOff \/ Overtaken
       \/ StartsToPlay \/ Expires \/ PlaysOn
    /\ Elsewhere
    /\ played \subseteq played' /\ played' \subseteq Action
    /\ (UNCHANGED played \/ PlaysOn)
BridgeMoves ==
    (\E s \in Session : Connects(s)) \/ SendsOpen \/ Receives \/ Gives \/ Break
SpeechMoves == \E a \in Action : Executes(a)

\* A step of the supervisor leaves the types of the others.
LEMMA SupervisorKeepsTypes ==
    ASSUME Types, Outside, SupervisorTypes', toWin' \in Seq(Messages), halts' \in 0..MaxHalts,
           quiet' \subseteq Action,
           pc' \in [Action -> {"new", "synthesize", "announce", "play", "send", "wait",
                               "returned", "raised", "ended"}],
           \A a \in Action : pc'[a] = "send" => pc[a] = "send"
    PROVE  Types'
<1>0. ExecutorTypes /\ MacTypes /\ WindowsTypes
  BY TypesAre
<1>1. ExecutorTypes'
  BY <1>0 DEF Outside, ExecutorTypes
<1>2. MacTypes'
  BY <1>0 DEF Outside, macVars, MacTypes
<1>3. WindowsTypes'
  <2>1. Gateway!TypeOK'
    BY StandsStill DEF Outside, windowsVars
  <2> QED
    BY <1>0, <2>1 DEF Outside, windowsVars, WindowsTypes
<1> QED
  BY <1>1, <1>2, <1>3, TypesNext

\* So each step is one of seven kinds, and none breaks a type.
LEMMA StepActs ==
    ASSUME Types, Supervisor, CallMeans, Connection, Next
    PROVE  /\ Decides \/ Reads \/ Sends \/ TimesOut \/ SpeechMoves \/ BridgeMoves \/ WindowsMoves
           /\ Types'
<1>0. SupervisorTypes /\ ExecutorTypes /\ MacTypes /\ WindowsTypes
  BY TypesAre
<1>w. toWin \in Seq(Messages)
  BY <1>0 DEF WindowsTypes
<1>1. ASSUME NEW a \in Action, Request(a)
      PROVE  Decides /\ Types'
  <2>1. (TakesIn(a) \/ Waits(a)) /\ SupervisorTypes' /\ Outside /\ UNCHANGED toWin
    BY <1>1, RequestActs
  <2>2. UNCHANGED <<pc, halts, quiet>>
    BY <2>1 DEF TakesIn, Waits
  <2>3. Types'
    BY <1>0, <1>w, <2>1, <2>2, SupervisorKeepsTypes DEF ExecutorTypes, MacTypes
  <2> QED
    BY <2>1, <2>3 DEF Decides
<1>2. CASE Halt
  <2>1. Halts /\ SupervisorTypes' /\ Outside /\ UNCHANGED toWin
    BY <1>2, HaltActs
  <2>2. UNCHANGED <<pc, quiet>> /\ halts' \in 0..MaxHalts
    BY <2>1 DEF Halts
  <2>3. Types'
    BY <1>0, <1>w, <2>1, <2>2, SupervisorKeepsTypes DEF ExecutorTypes, MacTypes
  <2> QED
    BY <2>1, <2>3 DEF Decides
<1>3. CASE CallRead
  <2>1. Reads /\ SupervisorTypes'
    BY <1>3, CallReadActs DEF Reads
  <2>2. Outside /\ UNCHANGED <<toWin, pc, halts, quiet>>
    BY <2>1 DEF Reads
  <2>3. Types'
    BY <1>0, <1>w, <2>1, <2>2, SupervisorKeepsTypes DEF ExecutorTypes, MacTypes
  <2> QED
    BY <2>1, <2>3
<1>4. CASE CallSend
  <2>1. Sends /\ SupervisorTypes' /\ toWin' \in Seq(Messages)
    BY <1>4, CallSendActs DEF Sends
  <2>2. Outside /\ UNCHANGED <<pc, halts, quiet>>
    BY <2>1 DEF Sends
  <2>3. Types'
    BY <1>0, <2>1, <2>2, SupervisorKeepsTypes DEF ExecutorTypes, MacTypes
  <2> QED
    BY <2>1, <2>3
<1>5. CASE CallTimeout
  <2>1. TimesOut /\ SupervisorTypes'
    BY <1>5, CallTimeoutActs DEF TimesOut
  <2>2. Outside /\ UNCHANGED <<toWin, pc, halts, quiet>>
    BY <2>1 DEF TimesOut
  <2>3. Types'
    BY <1>0, <1>w, <2>1, <2>2, SupervisorKeepsTypes DEF ExecutorTypes, MacTypes
  <2> QED
    BY <2>1, <2>3
<1>a. ASSUME ComesToStop \/ ComesToNothing \/ Succeeds \/ Fails \/ Ends \/ Finishes,
             SupervisorTypes', Outside, UNCHANGED toWin,
             pc' \in [Action -> {"new", "synthesize", "announce", "play", "send", "wait",
                                 "returned", "raised", "ended"}]
      PROVE  Decides /\ Types'
  <2>1. Decides
    BY <1>a DEF Decides
  <2>2. UNCHANGED halts
    BY <1>a DEF ComesToStop, ComesToNothing, Succeeds, Fails, Ends, Finishes
  <2>3. quiet' \in {quiet, quiet \cup {current}} /\ (UNCHANGED quiet \/ current # None)
    <3>1. CASE ComesToStop
      <4>1. current # None
        BY <3>1 DEF ComesToStop, Returned, CallMeans
      <4>2. quiet' = quiet \cup {current} \/ quiet' = quiet
        BY <3>1 DEF ComesToStop
      <4> QED
        BY <4>1, <4>2
    <3>2. CASE Ends
      <4>1. current # None
        BY <3>2 DEF Ends
      <4>2. quiet' = quiet \cup {current} \/ quiet' = quiet
        BY <3>2 DEF Ends
      <4> QED
        BY <4>1, <4>2
    <3>3. CASE ComesToNothing \/ Succeeds \/ Fails \/ Finishes
      BY <3>3 DEF ComesToNothing, Succeeds, Fails, Finishes
    <3> QED
      BY <1>a, <3>1, <3>2, <3>3
  <2>4. quiet' \subseteq Action
    BY <1>0, <2>3 DEF SupervisorTypes, MacTypes
  <2>5. \A b \in Action : pc'[b] = "send" => pc[b] = "send"
    BY <1>0, <1>a
    DEF ComesToStop, ComesToNothing, Succeeds, Fails, Ends, Finishes, ExecutorTypes
  <2>6. Types'
    BY <1>0, <1>a, <1>w, <2>2, <2>4, <2>5, SupervisorKeepsTypes DEF MacTypes
  <2> QED
    BY <2>1, <2>6
<1>6. CASE ReturnStop \/ ReturnIdle \/ ReturnStart \/ ReturnFinish
  BY <1>6, <1>a, ReturnActs
<1>7. ASSUME NEW a \in Action, FinishHandle(a)
      PROVE  Decides /\ Types'
  BY <1>7, <1>a, FinishHandleActs
<1>8. ASSUME NEW a \in Action,
             Synthesize(a) \/ MarkRunning(a) \/ PlayRead(a) \/ PlaySend(a) \/ PlayWait(a)
      PROVE  SpeechMoves /\ Types'
  <2>1. Executes(a) /\ SupervisorTypes' /\ ExecutorTypes' /\ toWin' \in Seq(Messages)
    BY <1>8, ExecutorActs
  <2>2. UNCHANGED <<macVars, link, toMac, windowsVars, historyVars>>
    BY <2>1 DEF Executes
  <2>3. MacTypes'
    BY <1>0, <2>2 DEF macVars, historyVars, MacTypes
  <2>4. Gateway!TypeOK'
    BY <2>2, StandsStill DEF windowsVars
  <2>5. WindowsTypes'
    BY <1>0, <2>1, <2>2, <2>4 DEF windowsVars, WindowsTypes
  <2> QED
    BY <2>1, <2>3, <2>5, TypesNext DEF SpeechMoves
<1>9. CASE BridgeStep
  BY <1>9, BridgeActs DEF BridgeMoves
<1>10. CASE WindowsStep
  <2>1. WindowsMoves /\ WindowsTypes' /\ Elsewhere /\ played' \subseteq Action
    BY <1>10, WindowsActs DEF WindowsMoves
  <2>2. SupervisorTypes' /\ ExecutorTypes'
    BY <1>0, <2>1 DEF Elsewhere, supervisorVars, executorVars, SupervisorTypes, ExecutorTypes
  <2>3. MacTypes'
    BY <1>0, <2>1 DEF Elsewhere, macVars, MacTypes
  <2> QED
    BY <2>1, <2>2, <2>3, TypesNext
<1> QED
  BY <1>1, <1>2, <1>3, <1>4, <1>5, <1>6, <1>7, <1>8, <1>9, <1>10 DEF Next, CallStep, ExecutorStep

----------------------------------------------------------------------------
\* The supervisor's own part of the invariant

\* A call that goes on means what it meant.
LEMMA CallGoesOn ==
    ASSUME CallMeans, GoesOn, UNCHANGED pc,
           call'.stage \in {"send", "wait"} => call'.session # None
    PROVE  CallMeans'
  BY DEF CallMeans, GoesOn, SameCall

\* A step that changes neither a state nor an executor leaves it as it is.
LEMMA SupervisorGoesOn ==
    ASSUME Supervisor, UNCHANGED <<owner, current, pending, state, pc>>, call = None <=> call' = None
    PROVE  Supervisor'
  BY DEF Supervisor, CurrentRuns

\* A decision of the supervisor leaves both true.
LEMMA DecidesMeans ==
    ASSUME Types, Supervisor, CallMeans, Types', Decides
    PROVE  Supervisor' /\ CallMeans'
<1>0. SupervisorTypes /\ ExecutorTypes
  BY TypesAre
<1>n. None \notin Action
  BY NoneIsNone
<1>p. pending # None => pc[pending] = "new" /\ pending # current
  BY <1>0 DEF Supervisor, SupervisorTypes
<1>1. ASSUME NEW a \in Action, TakesIn(a)
      PROVE  Supervisor' /\ CallMeans'
  <2>1. pending # a
    BY <1>1, <1>n DEF TakesIn, Supervisor
  <2>2. call' # None /\ UNCHANGED <<current, pending, state, pc>>
    BY <1>1 DEF TakesIn, Launches
  <2> QED
    BY <1>1, <1>n, <2>1, <2>2 DEF TakesIn, Launches, Supervisor, CallMeans
<1>2. ASSUME NEW a \in Action, Waits(a)
      PROVE  Supervisor' /\ CallMeans'
  <2>1. /\ UNCHANGED <<current, pc>> /\ pending' = a /\ call = None /\ state[a] = "new" /\ current # None
        /\ \A b \in Action : state'[b] = IF b = a THEN "pending"
                                         ELSE IF b = pending THEN "cancelled" ELSE state[b]
    BY <1>2 DEF Waits
  <2>2. current \in Action /\ pc[current] # "new" /\ pc[a] = "new"
    BY <1>0, <2>1 DEF Supervisor, SupervisorTypes
  <2>3. state'[current] = state[current] /\ (CurrentRuns' <=> CurrentRuns)
    BY <1>p, <2>1, <2>2 DEF CurrentRuns
  <2>4. CASE CurrentRuns /\ token' = token + 1 /\ FenceCalls("stop")
    BY <1>n, <2>1, <2>2, <2>3, <2>4 DEF FenceCalls, Supervisor, CallMeans
  <2>5. CASE ~CurrentRuns /\ UNCHANGED <<token, owner, call, lease>>
    BY <1>n, <2>1, <2>2, <2>3, <2>5 DEF Supervisor, CallMeans
  <2> QED
    BY <1>2, <2>4, <2>5 DEF Waits
<1>3. CASE Halts
  <2>1. /\ UNCHANGED <<current, pc>> /\ pending' = None /\ call = None
        /\ \A b \in Action : state'[b] = IF b = pending THEN "cancelled" ELSE state[b]
    BY <1>3 DEF Halts
  <2>2. CurrentRuns' <=> CurrentRuns
    BY <1>0, <1>p, <2>1 DEF CurrentRuns, SupervisorTypes
  <2>3. CASE CurrentRuns /\ token' = token + 1 /\ FenceCalls("stop")
    BY <2>1, <2>2, <2>3 DEF FenceCalls, Supervisor, CallMeans, CurrentRuns
  <2>4. CASE current = None /\ token' = token /\ FenceCalls("idle")
    BY <2>1, <2>2, <2>4 DEF FenceCalls, Supervisor, CallMeans
  <2>5. CASE current # None /\ ~CurrentRuns /\ UNCHANGED <<token, owner, call, lease>>
    BY <2>1, <2>2, <2>5 DEF Supervisor, CallMeans
  <2> QED
    BY <1>3, <2>3, <2>4, <2>5 DEF Halts
<1>4. CASE ComesToStop
  <2>1. /\ UNCHANGED <<owner, current, pending, pc>> /\ call' = None
        /\ state' = [state EXCEPT ![current] = "stopping"]
        /\ call # None /\ call.then = "stop"
    BY <1>4 DEF ComesToStop, Returned
  <2>2. current \in Action /\ owner = None
    BY <1>0, <2>1 DEF CallMeans, SupervisorTypes
  <2>3. \A b \in Action : state'[b] = IF b = current THEN "stopping" ELSE state[b]
    BY <1>0, <2>1, <2>2 DEF SupervisorTypes
  <2> QED
    BY <1>0, <1>p, <2>1, <2>2, <2>3 DEF Supervisor, CallMeans, SupervisorTypes
<1>5. CASE ComesToNothing
  BY <1>5 DEF ComesToNothing, Returned, Supervisor, CallMeans
<1>6. CASE Succeeds
  <2>1. /\ UNCHANGED <<owner, pending>> /\ call' = None /\ current' = call.action
        /\ state' = [state EXCEPT ![call.action] = "preparing"]
        /\ pc' = [pc EXCEPT ![call.action] = "synthesize"]
        /\ call # None /\ call.then = "start"
    BY <1>6 DEF Succeeds
  <2>2. call.action \in Action /\ pending # call.action
    BY <1>0, <2>1 DEF CallMeans, SupervisorTypes, Calls
  <2>3. /\ \A b \in Action : state'[b] = IF b = call.action THEN "preparing" ELSE state[b]
        /\ \A b \in Action : pc'[b] = IF b = call.action THEN "synthesize" ELSE pc[b]
    BY <1>0, <2>1, <2>2 DEF SupervisorTypes, ExecutorTypes
  <2>4. CurrentRuns' /\ current' # None
    BY <1>n, <2>1, <2>2, <2>3 DEF CurrentRuns
  <2> QED
    BY <1>0, <2>1, <2>2, <2>3, <2>4 DEF Supervisor, CallMeans, SupervisorTypes
<1>7. CASE Fails
  <2>1. /\ UNCHANGED <<current, pending, pc>> /\ FenceCalls("idle")
        /\ state' = [state EXCEPT ![call.action] = "failed"]
        /\ call # None /\ call.then = "start"
    BY <1>7 DEF Fails
  <2>2. call.action \in Action /\ pending # call.action /\ current = None
    BY <1>0, <2>1 DEF CallMeans, SupervisorTypes, Calls
  <2>3. \A b \in Action : state'[b] = IF b = call.action THEN "failed" ELSE state[b]
    BY <1>0, <2>1, <2>2 DEF SupervisorTypes
  <2> QED
    BY <1>0, <2>1, <2>2, <2>3 DEF FenceCalls, Supervisor, CallMeans, SupervisorTypes
<1>8. CASE Ends
  <2>1. /\ current \in Action /\ current' = None /\ pending' = None
        /\ state' = [state EXCEPT ![current] = Outcome(current)]
        /\ pc' = [pc EXCEPT ![current] = "ended"]
    BY <1>0, <1>8 DEF Ends, SupervisorTypes
  <2>2. Outcome(current) \in Final
    BY DEF Outcome, Final
  <2>3. /\ \A b \in Action : state'[b] = IF b = current THEN Outcome(current) ELSE state[b]
        /\ \A b \in Action : pc'[b] = IF b = current THEN "ended" ELSE pc[b]
    BY <1>0, <2>1 DEF SupervisorTypes, ExecutorTypes
  <2>4. owner = None
    <3>1. CASE Returned /\ call.then = "finish"
      BY <3>1 DEF Returned, CallMeans
    <3>2. CASE call = None /\ ~CurrentRuns
      BY <3>2 DEF Supervisor
    <3> QED
      BY <1>8, <3>1, <3>2 DEF Ends
  <2>5. \A b \in Action : state'[b] \in {"new", "pending"} => pc'[b] = "new"
    BY <2>2, <2>3 DEF Supervisor, Final
  <2>6. CASE pending = None /\ call' = None /\ UNCHANGED <<token, owner, lease>>
    BY <2>1, <2>4, <2>5, <2>6 DEF Supervisor, CallMeans
  <2>7. CASE pending # None /\ Launches(pending)
    <3>1. pending \in Action /\ state'[pending] = "pending"
      BY <1>0, <1>p, <2>3, <2>7 DEF Supervisor, SupervisorTypes
    <3> QED
      BY <2>1, <2>5, <2>7, <3>1 DEF Launches, Supervisor, CallMeans
  <2> QED
    BY <1>8, <2>6, <2>7 DEF Ends
<1>9. CASE Finishes
  BY <1>9 DEF Finishes, FenceCalls, Supervisor, CallMeans
<1> QED
  BY <1>1, <1>2, <1>3, <1>4, <1>5, <1>6, <1>7, <1>8, <1>9 DEF Decides

\* So does every other step.
LEMMA SupervisorStep ==
    ASSUME Types, Supervisor, CallMeans, Types',
           Decides \/ Reads \/ Sends \/ TimesOut \/ SpeechMoves \/ BridgeMoves \/ WindowsMoves
    PROVE  Supervisor' /\ CallMeans'
<1>0. SupervisorTypes /\ ExecutorTypes
  BY TypesAre
<1>g. ASSUME GoesOn, UNCHANGED pc, call'.stage \in {"send", "wait"} => call'.session # None
      PROVE  Supervisor' /\ CallMeans'
  <2>1. call # None /\ call' # None /\ UNCHANGED <<owner, current, pending, state>>
    BY <1>g DEF GoesOn, SameCall
  <2> QED
    BY <1>g, <2>1, CallGoesOn, SupervisorGoesOn
<1>u. ASSUME UNCHANGED <<supervisorVars, pc>>
      PROVE  Supervisor' /\ CallMeans'
  BY <1>u DEF supervisorVars, Supervisor, CallMeans, CurrentRuns
<1>1. CASE Decides
  BY <1>1, DecidesMeans
<1>2. CASE Reads
  BY <1>2, <1>g DEF Reads
<1>3. CASE Sends
  <2>1. call.session # None
    BY <1>3 DEF Sends, GoesOn, CallMeans
  <2> QED
    BY <1>3, <1>g, <2>1 DEF Sends
<1>4. CASE TimesOut
  BY <1>4, <1>g DEF TimesOut
<1>5. ASSUME NEW a \in Action, Executes(a)
      PROVE  Supervisor' /\ CallMeans'
  <2>1. /\ pc[a] \in Working /\ UNCHANGED <<token, owner, current, pending, call>>
        /\ state[a] \notin {"new", "pending"}
    BY <1>5 DEF Executes, Working, Supervisor
  <2>2. /\ \A b \in Action : b # a => pc'[b] = pc[b] /\ state'[b] = state[b]
        /\ pc'[a] \in Later
    BY <1>0, <1>5 DEF Executes, SupervisorTypes, ExecutorTypes
  <2>3. UNCHANGED state \/ (state[a] = "preparing" /\ state'[a] = "running")
    BY <1>0, <1>5 DEF Executes, SupervisorTypes
  <2>4. /\ \A b \in Action : state'[b] \in {"new", "pending"} <=> state[b] \in {"new", "pending"}
        /\ \A b \in Action : state'[b] = "stopping" <=> state[b] = "stopping"
        /\ \A b \in Action : state'[b] = "pending" <=> state[b] = "pending"
    BY <2>1, <2>2, <2>3
  <2>5. /\ \A b \in Action : pc[b] = "new" => pc'[b] = "new"
        /\ \A b \in Action : pc[b] \notin {"new", "ended"} => pc'[b] \notin {"new", "ended"}
        /\ \A b \in Action : pc[b] \in {"returned", "raised"} => pc'[b] \in {"returned", "raised"}
    BY <2>1, <2>2 DEF Working, Later
  <2>6. Supervisor'
    <3>1. \A b \in Action : state'[b] \in {"new", "pending"} => pc'[b] = "new"
      BY <2>4, <2>5 DEF Supervisor
    <3>2. current' # None => pc'[current'] \notin {"new", "ended"}
      BY <1>0, <2>1, <2>5 DEF Supervisor, SupervisorTypes
    <3>3. CurrentRuns' <=> CurrentRuns
      BY <1>0, <2>1, <2>4 DEF CurrentRuns, SupervisorTypes
    <3>4. pending' # None => state'[pending'] = "pending"
      BY <1>0, <2>1, <2>4 DEF Supervisor, SupervisorTypes
    <3> QED
      BY <2>1, <3>1, <3>2, <3>3, <3>4 DEF Supervisor
  <2>7. CallMeans'
    <3>1. CASE call = None
      BY <2>1, <3>1 DEF CallMeans
    <3>2. CASE call # None
      <4>1. call.then = "start" => call.action \in Action
        BY <1>0, <3>2 DEF CallMeans, SupervisorTypes, Calls
      <4>2. call.then = "start" => state'[call.action] \in {"new", "pending"}
        BY <2>4, <3>2, <4>1 DEF CallMeans
      <4>3. call.then = "finish" => pc'[current] \in {"returned", "raised"}
        BY <1>0, <2>5, <3>2 DEF CallMeans, SupervisorTypes
      <4> QED
        BY <2>1, <3>2, <4>2, <4>3 DEF CallMeans
    <3> QED
      BY <3>1, <3>2
  <2> QED
    BY <2>6, <2>7
<1>6. CASE BridgeMoves
  <2>1. CASE Receives
    <3>1. CASE UNCHANGED call
      BY <1>u, <2>1, <3>1 DEF Receives, supervisorVars
    <3>2. ASSUME NEW m \in OnMac, Answered(m)
          PROVE  Supervisor' /\ CallMeans'
      BY <1>g, <2>1, <3>2 DEF Receives, Answered
    <3> QED
      BY <2>1, <3>1, <3>2 DEF Receives
  <2>2. CASE Gives
    <3>1. CASE UNCHANGED call
      BY <1>u, <2>2, <3>1 DEF Gives, supervisorVars
    <3>2. CASE GoesOn /\ call'.stage = "failed"
      BY <1>g, <2>2, <3>2 DEF Gives
    <3> QED
      BY <2>2, <3>1, <3>2 DEF Gives
  <2>3. CASE (\E s \in Session : Connects(s)) \/ SendsOpen \/ Break
    BY <1>u, <2>3 DEF Connects, SendsOpen, Break, executorVars
  <2> QED
    BY <1>6, <2>1, <2>2, <2>3 DEF BridgeMoves
<1>7. CASE WindowsMoves
  BY <1>u, <1>7 DEF WindowsMoves, Elsewhere, executorVars
<1> QED
  BY <1>1, <1>2, <1>3, <1>4, <1>5, <1>6, <1>7 DEF SpeechMoves

----------------------------------------------------------------------------
\* The connection's part
connectionVars == <<macVars, link, win, toWin, session, exclusive, opened>>

\* A step that leaves the connection alone leaves it true.
LEMMA SameConnection ==
    ASSUME Connection, UNCHANGED connectionVars
    PROVE  Connection'
  BY DEF Connection, connectionVars, macVars

\* A message that opens nothing changes nothing for the connection.
LEMMA ConnectionSends ==
    ASSUME Types, Connection, link = "up", NEW m \in Messages, Pushed(m),
           m.kind = "open" => m.session = macSession /\ m.session \in used,
           UNCHANGED <<macSession, used, link, win, session, exclusive, opened>>,
           macPhase' = macPhase \/ (macPhase = "opening" /\ macPhase' = "serving")
    PROVE  Connection'
<1>1. /\ DOMAIN toWin' = 1..(Len(toWin) + 1) /\ DOMAIN toWin = 1..Len(toWin) /\ Len(toWin) \in Nat
      /\ \A i \in DOMAIN toWin : toWin'[i] = toWin[i]
      /\ toWin'[Len(toWin) + 1] = m
  BY PushFacts
<1>2. ASSUME NEW i \in DOMAIN toWin', toWin'[i].kind = "open"
      PROVE  macSession' \in {None, toWin'[i].session} /\ toWin'[i].session \in used'
  <2>1. CASE i \in DOMAIN toWin
    BY <1>1, <1>2, <2>1 DEF Connection
  <2>2. CASE i = Len(toWin) + 1
    BY <1>1, <1>2, <2>2
  <2> QED
    BY <1>1, <2>1, <2>2
<1>3. win # "offline"
  BY DEF Connection
<1> QED
  BY <1>2, <1>3 DEF Connection

\* Taking a message from the wire leaves the others as they were.
LEMMA OpeningsLeft ==
    ASSUME Types, Connection, Popped, UNCHANGED <<macSession, used>>
    PROVE  \A i \in DOMAIN toWin' : toWin'[i].kind = "open" =>
              macSession' \in {None, toWin'[i].session} /\ toWin'[i].session \in used'
  BY PopFacts DEF Connection

\* Every step leaves both sides on the same session.
LEMMA ConnectionStep ==
    ASSUME Types, CallMeans, Connection, Types',
           Decides \/ Reads \/ Sends \/ TimesOut \/ SpeechMoves \/ BridgeMoves \/ WindowsMoves
    PROVE  Connection'
<1>t. /\ macSession \in Session \cup {None} /\ session \in Session \cup {None}
      /\ link \in {"up", "down"} /\ win \in {"offline", "hello", "serving"}
      /\ macPhase \in {"closed", "opening", "serving"}
  BY TypesAre, VoicedType DEF MacTypes, WindowsTypes
<1>n. None \notin Session
  BY NoneIsNone
<1>1. CASE Decides \/ Reads \/ TimesOut
  BY <1>1, SameConnection
  DEF Decides, Reads, TimesOut, Outside, windowsVars, gatewayVars, connectionVars
<1>2. CASE Sends
  <2>1. UNCHANGED <<macVars, link, win, session, exclusive, opened>>
    BY <1>2 DEF Sends, Outside, windowsVars, gatewayVars
  <2>2. CASE UNCHANGED toWin
    BY <2>1, <2>2, SameConnection DEF connectionVars
  <2>3. CASE link = "up" /\ \E m \in Messages : Pushed(m) /\ Carries(m) /\ m.id = FreshId
    <3>1. PICK m \in Messages : Pushed(m) /\ Carries(m)
      BY <2>3
    <3>2. m.kind # "open"
      BY <1>2, <3>1, TypesAre DEF Sends, GoesOn, Carries, SupervisorTypes, Calls
    <3> QED
      BY <2>1, <2>3, <3>1, <3>2, ConnectionSends DEF macVars
  <2> QED
    BY <1>2, <2>2, <2>3 DEF Sends
<1>3. ASSUME NEW a \in Action, Executes(a)
      PROVE  Connection'
  <2>1. UNCHANGED <<macVars, link, win, session, exclusive, opened>>
    BY <1>3 DEF Executes, windowsVars, gatewayVars
  <2>2. CASE UNCHANGED toWin
    BY <2>1, <2>2, SameConnection DEF connectionVars
  <2>3. CASE link = "up" /\ \E m \in Speeches : Pushed(m)
    <3>1. PICK m \in Speeches : Pushed(m)
      BY <2>3
    <3>2. m \in Messages /\ m.kind # "open"
      BY DEF Messages, Speeches
    <3> QED
      BY <2>1, <2>3, <3>1, <3>2, ConnectionSends DEF macVars
  <2> QED
    BY <1>3, <2>2, <2>3 DEF Executes
<1>4. ASSUME NEW s \in Session, Connects(s)
      PROVE  Connection'
  BY <1>n, <1>4 DEF Connects, gatewayVars, Connection
<1>5. CASE SendsOpen
  <2>1. /\ UNCHANGED <<macSession, used, link, win, session, exclusive, opened>>
        /\ macPhase = "opening" /\ macPhase' = "serving"
    BY <1>5 DEF SendsOpen, windowsVars, gatewayVars
  <2>2. CASE UNCHANGED toWin
    BY <2>1, <2>2 DEF Connection
  <2>3. CASE link = "up" /\ \E m \in Openings : Pushed(m) /\ m.session = macSession
    <3>1. PICK m \in Openings : Pushed(m) /\ m.session = macSession
      BY <2>3
    <3>2. m \in Messages /\ m.session \in used
      BY <1>n, <2>1, <3>1 DEF Messages, Openings, Connection
    <3> QED
      BY <2>1, <2>3, <3>1, <3>2, ConnectionSends
  <2> QED
    BY <1>5, <2>2, <2>3 DEF SendsOpen
<1>6. CASE Receives
  BY <1>6, SameConnection DEF Receives, windowsVars, gatewayVars, connectionVars
<1>7. CASE Gives
  BY <1>7 DEF Gives, windowsVars, gatewayVars, Connection
<1>8. CASE Break
  BY <1>8 DEF Break, macVars, windowsVars, gatewayVars, Connection
<1>9. CASE WindowsMoves
  <2>0. UNCHANGED <<macSession, macPhase, used>>
    BY <1>9 DEF WindowsMoves, Elsewhere, macVars
  <2>1. CASE Opens
    <3>1. /\ 1 \in DOMAIN toWin /\ toWin[1] = Head(toWin)
      BY <2>1, PopFacts DEF Opens
    <3>2. session' \in used /\ macSession \in {None, session'}
      BY <2>1, <3>1 DEF Opens, Connection
    <3>3. session' # None
      BY <1>n, <3>2, TypesAre DEF MacTypes
    <3>4. opened' \subseteq used' /\ session' \in opened' /\ exclusive' = None
      BY <2>0, <2>1, <3>2 DEF Opens, Connection
    <3> QED
      BY <2>0, <2>1, <3>2, <3>3, <3>4, OpeningsLeft DEF Opens, Connection
  <2>2. CASE Leaves
    <3>1. session' = None /\ exclusive' = None /\ UNCHANGED opened
      BY <2>2 DEF Leaves, GatewayStands, Connection
    <3> QED
      BY <2>0, <2>2, <3>1 DEF Leaves, Connection
  <2>3. CASE Answering
    BY <2>0, <2>3, OpeningsLeft DEF Answering, Connection
  <2>4. CASE Expires \/ PlaysOn
    BY <2>0, <2>4, SameConnection DEF Expires, PlaysOn, connectionVars, macVars
  <2> QED
    BY <1>9, <2>1, <2>2, <2>3, <2>4
    DEF WindowsMoves, Grants, Declines, FencesOff, Overtaken, StartsToPlay
<1> QED
  BY <1>1, <1>2, <1>3, <1>4, <1>5, <1>6, <1>7, <1>8, <1>9 DEF SpeechMoves, BridgeMoves

----------------------------------------------------------------------------
\* What counts as completed was played.

\* No step completes what was not played.
LEMMA CompletesStep ==
    ASSUME Types, Supervisor, CallMeans, Completes, Types',
           Decides \/ Reads \/ Sends \/ TimesOut \/ SpeechMoves \/ BridgeMoves \/ WindowsMoves
    PROVE  Completes'
<1>0. SupervisorTypes /\ ExecutorTypes
  BY TypesAre
<1>n. None # "completed"
  BY VoiceAssumption
<1>1. CASE Decides
  <2>0. UNCHANGED <<heard, played>> /\ OnMac' = OnMac
    BY <1>1 DEF Decides, Outside, OnMac
  <2>a. ASSUME \A a \in Action : state'[a] = "completed" => state[a] = "completed" \/ a \in played,
               \A a \in Action : pc'[a] = "returned" => pc[a] = "returned",
               cancelled \subseteq cancelled'
        PROVE  Completes'
    BY <2>0, <2>a DEF Completes
  <2>1. ASSUME NEW a \in Action, TakesIn(a) \/ Waits(a)
        PROVE  Completes'
    BY <2>1, <2>a DEF TakesIn, Waits
  <2>2. CASE Halts
    BY <2>2, <2>a DEF Halts
  <2>3. CASE ComesToStop
    BY <1>0, <2>3, <2>a DEF ComesToStop, SupervisorTypes
  <2>4. CASE ComesToNothing \/ Finishes
    BY <2>4, <2>a DEF ComesToNothing, Finishes
  <2>5. CASE Succeeds
    BY <1>0, <2>5, <2>a DEF Succeeds, SupervisorTypes, ExecutorTypes
  <2>6. CASE Fails
    BY <1>0, <2>6, <2>a DEF Fails, SupervisorTypes
  <2>7. CASE Ends
    <3>1. pc[current] \in {"returned", "raised"} /\ current \in Action
      BY <1>0, <2>7 DEF Ends, Returned, CallMeans, SupervisorTypes
    <3>2. Outcome(current) = "completed" => current \in played
      BY <3>1 DEF Outcome, Completes
    <3>3. \A a \in Action : state'[a] = "completed" => state[a] = "completed" \/ a \in played
      BY <1>0, <2>7, <3>1, <3>2 DEF Ends, SupervisorTypes
    <3>4. \A a \in Action : pc'[a] = "returned" => pc[a] = "returned"
      BY <1>0, <2>7, <3>1 DEF Ends, ExecutorTypes
    <3> QED
      BY <2>7, <2>a, <3>3, <3>4 DEF Ends
  <2> QED
    BY <1>1, <2>1, <2>2, <2>3, <2>4, <2>5, <2>6, <2>7 DEF Decides
<1>2. CASE Reads \/ Sends \/ TimesOut
  <2>1. UNCHANGED <<heard, played, state, pc, cancelled>> /\ OnMac' = OnMac
    BY <1>2 DEF Reads, Sends, TimesOut, GoesOn, Outside, OnMac
  <2> QED
    BY <2>1 DEF Completes
<1>3. ASSUME NEW a \in Action, Executes(a)
      PROVE  Completes'
  <2>1. UNCHANGED <<played, cancelled>> /\ OnMac' = OnMac /\ \A b \in Action : heard'[b] \in {heard[b], None}
    BY <1>3 DEF Executes, historyVars, OnMac
  <2>2. PICK stage \in Later :
         /\ pc' = [pc EXCEPT ![a] = stage]
         /\ (stage = "returned" /\ a \notin cancelled => heard[a] = "completed")
    BY <1>3 DEF Executes
  <2>3. \A b \in Action \ cancelled : pc'[b] = "returned" => b \in played
    BY <1>0, <2>2 DEF ExecutorTypes, Completes
  <2>4. \A b \in Action : state'[b] = "completed" => state[b] = "completed"
    BY <1>0, <1>3 DEF Executes, SupervisorTypes
  <2>5. \A b \in Action : heard'[b] = "completed" => b \in played
    BY <1>n, <2>1 DEF Completes
  <2> QED
    BY <2>1, <2>3, <2>4, <2>5 DEF Completes
<1>4. CASE BridgeMoves
  <2>1. CASE Receives
    <3>1. UNCHANGED <<state, pc, cancelled, played>> /\ Hears({})
      BY <2>1 DEF Receives, historyVars
    <3>2. PICK m \in OnMac : \A a \in Action :
              \/ heard'[a] = heard[a]
              \/ m.kind = "completed" /\ m.action = a /\ heard'[a] = m.state
      BY <2>1 DEF Receives
    <3>3. \A a \in Action : heard'[a] = "completed" => a \in played
      BY <3>2 DEF Completes
    <3> QED
      BY <3>1, <3>3 DEF Completes, Hears
  <2>2. CASE Gives
    BY <2>2 DEF Gives, historyVars, Completes
  <2>3. CASE \E s \in Session : Connects(s)
    BY <2>3 DEF Connects, supervisorVars, executorVars, historyVars, Completes
  <2>4. CASE SendsOpen \/ Break
    BY <2>4 DEF SendsOpen, Break, supervisorVars, executorVars, historyVars, Completes, OnMac
  <2> QED
    BY <1>4, <2>1, <2>2, <2>3, <2>4 DEF BridgeMoves
<1>5. CASE WindowsMoves
  <2>1. UNCHANGED <<state, pc, cancelled, heard>> /\ played \subseteq played'
    BY <1>5 DEF WindowsMoves, Elsewhere, supervisorVars, executorVars
  <2>2. \A m \in OnMac' \ OnMac : m.kind = "completed" /\ m.state = "completed" => m.action \in played'
    <3>1. \A ok \in BOOLEAN : AckMessage(Head(toWin), ok).kind = "ack"
      BY DEF AckMessage
    <3>2. \A m \in Cancellations : m.state # "completed"
      BY DEF Cancellations
    <3>3. \A m \in Reports : m.state = "completed" => m.action \in played'
      BY DEF Reports
    <3> QED
      BY <1>5, <3>1, <3>2, <3>3
      DEF WindowsMoves, Hears, Opens, Leaves, Grants, Declines, FencesOff, Overtaken,
          StartsToPlay, Expires, PlaysOn
  <2> QED
    BY <2>1, <2>2 DEF Completes
<1> QED
  BY <1>1, <1>2, <1>3, <1>4, <1>5 DEF SpeechMoves

----------------------------------------------------------------------------
\* How the wire and the lease change, from the standpoint of the messages
Taken == OnWin' \subseteq OnWin
Added(m) == OnWin' = OnWin \cup {m}

\* The wire to Windows gains one message, loses the first or loses all.
LEMMA WireMoves ==
    ASSUME Decides \/ Reads \/ Sends \/ TimesOut \/ SpeechMoves \/ BridgeMoves \/ WindowsMoves
    PROVE  \/ UNCHANGED toWin
           \/ WindowsMoves /\ Popped
           \/ toWin' = <<>>
           \/ /\ Sends /\ link = "up"
              /\ \E m \in Messages : Pushed(m) /\ Carries(m) /\ m.id = FreshId
           \/ /\ SpeechMoves \/ SendsOpen
              /\ link = "up" /\ \E m \in Messages : Pushed(m) /\ ~Control(m)
<1>1. CASE Decides \/ Reads \/ TimesOut \/ Receives \/ Gives \/ Break
  BY <1>1 DEF Decides, Reads, TimesOut, Receives, Gives, Break
<1>2. CASE Sends
  BY <1>2 DEF Sends
<1>3. CASE SpeechMoves
  <2>1. ASSUME NEW m \in Speeches, Pushed(m)
        PROVE  m \in Messages /\ ~Control(m)
    BY DEF Messages, Speeches, Control
  <2> QED
    BY <1>3, <2>1 DEF SpeechMoves, Executes
<1>4. CASE SendsOpen
  <2>1. ASSUME NEW m \in Openings, Pushed(m)
        PROVE  m \in Messages /\ ~Control(m)
    BY DEF Messages, Openings, Control
  <2> QED
    BY <1>4, <2>1 DEF SendsOpen
<1>5. ASSUME NEW s \in Session, Connects(s)
      PROVE  toWin' = <<>>
  BY <1>5 DEF Connects
<1>6. CASE WindowsMoves
  BY <1>6
  DEF WindowsMoves, Opens, Leaves, Answering, Grants, Declines, FencesOff, Overtaken,
      StartsToPlay, Expires, PlaysOn
<1> QED
  BY <1>1, <1>2, <1>3, <1>4, <1>5, <1>6 DEF BridgeMoves

\* Only a call's message is an authorization or a fence.
LEMMA WireActs ==
    ASSUME Types,
           Decides \/ Reads \/ Sends \/ TimesOut \/ SpeechMoves \/ BridgeMoves \/ WindowsMoves
    PROVE  \/ Taken
           \/ Sends /\ \E m \in Messages : Added(m) /\ Carries(m) /\ m.id = FreshId
           \/ (SpeechMoves \/ SendsOpen) /\ \E m \in Messages : Added(m) /\ ~Control(m)
<1>1. UNCHANGED toWin \/ toWin' = <<>> => Taken
  BY DEF Taken, OnWin
<1>2. Popped => Taken
  BY OnWinPopped DEF Taken
<1>3. \A m \in Messages : Pushed(m) => Added(m)
  BY OnWinPushed DEF Added
<1> QED
  BY <1>1, <1>2, <1>3, WireMoves

\* The voice is granted only by an authorization that was on the wire.
GrantedNow ==
    \E m \in OnWin :
       /\ m \in Authorizations
       /\ Voiced'.token = m.token /\ Voiced'.action = m.action

\* The holder stays, goes, or comes from an authorization that was on the wire.
LEMMA LeaseActs ==
    ASSUME Types,
           Decides \/ Reads \/ Sends \/ TimesOut \/ SpeechMoves \/ BridgeMoves \/ WindowsMoves
    PROVE  \/ Voiced'.token = Voiced.token /\ Voiced'.action = Voiced.action
           \/ /\ Voiced'.action = None
              /\ \/ Voiced'.token \in {0, Voiced.token}
                 \/ \E m \in OnWin : m \in Neutralizations /\ Voiced'.token = m.token
           \/ GrantedNow
<1>k. ASSUME UNCHANGED resources
      PROVE  Voiced'.token = Voiced.token /\ Voiced'.action = Voiced.action
  BY <1>k DEF Voiced
<1>1. CASE Decides \/ Reads \/ TimesOut \/ Sends \/ SpeechMoves \/ BridgeMoves
  <2>1. UNCHANGED resources
    BY <1>1
    DEF Decides, Reads, TimesOut, Sends, SpeechMoves, Executes, BridgeMoves, Connects, SendsOpen,
        Receives, Gives, Break, Outside, windowsVars, gatewayVars
  <2> QED
    BY <1>k, <2>1
<1>2. CASE WindowsMoves
  <2>1. CASE Grants
    <3>1. Head(toWin) \in OnWin /\ Head(toWin) \in Authorizations
      BY <2>1, OnWinPopped, HeadFacts DEF Grants, Answering, Popped
    <3> QED
      BY <2>1, <3>1 DEF Grants, GrantedNow
  <2>2. CASE FencesOff
    <3>1. Head(toWin) \in OnWin /\ Head(toWin) \in Neutralizations
      BY <2>2, OnWinPopped, HeadFacts DEF FencesOff, Answering, Popped
    <3> QED
      BY <2>2, <3>1 DEF FencesOff
  <2>3. CASE PlaysOn
    BY <1>k, <2>3 DEF PlaysOn
  <2> QED
    BY <1>2, <2>1, <2>2, <2>3
    DEF WindowsMoves, Opens, Leaves, GatewayStands, Declines, Overtaken, StartsToPlay, Expires
<1> QED
  BY <1>1, <1>2

----------------------------------------------------------------------------
\* Where the call and the token go
CallActs ==
    \/ UNCHANGED <<call, token, owner>>
    \/ token' = token + 1 /\ call' # None
    \/ call' = None /\ UNCHANGED <<token, owner>>
    \/ token' = token /\ FenceCalls("idle")
    \/ call # None /\ SameCall(call') /\ UNCHANGED <<token, owner>>

\* A call stays, comes back, goes on, or comes with the next token.
LEMMA CallIs ==
    ASSUME Decides \/ Reads \/ Sends \/ TimesOut \/ SpeechMoves \/ BridgeMoves \/ WindowsMoves
    PROVE  CallActs
<1>1. CASE Decides
  BY <1>1
  DEF Decides, TakesIn, Launches, Waits, Halts, FenceCalls, ComesToStop, ComesToNothing,
      Succeeds, Fails, Ends, Finishes, CallActs
<1>2. CASE Reads \/ Sends \/ TimesOut
  BY <1>2 DEF Reads, Sends, TimesOut, GoesOn, CallActs
<1>3. CASE SpeechMoves
  BY <1>3 DEF SpeechMoves, Executes, CallActs
<1>4. CASE BridgeMoves
  <2>1. CASE (\E s \in Session : Connects(s)) \/ SendsOpen \/ Break
    BY <2>1 DEF Connects, SendsOpen, Break, supervisorVars, CallActs
  <2>2. CASE Receives \/ Gives
    BY <2>2 DEF Receives, Answered, Gives, GoesOn, CallActs
  <2> QED
    BY <1>4, <2>1, <2>2 DEF BridgeMoves
<1>5. CASE WindowsMoves
  BY <1>5 DEF WindowsMoves, Elsewhere, supervisorVars, CallActs
<1> QED
  BY <1>1, <1>2, <1>3, <1>4, <1>5

\* A call is to be sent only if it is new or was to be sent before, and it is
\* of the same kind then.
LEMMA UnsentIs ==
    ASSUME Decides \/ Reads \/ Sends \/ TimesOut \/ SpeechMoves \/ BridgeMoves \/ WindowsMoves,
           call' # None, call'.stage \in {"read", "send"}
    PROVE  \/ token' = token + 1
           \/ token' = token /\ call'.kind = "neutralize"
           \/ /\ token' = token /\ ~Sends
              /\ call # None /\ call.stage \in {"read", "send"} /\ call'.kind = call.kind
<1>1. CASE Decides
  BY <1>1
  DEF Decides, TakesIn, Launches, Waits, Halts, FenceCalls, ComesToStop, ComesToNothing,
      Succeeds, Fails, Ends, Finishes, Sends, GoesOn, Outside
<1>2. CASE Reads \/ Sends \/ TimesOut
  BY <1>2 DEF Reads, Sends, TimesOut, GoesOn, SameCall
<1>3. CASE SpeechMoves
  BY <1>3 DEF SpeechMoves, Executes, Sends
<1>4. CASE BridgeMoves
  <2>1. CASE (\E s \in Session : Connects(s)) \/ SendsOpen \/ Break
    BY <2>1 DEF Connects, SendsOpen, Break, supervisorVars, Sends
  <2>2. CASE Receives \/ Gives
    BY <2>2 DEF Receives, Answered, Gives, GoesOn, Sends
  <2> QED
    BY <1>4, <2>1, <2>2 DEF BridgeMoves
<1>5. CASE WindowsMoves
  BY <1>5 DEF WindowsMoves, Elsewhere, supervisorVars, Sends
<1> QED
  BY <1>1, <1>2, <1>3, <1>4, <1>5

\* No step lets a token run ahead of the supervisor's.
LEMMA TokensStep ==
    ASSUME Types, CallMeans, Tokens, Types',
           Decides \/ Reads \/ Sends \/ TimesOut \/ SpeechMoves \/ BridgeMoves \/ WindowsMoves
    PROVE  Tokens'
<1>t. token \in Nat /\ Voiced.token \in Nat
  BY TypesAre, VoicedType DEF SupervisorTypes
<1>m. OnWin \subseteq Messages
  BY OnWinType
<1>1. token' \in {token, token + 1}
  BY CallIs DEF CallActs
<1>2. /\ \A m \in OnWin : Control(m) => m.token \in Nat
      /\ \A m \in Authorizations \cup Neutralizations : Control(m) /\ m.token \in Nat
  BY <1>m DEF Control, Messages, Openings, Authorizations, Neutralizations, Speeches
<1>3. \A m \in OnWin : Control(m) => m.token <= token /\ m.token <= token'
  BY <1>t, <1>1, <1>2 DEF Tokens
<1>4. \A m \in OnWin' : Control(m) => m.token <= token'
  <2>1. CASE Taken
    BY <1>3, <2>1 DEF Taken
  <2>2. CASE Sends /\ \E m \in Messages : Added(m) /\ Carries(m) /\ m.id = FreshId
    <3>1. token' = token /\ call.token = token
      BY <2>2 DEF Sends, GoesOn, CallMeans
    <3> QED
      BY <1>t, <1>3, <2>2, <3>1 DEF Added, Carries
  <2>3. CASE \E m \in Messages : Added(m) /\ ~Control(m)
    BY <1>3, <2>3 DEF Added
  <2> QED
    BY <2>1, <2>2, <2>3, WireActs
<1>5. Voiced'.token <= token'
  <2>1. CASE Voiced'.token \in {0, Voiced.token}
    BY <1>t, <1>1, <2>1 DEF Tokens
  <2>2. CASE \E m \in OnWin : m \in Neutralizations /\ Voiced'.token = m.token
    BY <1>2, <1>3, <2>2
  <2>3. CASE GrantedNow
    BY <1>2, <1>3, <2>3 DEF GrantedNow
  <2> QED
    BY <2>1, <2>2, <2>3, LeaseActs
<1>6. ASSUME Calling({"read", "send"})', call'.kind = "authorize"
      PROVE  /\ Voiced'.action # None => Voiced'.token < token'
             /\ \A m \in OnWin' : m.kind = "authorize" => m.token < token'
  <2>1. ~Sends \/ token' = token
    BY DEF Sends, GoesOn
  <2>2. \/ token' = token + 1
        \/ token' = token /\ Calling({"read", "send"}) /\ call.kind = "authorize" /\ ~Sends
    BY <1>6, UnsentIs DEF Calling
  <2>3. /\ \A m \in OnWin : m.kind = "authorize" => m.token < token'
        /\ Voiced.action # None => Voiced.token < token'
    BY <1>t, <1>2, <1>3, <2>2 DEF Tokens, Control
  <2>4. ~Sends
    BY <1>t, <2>1, <2>2
  <2>5. \A m \in OnWin' : m.kind = "authorize" => m \in OnWin
    BY <2>4, WireActs DEF Taken, Added, Control
  <2>6. Voiced'.action # None => Voiced'.token < token'
    BY <2>3, LeaseActs DEF GrantedNow, Authorizations
  <2> QED
    BY <2>3, <2>5, <2>6
<1> QED
  BY <1>4, <1>5, <1>6 DEF Tokens

----------------------------------------------------------------------------
\* A call is told apart from those before it by its id.

\* The answers that come back are to messages taken from the wire.
LEMMA AnswersCome ==
    ASSUME Types,
           Decides \/ Reads \/ Sends \/ TimesOut \/ SpeechMoves \/ BridgeMoves \/ WindowsMoves
    PROVE  \/ \A m \in OnMac' : m.kind = "ack" => m \in OnMac
           \/ /\ WindowsMoves /\ Popped /\ Control(Head(toWin))
              /\ \A m \in OnMac' : m.kind = "ack" => m \in OnMac \/ m.id = Head(toWin).id
<1>1. CASE Decides \/ Reads \/ TimesOut \/ Sends \/ SpeechMoves \/ BridgeMoves
  <2>1. CASE UNCHANGED toMac
    BY <2>1 DEF OnMac
  <2>2. CASE OnMac' = {} \/ Hears({})
    BY <2>2 DEF Hears
  <2> QED
    BY <1>1, <2>1, <2>2
    DEF Decides, Reads, TimesOut, Sends, SpeechMoves, Executes, BridgeMoves, Connects, SendsOpen,
        Receives, Gives, Break, Outside
<1>2. CASE WindowsMoves
  <2>1. \A m \in Cancellations \cup Reports : m.kind # "ack"
    BY DEF Cancellations, Reports, Completions
  <2>2. \A ok \in BOOLEAN : AckMessage(Head(toWin), ok).id = Head(toWin).id
    BY DEF AckMessage
  <2>3. CASE Opens \/ Leaves \/ StartsToPlay \/ Expires \/ PlaysOn
    BY <2>1, <2>3 DEF Opens, Leaves, StartsToPlay, Expires, PlaysOn, Hears
  <2>4. CASE Grants \/ Declines \/ FencesOff \/ Overtaken
    <3>1. Popped /\ Control(Head(toWin))
      BY <2>4 DEF Grants, Declines, FencesOff, Overtaken, Answering, Control
    <3> QED
      BY <1>2, <2>1, <2>2, <2>4, <3>1 DEF Grants, Declines, FencesOff, Overtaken, Hears
  <2> QED
    BY <1>2, <2>3, <2>4 DEF WindowsMoves
<1> QED
  BY <1>1, <1>2

\* A call that waits has just been sent or waited before.
LEMMA WaitingIs ==
    ASSUME Decides \/ Reads \/ Sends \/ TimesOut \/ SpeechMoves \/ BridgeMoves \/ WindowsMoves,
           call' # None, call'.stage = "wait"
    PROVE  Sends \/ UNCHANGED call
<1>1. CASE Decides
  BY <1>1
  DEF Decides, TakesIn, Launches, Waits, Halts, FenceCalls, ComesToStop, ComesToNothing,
      Succeeds, Fails, Ends, Finishes
<1>2. CASE Reads \/ Sends \/ TimesOut
  BY <1>2 DEF Reads, TimesOut
<1>3. CASE SpeechMoves
  BY <1>3 DEF SpeechMoves, Executes
<1>4. CASE BridgeMoves
  <2>1. CASE (\E s \in Session : Connects(s)) \/ SendsOpen \/ Break
    BY <2>1 DEF Connects, SendsOpen, Break, supervisorVars
  <2>2. CASE Receives \/ Gives
    BY <2>2 DEF Receives, Answered, Gives
  <2> QED
    BY <1>4, <2>1, <2>2 DEF BridgeMoves
<1>5. CASE WindowsMoves
  BY <1>5 DEF WindowsMoves, Elsewhere, supervisorVars
<1> QED
  BY <1>1, <1>2, <1>3, <1>4, <1>5

\* Positions on the wire are positive numbers.
LEMMA TypesNatDomain == ASSUME Types' PROVE DOMAIN toWin' \subseteq Nat \ {0}
  BY DEF Types, TypeOK

\* Every step keeps the id of the call that waits its own.
LEMMA IdsStep ==
    ASSUME Types, CallMeans, Ids, Types',
           Decides \/ Reads \/ Sends \/ TimesOut \/ SpeechMoves \/ BridgeMoves \/ WindowsMoves
    PROVE  Ids'
<1>1. SUFFICES ASSUME Calling({"wait"})'
               PROVE  /\ \A m \in OnWin' : Asks(m)' => m.kind = call'.kind
                      /\ \A i, j \in DOMAIN toWin' : Asks(toWin[i])' /\ Asks(toWin[j])' => i = j
                      /\ \A m \in OnMac', n \in OnWin' : ~(Answers(m)' /\ Asks(n)')
  BY DEF Ids
<1>2. CASE Sends
  <2>0. /\ call'.id = FreshId /\ call'.kind = call.kind /\ UNCHANGED toMac /\ OnMac' = OnMac
    BY <1>1, <1>2 DEF Sends, GoesOn, SameCall, Outside, OnMac, Calling
  <2>1. /\ \A m \in OnWin : Control(m) => m.id # FreshId
        /\ \A m \in OnMac : m.kind = "ack" => m.id # FreshId
    BY FreshIdFacts
  <2>2. CASE UNCHANGED toWin
    <3>1. OnWin' = OnWin
      BY <2>2 DEF OnWin
    <3>2. \A m \in OnWin' : ~Asks(m)'
      BY <2>0, <2>1, <3>1 DEF Asks, Control
    <3>3. \A i \in DOMAIN toWin' : ~Asks(toWin[i])'
      BY <3>2 DEF OnWin, Asks
    <3> QED
      BY <3>2, <3>3
  <2>3. ASSUME NEW m \in Messages, Pushed(m), Carries(m)
        PROVE  /\ \A n \in OnWin' : Asks(n)' => n.kind = call'.kind
               /\ \A i, j \in DOMAIN toWin' : Asks(toWin[i])' /\ Asks(toWin[j])' => i = j
               /\ \A a \in OnMac', n \in OnWin' : ~(Answers(a)' /\ Asks(n)')
    <3>1. OnWin' = OnWin \cup {m}
      BY <2>3, OnWinPushed
    <3>2. \A n \in OnWin' : Asks(n)' => n = m
      BY <2>0, <2>1, <3>1 DEF Asks, Control
    <3>3. \A a \in OnMac' : ~Answers(a)'
      BY <2>0, <2>1 DEF Answers
    <3>4. /\ DOMAIN toWin' = 1..(Len(toWin) + 1) /\ DOMAIN toWin = 1..Len(toWin) /\ Len(toWin) \in Nat
          /\ \A i \in DOMAIN toWin : toWin'[i] = toWin[i]
      BY <2>3, PushFacts
    <3>5. \A i \in DOMAIN toWin : ~Asks(toWin[i])'
      <4>1. ASSUME NEW i \in DOMAIN toWin
            PROVE  ~Asks(toWin[i])'
        <5>1. toWin[i] \in OnWin /\ toWin'[i] = toWin[i]
          BY <3>4 DEF OnWin
        <5> QED
          BY <2>0, <2>1, <5>1 DEF Asks, Control
      <4> QED
        BY <4>1
    <3>6. \A i \in DOMAIN toWin' : Asks(toWin[i])' => i = Len(toWin) + 1
      BY <3>4, <3>5
    <3>7. \A i, j \in DOMAIN toWin' : Asks(toWin[i])' /\ Asks(toWin[j])' => i = j
      BY <3>6
    <3> QED
      BY <2>0, <2>3, <3>2, <3>3, <3>7 DEF Carries
  <2> QED
    BY <1>2, <2>2, <2>3 DEF Sends
<1>3. CASE ~Sends
  <2>0. UNCHANGED call /\ Calling({"wait"})
    BY <1>1, <1>3, WaitingIs DEF Calling
  <2>1. \A m : (Asks(m)' <=> Asks(m)) /\ (Answers(m)' <=> Answers(m))
    BY <2>0 DEF Asks, Answers, Control
  <2>2. \A m \in OnWin' : Asks(m) => m \in OnWin
    BY <1>3, WireActs DEF Taken, Added, Asks
  <2>3. \A m \in OnWin' : Asks(m)' => m.kind = call'.kind
    BY <2>0, <2>1, <2>2 DEF Ids
  <2>4. \A i, j \in DOMAIN toWin' : Asks(toWin'[i]) /\ Asks(toWin'[j]) => i = j
    <3>1. CASE UNCHANGED toWin
      BY <2>0, <3>1 DEF Ids
    <3>2. CASE Popped
      BY <2>0, <3>2, PopFacts DEF Ids
    <3>3. CASE toWin' = <<>>
      BY <3>3
    <3>4. ASSUME NEW m \in Messages, Pushed(m), ~Control(m)
          PROVE  \A i, j \in DOMAIN toWin' : Asks(toWin'[i]) /\ Asks(toWin'[j]) => i = j
      <4>1. /\ DOMAIN toWin' = 1..(Len(toWin) + 1) /\ DOMAIN toWin = 1..Len(toWin) /\ Len(toWin) \in Nat
            /\ \A i \in DOMAIN toWin : toWin'[i] = toWin[i]
            /\ toWin'[Len(toWin) + 1] = m
        BY <3>4, PushFacts
      <4>2. \A i \in DOMAIN toWin' : Asks(toWin'[i]) => i \in DOMAIN toWin /\ Asks(toWin[i])
        BY <3>4, <4>1 DEF Asks
      <4> QED
        BY <2>0, <4>2 DEF Ids
    <3> QED
      BY <1>3, <3>1, <3>2, <3>3, <3>4, WireMoves
  <2>5. \A i, j \in DOMAIN toWin' : Asks(toWin[i])' /\ Asks(toWin[j])' => i = j
    BY <2>1, <2>4
  <2>6. \A m \in OnMac', n \in OnWin' : ~(Answers(m) /\ Asks(n))
    <3>1. CASE \A m \in OnMac' : m.kind = "ack" => m \in OnMac
      BY <2>0, <2>2, <3>1 DEF Ids, Answers
    <3>2. CASE /\ Popped /\ Control(Head(toWin))
               /\ \A m \in OnMac' : m.kind = "ack" => m \in OnMac \/ m.id = Head(toWin).id
      <4>1. SUFFICES ASSUME NEW m \in OnMac', NEW n \in OnWin', Answers(m), Asks(n)
                     PROVE  FALSE
        OBVIOUS
      <4>2. n \in OnWin
        BY <2>2, <4>1
      <4>3. CASE m \in OnMac
        BY <2>0, <4>1, <4>2, <4>3 DEF Ids
      <4>4. CASE m.id = Head(toWin).id
        <5>1. 1 \in DOMAIN toWin /\ Asks(toWin[1])
          BY <3>2, <4>1, <4>4, PopFacts DEF Asks, Answers
        <5>2. PICK i \in DOMAIN toWin' : toWin'[i] = n
          BY DEF OnWin
        <5>3. i + 1 \in DOMAIN toWin /\ Asks(toWin[i + 1]) /\ i \in Nat \ {0}
          BY <3>2, <4>1, <5>2, PopFacts, TypesNatDomain
        <5>4. i + 1 = 1
          BY <2>0, <5>1, <5>3 DEF Ids
        <5> QED
          BY <5>3, <5>4
      <4> QED
        BY <3>2, <4>1, <4>3, <4>4 DEF Answers
    <3> QED
      BY <3>1, <3>2, AnswersCome
  <2>7. \A m \in OnMac', n \in OnWin' : ~(Answers(m)' /\ Asks(n)')
    BY <2>1, <2>6
  <2> QED
    BY <2>3, <2>5, <2>7
<1> QED
  BY <1>2, <1>3

----------------------------------------------------------------------------
\* An authorization on the wire is for an action that has not started.

\* No step starts an action whose authorization is still on the wire.
LEMMA StartingStays ==
    ASSUME Types, Supervisor, CallMeans, Ids,
           NEW m \in OnWin, m \in Authorizations, Starting(m),
           Decides \/ Reads \/ Sends \/ TimesOut \/ SpeechMoves \/ BridgeMoves \/ WindowsMoves
    PROVE  Starting(m)'
<1>0. SupervisorTypes /\ ExecutorTypes /\ m.action \in Action /\ m.kind = "authorize"
  BY TypesAre DEF Authorizations
<1>n. m.action # None /\ (pending # None => state[pending] = "pending")
  BY <1>0, NoneIsNone DEF Supervisor
<1>1. /\ pc[m.action] = "new"
      /\ \/ state[m.action] = "failed"
         \/ /\ call # None /\ call.kind = "authorize" /\ call.action = m.action
            /\ call.stage = "failed" \/ (call.stage = "wait" /\ call.id = m.id)
  BY DEF Starting
<1>s. ASSUME UNCHANGED <<state, pc, call>>
      PROVE  Starting(m)'
  BY <1>s DEF Starting
<1>g. ASSUME UNCHANGED <<state, pc>>, GoesOn, call'.stage = "failed"
      PROVE  Starting(m)'
  BY <1>1, <1>g DEF GoesOn, SameCall, Starting
<1>f. ASSUME pc'[m.action] = "new", state'[m.action] = "failed"
      PROVE  Starting(m)'
  BY <1>f DEF Starting
<1>2. CASE Decides
  <2>1. CASE call = None
    <3>1. state[m.action] = "failed"
      BY <1>1, <2>1
    <3>2. ASSUME NEW a \in Action, TakesIn(a) \/ Waits(a)
          PROVE  Starting(m)'
      <4>1. state'[m.action] = "failed" /\ pc' = pc
        BY <1>0, <1>n, <3>1, <3>2 DEF TakesIn, Waits
      <4> QED
        BY <1>1, <1>f, <4>1
    <3>3. CASE Halts
      <4>1. state'[m.action] = "failed" /\ pc' = pc
        BY <1>0, <1>n, <3>1, <3>3 DEF Halts
      <4> QED
        BY <1>1, <1>f, <4>1
    <3>4. CASE Finishes
      BY <1>1, <1>f, <3>1, <3>4 DEF Finishes
    <3>5. CASE Ends
      <4>1. current # m.action /\ current \in Action
        BY <1>0, <1>1, <3>5 DEF Ends, Supervisor, SupervisorTypes
      <4>2. state'[m.action] = "failed" /\ pc'[m.action] = "new"
        BY <1>0, <1>1, <3>1, <3>5, <4>1 DEF Ends, SupervisorTypes, ExecutorTypes
      <4> QED
        BY <1>f, <4>2
    <3> QED
      BY <1>2, <2>1, <3>2, <3>3, <3>4, <3>5
      DEF Decides, ComesToStop, ComesToNothing, Returned, Succeeds, Fails
  <2>2. CASE call # None
    <3>1. CASE call.then = "start"
      <4>0. call.action \in Action /\ state[call.action] \in {"new", "pending"}
        BY <1>0, <2>2, <3>1 DEF CallMeans, SupervisorTypes, Calls
      <4>1. CASE Succeeds
        <5>1. call.action # m.action /\ state[m.action] = "failed"
          BY <1>1, <4>0, <4>1 DEF Succeeds
        <5>2. state'[m.action] = "failed" /\ pc'[m.action] = "new"
          BY <1>0, <1>1, <4>1, <5>1 DEF Succeeds, SupervisorTypes, ExecutorTypes
        <5> QED
          BY <1>f, <5>2
      <4>2. CASE Fails
        <5>1. state'[m.action] = "failed" /\ pc'[m.action] = "new"
          BY <1>0, <1>1, <4>2 DEF Fails, SupervisorTypes, ExecutorTypes
        <5> QED
          BY <1>f, <5>1
      <4> QED
        BY <1>2, <2>2, <3>1, <4>1, <4>2
        DEF Decides, TakesIn, Waits, Halts, ComesToStop, ComesToNothing, Ends, Finishes
    <3>2. CASE call.then # "start"
      <4>1. state[m.action] = "failed"
        BY <1>1, <2>2, <3>2 DEF CallMeans
      <4>2. CASE ComesToStop \/ Ends
        <5>1. current # m.action
          BY <1>0, <1>1, <4>2 DEF ComesToStop, Ends, Returned, CallMeans, Supervisor
        <5>2. state'[m.action] = "failed" /\ pc'[m.action] = "new"
          BY <1>0, <1>1, <4>1, <4>2, <5>1 DEF ComesToStop, Ends, SupervisorTypes, ExecutorTypes
        <5> QED
          BY <1>f, <5>2
      <4>3. CASE ComesToNothing
        BY <1>1, <1>f, <4>1, <4>3 DEF ComesToNothing
      <4> QED
        BY <1>2, <2>2, <3>2, <4>2, <4>3
        DEF Decides, TakesIn, Waits, Halts, Succeeds, Fails, Finishes
    <3> QED
      BY <3>1, <3>2
  <2> QED
    BY <2>1, <2>2
<1>3. CASE Reads \/ Sends
  <2>1. state[m.action] = "failed" /\ UNCHANGED <<state, pc>>
    BY <1>1, <1>3 DEF Reads, Sends, GoesOn
  <2> QED
    BY <1>1, <1>f, <2>1
<1>4. CASE TimesOut
  BY <1>4, <1>g DEF TimesOut, GoesOn
<1>5. ASSUME NEW a \in Action, Executes(a)
      PROVE  Starting(m)'
  <2>1. a # m.action /\ pc'[m.action] = "new"
    BY <1>0, <1>1, <1>5 DEF Executes, Working, ExecutorTypes
  <2>2. state'[m.action] = state[m.action] /\ call' = call
    BY <1>0, <1>5, <2>1 DEF Executes, SupervisorTypes
  <2> QED
    BY <1>1, <2>1, <2>2 DEF Starting
<1>6. CASE BridgeMoves
  <2>1. CASE (\E s \in Session : Connects(s)) \/ SendsOpen \/ Break
    BY <1>s, <2>1 DEF Connects, SendsOpen, Break, supervisorVars, executorVars
  <2>2. CASE Receives
    <3>1. UNCHANGED <<state, pc>>
      BY <2>2 DEF Receives
    <3>2. ASSUME NEW n \in OnMac, Answered(n)
          PROVE  Starting(m)'
      <4>1. ~(call.kind = "authorize" /\ call.action = m.action /\ call.stage = "wait" /\ call.id = m.id)
        BY <1>0, <3>2 DEF Answered, Ids, Answers, Asks, Control, Calling
      <4>2. state[m.action] = "failed"
        BY <1>1, <3>2, <4>1 DEF Answered
      <4> QED
        BY <1>1, <1>f, <3>1, <4>2
    <3> QED
      BY <1>s, <2>2, <3>1, <3>2 DEF Receives
  <2>3. CASE Gives
    BY <1>s, <1>g, <2>3 DEF Gives
  <2> QED
    BY <1>6, <2>1, <2>2, <2>3 DEF BridgeMoves
<1>7. CASE WindowsMoves
  BY <1>s, <1>7 DEF WindowsMoves, Elsewhere, supervisorVars, executorVars
<1> QED
  BY <1>2, <1>3, <1>4, <1>5, <1>6, <1>7 DEF SpeechMoves

\* Every authorization that is sent is for an action that has not started.
LEMMA StartsStep ==
    ASSUME Types, Supervisor, CallMeans, Ids, Starts,
           Decides \/ Reads \/ Sends \/ TimesOut \/ SpeechMoves \/ BridgeMoves \/ WindowsMoves
    PROVE  Starts'
<1>1. SUFFICES ASSUME NEW m \in OnWin', m.kind = "authorize"
               PROVE  Starting(m)'
  BY DEF Starts
<1>2. CASE m \in OnWin
  <2>1. m \in Authorizations
    BY <1>1, <1>2, OnWinType DEF Messages, Openings, Neutralizations, Speeches
  <2> QED
    BY <1>1, <1>2, <2>1, StartingStays DEF Starts
<1>3. CASE m \notin OnWin
  <2>1. Sends /\ Carries(m) /\ m.id = FreshId
    BY <1>1, <1>3, WireActs DEF Taken, Added, Control
  <2>2. /\ call # None /\ call.kind = "authorize" /\ m.action = call.action
        /\ call' # None /\ call'.kind = "authorize" /\ call'.action = m.action
        /\ call'.stage = "failed" \/ (call'.stage = "wait" /\ call'.id = m.id)
        /\ UNCHANGED pc
    BY <1>1, <2>1 DEF Sends, GoesOn, SameCall, Carries
  <2>3. pc[m.action] = "new"
    BY <2>2, TypesAre DEF CallMeans, Supervisor, SupervisorTypes, Calls
  <2> QED
    BY <2>2, <2>3 DEF Starting
<1> QED
  BY <1>2, <1>3

----------------------------------------------------------------------------
\* An action whose fence was acknowledged is silent for good.

\* No step takes an action back to where it has not started,
LEMMA StartedStays ==
    ASSUME Types, NEW a \in Action, pc[a] # "new",
           Decides \/ Reads \/ Sends \/ TimesOut \/ SpeechMoves \/ BridgeMoves \/ WindowsMoves
    PROVE  pc'[a] # "new"
<1>0. ExecutorTypes
  BY TypesAre
<1>1. CASE Decides
  BY <1>0, <1>1
  DEF Decides, TakesIn, Waits, Halts, ComesToStop, ComesToNothing, Succeeds, Fails, Ends,
      Finishes, ExecutorTypes
<1>2. CASE Reads \/ Sends \/ TimesOut
  BY <1>2 DEF Reads, Sends, TimesOut
<1>3. CASE SpeechMoves
  BY <1>0, <1>3 DEF SpeechMoves, Executes, Later, ExecutorTypes
<1>4. CASE BridgeMoves
  BY <1>4 DEF BridgeMoves, Connects, SendsOpen, Receives, Gives, Break, executorVars
<1>5. CASE WindowsMoves
  BY <1>5 DEF WindowsMoves, Elsewhere, executorVars
<1> QED
  BY <1>1, <1>2, <1>3, <1>4, <1>5

\* and the player plays on, stops, or starts with the speech of the holder.
LEMMA PlayerIs ==
    ASSUME Decides \/ Reads \/ Sends \/ TimesOut \/ SpeechMoves \/ BridgeMoves \/ WindowsMoves
    PROVE  \/ player' = None
           \/ player # None /\ player' # None /\ player'.lease = player.lease
           \/ StartsToPlay
<1>1. CASE ~WindowsMoves
  BY <1>1
  DEF Decides, Reads, TimesOut, Sends, SpeechMoves, Executes, BridgeMoves, Connects, SendsOpen,
      Receives, Gives, Break, Outside, windowsVars
<1>2. CASE WindowsMoves
  BY <1>2
  DEF WindowsMoves, Opens, Leaves, Grants, Declines, FencesOff, Overtaken, Expires, PlaysOn,
      PlayerStops
<1> QED
  BY <1>1, <1>2

\* So a silent action stays silent.
LEMMA SilencedStays ==
    ASSUME Types, Starts, NEW a \in Action, Silenced(a),
           Decides \/ Reads \/ Sends \/ TimesOut \/ SpeechMoves \/ BridgeMoves \/ WindowsMoves
    PROVE  Silenced(a)'
<1>1. pc'[a] # "new"
  BY StartedStays DEF Silenced
<1>2. Voiced'.action # a
  <2>1. ~(\E m \in OnWin : m \in Authorizations /\ m.action = a)
    BY DEF Starts, Starting, Silenced, Authorizations
  <2> QED
    BY <2>1, LeaseActs, NoneIsNone DEF Silenced, GrantedNow
<1>3. player' # None => player'.lease.action # a
  BY PlayerIs DEF StartsToPlay, Silenced
<1> QED
  BY <1>1, <1>2, <1>3 DEF Silenced

\* A call that waits or was granted was so before, has been sent, or answered.
LEMMA FencingIs ==
    ASSUME Decides \/ Reads \/ Sends \/ TimesOut \/ SpeechMoves \/ BridgeMoves \/ WindowsMoves,
           call' # None, call'.stage \in {"wait", "ok"}
    PROVE  /\ UNCHANGED current
           /\ \/ UNCHANGED call
              \/ Sends /\ call'.stage = "wait"
              \/ /\ \E m \in OnMac : Answered(m)
                 /\ call'.stage = "ok"
<1>1. CASE Decides
  BY <1>1
  DEF Decides, TakesIn, Launches, Waits, Halts, FenceCalls, ComesToStop, ComesToNothing,
      Succeeds, Fails, Ends, Finishes
<1>2. CASE Reads \/ Sends \/ TimesOut
  BY <1>2 DEF Reads, TimesOut, Sends, GoesOn
<1>3. CASE SpeechMoves
  BY <1>3 DEF SpeechMoves, Executes
<1>4. CASE BridgeMoves
  <2>1. CASE (\E s \in Session : Connects(s)) \/ SendsOpen \/ Break
    BY <2>1 DEF Connects, SendsOpen, Break, supervisorVars
  <2>2. CASE Receives \/ Gives
    BY <2>2 DEF Receives, Answered, Gives
  <2> QED
    BY <1>4, <2>1, <2>2 DEF BridgeMoves
<1>5. CASE WindowsMoves
  BY <1>5 DEF WindowsMoves, Elsewhere, supervisorVars
<1> QED
  BY <1>1, <1>2, <1>3, <1>4, <1>5

\* An action counts as quiet when its fence was answered.
LEMMA QuietIs ==
    ASSUME Decides \/ Reads \/ Sends \/ TimesOut \/ SpeechMoves \/ BridgeMoves \/ WindowsMoves
    PROVE  \/ quiet' = quiet
           \/ /\ quiet' = quiet \cup {current}
              /\ FencesCurrent /\ call.stage = "ok"
<1>1. CASE Decides
  BY <1>1
  DEF Decides, TakesIn, Waits, Halts, ComesToStop, ComesToNothing, Succeeds, Fails, Ends,
      Finishes, Returned, FencesCurrent
<1>2. CASE ~Decides
  BY <1>2
  DEF Reads, Sends, TimesOut, SpeechMoves, Executes, historyVars, BridgeMoves, Connects,
      SendsOpen, Receives, Gives, Break, WindowsMoves, Elsewhere
<1> QED
  BY <1>1, <1>2

\* An answer that grants a fence is a new one only when the player is silent.
LEMMA GrantIsSilent ==
    ASSUME Types, Supervisor, CallMeans, Ids, FencesCurrent, call.stage = "wait",
           NEW m \in OnMac', m \notin OnMac, Answers(m), m.accepted,
           Decides \/ Reads \/ Sends \/ TimesOut \/ SpeechMoves \/ BridgeMoves \/ WindowsMoves
    PROVE  Silenced(current)'
<1>0. current \in Action /\ call.kind = "neutralize" /\ pc[current] # "new"
  BY TypesAre DEF SupervisorTypes, Calls, CallMeans, Supervisor, FencesCurrent
<1>1. WindowsMoves /\ Popped /\ Control(Head(toWin)) /\ m.id = Head(toWin).id
  BY AnswersCome DEF Answers
<1>2. Head(toWin).kind = "neutralize"
  BY <1>0, <1>1, OnWinPopped DEF Answers, Asks, Ids, Calling, FencesCurrent
<1>3. \A n \in Cancellations \cup Reports : n.kind # "ack"
  BY DEF Cancellations, Reports, Completions
<1>4. ~AckMessage(Head(toWin), FALSE).accepted
  BY DEF AckMessage
<1>5. FencesOff /\ player' = None
  BY <1>1, <1>2, <1>3, <1>4
  DEF WindowsMoves, Opens, Leaves, Grants, Declines, FencesOff, Overtaken, StartsToPlay,
      Expires, PlaysOn, Hears, Popped, Answers
<1>6. Voiced'.action = None /\ UNCHANGED <<current, pc>>
  BY <1>1, <1>5 DEF FencesOff, WindowsMoves, Elsewhere, supervisorVars, executorVars
<1> QED
  BY <1>0, <1>5, <1>6, NoneIsNone DEF Silenced

\* Every step leaves the fenced actions silent.
LEMMA FencesStep ==
    ASSUME Types, Supervisor, CallMeans, Ids, Starts, Fences,
           Decides \/ Reads \/ Sends \/ TimesOut \/ SpeechMoves \/ BridgeMoves \/ WindowsMoves
    PROVE  Fences'
<1>0. quiet \subseteq Action /\ (FencesCurrent => current \in Action)
  BY TypesAre DEF MacTypes, SupervisorTypes, CallMeans, FencesCurrent
<1>1. \A a \in quiet' : Silenced(a)'
  <2>1. ASSUME NEW a \in quiet'
        PROVE  a \in Action /\ Silenced(a)
    BY <1>0, QuietIs DEF Fences
  <2> QED
    BY <2>1, SilencedStays
<1>2. ASSUME FencesCurrent', call'.stage \in {"wait", "ok"}
      PROVE  FencesCurrent /\ UNCHANGED current
  BY <1>2, FencingIs DEF FencesCurrent, Sends, GoesOn, SameCall, Answered
<1>s. ASSUME FencesCurrent', UNCHANGED current, Silenced(current), FencesCurrent
      PROVE  Silenced(current)'
  <2>1. Silenced(current)' <=> /\ pc'[current] # "new" /\ Voiced'.action # current
                               /\ (player' # None => player'.lease.action # current)
    BY <1>s DEF Silenced
  <2>2. ASSUME NEW a \in Action, Silenced(a)
        PROVE  /\ pc'[a] # "new" /\ Voiced'.action # a
               /\ (player' # None => player'.lease.action # a)
    BY <2>2, SilencedStays DEF Silenced
  <2> QED
    BY <1>0, <1>s, <2>1, <2>2
<1>3. ASSUME FencesCurrent', call'.stage = "ok"
      PROVE  Silenced(current)'
  <2>1. Silenced(current)
    <3>1. CASE UNCHANGED call
      BY <1>2, <1>3, <3>1 DEF Fences
    <3>2. ASSUME NEW m \in OnMac, Answered(m)
          PROVE  Silenced(current)
      BY <1>2, <1>3, <3>2 DEF Fences, Answered, Answers
    <3> QED
      BY <1>3, <3>1, <3>2, FencingIs DEF FencesCurrent
  <2> QED
    BY <1>2, <1>3, <1>s, <2>1
<1>4. ASSUME FencesCurrent', call'.stage = "wait", NEW m \in OnMac', Answers(m)', m.accepted
      PROVE  Silenced(current)'
  <2>1. CASE Sends
    <3>1. OnMac' = OnMac /\ call'.id = FreshId
      BY <1>4, <2>1 DEF Sends, Outside, OnMac
    <3> QED
      BY <1>4, <3>1, FreshIdFacts DEF Answers
  <2>2. CASE ~Sends
    <3>1. UNCHANGED call /\ call.stage = "wait" /\ Answers(m)
      BY <1>4, <2>2, FencingIs DEF FencesCurrent, Answers
    <3>2. CASE m \in OnMac
      BY <1>2, <1>4, <1>s, <3>1, <3>2 DEF Fences
    <3>3. CASE m \notin OnMac
      BY <1>2, <1>4, <3>1, <3>3, GrantIsSilent
    <3> QED
      BY <3>2, <3>3
  <2> QED
    BY <2>1, <2>2
<1> QED
  BY <1>1, <1>3, <1>4 DEF Fences

----------------------------------------------------------------------------
\* Where Windows holds the voice, or is about to be told to, for an action that
\* lost it, the fence against it is on its way.
Backed(k, b) == (k = token /\ b = owner) \/ FencePending(macSession, k)
FenceGoes(k) ==
    Sends /\ \E m \in Messages :
        /\ Pushed(m) /\ m.kind = "neutralize" /\ m.session = macSession /\ m.token >= k

\* The supervisor takes the voice away only by a fence.
LEMMA BackedDecides ==
    ASSUME Types, Supervisor, CallMeans, NEW k \in Nat, NEW b \in Action, k <= token,
           Backed(k, b), Decides
    PROVE  Backed(k, b)'
<1>0. /\ SupervisorTypes /\ token \in Nat /\ None \notin Action /\ macSession' = macSession
      /\ current \in Action \cup {None}
  BY TypesAre, NoneIsNone DEF SupervisorTypes, Decides, Outside, macVars
<1>1. ASSUME token' \in {token, token + 1}, NEW then, FenceCalls(then)
      PROVE  Backed(k, b)'
  BY <1>0, <1>1 DEF FenceCalls, Backed, FencePending
<1>2. ASSUME call = None \/ Returned, UNCHANGED <<token, owner>>
      PROVE  Backed(k, b)'
  BY <1>2 DEF Backed, FencePending, Returned
<1>3. ASSUME call = None \/ Returned, owner = None
      PROVE  FALSE
  BY <1>0, <1>3 DEF Backed, FencePending, Returned
<1>4. ASSUME NEW a \in Action, TakesIn(a)
      PROVE  FALSE
  BY <1>3, <1>4 DEF TakesIn, Supervisor
<1>5. ASSUME NEW a \in Action, Waits(a)
      PROVE  Backed(k, b)'
  BY <1>1, <1>2, <1>5 DEF Waits
<1>6. CASE Halts
  BY <1>1, <1>2, <1>6 DEF Halts
<1>7. CASE ComesToStop \/ ComesToNothing \/ Succeeds
  BY <1>2, <1>7 DEF ComesToStop, ComesToNothing, Succeeds, Returned
<1>8. CASE Fails \/ Finishes
  BY <1>1, <1>8 DEF Fails, Finishes
<1>9. CASE Ends
  BY <1>3, <1>9 DEF Ends, Returned, CallMeans, Supervisor
<1> QED
  BY <1>4, <1>5, <1>6, <1>7, <1>8, <1>9 DEF Decides

\* Every step keeps the fence to come, or sends it.
LEMMA BackedStays ==
    ASSUME Types, Supervisor, CallMeans, NEW k \in Nat, NEW b \in Action, k <= token,
           Backed(k, b), link = "up", link' = "up", macSession # None, UNCHANGED macSession,
           Decides \/ Reads \/ Sends \/ TimesOut \/ SpeechMoves \/ BridgeMoves \/ WindowsMoves
    PROVE  Backed(k, b)' \/ FenceGoes(k)
<1>0. SupervisorTypes
  BY TypesAre
<1>1. CASE Decides
  BY <1>1, BackedDecides
<1>2. ASSUME UNCHANGED <<token, owner, call>>
      PROVE  Backed(k, b)'
  BY <1>2 DEF Backed, FencePending
<1>3. ASSUME GoesOn, k = token /\ b = owner
      PROVE  Backed(k, b)'
  BY <1>3 DEF GoesOn, Backed
<1>4. CASE Reads
  BY <1>3, <1>4 DEF Reads, GoesOn, SameCall, Backed, FencePending
<1>5. CASE Sends
  <2>1. ASSUME FencePending(macSession, k)
        PROVE  FenceGoes(k)
    BY <1>5, <2>1 DEF FenceGoes, Sends, Carries, FencePending
  <2> QED
    BY <1>3, <1>5, <2>1 DEF Sends, Backed
<1>6. CASE TimesOut
  BY <1>3, <1>6 DEF TimesOut, Backed, FencePending
<1>7. CASE SpeechMoves
  BY <1>2, <1>7 DEF SpeechMoves, Executes
<1>8. CASE BridgeMoves
  <2>1. CASE (\E s \in Session : Connects(s)) \/ SendsOpen \/ Break
    BY <1>2, <2>1 DEF Connects, SendsOpen, Break, supervisorVars
  <2>2. CASE Receives
    BY <1>2, <1>3, <2>2 DEF Receives, Answered, Backed, FencePending
  <2> QED
    BY <1>8, <2>1, <2>2 DEF BridgeMoves, Gives
<1>9. CASE WindowsMoves
  BY <1>2, <1>9 DEF WindowsMoves, Elsewhere, supervisorVars
<1> QED
  BY <1>1, <1>4, <1>5, <1>6, <1>7, <1>8, <1>9

\* A claim is backed by the supervisor or fenced off on the wire.
LEMMA JustifiedIs ==
    ASSUME NEW i, NEW k, NEW b
    PROVE  Justified(i, k, b) <=>
             Backed(k, b) \/ \E j \in DOMAIN toWin : j > i /\ FenceAt(j, macSession, k)
  BY DEF Justified, Backed

\* What justifies a claim moves with the wire.
LEMMA JustifiedKept ==
    ASSUME Types, Supervisor, CallMeans, NEW k \in Nat, NEW b \in Action, k <= token,
           link = "up", link' = "up", macSession # None, UNCHANGED macSession,
           NEW i \in Nat, i = 0 \/ i \in DOMAIN toWin, Justified(i, k, b),
           UNCHANGED toWin \/ \E m \in Messages : Pushed(m),
           Decides \/ Reads \/ Sends \/ TimesOut \/ SpeechMoves \/ BridgeMoves \/ WindowsMoves
    PROVE  Justified(i, k, b)'
<1>1. CASE \E j \in DOMAIN toWin : j > i /\ FenceAt(j, macSession, k)
  <2>1. PICK j \in DOMAIN toWin : j > i /\ FenceAt(j, macSession, k)
    BY <1>1
  <2>2. j \in DOMAIN toWin' /\ toWin'[j] = toWin[j]
    BY PushFacts
  <2> QED
    BY <2>1, <2>2 DEF Justified, FenceAt
<1>2. CASE Backed(k, b)
  <2>1. CASE Backed(k, b)'
    BY <2>1 DEF Justified, Backed
  <2>2. CASE FenceGoes(k)
    <3>1. PICK m \in Messages :
             Pushed(m) /\ m.kind = "neutralize" /\ m.session = macSession /\ m.token >= k
      BY <2>2 DEF FenceGoes
    <3>2. /\ Len(toWin) \in Nat /\ DOMAIN toWin = 1..Len(toWin)
          /\ DOMAIN toWin' = 1..(Len(toWin) + 1) /\ toWin'[Len(toWin) + 1] = m
      BY <3>1, PushFacts
    <3>3. Len(toWin) + 1 \in DOMAIN toWin' /\ Len(toWin) + 1 > i
      BY <3>2
    <3> QED
      BY <3>1, <3>2, <3>3 DEF Justified, FenceAt
  <2> QED
    BY <1>2, <2>1, <2>2, BackedStays
<1> QED
  BY <1>1, <1>2, JustifiedIs

\* Taking a message from the wire moves the fence one place on.
LEMMA JustifiedShifts ==
    ASSUME Types, Supervisor, CallMeans, NEW k \in Nat, NEW b \in Action, k <= token,
           link = "up", link' = "up", macSession # None, UNCHANGED macSession,
           NEW i \in Nat, Justified(i + 1, k, b), Popped, WindowsMoves
    PROVE  Justified(i, k, b)'
<1>1. CASE \E j \in DOMAIN toWin : j > i + 1 /\ FenceAt(j, macSession, k)
  <2>1. PICK j \in DOMAIN toWin : j > i + 1 /\ FenceAt(j, macSession, k)
    BY <1>1
  <2>2. j \in Nat /\ j > 1 /\ j - 1 > i
    BY <2>1, PopFacts
  <2>3. j - 1 \in DOMAIN toWin' /\ toWin'[j - 1] = toWin[j]
    BY <2>1, <2>2, PopFacts
  <2> QED
    BY <2>1, <2>2, <2>3 DEF Justified, FenceAt
<1>2. CASE Backed(k, b)
  <2>1. UNCHANGED <<token, owner, call>>
    BY DEF WindowsMoves, Elsewhere, supervisorVars
  <2> QED
    BY <1>2, <2>1 DEF Justified, Backed, FencePending
<1> QED
  BY <1>1, <1>2, JustifiedIs

\* Who holds the voice afterwards held it before, if no fence for it was taken
\* from the wire, or has it from the authorization at the head of the wire.
LEMMA HolderIs ==
    ASSUME session' # None, Voiced'.action # None, link' = "up" \/ toWin' # <<>>,
           Decides \/ Reads \/ Sends \/ TimesOut \/ SpeechMoves \/ BridgeMoves \/ WindowsMoves
    PROVE  \/ Grants /\ WindowsMoves
           \/ /\ UNCHANGED session /\ Voiced'.token = Voiced.token /\ Voiced'.action = Voiced.action
              /\ \/ UNCHANGED toWin
                 \/ \E m \in Messages : Pushed(m)
                 \/ WindowsMoves /\ Popped /\ (Head(toWin).kind # "neutralize" \/ Overtaken)
                 \/ \E s \in Session : Connects(s)
<1>k. ASSUME UNCHANGED <<session, resources>>
      PROVE  UNCHANGED session /\ Voiced'.token = Voiced.token /\ Voiced'.action = Voiced.action
  BY <1>k DEF Voiced
<1>1. CASE WindowsMoves
  <2>1. CASE PlaysOn
    BY <1>k, <2>1 DEF PlaysOn
  <2>2. CASE Declines \/ StartsToPlay \/ Overtaken
    BY <1>1, <2>2 DEF Declines, StartsToPlay, Overtaken, Answering
  <2> QED
    BY <1>1, <2>1, <2>2 DEF WindowsMoves, Opens, Leaves, FencesOff, Expires
<1>2. CASE ~WindowsMoves
  <2>1. UNCHANGED <<session, resources>>
    BY <1>2
    DEF Decides, Reads, TimesOut, Sends, SpeechMoves, Executes, BridgeMoves, Connects, SendsOpen,
        Receives, Gives, Break, Outside, windowsVars, gatewayVars
  <2>2. \/ UNCHANGED toWin
        \/ \E m \in Messages : Pushed(m)
        \/ \E s \in Session : Connects(s)
    BY <1>2
    DEF Decides, Reads, TimesOut, Sends, SpeechMoves, Executes, BridgeMoves, SendsOpen,
        Receives, Gives, Break, Messages
  <2> QED
    BY <1>k, <2>1, <2>2
<1> QED
  BY <1>1, <1>2

\* The connection stands, and is the same, unless Windows connects.
LEMMA LinkIs ==
    ASSUME Types, Connection, link' = "up", macSession' # None,
           Decides \/ Reads \/ Sends \/ TimesOut \/ SpeechMoves \/ BridgeMoves \/ WindowsMoves
    PROVE  \/ link = "up" /\ UNCHANGED macSession
           \/ \E s \in Session : Connects(s)
<1>0. link \in {"up", "down"}
  BY TypesAre DEF WindowsTypes
<1>1. CASE WindowsMoves
  BY <1>1
  DEF WindowsMoves, Elsewhere, macVars, Opens, Leaves, Answering, Grants, Declines, FencesOff,
      Overtaken, StartsToPlay, Expires, PlaysOn, Connection
<1>2. CASE ~WindowsMoves
  BY <1>0, <1>2
  DEF Decides, Reads, TimesOut, Sends, SpeechMoves, Executes, BridgeMoves, SendsOpen,
      Receives, Gives, Break, Outside, macVars
<1> QED
  BY <1>1, <1>2

\* Every step leaves the holder justified,
LEMMA HolderStep ==
    ASSUME Types, Supervisor, CallMeans, Connection, Tokens, Claims,
           Decides \/ Reads \/ Sends \/ TimesOut \/ SpeechMoves \/ BridgeMoves \/ WindowsMoves
    PROVE  HolderIsJustified'
<1>1. SUFFICES ASSUME link' = "up", session' # None, session' = macSession', Voiced'.action # None
               PROVE  Justified(0, Voiced.token, Voiced.action)'
  BY DEF HolderIsJustified, HeldIn
<1>t. Voiced.token \in Nat /\ Voiced.action \in Action \cup {None}
  BY VoicedType
<1>2. CASE link = "up" /\ UNCHANGED macSession
  <2>1. CASE Grants /\ WindowsMoves
    <3>1. /\ Popped /\ UNCHANGED session /\ Head(toWin) \in Authorizations
          /\ Head(toWin).session = session
          /\ Voiced'.token = Head(toWin).token /\ Voiced'.action = Head(toWin).action
      BY <2>1, HeadFacts DEF Grants, Answering, Popped
    <3>2. /\ 1 \in DOMAIN toWin /\ toWin[1] = Head(toWin)
          /\ Head(toWin) \in OnWin
      BY <3>1, PopFacts DEF OnWin
    <3>3. Head(toWin).token \in Nat /\ Head(toWin).token <= token /\ Head(toWin).action \in Action
      BY <3>1, <3>2 DEF Authorizations, Control, Tokens
    <3>4. Justified(0 + 1, Head(toWin).token, Head(toWin).action)
      BY <1>1, <1>2, <3>1, <3>2 DEF Claims, StartsAreJustified, StartAt, Authorizations
    <3>5. ASSUME NEW k \in Nat, NEW b \in Action, k <= token, Justified(0 + 1, k, b)
          PROVE  Justified(0, k, b)'
      BY <1>1, <1>2, <2>1, <3>1, <3>5, JustifiedShifts
    <3> QED
      BY <3>1, <3>3, <3>4, <3>5 DEF Justified, FencePending
  <2>2. CASE UNCHANGED session /\ Voiced'.token = Voiced.token /\ Voiced'.action = Voiced.action
    <3> DEFINE k == Voiced.token
               b == Voiced.action
    <3>0. Justified(0, k, b) /\ k \in Nat /\ b \in Action /\ k <= token
      BY <1>1, <1>2, <1>t, <2>2 DEF Claims, HolderIsJustified, HeldIn, Tokens
    <3>a. ASSUME NEW t \in Nat, NEW a \in Action, t <= token, Justified(0, t, a),
                 UNCHANGED toWin \/ \E m \in Messages : Pushed(m)
          PROVE  Justified(0, t, a)'
      BY <1>1, <1>2, <3>a, JustifiedKept
    <3>b. ASSUME NEW t \in Nat, NEW a \in Action, t <= token, Justified(0 + 1, t, a),
                 Popped, WindowsMoves
          PROVE  Justified(0, t, a)'
      BY <1>1, <1>2, <3>b, JustifiedShifts
    <3>c. ASSUME NEW t \in Nat, NEW a \in Action, t = k, a = b, Justified(0, t, a)'
          PROVE  Justified(0, Voiced.token, Voiced.action)'
      BY <2>2, <3>c DEF Justified, FencePending
    <3>1. CASE UNCHANGED toWin \/ \E m \in Messages : Pushed(m)
      BY <3>0, <3>1, <3>a, <3>c
    <3>2. CASE WindowsMoves /\ Popped /\ (Head(toWin).kind # "neutralize" \/ Overtaken)
      <4>1. 1 \in DOMAIN toWin /\ toWin[1] = Head(toWin) /\ DOMAIN toWin \subseteq Nat \ {0}
        BY <3>2, PopFacts
      <4>2. ~FenceAt(1, macSession, k)
        BY <1>1, <1>2, <2>2, <3>2, <4>1 DEF FenceAt, Overtaken
      <4>3. Justified(0 + 1, k, b)
        BY <3>0, <4>1, <4>2 DEF Justified
      <4> HIDE DEF k, b
      <4> QED
        BY <3>0, <3>2, <3>b, <3>c, <4>3
    <3>3. ASSUME NEW s \in Session, Connects(s)
          PROVE  FALSE
      BY <1>2, <3>3 DEF Connects
    <3> QED
      BY <1>1, <2>1, <3>1, <3>2, <3>3, HolderIs, <1>2
  <2> QED
    BY <1>1, <2>1, <2>2, HolderIs
<1>3. ASSUME NEW s \in Session, Connects(s)
      PROVE  FALSE
  <2>1. session' = session /\ macSession' = s /\ s \notin used
    BY <1>3 DEF Connects, gatewayVars
  <2> QED
    BY <1>1, <2>1 DEF Connection
<1> QED
  BY <1>1, <1>2, <1>3, LinkIs

\* and every authorization on the wire.
LEMMA StartsClaimStep ==
    ASSUME Types, Supervisor, CallMeans, Connection, Tokens, Claims, Types',
           Decides \/ Reads \/ Sends \/ TimesOut \/ SpeechMoves \/ BridgeMoves \/ WindowsMoves
    PROVE  StartsAreJustified'
<1>1. SUFFICES ASSUME link' = "up", NEW i \in DOMAIN toWin',
                      toWin'[i].kind = "authorize", toWin'[i].session = macSession'
               PROVE  Justified(i, toWin[i].token, toWin[i].action)'
  BY DEF StartsAreJustified, StartAt
<1>m. toWin'[i] \in Authorizations /\ i \in Nat \ {0}
  <2>1. toWin' \in Seq(Messages)
    BY DEF Types, TypeOK, Messages
  <2>2. toWin'[i] \in Messages
    BY <2>1
  <2> QED
    BY <1>1, <2>2, TypesNatDomain DEF Messages, Openings, Neutralizations, Speeches
<1>n. macSession' # None
  BY <1>1, <1>m, NoneIsNone DEF Authorizations
<1>2. ASSUME NEW s \in Session, Connects(s)
      PROVE  FALSE
  BY <1>1, <1>2 DEF Connects
<1>3. link = "up" /\ UNCHANGED macSession
  BY <1>1, <1>2, <1>n, LinkIs
<1>4. PICK k \in Nat, b \in Action : k = toWin'[i].token /\ b = toWin'[i].action
  BY <1>m DEF Authorizations
<1>5. SUFFICES Justified(i, k, b)'
  BY <1>4 DEF Justified, FencePending
<1>c. \A j \in DOMAIN toWin : StartAt(j, macSession) =>
         Justified(j, toWin[j].token, toWin[j].action) /\ (Control(toWin[j]) => toWin[j].token <= token)
  BY <1>3 DEF Claims, StartsAreJustified, Tokens, OnWin
<1>6. ASSUME i \in DOMAIN toWin, toWin'[i] = toWin[i],
             UNCHANGED toWin \/ \E m \in Messages : Pushed(m)
      PROVE  Justified(i, k, b)'
  <2>1. Justified(i, k, b) /\ k <= token
    BY <1>1, <1>3, <1>6, <1>4, <1>c DEF StartAt, Control
  <2> QED
    BY <1>1, <1>3, <1>6, <1>m, <1>n, <2>1, JustifiedKept
<1>7. CASE UNCHANGED toWin
  BY <1>6, <1>7
<1>8. ASSUME NEW m \in Messages, Pushed(m), ~Control(m) \/ (Sends /\ Carries(m))
      PROVE  Justified(i, k, b)'
  <2>1. /\ DOMAIN toWin' = 1..(Len(toWin) + 1) /\ DOMAIN toWin = 1..Len(toWin)
        /\ Len(toWin) \in Nat
        /\ \A j \in DOMAIN toWin : toWin'[j] = toWin[j]
        /\ toWin'[Len(toWin) + 1] = m
    BY <1>8, PushFacts
  <2>2. CASE i \in DOMAIN toWin
    BY <1>6, <1>8, <2>1, <2>2
  <2>3. CASE i = Len(toWin) + 1
    <3>1. Sends /\ call.kind = "authorize" /\ k = call.token /\ b = call.action
      BY <1>1, <1>4, <1>8, <2>1, <2>3 DEF Control, Carries
    <3>2. call.token = token /\ call.action = owner /\ UNCHANGED <<token, owner>>
      BY <3>1 DEF Sends, GoesOn, CallMeans
    <3> QED
      BY <3>1, <3>2 DEF Justified
  <2> QED
    BY <2>1, <2>2, <2>3
<1>9. CASE WindowsMoves /\ Popped
  <2>1. i + 1 \in DOMAIN toWin /\ toWin'[i] = toWin[i + 1]
    BY <1>9, PopFacts
  <2>2. Justified(i + 1, k, b) /\ k <= token
    BY <1>1, <1>3, <1>c, <1>4, <2>1 DEF StartAt, Control
  <2> QED
    BY <1>1, <1>3, <1>4, <1>9, <1>m, <1>n, <2>2, JustifiedShifts
<1> QED
  BY <1>1, <1>7, <1>8, <1>9, WireMoves

\* Every step leaves all claims justified.
LEMMA ClaimsStep ==
    ASSUME Types, Supervisor, CallMeans, Connection, Tokens, Claims, Types',
           Decides \/ Reads \/ Sends \/ TimesOut \/ SpeechMoves \/ BridgeMoves \/ WindowsMoves
    PROVE  Claims'
  BY HolderStep, StartsClaimStep DEF Claims

----------------------------------------------------------------------------
\* Between two grants of the voice in one session there is a fence.

\* A call that is to be sent was so before or has just read the session.
LEMMA SendingIs ==
    ASSUME Decides \/ Reads \/ Sends \/ TimesOut \/ SpeechMoves \/ BridgeMoves \/ WindowsMoves,
           call' # None, call'.stage = "send"
    PROVE  /\ ~Sends
           /\ UNCHANGED call \/ (call'.session = macSession /\ UNCHANGED macSession)
<1>1. CASE Decides
  BY <1>1
  DEF Decides, TakesIn, Launches, Waits, Halts, FenceCalls, ComesToStop, ComesToNothing,
      Succeeds, Fails, Ends, Finishes, Sends, Outside
<1>2. CASE Reads \/ Sends \/ TimesOut
  BY <1>2 DEF Reads, TimesOut, Sends, Outside, macVars
<1>3. CASE SpeechMoves
  BY <1>3 DEF SpeechMoves, Executes, Sends
<1>4. CASE BridgeMoves
  <2>1. CASE (\E s \in Session : Connects(s)) \/ SendsOpen \/ Break
    BY <2>1 DEF Connects, SendsOpen, Break, supervisorVars, Sends
  <2>2. CASE Receives \/ Gives
    BY <2>2 DEF Receives, Answered, Gives, Sends
  <2> QED
    BY <1>4, <2>1, <2>2 DEF BridgeMoves
<1>5. CASE WindowsMoves
  BY <1>5 DEF WindowsMoves, Elsewhere, supervisorVars, Sends
<1> QED
  BY <1>1, <1>2, <1>3, <1>4, <1>5

\* The call that is about to authorize finds every claim to its session fenced off.
LEMMA NewStartIsFenced ==
    ASSUME Types, CallMeans, Connection, Tokens, Claims, Separated,
           Calling({"send"}), call.kind = "authorize", link = "up",
           NEW x \in Session, x = call.session
    PROVE  /\ HeldIn(x) => \E j \in DOMAIN toWin : 0 < j /\ FenceAt(j, x, Voiced.token)
           /\ \A i \in DOMAIN toWin : StartAt(i, x) =>
                 \E j \in DOMAIN toWin : i < j /\ FenceAt(j, x, toWin[i].token)
<1>0. ~FencePending(macSession, Voiced.token) /\ \A k : ~FencePending(macSession, k)
  BY DEF FencePending
<1>d. DOMAIN toWin \subseteq Nat
  BY DEF Types, TypeOK
<1>t. token \in Nat /\ Voiced.token \in Nat
  BY TypesAre, VoicedType DEF SupervisorTypes
<1>1. ASSUME HeldIn(x)
      PROVE  \E j \in DOMAIN toWin : 0 < j /\ FenceAt(j, x, Voiced.token)
  <2>1. x = macSession
    BY <1>1, NoneIsNone DEF HeldIn, Connection
  <2>2. Voiced.token < token
    BY <1>1 DEF HeldIn, Tokens, Calling
  <2>3. Justified(0, Voiced.token, Voiced.action)
    BY <1>1, <2>1 DEF Claims, HolderIsJustified
  <2>4. \E j \in DOMAIN toWin : j > 0 /\ FenceAt(j, macSession, Voiced.token)
    BY <1>0, <1>t, <2>2, <2>3 DEF Justified
  <2> QED
    BY <1>d, <2>1, <2>4
<1>2. ASSUME NEW i \in DOMAIN toWin, StartAt(i, x)
      PROVE  \E j \in DOMAIN toWin : i < j /\ FenceAt(j, x, toWin[i].token)
  <2>0. toWin[i] \in OnWin /\ toWin[i].kind = "authorize" /\ toWin[i] \in Authorizations
    BY <1>2, OnWinType DEF OnWin, StartAt, Messages, Openings, Neutralizations, Speeches
  <2>1. x = macSession
    BY <2>0 DEF Separated, Control
  <2>2. toWin[i].token < token /\ toWin[i].token \in Nat
    BY <2>0 DEF Tokens, Calling, Authorizations
  <2>3. Justified(i, toWin[i].token, toWin[i].action)
    BY <1>2, <2>1 DEF Claims, StartsAreJustified
  <2>4. \E j \in DOMAIN toWin : j > i /\ FenceAt(j, macSession, toWin[i].token)
    BY <1>0, <1>t, <2>2, <2>3 DEF Justified
  <2> QED
    BY <1>d, <2>1, <2>4
<1> QED
  BY <1>1, <1>2

\* A fence between two messages stays between them,
LEMMA FenceShifts ==
    ASSUME Types, Popped, NEW i \in Nat, NEW n \in DOMAIN toWin', NEW x, NEW k,
           FencedBetween(i + 1, n + 1, x, k)
    PROVE  FencedBetween(i, n, x, k)'
<1>1. PICK j \in DOMAIN toWin : i + 1 < j /\ j < n + 1 /\ FenceAt(j, x, k)
  BY DEF FencedBetween
<1>2. j \in Nat /\ n \in Nat /\ n + 1 \in DOMAIN toWin
  <2>1. n + 1 \in DOMAIN toWin /\ DOMAIN toWin \subseteq Nat \ {0}
    BY PopFacts
  <2>2. toWin' \in Seq(Messages)
    BY PopFacts
  <2>3. n \in Nat
    BY <2>2
  <2> QED
    BY <2>1, <2>3
<1>3. j - 1 \in DOMAIN toWin' /\ toWin'[j - 1] = toWin[j] /\ i < j - 1 /\ j - 1 < n
  BY <1>1, <1>2, PopFacts
<1> QED
  BY <1>1, <1>3 DEF FencedBetween, FenceAt

\* and one before a new message is between that and those before the fence.
LEMMA FenceStays ==
    ASSUME Types, NEW m \in Messages, Pushed(m), NEW i, NEW n, NEW x, NEW k,
           FencedBetween(i, n, x, k)
    PROVE  FencedBetween(i, n, x, k)'
<1>1. PICK j \in DOMAIN toWin : i < j /\ j < n /\ FenceAt(j, x, k)
  BY DEF FencedBetween
<1>2. j \in DOMAIN toWin' /\ toWin'[j] = toWin[j]
  BY PushFacts
<1> QED
  BY <1>1, <1>2 DEF FencedBetween, FenceAt

HolderSeparated ==
    \A n \in DOMAIN toWin, x \in Session :
       StartAt(n, x) /\ HeldIn(x) => FencedBetween(0, n, x, Voiced.token)
StartsSeparated ==
    \A i, n \in DOMAIN toWin, x \in Session :
       i < n /\ StartAt(i, x) /\ StartAt(n, x) => FencedBetween(i, n, x, toWin[i].token)

\* A message put on the wire finds the fences it needs ahead of it.
LEMMA SeparatedPushes ==
    ASSUME Types, CallMeans, Connection, Tokens, Claims, Separated,
           NEW m \in Messages, Pushed(m), link = "up", UNCHANGED <<session, resources>>,
           ~Control(m) \/ (Sends /\ Carries(m))
    PROVE  HolderSeparated' /\ StartsSeparated'
<1>1. /\ DOMAIN toWin' = 1..(Len(toWin) + 1) /\ DOMAIN toWin = 1..Len(toWin)
      /\ Len(toWin) \in Nat
      /\ \A j \in DOMAIN toWin : toWin'[j] = toWin[j]
      /\ toWin'[Len(toWin) + 1] = m
  BY PushFacts
<1>2. ASSUME NEW x \in Session
      PROVE  HeldIn(x)' <=> HeldIn(x)
  BY DEF HeldIn, Voiced
<1>3. Voiced'.token = Voiced.token
  BY DEF Voiced
<1>v. PICK v : v = Voiced.token
  OBVIOUS
<1>s. HolderSeparated /\ StartsSeparated
  BY DEF Separated, HolderSeparated, StartsSeparated
<1>4. ASSUME NEW x \in Session, NEW z, z = Len(toWin) + 1, StartAt(z, x)'
      PROVE  /\ HeldIn(x) => \E j \in DOMAIN toWin : 0 < j /\ FenceAt(j, x, Voiced.token)
             /\ \A i \in DOMAIN toWin : StartAt(i, x) =>
                   \E j \in DOMAIN toWin : i < j /\ FenceAt(j, x, toWin[i].token)
  <2>1. toWin'[Len(toWin) + 1].kind = "authorize" /\ toWin'[Len(toWin) + 1].session = x
    BY <1>1, <1>4 DEF StartAt
  <2>2. Sends /\ Carries(m) /\ m.kind = "authorize" /\ m.session = x
    BY <1>1, <2>1 DEF Control
  <2>3. Calling({"send"}) /\ call.kind = "authorize" /\ x = call.session
    BY <2>2 DEF Sends, GoesOn, Carries, Calling
  <2> QED
    BY <2>3, NewStartIsFenced
<1>w. \A j \in DOMAIN toWin : \A x, k : FenceAt(j, x, k)' <=> FenceAt(j, x, k)
  BY <1>1 DEF FenceAt
<1>5. ASSUME NEW n \in DOMAIN toWin', NEW x \in Session, StartAt(n, x)', HeldIn(x)'
      PROVE  FencedBetween(0, n, x, Voiced.token)'
  <2>1. ASSUME FencedBetween(0, n, x, v)'
        PROVE  FencedBetween(0, n, x, Voiced.token)'
    BY <1>3, <1>v, <2>1 DEF FencedBetween, FenceAt
  <2>2. CASE n \in DOMAIN toWin
    <3>1. StartAt(n, x)
      BY <1>1, <1>5, <2>2 DEF StartAt
    <3>2. FencedBetween(0, n, x, v)
      BY <1>2, <1>5, <1>s, <1>v, <2>2, <3>1 DEF HolderSeparated
    <3> QED
      BY <2>1, <3>2, FenceStays
  <2>3. CASE n = Len(toWin) + 1
    <3>1. PICK j \in DOMAIN toWin : 0 < j /\ FenceAt(j, x, v)
      BY <1>2, <1>4, <1>5, <1>v, <2>3
    <3>2. j < n /\ j \in DOMAIN toWin'
      BY <1>1, <2>3
    <3> QED
      BY <1>w, <2>1, <3>1, <3>2 DEF FencedBetween
  <2> QED
    BY <1>1, <2>2, <2>3
<1>6. ASSUME NEW i \in DOMAIN toWin', NEW n \in DOMAIN toWin', NEW x \in Session,
             i < n, StartAt(i, x)', StartAt(n, x)'
      PROVE  FencedBetween(i, n, x, toWin[i].token)'
  <2>0. i \in DOMAIN toWin /\ toWin'[i] = toWin[i] /\ StartAt(i, x)
    BY <1>1, <1>6 DEF StartAt
  <2>k. PICK k : k = toWin[i].token
    OBVIOUS
  <2>1. ASSUME FencedBetween(i, n, x, k)'
        PROVE  FencedBetween(i, n, x, toWin[i].token)'
    BY <2>0, <2>1, <2>k DEF FencedBetween, FenceAt
  <2>2. CASE n \in DOMAIN toWin
    <3>1. StartAt(n, x)
      BY <1>1, <1>6, <2>2 DEF StartAt
    <3>2. FencedBetween(i, n, x, k)
      BY <1>6, <1>s, <2>0, <2>2, <2>k, <3>1 DEF StartsSeparated
    <3> QED
      BY <2>1, <3>2, FenceStays
  <2>3. CASE n = Len(toWin) + 1
    <3>1. PICK j \in DOMAIN toWin : i < j /\ FenceAt(j, x, k)
      BY <1>4, <1>6, <2>0, <2>3, <2>k
    <3>2. j < n /\ j \in DOMAIN toWin'
      BY <1>1, <2>3
    <3> QED
      BY <1>w, <2>1, <3>1, <3>2 DEF FencedBetween
  <2> QED
    BY <1>1, <2>2, <2>3
<1> QED
  BY <1>5, <1>6 DEF HolderSeparated, StartsSeparated

\* A message taken from the wire leaves the fences between the others.
LEMMA SeparatedPops ==
    ASSUME Types, Separated, Popped, WindowsMoves
    PROVE  HolderSeparated' /\ StartsSeparated'
<1>0. /\ toWin' \in Seq(Messages) /\ DOMAIN toWin \subseteq Nat \ {0}
      /\ 1 \in DOMAIN toWin /\ toWin[1] = Head(toWin)
      /\ \A i \in DOMAIN toWin' : i + 1 \in DOMAIN toWin /\ toWin'[i] = toWin[i + 1]
  BY PopFacts
<1>n. DOMAIN toWin' \subseteq Nat \ {0}
  BY <1>0
<1>s. HolderSeparated /\ StartsSeparated
  BY DEF Separated, HolderSeparated, StartsSeparated
<1>1. ASSUME NEW n \in DOMAIN toWin', NEW x \in Session, StartAt(n, x)', HeldIn(x)'
      PROVE  FencedBetween(0, n, x, Voiced.token)'
  <2>0. n + 1 \in DOMAIN toWin /\ StartAt(n + 1, x) /\ 1 < n + 1
    BY <1>0, <1>1, <1>n DEF StartAt
  <2>h. session' # None /\ session' = x /\ Voiced'.action # None /\ toWin' # <<>>
    BY <1>1 DEF HeldIn
  <2>v. PICK v : v = Voiced'.token
    OBVIOUS
  <2>f. ASSUME FencedBetween(0 + 1, n + 1, x, v)
        PROVE  FencedBetween(0, n, x, Voiced.token)'
    <3>1. FencedBetween(0, n, x, v)'
      BY <2>f, FenceShifts
    <3> QED
      BY <2>v, <3>1 DEF FencedBetween, FenceAt
  <2>1. CASE Grants
    <3>1. StartAt(1, x) /\ v = toWin[1].token
      BY <1>0, <2>1, <2>h, <2>v DEF Grants, Answering, StartAt
    <3>2. FencedBetween(1, n + 1, x, v)
      BY <1>0, <1>s, <2>0, <3>1 DEF StartsSeparated
    <3> QED
      BY <2>f, <3>2
  <2>2. CASE /\ UNCHANGED session /\ Voiced'.token = Voiced.token /\ Voiced'.action = Voiced.action
             /\ Head(toWin).kind # "neutralize" \/ Overtaken
    <3>1. HeldIn(x) /\ v = Voiced.token
      BY <2>2, <2>h, <2>v DEF HeldIn
    <3>2. FencedBetween(0, n + 1, x, v)
      BY <1>s, <2>0, <3>1 DEF HolderSeparated
    <3>3. ~FenceAt(1, x, v)
      BY <1>0, <2>2, <2>h, <3>1 DEF FenceAt, Overtaken
    <3>4. FencedBetween(0 + 1, n + 1, x, v)
      BY <1>0, <3>2, <3>3 DEF FencedBetween
    <3> QED
      BY <2>f, <3>4
  <2>3. UNCHANGED toWin => FALSE
    <3>1. Len(Tail(toWin)) # Len(toWin)
      BY DEF Popped, Types, TypeOK
    <3> QED
      BY <3>1 DEF Popped
  <2>4. ASSUME NEW m \in Messages, Pushed(m)
        PROVE  FALSE
    <3>1. /\ Len(toWin) \in Nat /\ DOMAIN toWin = 1..Len(toWin)
          /\ DOMAIN toWin' = 1..(Len(toWin) + 1)
      BY <2>4, PushFacts
    <3>2. Len(toWin) + 1 \in DOMAIN toWin'
      BY <3>1
    <3>3. (Len(toWin) + 1) + 1 \in DOMAIN toWin
      BY <1>0, <3>2
    <3> QED
      BY <3>1, <3>3
  <2>5. ASSUME NEW s \in Session, Connects(s)
        PROVE  FALSE
    BY <2>5, <2>h DEF Connects
  <2> QED
    BY <2>1, <2>2, <2>3, <2>4, <2>5, <2>h, HolderIs
<1>2. ASSUME NEW i \in DOMAIN toWin', NEW n \in DOMAIN toWin', NEW x \in Session,
             i < n, StartAt(i, x)', StartAt(n, x)'
      PROVE  FencedBetween(i, n, x, toWin[i].token)'
  <2>0. /\ i \in Nat /\ n \in Nat /\ i + 1 \in DOMAIN toWin /\ n + 1 \in DOMAIN toWin
        /\ i + 1 < n + 1 /\ StartAt(i + 1, x) /\ StartAt(n + 1, x)
    BY <1>0, <1>2, <1>n DEF StartAt
  <2>k. PICK k : k = toWin'[i].token /\ k = toWin[i + 1].token
    BY <1>0
  <2>1. FencedBetween(i + 1, n + 1, x, k)
    BY <1>s, <2>0, <2>k DEF StartsSeparated
  <2>2. FencedBetween(i, n, x, k)'
    BY <2>0, <2>1, FenceShifts
  <2> QED
    BY <2>2, <2>k DEF FencedBetween, FenceAt
<1> QED
  BY <1>1, <1>2 DEF HolderSeparated, StartsSeparated

\* A step that leaves the wire alone grants nothing.
LEMMA SeparatedStands ==
    ASSUME Separated, UNCHANGED toWin,
           Decides \/ Reads \/ Sends \/ TimesOut \/ SpeechMoves \/ BridgeMoves \/ WindowsMoves
    PROVE  HolderSeparated' /\ StartsSeparated'
<1>s. HolderSeparated /\ StartsSeparated
  BY DEF Separated, HolderSeparated, StartsSeparated
<1>1. StartsSeparated'
  BY <1>s DEF StartsSeparated, StartAt, FencedBetween, FenceAt
<1>2. ASSUME NEW n \in DOMAIN toWin', NEW x \in Session, StartAt(n, x)', HeldIn(x)'
      PROVE  FencedBetween(0, n, x, Voiced.token)'
  <2>1. session' # None /\ session' = x /\ Voiced'.action # None /\ toWin' # <<>>
    BY <1>2 DEF HeldIn
  <2>2. CASE UNCHANGED session /\ Voiced'.token = Voiced.token /\ Voiced'.action = Voiced.action
    <3>1. HeldIn(x) /\ StartAt(n, x) /\ n \in DOMAIN toWin
      BY <1>2, <2>1, <2>2 DEF HeldIn, StartAt
    <3> QED
      BY <1>s, <2>2, <3>1 DEF HolderSeparated, FencedBetween, FenceAt
  <2>3. CASE Grants
    \* A grant takes a message from the wire.
    BY <2>3 DEF Grants, Answering, Popped
  <2> QED
    BY <2>1, <2>2, <2>3, HolderIs
<1> QED
  BY <1>1, <1>2 DEF HolderSeparated

\* A call that is late for its session finds none of its kind on the new wire.
LEMMA UnsentElsewhere ==
    ASSUME Types, Connection, Separated, Connection',
           Decides \/ Reads \/ Sends \/ TimesOut \/ SpeechMoves \/ BridgeMoves \/ WindowsMoves,
           link' = "up", Calling({"send"})', call'.session # macSession',
           NEW m \in OnWin', Control(m)
    PROVE  FALSE
<1>1. macSession' # None
  BY DEF Connection
<1>2. ASSUME NEW s \in Session, Connects(s)
      PROVE  FALSE
  BY <1>2 DEF Connects, OnWin
<1>3. link = "up" /\ UNCHANGED macSession
  BY <1>1, <1>2, LinkIs
<1>4. ~Sends /\ UNCHANGED call
  BY <1>3, SendingIs DEF Calling
<1>5. m \in OnWin
  BY <1>4, WireActs DEF Taken, Added
<1> QED
  BY <1>3, <1>4, <1>5 DEF Separated, Calling

\* Every step leaves a fence between two grants.
LEMMA SeparatedStep ==
    ASSUME Types, CallMeans, Connection, Tokens, Claims, Separated, Connection',
           Decides \/ Reads \/ Sends \/ TimesOut \/ SpeechMoves \/ BridgeMoves \/ WindowsMoves
    PROVE  Separated'
<1>1. HolderSeparated' /\ StartsSeparated'
  <2>1. CASE UNCHANGED toWin
    BY <2>1, SeparatedStands
  <2>2. CASE WindowsMoves /\ Popped
    BY <2>2, SeparatedPops
  <2>3. CASE toWin' = <<>>
    BY <2>3 DEF HolderSeparated, StartsSeparated
  <2>4. ASSUME NEW m \in Messages, Pushed(m), ~Control(m) \/ (Sends /\ Carries(m)), link = "up",
               Sends \/ SpeechMoves \/ SendsOpen
        PROVE  HolderSeparated' /\ StartsSeparated'
    <3>1. UNCHANGED <<session, resources>>
      BY <2>4 DEF Sends, SpeechMoves, Executes, SendsOpen, Outside, windowsVars, gatewayVars
    <3> QED
      BY <2>4, <3>1, SeparatedPushes
  <2> QED
    BY <2>1, <2>2, <2>3, <2>4, WireMoves
<1>2. link' = "up" /\ Calling({"send"})' /\ call'.session # macSession' =>
         \A m \in OnWin' : ~Control(m)
  BY UnsentElsewhere
<1>3. \A m \in OnWin' : Control(m)' <=> Control(m)
  BY DEF Control
<1> QED
  BY <1>1, <1>2, <1>3 DEF Separated, HolderSeparated, StartsSeparated

----------------------------------------------------------------------------
\* Speech that plays on is the holder's.

\* Every step leaves the speech that plays on with its lease.
LEMMA PlaysStep ==
    ASSUME Types, Connection, Separated, Plays, Types',
           Decides \/ Reads \/ Sends \/ TimesOut \/ SpeechMoves \/ BridgeMoves \/ WindowsMoves
    PROVE  Plays'
<1>1. SUFFICES ASSUME player' # None, ~player'.stop
               PROVE  Gateway!Owner(Voice)' = player'.lease /\ Voiced'.sequence >= 0
  BY DEF Plays
<1>n. None \notin Gateway!Lease /\ None \notin Action
  BY NoneIsNone
<1>2. ASSUME UNCHANGED <<session, resources>>, player # None, player.lease = player'.lease,
             player.stop = player'.stop
      PROVE  Gateway!Owner(Voice)' = player'.lease /\ Voiced'.sequence >= 0
  BY <1>1, <1>2 DEF Plays, Gateway!Owner, Voiced
<1>3. CASE ~WindowsMoves
  <2>1. UNCHANGED <<session, resources, player>>
    BY <1>3
    DEF Decides, Reads, TimesOut, Sends, SpeechMoves, Executes, BridgeMoves, Connects, SendsOpen,
        Receives, Gives, Break, Outside, windowsVars, gatewayVars
  <2> QED
    BY <1>1, <1>2, <2>1
<1>4. CASE WindowsMoves
  <2>1. CASE Grants
    <3>1. player # None /\ ~player.stop /\ player.lease \in Gateway!Lease
      BY <1>1, <2>1 DEF Grants, Types, TypeOK, Playbacks
    <3>2. session # None /\ Voiced.action # None
      BY <1>n, <3>1 DEF Plays, Gateway!Owner, Voiced
    <3>3. session \in Session /\ 1 \in DOMAIN toWin /\ StartAt(1, session)
      BY <2>1, <3>2, VoicedType, PopFacts DEF Grants, Answering, StartAt, Popped
    <3>4. FencedBetween(0, 1, session, Voiced.token)
      BY <3>2, <3>3 DEF Separated, HeldIn
    <3>5. DOMAIN toWin \subseteq Nat \ {0}
      BY <2>1, PopFacts DEF Grants, Answering
    <3>6. PICK j \in DOMAIN toWin : 0 < j /\ j < 1
      BY <3>4 DEF FencedBetween
    <3>7. j \in Nat /\ j # 0
      BY <3>5
    <3> QED
      BY <3>6, <3>7
  <2>2. CASE StartsToPlay
    <3>1. /\ player'.lease = [session |-> session, token |-> Voiced.token, action |-> Voiced.action]
          /\ UNCHANGED session /\ Voiced'.token = Voiced.token /\ Voiced'.action = Voiced.action
          /\ Voiced'.sequence = 0
      BY <2>2 DEF StartsToPlay, Answering
    <3>2. player'.lease \in Gateway!Lease
      BY <1>1, TypesAre DEF Types, TypeOK, Playbacks
    <3>3. Voiced.action # None /\ session # None
      BY <3>1, <3>2, <1>n, NoneIsNone DEF Gateway!Lease
    <3> QED
      BY <3>1, <3>3 DEF Gateway!Owner, Voiced
  <2>3. CASE Declines \/ Overtaken
    <3>1. UNCHANGED <<session, player>> /\ resources'[Voice] = resources[Voice]
      BY <2>3 DEF Declines, Overtaken, Answering, Voiced
    <3> QED
      BY <1>1, <3>1 DEF Plays, Gateway!Owner, Voiced
  <2>4. CASE PlaysOn
    BY <1>1, <1>2, <2>4 DEF PlaysOn
  <2>5. CASE Opens \/ FencesOff \/ Expires
    BY <1>1, <2>5 DEF Opens, FencesOff, Expires, PlayerStops
  <2>6. CASE Leaves
    <3>1. CASE win = "hello" /\ GatewayStands /\ UNCHANGED player
      BY <1>1, <3>1 DEF GatewayStands, Plays, Gateway!Owner, Voiced
    <3> QED
      BY <1>1, <2>6, <3>1 DEF Leaves, PlayerStops
  <2> QED
    BY <1>4, <2>1, <2>2, <2>3, <2>4, <2>5, <2>6 DEF WindowsMoves
<1> QED
  BY <1>3, <1>4

----------------------------------------------------------------------------
\* The invariant holds at the start and of every step.

\* Nothing is under way and nobody holds the voice.
LEMMA InitInv == Init => IInv
<1> SUFFICES ASSUME Init PROVE IInv
  OBVIOUS
<1>n. None \notin Action /\ None \notin Session
  BY NoneIsNone
<1>g. /\ session = None /\ exclusive = None /\ opened = {}
      /\ Voiced.token = 0 /\ Voiced.action = None /\ Gateway!TypeOK
  <2>1. /\ session = None /\ exclusive = None /\ opened = {} /\ now = 0
        /\ resources = [r \in {Voice} |-> Gateway!NewResourceState]
        /\ device = [r \in {Voice} |-> None] /\ revoked = [r \in {Voice} |-> {}]
    BY DEF Init, Gateway!Init
  <2>2. Gateway!NewResourceState \in Gateway!ResourceState
    BY DEF Gateway!NewResourceState, Gateway!ResourceState
  <2>3. Gateway!TypeOK
    BY <2>1, <2>2 DEF Gateway!TypeOK
  <2> QED
    BY <2>1, <2>3 DEF Voiced, Gateway!NewResourceState
<1>w. toWin = <<>> /\ toMac = <<>> /\ DOMAIN toWin = {} /\ DOMAIN toMac = {} /\ OnWin = {} /\ OnMac = {}
  BY DEF Init, OnWin, OnMac
<1>1. Types
  BY <1>g, <1>w, VoiceAssumption DEF Init, Types, TypeOK
<1>2. Supervisor /\ CallMeans
  BY DEF Init, Supervisor, CallMeans
<1>3. Connection
  BY <1>g, <1>w DEF Init, Connection
<1>4. Tokens /\ Ids /\ Starts
  BY <1>g, <1>w DEF Init, Tokens, Calling, Ids, Starts
<1>5. Fences
  BY DEF Init, Fences, FencesCurrent
<1>6. Claims /\ Separated /\ Plays
  BY <1>g, <1>w DEF Init, Claims, HolderIsJustified, StartsAreJustified, HeldIn, Separated, Calling, Plays
<1>7. Completes
  BY <1>n, <1>w, VoiceAssumption DEF Init, Completes
<1> QED
  BY <1>1, <1>2, <1>3, <1>4, <1>5, <1>6, <1>7 DEF IInv

\* A step that changes nothing is like one of time passing on Windows.
LEMMA Stutters ==
    ASSUME Types, UNCHANGED vars
    PROVE  WindowsMoves /\ Types'
<1>0. SupervisorTypes /\ ExecutorTypes /\ MacTypes /\ WindowsTypes
  BY TypesAre
<1>1. /\ UNCHANGED supervisorVars /\ UNCHANGED executorVars /\ UNCHANGED macVars
      /\ UNCHANGED wireVars /\ UNCHANGED windowsVars /\ UNCHANGED historyVars
  BY DEF vars
<1>2. UNCHANGED <<link, toWin, toMac, win, player, gatewayVars, halts, quiet, played>>
  BY <1>1 DEF wireVars, windowsVars, historyVars
<1>3. Gateway!TypeOK' /\ UNCHANGED <<session, exclusive, opened, resources>>
  BY <1>2, StandsStill DEF gatewayVars
<1>4. WindowsTypes'
  BY <1>0, <1>2, <1>3 DEF WindowsTypes
<1>5. SupervisorTypes' /\ ExecutorTypes'
  BY <1>0, <1>1 DEF supervisorVars, executorVars, SupervisorTypes, ExecutorTypes
<1>6. MacTypes' /\ played' \subseteq Action
  BY <1>0, <1>1, <1>2 DEF macVars, MacTypes
<1>7. PlaysOn
  BY <1>2, <1>3 DEF PlaysOn, Hears, OnMac
<1> QED
  BY <1>1, <1>2, <1>4, <1>5, <1>6, <1>7, TypesNext DEF WindowsMoves, Elsewhere

\* Every step of the program, and every stutter, keeps the twelve parts.
LEMMA StepInv ==
    ASSUME IInv, [Next]_vars
    PROVE  IInv'
<1>0. /\ Types /\ Supervisor /\ CallMeans /\ Connection /\ Tokens /\ Ids
      /\ Starts /\ Fences /\ Claims /\ Separated /\ Plays /\ Completes
  BY DEF IInv
<1>1. /\ Decides \/ Reads \/ Sends \/ TimesOut \/ SpeechMoves \/ BridgeMoves \/ WindowsMoves
      /\ Types'
  BY <1>0, StepActs, Stutters
<1>2. Supervisor' /\ CallMeans'
  BY <1>0, <1>1, SupervisorStep
<1>3. Connection'
  BY <1>0, <1>1, ConnectionStep
<1>4. Tokens' /\ Ids'
  BY <1>0, <1>1, TokensStep, IdsStep
<1>5. Starts' /\ Fences'
  BY <1>0, <1>1, StartsStep, FencesStep
<1>6. Claims'
  BY <1>0, <1>1, ClaimsStep
<1>7. Separated'
  BY <1>0, <1>1, <1>3, SeparatedStep
<1>8. Plays'
  BY <1>0, <1>1, PlaysStep
<1>9. Completes'
  BY <1>0, <1>1, CompletesStep
<1> QED
  BY <1>1, <1>2, <1>3, <1>4, <1>5, <1>6, <1>7, <1>8, <1>9 DEF IInv

\* The twelve parts hold together in every state the program reaches.
THEOREM InvHolds == Spec => []IInv
<1>1. Init => IInv
  BY InitInv
<1>2. IInv /\ [Next]_vars => IInv'
  BY StepInv
<1> QED
  BY <1>1, <1>2, PTL DEF Spec

----------------------------------------------------------------------------
\* Every variable has the type the code gives it, for any number of actions
\* and connections: in particular the tokens stay whole numbers, the record of
\* an output call is complete at every stage, and the gateway stays well formed
\* (character_supervisor.py, mac_output_transport.py, windows_bridge_client.py).
THEOREM TypeCorrect == Spec => []TypeOK
<1>1. IInv => TypeOK
  BY DEF IInv, Types
<1> QED
  BY <1>1, InvHolds, PTL

\* Once Windows acknowledged the fence of an action, neither what is on the
\* wire nor a new connection nor a late send makes its speech heard again
\* (character_supervisor.py:430).
THEOREM FencedStaysSilent == Spec => []AcknowledgedFenceSilences
<1>1. IInv => AcknowledgedFenceSilences
  BY DEF IInv, Fences, Silenced, AcknowledgedFenceSilences
<1> QED
  BY <1>1, InvHolds, PTL

\* What plays and was not told to stop plays under the lease that holds the
\* voice in the open session (device_gateway.py, windows_wave_player.py).
THEOREM SpeechHasItsLease == Spec => []SpeechIsOwned
<1>1. IInv => SpeechIsOwned
  BY DEF IInv, Plays, SpeechIsOwned
<1> QED
  BY <1>1, InvHolds, PTL

\* The gateway takes at most one envelope of a lease for speech, and no lease
\* is granted while one plays, so that accepted speech finds the player free or
\* told to stop (windows_wave_player.py:127).
THEOREM PlayerIsFree == Spec => []AcceptedSpeechFindsPlayerFree
<1>1. ASSUME IInv
      PROVE  AcceptedSpeechFindsPlayerFree
  <2>1. SUFFICES ASSUME DataVerdict = "accepted", player # None, ~player.stop
                 PROVE  FALSE
    BY <1>1 DEF AcceptedSpeechFindsPlayerFree, IInv, Types, TypeOK, Playbacks
  <2>2. Voiced.sequence >= 0 /\ Voiced.sequence \in Int
    BY <1>1, <2>1, VoicedType DEF IInv, Plays
  <2>3. 0 <= Voiced.sequence
    BY <2>2
  <2> QED
    BY <2>1, <2>3 DEF DataVerdict, Gateway!EnvelopeVerdict, Voiced
<1> QED
  BY <1>1, InvHolds, PTL

\* An action counts as completed only if its speech was played to its end,
\* whichever answers were lost, late or for another action
\* (mac_output_transport.py, character_supervisor.py).
THEOREM CompletedMeansPlayed == Spec => []CompletedWasPlayed
<1>1. IInv => CompletedWasPlayed
  BY DEF IInv, Completes, CompletedWasPlayed
<1> QED
  BY <1>1, InvHolds, PTL

\* A bridge at rest leaves Windows with the owner the supervisor knows of, or
\* with none (character_supervisor.py, mac_output_transport.py).
THEOREM RestingBridgeAgrees == Spec => []IdleBridgeAgrees
<1>1. ASSUME IInv
      PROVE  IdleBridgeAgrees
  <2>1. SUFFICES ASSUME call = None, link = "up", session = macSession, toWin = <<>>,
                        Gateway!Owner(Voice) # None
                 PROVE  /\ Gateway!Owner(Voice).action = owner
                        /\ Gateway!Owner(Voice).token = token
    BY DEF IdleBridgeAgrees
  <2>2. /\ session # None /\ Voiced.action # None
        /\ Gateway!Owner(Voice) = [session |-> session, token |-> Voiced.token, action |-> Voiced.action]
    BY <2>1 DEF Gateway!Owner, Voiced
  <2>3. Justified(0, Voiced.token, Voiced.action)
    BY <1>1, <2>1, <2>2 DEF IInv, Claims, HolderIsJustified, HeldIn
  <2>4. DOMAIN toWin = {}
    BY <2>1
  <2> QED
    BY <2>1, <2>2, <2>3, <2>4 DEF Justified, FencePending
<1> QED
  BY <1>1, InvHolds, PTL

\* On Windows every step is a step of the gateway, or leaves it alone.
GatewayGoesOn == Gateway!Next \/ UNCHANGED gatewayVars

\* Whoever tells the gateway that the sink failed has a player that may hang.
LEMMA FailureMayBe ==
    ASSUME NEW failed \in SUBSET {Voice}, MayFail(failed)
    PROVE  failed \in SUBSET (IF MayHang THEN {Voice} ELSE {})
  BY DEF MayFail

LEMMA ClosingGoesOn ==
    ASSUME Types, session # None, NEW failed \in SUBSET {Voice}, CloseConnection(failed)
    PROVE  Gateway!Next
<1>1. failed \in SUBSET (IF MayHang THEN {Voice} ELSE {}) /\ session \in Session
  BY FailureMayBe DEF CloseConnection, Types, TypeOK, Gateway!TypeOK
<1> QED
  BY <1>1 DEF CloseConnection, Gateway!Next

LEMMA WindowsUsesGateway ==
    ASSUME Types, Connection, WindowsStep
    PROVE  GatewayGoesOn
<1>0. now \in 0..now /\ Voice \in {Voice}
  BY DEF Types, TypeOK, Gateway!TypeOK
<1>1. CASE WinOpen
  <2>1. CASE Head(toWin).kind = "open"
    <3>1. PICK failed \in SUBSET {Voice} :
            MayFail(failed) /\ Gateway!OpenSession(Head(toWin).session, failed)
      BY <1>1, <2>1 DEF WinOpen
    <3>2. Head(toWin).session \in Session
      BY <1>1, <2>1, HeadFacts DEF WinOpen, Openings
    <3>3. failed \in SUBSET (IF MayHang THEN {Voice} ELSE {})
      BY <3>1, FailureMayBe
    <3> QED
      BY <3>1, <3>2, <3>3 DEF Gateway!Next, GatewayGoesOn
  <2> QED
    BY <1>1, <2>1 DEF WinOpen, GatewayGoesOn
<1>2. CASE WinAuthorize
  <2> DEFINE m == Head(toWin)
  <2>1. m.session \in Session /\ m.token \in Nat /\ m.action \in Action
    BY <1>2, HeadFacts DEF WinAuthorize, Authorizations
  <2>2. Gateway!Authorize(m.session, Voice, m.token, m.action) \/ UNCHANGED gatewayVars
    BY <1>2 DEF WinAuthorize
  <2> QED
    BY <1>0, <2>1, <2>2 DEF Gateway!Next, GatewayGoesOn
<1>3. CASE WinNeutralize
  <2> DEFINE m == Head(toWin)
  <2>1. m.session \in Session /\ m.token \in Nat
    BY <1>3, HeadFacts DEF WinNeutralize, Neutralizations
  <2>2. CASE Gateway!NeutralizeVerdict(m.session, Voice, m.token) = "accepted"
    <3>1. PICK failed \in SUBSET {Voice} :
            MayFail(failed) /\ Gateway!Neutralize(m.session, Voice, m.token, failed)
      BY <1>3, <2>2 DEF WinNeutralize
    <3>2. failed \in SUBSET (IF MayHang THEN {Voice} ELSE {})
      BY <3>1, FailureMayBe
    <3> QED
      BY <1>0, <2>1, <3>1, <3>2 DEF Gateway!Next, GatewayGoesOn
  <2> QED
    BY <1>3, <2>2 DEF WinNeutralize, GatewayGoesOn
<1>4. CASE WinData
  <2> DEFINE m == Head(toWin)
  <2>1. m.session \in Session /\ m.token \in Nat /\ m.action \in Action
    BY <1>4, HeadFacts DEF WinData, Speeches
  <2>2. CASE Gateway!ApplyEnvelope(m.session, Voice, m.token, m.action, 0, 1, now, now)
    BY <1>0, <2>1, <2>2 DEF Gateway!Next, GatewayGoesOn
  <2>3. CASE \E failed \in SUBSET {Voice} : CloseConnection(failed)
    BY <1>4, <2>3, ClosingGoesOn DEF WinData, Connection, GatewayGoesOn
  <2> QED
    BY <1>4, <2>2, <2>3 DEF WinData
<1>5. CASE WinPoll
  <2>1. PICK failed \in SUBSET {Voice} : MayFail(failed) /\ Gateway!PollExpired(now, failed)
    BY <1>5 DEF WinPoll
  <2>2. failed \in SUBSET (IF MayHang THEN {Voice} ELSE {})
    BY <2>1, FailureMayBe
  <2> QED
    BY <1>0, <2>1, <2>2 DEF Gateway!Next, GatewayGoesOn
<1>6. CASE WinEnds
  <2>1. CASE win = "serving" /\ \E failed \in SUBSET {Voice} : CloseConnection(failed)
    BY <2>1, ClosingGoesOn DEF Connection, GatewayGoesOn
  <2> QED
    BY <1>6, <2>1 DEF WinEnds, GatewayGoesOn
<1>7. CASE \E result \in {"completed", "failed", "cancelled"} : PlayerEnds(result)
  BY <1>7 DEF PlayerEnds, GatewayGoesOn
<1>8. CASE PlayerIdle
  BY <1>8 DEF PlayerIdle, GatewayGoesOn
<1>9. CASE Tick
  BY <1>9 DEF Tick, Gateway!Next, GatewayGoesOn
<1> QED
  BY <1>1, <1>2, <1>3, <1>4, <1>5, <1>6, <1>7, <1>8, <1>9 DEF WindowsStep

\* What happens on the Mac leaves the gateway alone.
LEMMA MacLeavesGateway ==
    ASSUME Next, ~WindowsStep
    PROVE  UNCHANGED gatewayVars
<1>1. ASSUME NEW a \in Action, Request(a)
      PROVE  UNCHANGED gatewayVars
  BY <1>1 DEF Request, windowsVars
<1>2. CASE Halt
  BY <1>2 DEF Halt, windowsVars
<1>3. CASE CallStep
  BY <1>3 DEF CallStep, CallRead, CallSend, CallTimeout, ReturnStart, ReturnStop,
              ReturnIdle, ReturnFinish, windowsVars
<1>4. ASSUME NEW a \in Action, ExecutorStep(a)
      PROVE  UNCHANGED gatewayVars
  BY <1>4 DEF ExecutorStep, Synthesize, MarkRunning, PlayRead, PlaySend, PlayWait,
              FinishHandle, windowsVars
<1>5. CASE BridgeStep
  BY <1>5 DEF BridgeStep, Connect, SendOpen, MacReceive, MacEnds, Break, windowsVars
<1> QED
  BY <1>1, <1>2, <1>3, <1>4, <1>5 DEF Next

\* The bridge's client calls the gateway only in the ways DeviceGateway describes,
\* whatever is on the wire: every step is one of its steps or leaves it alone
\* (windows_output_controller.py, windows_bridge_client.py).
THEOREM GatewayIsUsedAsSpecified == Spec => Gateway!Spec
<1>1. Init => Gateway!Init
  BY DEF Init
<1>2. ASSUME IInv, Next
      PROVE  GatewayGoesOn
  BY <1>2, WindowsUsesGateway, MacLeavesGateway DEF IInv, GatewayGoesOn
<1>3. UNCHANGED vars => UNCHANGED gatewayVars
  BY DEF vars, windowsVars
<1>4. IInv /\ [Next]_vars => [Gateway!Next]_(Gateway!vars)
  BY <1>2, <1>3 DEF GatewayGoesOn, gatewayVars, Gateway!vars
<1> QED
  BY <1>1, <1>4, InvHolds, PTL DEF Spec, Gateway!Spec

----------------------------------------------------------------------------
(***************************************************************************)
(* The supervisor implements NewestOwner although its methods wait for     *)
(* Windows half way.                                                       *)
(***************************************************************************)
Alive == {"preparing", "running", "stopping"}
Wanted == IF pending # None THEN pending ELSE owner

\* An action has its lease from the moment its start is begun; what owns the
\* voice is being started or runs, and nothing waits meanwhile; what was told to
\* stop owns nothing.
Turns ==
    /\ \A a \in Action :
         /\ state[a] \in {"new", "pending"} /\ owner # a => lease[a] = 0
         /\ state[a] \in Alive \/ owner = a => lease[a] # 0
         /\ a \in cancelled => state[a] \in Final \cup {"stopping"} /\ owner # a
    /\ current # None => state[current] \in Alive
    /\ pending # None => owner = None /\ current # None
    /\ owner # None /\ call = None => owner = current

\* The newest request is not spent, and owns the voice if anyone does.
Fresh ==
    /\ Wanted # None => Wanted \in Action \ Spent
    /\ owner # None => Wanted = owner

TurnInv == IInv /\ Turns

\* What one step may do to the voice, in the terms of NewestOwner,
Moves ==
    \/ Wanted' = Wanted /\ owner' = owner
    \/ /\ Wanted' \in Action \ Spent /\ Wanted' # Wanted
       /\ owner' = None \/ (owner = None /\ owner' = Wanted')
    \/ Wanted # None /\ Wanted' = Wanted /\ owner = None /\ owner' = Wanted
    \/ Wanted' = None /\ owner' = None

\* and to one action: it ends for good and keeps the lease it has; it gets one
\* only as the owner, and ends only as the newest request or when it is spent.
Follows(a) ==
    /\ state[a] \in Final => state'[a] \in Final
    /\ lease[a] # 0 => lease'[a] # 0
    /\ lease[a] = 0 /\ lease'[a] # 0 => owner' = a
    /\ state[a] \notin Final /\ state'[a] \in Final => Wanted = a \/ a \in Spent

Tracks ==
    /\ Moves
    /\ pending # None => Wanted' = pending \/ state'[pending] \in Final
    /\ \A a \in Action : Follows(a)
    /\ cancelled \subseteq cancelled'

\* What is wanted is fresh, and what was told to stop is spent.
LEMMA TurnIsFresh == TurnInv => Fresh /\ cancelled \subseteq Spent
<1> SUFFICES ASSUME TurnInv PROVE Fresh /\ cancelled \subseteq Spent
  OBVIOUS
<1>0. SupervisorTypes /\ Supervisor /\ CallMeans /\ Turns
  BY TypesAre DEF TurnInv, IInv
<1>1. ASSUME pending # None PROVE Fresh
  <2>1. /\ Wanted = pending /\ pending \in Action /\ state[pending] = "pending"
        /\ owner = None
    BY <1>0, <1>1 DEF Wanted, SupervisorTypes, Supervisor, Turns
  <2>2. lease[pending] = 0
    BY <1>0, <1>1, <2>1 DEF Turns
  <2> QED
    BY <2>1, <2>2 DEF Fresh, Spent, Final
<1>2. ASSUME pending = None PROVE Fresh
  <2>1. Wanted = owner /\ owner \in Action \cup {None}
    BY <1>0, <1>2 DEF Wanted, SupervisorTypes
  <2>2. owner # None => state[owner] \notin Final
    <3>1. CASE owner # None /\ call = None
      BY <1>0, <3>1 DEF Turns, Alive, Final
    <3>2. CASE owner # None /\ call # None
      BY <1>0, <3>2 DEF CallMeans, Final
    <3> QED
      BY <3>1, <3>2
  <2> QED
    BY <2>1, <2>2 DEF Fresh, Spent
<1>3. cancelled \subseteq Spent
  <2> SUFFICES ASSUME NEW a \in cancelled PROVE a \in Spent
    OBVIOUS
  <2>1. a \in Action /\ state[a] \in Final \cup {"stopping"} /\ owner # a
    BY <1>0 DEF SupervisorTypes, Turns
  <2>2. state[a] = "stopping" => lease[a] # 0
    BY <1>0, <2>1 DEF Turns, Alive
  <2> QED
    BY <2>1, <2>2 DEF Spent
<1> QED
  BY <1>1, <1>2, <1>3

\* A step that tracks NewestOwner takes one of its steps.
LEMMA TracksIsNext ==
    ASSUME TurnInv, TurnInv', Fresh, Fresh', cancelled' \subseteq Spent', Tracks
    PROVE  Newest!Next
<1> DEFINE replaced == {Wanted} \ {Wanted', None}
           refused == Spent' \ (Spent \cup replaced)
<1>0. SupervisorTypes /\ Turns /\ Turns' /\ Spent \subseteq Action /\ None \notin Action
  BY TypesAre, NoneIsNone DEF TurnInv, IInv, Spent
<1>1. Spent \subseteq Spent'
  <2> SUFFICES ASSUME NEW a \in Spent PROVE a \in Spent'
    OBVIOUS
  <2>1. a \in Action /\ Follows(a) /\ a # None
    BY <1>0 DEF Tracks
  <2>2. CASE state[a] \in Final
    BY <2>1, <2>2 DEF Follows, Spent
  <2>3. CASE lease[a] # 0 /\ owner # a
    <3>1. owner' # a
      BY <2>1, <2>3 DEF Tracks, Moves, Fresh
    <3> QED
      BY <2>1, <2>3, <3>1 DEF Follows, Spent
  <2> QED
    BY <2>2, <2>3 DEF Spent
<1>2. replaced \subseteq Spent'
  <2> SUFFICES ASSUME Wanted' # Wanted, Wanted # None PROVE Wanted \in Spent'
    OBVIOUS
  <2>1. Wanted \in Action
    BY DEF Fresh
  <2>2. CASE pending # None
    <3>1. Wanted = pending /\ state'[pending] \in Final
      BY <2>2 DEF Wanted, Tracks
    <3> QED
      BY <2>1, <3>1 DEF Spent
  <2>3. CASE pending = None
    <3>1. Wanted = owner /\ owner' = None
      BY <2>3 DEF Wanted, Tracks, Moves
    <3>2. lease'[Wanted] # 0
      BY <1>0, <2>1, <3>1 DEF Turns, Tracks, Follows
    <3> QED
      BY <1>0, <2>1, <3>1, <3>2 DEF Spent
  <2> QED
    BY <2>2, <2>3
<1>3. refused = {}
  <2> SUFFICES ASSUME NEW a \in Spent', a \notin Spent PROVE a \in replaced
    OBVIOUS
  <2>1. a \in Action /\ Follows(a) /\ a # None
    BY <1>0 DEF Tracks, Spent
  <2>2. Wanted' # a
    BY <2>1 DEF Fresh
  <2>3. CASE owner = a
    BY <2>1, <2>2, <2>3 DEF Fresh
  <2>4. CASE owner # a
    <3>1. lease[a] = 0 /\ state[a] \notin Final
      BY <2>1, <2>4 DEF Spent
    <3>2. state'[a] \in Final
      BY <2>1, <3>1 DEF Spent, Follows
    <3> QED
      BY <2>1, <2>2, <3>1, <3>2 DEF Follows
  <2> QED
    BY <2>3, <2>4
<1>4. Newest!Replaced = replaced
  BY DEF Newest!Replaced, Wanted
<1>5. Spent' = Spent \cup Newest!Replaced \cup {}
  BY <1>1, <1>2, <1>3, <1>4
<1>6. \A r \in {Voice} : \/ Newest!Keeps(r) \/ Newest!Asks(r)
                         \/ Newest!Takes(r) \/ Newest!Yields(r)
  BY DEF Tracks, Moves, Wanted, Newest!Keeps, Newest!Asks, Newest!Takes, Newest!Yields
<1>7. {} \in SUBSET Newest!Refusable /\ cancelled \subseteq cancelled'
  BY DEF Tracks
<1> QED
  BY <1>5, <1>6, <1>7 DEF Newest!Next

\* A step that decides nothing changes nobody's turn.
LEMMA RestTracks ==
    ASSUME TurnInv, UNCHANGED <<owner, current, pending, lease, cancelled>>,
           call' = None => call = None,
           \/ UNCHANGED state
           \/ \E a \in Action : state[a] = "preparing" /\ state' = [state EXCEPT ![a] = "running"]
    PROVE  Turns' /\ Tracks
<1>0. SupervisorTypes /\ Turns
  BY TypesAre DEF TurnInv, IInv
<1>1. \A a \in Action : state'[a] = state[a] \/ (state[a] = "preparing" /\ state'[a] = "running")
  BY <1>0 DEF SupervisorTypes
<1>2. Turns'
  BY <1>0, <1>1 DEF Turns, SupervisorTypes, Alive, Final
<1>3. Wanted' = Wanted /\ (pending # None => Wanted = pending)
  BY DEF Wanted
<1>4. \A a \in Action : Follows(a)
  BY <1>1 DEF Follows, Final
<1> QED
  BY <1>2, <1>3, <1>4 DEF Tracks, Moves

\* Nothing is wanted while nothing runs and no call is under way.
LEMMA IdleIsUnwanted ==
    ASSUME TurnInv, call = None, current = None
    PROVE  owner = None /\ pending = None /\ Wanted = None
  BY DEF TurnInv, IInv, Supervisor, Turns, Wanted

\* A new action takes its turn at once,
LEMMA TakesInTracks ==
    ASSUME TurnInv, NEW a \in Action, TakesIn(a)
    PROVE  Turns' /\ Tracks
<1>0. SupervisorTypes /\ Turns /\ None \notin Action
  BY TypesAre, NoneIsNone DEF TurnInv, IInv
<1>1. /\ call = None /\ current = None /\ state[a] = "new" /\ call' # None
      /\ UNCHANGED <<current, pending, state, cancelled>>
      /\ owner' = a /\ lease' = [lease EXCEPT ![a] = token + 1]
  BY DEF TakesIn, Launches
<1>2. owner = None /\ pending = None /\ Wanted = None
  BY <1>1, IdleIsUnwanted
<1>3. \A b \in Action : lease'[b] = IF b = a THEN token + 1 ELSE lease[b]
  BY <1>0, <1>1 DEF SupervisorTypes
<1>4. token + 1 # 0
  BY <1>0 DEF SupervisorTypes
<1>5. a \notin Spent /\ a \notin cancelled /\ lease[a] = 0
  BY <1>0, <1>1, <1>2 DEF Turns, Spent, Final
<1>6. Turns'
  BY <1>0, <1>1, <1>2, <1>3, <1>4, <1>5 DEF Turns, Alive
<1>7. Moves
  BY <1>0, <1>1, <1>2, <1>5 DEF Moves, Wanted
<1>8. \A b \in Action : Follows(b)
  BY <1>0, <1>1, <1>3, <1>4, <1>5 DEF Follows
<1> QED
  BY <1>1, <1>2, <1>6, <1>7, <1>8 DEF Tracks

\* or waits in place of the one that waited.
LEMMA WaitsTracks ==
    ASSUME TurnInv, NEW a \in Action, Waits(a)
    PROVE  Turns' /\ Tracks
<1>0. SupervisorTypes /\ Turns /\ Supervisor /\ None \notin Action
  BY TypesAre, NoneIsNone DEF TurnInv, IInv
<1>1. /\ call = None /\ current # None /\ state[a] = "new" /\ pending' = a
      /\ \A b \in Action : state'[b] = IF b = a THEN "pending"
                                       ELSE IF b = pending THEN "cancelled" ELSE state[b]
      /\ UNCHANGED <<current, cancelled, lease>>
  BY DEF Waits, FenceCalls
<1>2. owner' = None
  <2>1. CASE CurrentRuns /\ token' = token + 1 /\ FenceCalls("stop")
    BY <2>1 DEF FenceCalls
  <2>2. CASE ~CurrentRuns /\ UNCHANGED <<token, owner, call, lease>>
    BY <1>0, <1>1, <2>2 DEF Supervisor
  <2> QED
    BY <2>1, <2>2 DEF Waits
<1>3. /\ pending # None => state[pending] = "pending" /\ pending \in Action
      /\ current \in Action /\ state[current] \in Alive
      /\ owner # None => owner = current
  BY <1>0, <1>1 DEF Supervisor, SupervisorTypes, Turns
<1>4. Wanted # a /\ owner # a /\ a # pending /\ a # current /\ current # pending
  BY <1>0, <1>1, <1>3 DEF Wanted, Alive
<1>5. a \notin Spent /\ lease[a] = 0 /\ a \notin cancelled
  BY <1>0, <1>1, <1>4 DEF Turns, Spent, Final
<1>6. Turns'
  <2>1. ASSUME NEW b \in Action
        PROVE  /\ state'[b] \in {"new", "pending"} => lease[b] = 0
               /\ state'[b] \in Alive => lease[b] # 0
               /\ b \in cancelled => state'[b] \in Final \cup {"stopping"}
    <3>1. CASE b = a
      BY <1>1, <1>5, <3>1 DEF Alive
    <3>2. CASE b # a /\ b = pending
      BY <1>1, <3>2 DEF Alive, Final
    <3>3. CASE b # a /\ b # pending
      BY <1>0, <1>1, <1>3, <3>3 DEF Turns, Alive
    <3> QED
      BY <3>1, <3>2, <3>3
  <2>2. state'[current] = state[current]
    BY <1>1, <1>3, <1>4
  <2> QED
    BY <1>0, <1>1, <1>2, <1>3, <2>1, <2>2 DEF Turns
<1>7. Moves
  BY <1>0, <1>1, <1>2, <1>4, <1>5 DEF Moves, Wanted
<1>8. pending # None => state'[pending] \in Final
  BY <1>1, <1>3, <1>4 DEF Final
<1>9. \A b \in Action : Follows(b)
  BY <1>0, <1>1, <1>3, <1>5 DEF Follows, Wanted, Final
<1> QED
  BY <1>1, <1>6, <1>7, <1>8, <1>9 DEF Tracks

\* A halt leaves nothing wanted.
LEMMA HaltsTracks ==
    ASSUME TurnInv, Halts
    PROVE  Turns' /\ Tracks
<1>0. SupervisorTypes /\ Turns /\ Supervisor /\ None \notin Action
  BY TypesAre, NoneIsNone DEF TurnInv, IInv
<1>1. /\ call = None /\ pending' = None
      /\ \A b \in Action : state'[b] = IF b = pending THEN "cancelled" ELSE state[b]
      /\ UNCHANGED <<current, cancelled, lease>>
  BY DEF Halts, FenceCalls
<1>2. owner' = None
  <2>1. ~CurrentRuns => owner = None
    BY <1>0, <1>1 DEF Supervisor
  <2> QED
    BY <2>1 DEF Halts, FenceCalls
<1>3. /\ pending # None => state[pending] = "pending" /\ pending \in Action
      /\ owner # None => owner = current
  BY <1>0, <1>1 DEF Supervisor, SupervisorTypes, Turns
<1>4. current # None => state'[current] = state[current]
  BY <1>0, <1>1, <1>3 DEF Turns, Alive, SupervisorTypes
<1>5. \A b \in Action : state[b] \in {"new", "pending"} => lease[b] = 0
  BY <1>0, <1>3 DEF Turns, Alive
<1>6. Turns'
  BY <1>0, <1>1, <1>2, <1>3, <1>4, <1>5 DEF Turns, Alive, Final
<1>7. Moves /\ (pending # None => state'[pending] \in Final)
  BY <1>1, <1>2, <1>3 DEF Moves, Wanted, Final
<1>8. \A b \in Action : Follows(b)
  BY <1>0, <1>1, <1>3 DEF Follows, Wanted, Final
<1> QED
  BY <1>1, <1>6, <1>7, <1>8 DEF Tracks

\* An action is told to stop when its fence is back.
LEMMA StopTracks ==
    ASSUME TurnInv, ComesToStop
    PROVE  Turns' /\ Tracks
<1>0. SupervisorTypes /\ Turns /\ CallMeans
  BY TypesAre DEF TurnInv, IInv
<1>1. /\ current # None /\ owner = None /\ current \in Action
      /\ state' = [state EXCEPT ![current] = "stopping"]
      /\ cancelled' = cancelled \cup {current}
      /\ UNCHANGED <<owner, current, pending, lease>>
  BY <1>0 DEF ComesToStop, Returned, CallMeans, SupervisorTypes
<1>2. \A b \in Action : state'[b] = IF b = current THEN "stopping" ELSE state[b]
  BY <1>0, <1>1 DEF SupervisorTypes
<1>3. Turns'
  BY <1>0, <1>1, <1>2 DEF Turns, Alive
<1>4. Moves /\ (pending # None => Wanted' = pending)
  BY <1>1 DEF Moves, Wanted
<1>5. \A b \in Action : Follows(b)
  BY <1>0, <1>1, <1>2 DEF Follows, Turns, Alive, Final
<1> QED
  BY <1>1, <1>3, <1>4, <1>5 DEF Tracks

\* A start that succeeds leaves the voice with whom it was begun for;
LEMMA SucceedsTracks ==
    ASSUME TurnInv, Succeeds
    PROVE  Turns' /\ Tracks
<1>0. SupervisorTypes /\ Turns /\ CallMeans
  BY TypesAre DEF TurnInv, IInv
<1> DEFINE a == call.action
<1>1. /\ call # None /\ call.then = "start"
      /\ current' = a /\ state' = [state EXCEPT ![a] = "preparing"]
      /\ UNCHANGED <<owner, pending, lease, cancelled>>
  BY DEF Succeeds
<1>2. /\ a \in Action /\ a # None /\ current = None /\ owner = a
      /\ state[a] \in {"new", "pending"}
  BY <1>0, <1>1 DEF CallMeans, SupervisorTypes, Calls
<1> HIDE DEF a
<1>3. pending = None
  BY <1>0, <1>2 DEF Turns
<1>4. \A b \in Action : state'[b] = IF b = a THEN "preparing" ELSE state[b]
  BY <1>0, <1>1, <1>2 DEF SupervisorTypes
<1>5. Turns'
  BY <1>0, <1>1, <1>2, <1>3, <1>4 DEF Turns, Alive, Final
<1>6. Moves
  BY <1>1 DEF Moves, Wanted
<1>7. \A b \in Action : Follows(b)
  BY <1>1, <1>2, <1>4 DEF Follows, Final
<1> QED
  BY <1>1, <1>3, <1>5, <1>6, <1>7 DEF Tracks

\* one that fails leaves it with nobody.
LEMMA FailsTracks ==
    ASSUME TurnInv, Fails
    PROVE  Turns' /\ Tracks
<1>0. SupervisorTypes /\ Turns /\ CallMeans /\ None \notin Action
  BY TypesAre, NoneIsNone DEF TurnInv, IInv
<1> DEFINE a == call.action
<1>1. /\ call # None /\ call.then = "start" /\ owner' = None
      /\ state' = [state EXCEPT ![a] = "failed"]
      /\ UNCHANGED <<current, pending, lease, cancelled>>
  BY DEF Fails, FenceCalls
<1>2. /\ a \in Action /\ a # None /\ current = None /\ owner = a
      /\ state[a] \in {"new", "pending"}
  BY <1>0, <1>1 DEF CallMeans, SupervisorTypes, Calls
<1> HIDE DEF a
<1>3. pending = None
  BY <1>0, <1>2 DEF Turns
<1>4. \A b \in Action : state'[b] = IF b = a THEN "failed" ELSE state[b]
  BY <1>0, <1>1, <1>2 DEF SupervisorTypes
<1>5. Turns'
  BY <1>0, <1>1, <1>2, <1>3, <1>4 DEF Turns, Alive, Final
<1>6. Moves
  BY <1>1, <1>3 DEF Moves, Wanted
<1>7. \A b \in Action : Follows(b)
  BY <1>1, <1>2, <1>3, <1>4 DEF Follows, Wanted, Final
<1> QED
  BY <1>1, <1>3, <1>5, <1>6, <1>7 DEF Tracks

\* When an action ends, the voice is free already and passes to who waits.
LEMMA EndsTracks ==
    ASSUME TurnInv, Ends
    PROVE  Turns' /\ Tracks
<1>0. SupervisorTypes /\ Turns /\ Supervisor /\ CallMeans /\ None \notin Action
  BY TypesAre, NoneIsNone DEF TurnInv, IInv
<1>1. /\ current \in Action /\ state[current] \in Alive
      /\ state' = [state EXCEPT ![current] = Outcome(current)]
      /\ current' = None /\ pending' = None /\ cancelled' = cancelled
  BY <1>0 DEF Ends, Turns, SupervisorTypes
<1>2. Outcome(current) \in Final
  BY DEF Outcome, Final
<1>3. \A b \in Action : state'[b] = IF b = current THEN Outcome(current) ELSE state[b]
  BY <1>0, <1>1 DEF SupervisorTypes
<1>4. owner = None
  BY <1>0 DEF Ends, Returned, CallMeans, Supervisor
<1>5. current \in Spent
  BY <1>0, <1>1, <1>4 DEF Turns, Spent
<1>6. CASE pending = None
  <2>1. UNCHANGED <<owner, lease>>
    BY <1>6 DEF Ends
  <2>2. Turns'
    BY <1>0, <1>1, <1>2, <1>3, <1>4, <1>6, <2>1 DEF Turns, Alive, Final
  <2>3. Moves
    BY <1>1, <1>4, <2>1 DEF Moves, Wanted
  <2>4. \A b \in Action : Follows(b)
    BY <1>2, <1>3, <1>5, <2>1, <1>1 DEF Follows, Alive, Final
  <2> QED
    BY <1>1, <1>6, <2>2, <2>3, <2>4 DEF Tracks
<1>7. CASE pending # None
  <2>1. /\ owner' = pending /\ lease' = [lease EXCEPT ![pending] = token + 1] /\ call' # None
        /\ pending \in Action /\ state[pending] = "pending"
    BY <1>0, <1>7 DEF Ends, Launches, Supervisor, SupervisorTypes
  <2>2. \A b \in Action : lease'[b] = IF b = pending THEN token + 1 ELSE lease[b]
    BY <1>0, <2>1 DEF SupervisorTypes
  <2>3. token + 1 # 0 /\ pending # current /\ pending \notin cancelled /\ lease[pending] = 0
    BY <1>0, <1>1, <1>4, <2>1 DEF SupervisorTypes, Turns, Alive, Final
  <2>4. Turns'
    <3>1. ASSUME NEW b \in Action
          PROVE  /\ state'[b] \in {"new", "pending"} /\ owner' # b => lease'[b] = 0
                 /\ state'[b] \in Alive \/ owner' = b => lease'[b] # 0
                 /\ b \in cancelled => state'[b] \in Final \cup {"stopping"} /\ owner' # b
      <4>1. CASE b = current
        BY <1>1, <1>2, <1>3, <2>1, <2>3, <4>1 DEF Alive, Final
      <4>2. CASE b # current /\ b = pending
        BY <2>1, <2>2, <2>3, <4>2
      <4>3. CASE b # current /\ b # pending
        BY <1>0, <1>3, <1>4, <2>1, <2>2, <4>3 DEF Turns
      <4> QED
        BY <4>1, <4>2, <4>3
    <3> QED
      BY <1>1, <2>1, <3>1 DEF Turns
  <2>5. Moves /\ Wanted' = pending
    BY <1>1, <1>4, <1>7, <2>1 DEF Moves, Wanted
  <2>6. \A b \in Action : Follows(b)
    BY <1>1, <1>2, <1>3, <1>5, <2>1, <2>2, <2>3 DEF Follows, Alive, Final
  <2> QED
    BY <1>1, <2>4, <2>5, <2>6 DEF Tracks
<1> QED
  BY <1>6, <1>7

\* An executor that is done loses the voice before its action ends.
LEMMA FinishesTracks ==
    ASSUME TurnInv, Finishes
    PROVE  Turns' /\ Tracks
<1>0. SupervisorTypes /\ Turns /\ Supervisor /\ None \notin Action
  BY TypesAre, NoneIsNone DEF TurnInv, IInv
<1>1. /\ call = None /\ call' # None /\ owner' = None /\ current # None
      /\ UNCHANGED <<current, pending, state, lease, cancelled>>
  BY DEF Finishes, FenceCalls
<1>2. \A b \in Action : state[b] \in {"new", "pending"} => lease[b] = 0
  BY <1>0, <1>1 DEF Turns, Alive
<1>3. Turns'
  BY <1>0, <1>1, <1>2 DEF Turns, Alive
<1>4. Moves /\ (pending # None => Wanted' = pending)
  BY <1>0, <1>1 DEF Moves, Wanted, Turns
<1>5. \A b \in Action : Follows(b)
  BY <1>1 DEF Follows
<1> QED
  BY <1>1, <1>3, <1>4, <1>5 DEF Tracks

\* Every step of the program tracks NewestOwner.
LEMMA NextTracks ==
    ASSUME TurnInv, [Next]_vars
    PROVE  Turns' /\ Tracks
<1>0. /\ Types /\ Supervisor /\ CallMeans /\ Connection
  BY DEF TurnInv, IInv
<1>1. Decides \/ Reads \/ Sends \/ TimesOut \/ SpeechMoves \/ BridgeMoves \/ WindowsMoves
  BY <1>0, StepActs, Stutters
<1>g. ASSUME UNCHANGED <<owner, current, pending, state, lease, cancelled>>, call' = None => call = None
      PROVE  Turns' /\ Tracks
  BY <1>g, RestTracks
<1>2. CASE Decides
  <2>1. CASE ComesToNothing
    <3>1. /\ UNCHANGED <<owner, current, pending, state, lease, cancelled>>
          /\ owner = None
      BY <1>0, <2>1 DEF ComesToNothing, Returned, CallMeans
    <3>2. Turns'
      BY <3>1 DEF TurnInv, Turns, Alive
    <3>3. Tracks
      BY <3>1 DEF Tracks, Moves, Follows, Wanted
    <3> QED
      BY <3>2, <3>3
  <2> QED
    BY <1>2, <2>1, TakesInTracks, WaitsTracks, HaltsTracks, StopTracks, SucceedsTracks,
       FailsTracks, EndsTracks, FinishesTracks DEF Decides
<1>3. CASE Reads \/ Sends \/ TimesOut
  <2>1. GoesOn
    BY <1>3 DEF Reads, Sends, TimesOut
  <2> QED
    BY <1>g, <2>1 DEF GoesOn, SameCall
<1>4. ASSUME NEW a \in Action, Executes(a)
      PROVE  Turns' /\ Tracks
  BY <1>4, RestTracks DEF Executes
<1>5. CASE BridgeMoves
  <2>1. CASE Receives
    <3>1. UNCHANGED call \/ GoesOn
      BY <2>1 DEF Receives, Answered
    <3> QED
      BY <1>g, <2>1, <3>1 DEF Receives, GoesOn, SameCall
  <2>2. CASE Gives
    BY <1>g, <2>2 DEF Gives, GoesOn, SameCall
  <2>3. CASE (\E s \in Session : Connects(s)) \/ SendsOpen \/ Break
    BY <1>g, <2>3 DEF Connects, SendsOpen, Break, supervisorVars
  <2> QED
    BY <1>5, <2>1, <2>2, <2>3 DEF BridgeMoves
<1>6. CASE WindowsMoves
  BY <1>g, <1>6 DEF WindowsMoves, Elsewhere, supervisorVars
<1> QED
  BY <1>1, <1>2, <1>3, <1>4, <1>5, <1>6 DEF SpeechMoves

\* The turns hold throughout.
THEOREM TurnsHold == Spec => []TurnInv
<1>1. Init => TurnInv
  BY InitInv, NoneIsNone DEF Init, TurnInv, Turns, Alive
<1>2. TurnInv /\ [Next]_vars => TurnInv'
  <2>1. TurnInv /\ [Next]_vars => IInv'
    BY StepInv DEF TurnInv
  <2>2. TurnInv /\ [Next]_vars => Turns'
    BY NextTracks
  <2> QED
    BY <2>1, <2>2 DEF TurnInv
<1> QED
  BY <1>1, <1>2, PTL DEF Spec

\* With the calls to Windows taking their time, with lost and late answers and
\* lost connections, the voice is still owned by the newest request at most, one
\* after the other; whoever is replaced, halted, ended or refused never has it
\* again, and is told to stop only then (character_supervisor.py:297-451).
THEOREM VoiceOwnerImplemented == Spec => VoiceHasOneOwner
<1>1. Init => Newest!Init
  BY DEF Init, Newest!Init, Spent, Final
<1>2. TurnInv => Fresh /\ cancelled \subseteq Spent
  BY TurnIsFresh
<1>3. TurnInv /\ TurnInv' /\ Fresh /\ (Fresh /\ cancelled \subseteq Spent)' /\ [Next]_vars
        => [Newest!Next]_(Newest!vars)
  <2>1. ASSUME TurnInv, TurnInv', Fresh, Fresh', cancelled' \subseteq Spent', [Next]_vars
        PROVE  Newest!Next
    BY <2>1, NextTracks, TracksIsNext
  <2> QED
    BY <2>1
<1> QED
  BY <1>1, <1>2, <1>3, TurnsHold, PTL DEF Spec, VoiceHasOneOwner, Newest!Spec
=============================================================================
