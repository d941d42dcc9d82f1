------------------------------ MODULE VoiceBridge ------------------------------
(***************************************************************************)
(* One spoken action from the agent's supervisor to the Windows speaker    *)
(* and back, with everything that runs at the same time:                   *)
(*   - the threads that request and halt; a method of CharacterSupervisor  *)
(*     keeps the condition while its output call waits for Windows;        *)
(*   - one SpeechExecutor thread per started action, which reads its       *)
(*     cancel event and the output session without that condition;         *)
(*   - MacBridgeServer's connection thread, the only one that delivers     *)
(*     answers to MacOutputTransport;                                      *)
(*   - the wire, which is FIFO and may break, losing what is on it;        *)
(*   - WindowsBridgeClient's thread with its output controller and the     *)
(*     gateway, and the wave player's own thread.                          *)
(* The gateway is DeviceGateway itself.  Only the voice is modelled: pose  *)
(* frames take the same path without an answer.                            *)
(***************************************************************************)
EXTENDS Integers, Sequences, FiniteSets

CONSTANTS
    Action,     \* say actions; each is requested once
    Session,    \* session ids; each connection takes a new one
    None,       \* Python's None
    MayHang,    \* whether the wave player may fail to stop in time
    MaxHalts,   \* bound on the halts
    Horizon     \* bound on the Windows clock

VARIABLES
    \* CharacterSupervisor and ControlResourceManager, for the voice
    token, owner, current, pending, state, lease, cancelled,
    call,       \* the output call the holder of the condition is in, or None
    \* SpeechExecutor threads, with play_wav's locals
    pc, playSession, heard,
    \* MacOutputTransport and MacBridgeServer
    macSession, macPhase, used,
    \* the connection
    link, toWin, toMac,
    \* WindowsBridgeClient and WaveAudioPlayer
    win, player,
    \* DeviceGateway
    session, exclusive, resources, device, now, opened, revoked,
    \* history
    halts,      \* the halts so far
    quiet,      \* the actions whose fence Windows acknowledged
    played      \* the actions whose speech was played to its end

supervisorVars == <<token, owner, current, pending, state, lease, cancelled, call>>
executorVars == <<pc, playSession, heard>>
macVars == <<macSession, macPhase, used>>
wireVars == <<link, toWin, toMac>>
gatewayVars == <<session, exclusive, resources, device, now, opened, revoked>>
windowsVars == <<win, player, gatewayVars>>
historyVars == <<halts, quiet, played>>

vars == <<supervisorVars, executorVars, macVars, wireVars, windowsVars, historyVars>>

Voice == "voice"

Gateway == INSTANCE DeviceGateway WITH
    Resource <- {Voice}, Faulty <- IF MayHang THEN {Voice} ELSE {},
    Token <- Nat, Sequence <- {0}, TTL <- {1}

----------------------------------------------------------------------------
\* The messages of stream_protocol.py that carry the voice
Openings == [kind : {"open"}, session : Session]
Authorizations ==
    [kind : {"authorize"}, id : Nat, session : Session, token : Nat, action : Action]
Neutralizations == [kind : {"neutralize"}, id : Nat, session : Session, token : Nat]
Speeches == [kind : {"data"}, session : Session, token : Nat, action : Action]
Acknowledgements == [kind : {"ack"}, id : Nat, accepted : BOOLEAN]
Completions ==
    [kind : {"completed"}, session : Session, token : Nat, action : Action,
     state : {"completed", "failed", "cancelled"}]

\* An output call, and what the player plays
Calls ==
    [kind : {"authorize", "neutralize"}, token : Nat, action : Action \cup {None},
     then : {"start", "stop", "idle", "finish"},
     stage : {"read", "send", "wait", "ok", "failed"},
     session : Session \cup {None}, id : Nat]
Playbacks == [phase : {"playing", "ending"}, stop : BOOLEAN, lease : Gateway!Lease]

\* None of the code's values is None.
ASSUME VoiceAssumption ==
    /\ MayHang \in BOOLEAN
    /\ {MaxHalts, Horizon} \subseteq Nat
    /\ None \notin Action \cup Session \cup Int
    /\ None \notin Calls \cup Playbacks
    /\ None \notin {"completed", "failed", "cancelled", "error"}
    /\ None \notin Gateway!Lease \cup Gateway!Frame

OpenMessage(s) == [kind |-> "open", session |-> s]
AuthorizeMessage(c) ==
    [kind |-> "authorize", id |-> c.id, session |-> c.session,
     token |-> c.token, action |-> c.action]
NeutralizeMessage(c) ==
    [kind |-> "neutralize", id |-> c.id, session |-> c.session, token |-> c.token]
DataMessage(s, a) ==
    [kind |-> "data", session |-> s, token |-> lease[a], action |-> a]
AckMessage(m, ok) == [kind |-> "ack", id |-> m.id, accepted |-> ok]
CompletedMessage(l, result) ==
    [kind |-> "completed", session |-> l.session, token |-> l.token,
     action |-> l.action, state |-> result]

\* A message id no message in flight carries, as good as a fresh uuid
FreshId ==
    LET inFlight == {toWin[i].id : i \in {j \in DOMAIN toWin : toWin[j].kind \in {"authorize", "neutralize"}}}
                    \cup {toMac[i].id : i \in {j \in DOMAIN toMac : toMac[j].kind = "ack"}}
    IN  CHOOSE n \in 0..Cardinality(inFlight) : n \notin inFlight

\* Sending m on a connection that is up queues it; on one that is going down
\* it is lost, and the sender may or may not be told.
SendToWin(m) == toWin' = IF link = "up" THEN Append(toWin, m) ELSE toWin
SendToMac(ms) == toMac' = IF link = "up" THEN toMac \o ms ELSE toMac

----------------------------------------------------------------------------
(***************************************************************************)
(* MacOutputTransport._send_control, called with the condition held.  then *)
(* names what the supervisor does when the call returns.                   *)
(***************************************************************************)
Call(kind, t, a, then) ==
    [kind |-> kind, token |-> t, action |-> a, then |-> then,
     stage |-> "read", session |-> None, id |-> 0]

\* A call that returned leaves its outcome only.
Ended(c, outcome) == [c EXCEPT !.stage = outcome, !.session = None, !.id = 0]

NeutralizeCall(t, then) == Call("neutralize", t, None, then)

\* authorize and neutralize read the session id first
CallRead ==
    /\ call # None /\ call.stage = "read"
    /\ call' = IF macSession = None THEN Ended(call, "failed")
               ELSE [call EXCEPT !.stage = "send", !.session = macSession]
    /\ UNCHANGED <<token, owner, current, pending, state, lease, cancelled>>
    /\ UNCHANGED <<executorVars, macVars, wireVars, windowsVars, historyVars>>

\* and then send through whatever connection is current
CallSend ==
    /\ call # None /\ call.stage = "send"
    /\ LET c == [call EXCEPT !.stage = "wait", !.id = FreshId] IN
         IF macSession = None
         THEN /\ call' = Ended(call, "failed")
              /\ UNCHANGED toWin
         ELSE /\ \/ call' = c
                 \/ link = "down" /\ call' = Ended(call, "failed")
              /\ SendToWin(IF c.kind = "authorize" THEN AuthorizeMessage(c)
                                                   ELSE NeutralizeMessage(c))
    /\ UNCHANGED <<token, owner, current, pending, state, lease, cancelled, link, toMac>>
    /\ UNCHANGED <<executorVars, macVars, windowsVars, historyVars>>

\* Faulty variants of the definitions, each ahead of the one it would replace,
\* are named after it: a run that fails with one shows what its property is for.

CallTimeout ==
    /\ call # None /\ call.stage = "wait"
    /\ call' = Ended(call, "failed")
    /\ UNCHANGED <<token, owner, current, pending, state, lease, cancelled>>
    /\ UNCHANGED <<executorVars, macVars, wireVars, windowsVars, historyVars>>

----------------------------------------------------------------------------
\* _start_locked up to its output call
BeginStart(a, t) ==
    /\ token' = t + 1
    /\ owner' = a
    /\ lease' = [lease EXCEPT ![a] = t + 1]
    /\ call' = Call("authorize", t + 1, a, "start")

\* _cancel_current_locked up to its output call
BeginCancel ==
    /\ token' = token + 1
    /\ owner' = None
    /\ call' = NeutralizeCall(token + 1, "stop")
    /\ UNCHANGED lease

CurrentRuns == current # None /\ state[current] # "stopping"

\* apply_bundle with one say action
Request(a) ==
    /\ call = None
    /\ state[a] = "new"
    /\ IF current = None
       THEN /\ BeginStart(a, token)
            /\ UNCHANGED <<pending, state>>
       ELSE /\ pending' = a
            /\ state' = [b \in Action |-> IF b = a THEN "pending"
                                          ELSE IF b = pending THEN "cancelled"
                                          ELSE state[b]]
            /\ \/ CurrentRuns /\ BeginCancel
               \/ ~CurrentRuns /\ UNCHANGED <<token, owner, lease, call>>
    /\ UNCHANGED <<current, cancelled>>
    /\ UNCHANGED <<executorVars, macVars, wireVars, windowsVars, historyVars>>

\* halt_all
Halt ==
    /\ call = None
    /\ halts < MaxHalts
    /\ halts' = halts + 1
    /\ pending' = None
    /\ state' = [b \in Action |-> IF b = pending THEN "cancelled" ELSE state[b]]
    /\ \/ CurrentRuns /\ BeginCancel
       \/ /\ current = None
          /\ call' = NeutralizeCall(token, "idle")
          /\ UNCHANGED <<token, owner, lease>>
       \/ /\ current # None /\ ~CurrentRuns
          /\ UNCHANGED <<token, owner, lease, call>>
    /\ UNCHANGED <<current, cancelled, quiet, played>>
    /\ UNCHANGED <<executorVars, macVars, wireVars, windowsVars>>

----------------------------------------------------------------------------
\* The rest of _cancel_current_locked: only now does the executor see it
ReturnStop ==
    /\ call # None /\ call.stage \in {"ok", "failed"} /\ call.then = "stop"
    /\ state' = [state EXCEPT ![current] = "stopping"]
    /\ cancelled' = cancelled \cup {current}
    /\ quiet' = IF call.stage = "ok" THEN quiet \cup {current} ELSE quiet
    /\ call' = None
    /\ UNCHANGED <<token, owner, current, pending, lease, halts, played>>
    /\ UNCHANGED <<executorVars, macVars, wireVars, windowsVars>>

\* The rest of halt_all with nothing running, and of a refused start
ReturnIdle ==
    /\ call # None /\ call.stage \in {"ok", "failed"} /\ call.then = "idle"
    /\ call' = None
    /\ UNCHANGED <<token, owner, current, pending, state, lease, cancelled>>
    /\ UNCHANGED <<executorVars, macVars, wireVars, windowsVars, historyVars>>

\* Faulty: fences nothing when an authorization gets no answer.
ReturnStartUnfenced ==
    /\ call # None /\ call.stage \in {"ok", "failed"} /\ call.then = "start"
    /\ LET a == call.action
           ok == call.stage = "ok" IN
         /\ current' = IF ok THEN a ELSE None
         /\ owner' = current'
         /\ state' = [state EXCEPT ![a] = IF ok THEN "preparing" ELSE "failed"]
         /\ pc' = [pc EXCEPT ![a] = IF ok THEN "synthesize" ELSE "ended"]
    /\ call' = None
    /\ UNCHANGED <<token, pending, lease, cancelled, playSession, heard>>
    /\ UNCHANGED <<macVars, wireVars, windowsVars, historyVars>>

\* The rest of _start_locked
ReturnStart ==
    /\ call # None /\ call.stage \in {"ok", "failed"} /\ call.then = "start"
    /\ LET a == call.action IN
         IF call.stage = "ok"
         THEN /\ current' = a
              /\ state' = [state EXCEPT ![a] = "preparing"]
              /\ pc' = [pc EXCEPT ![a] = "synthesize"]
              /\ call' = None
              /\ UNCHANGED <<token, owner>>
         ELSE /\ state' = [state EXCEPT ![a] = "failed"]
              /\ token' = token + 1
              /\ owner' = None
              /\ call' = NeutralizeCall(token + 1, "idle")
              /\ UNCHANGED <<current, pc>>
    /\ UNCHANGED <<pending, lease, cancelled, playSession, heard>>
    /\ UNCHANGED <<macVars, wireVars, windowsVars, historyVars>>

\* Faulty: takes an executor that raised for one that returned.
OutcomeUnraised(a) == IF a \in cancelled THEN "cancelled" ELSE "completed"

Outcome(a) ==
    IF pc[a] = "raised" THEN "failed"
    ELSE IF a \in cancelled THEN "cancelled" ELSE "completed"

\* Faulty: what was waiting is started and still waits.
EndCurrentKeepsPending ==
    /\ state' = [state EXCEPT ![current] = Outcome(current)]
    /\ pc' = [pc EXCEPT ![current] = "ended"]
    /\ current' = None
    /\ pending' = pending
    /\ IF pending = None
       THEN call' = None /\ UNCHANGED <<token, owner, lease>>
       ELSE BeginStart(pending, token)

\* The rest of _finish_handle: the action ends and the one that waits starts
EndCurrent ==
    /\ state' = [state EXCEPT ![current] = Outcome(current)]
    /\ pc' = [pc EXCEPT ![current] = "ended"]
    /\ current' = None
    /\ pending' = None
    /\ IF pending = None
       THEN call' = None /\ UNCHANGED <<token, owner, lease>>
       ELSE BeginStart(pending, token)

ReturnFinish ==
    /\ call # None /\ call.stage \in {"ok", "failed"} /\ call.then = "finish"
    /\ EndCurrent
    /\ quiet' = IF call.stage = "ok" THEN quiet \cup {current} ELSE quiet
    /\ UNCHANGED <<cancelled, playSession, heard, halts, played>>
    /\ UNCHANGED <<macVars, wireVars, windowsVars>>

\* _finish_handle up to its output call, if it makes one
FinishHandle(a) ==
    /\ call = None
    /\ pc[a] \in {"returned", "raised"}
    /\ current = a
    /\ IF CurrentRuns
       THEN /\ token' = token + 1
            /\ owner' = None
            /\ call' = NeutralizeCall(token + 1, "finish")
            /\ UNCHANGED <<current, pending, state, lease, pc>>
       ELSE EndCurrent
    /\ UNCHANGED <<cancelled, playSession, heard>>
    /\ UNCHANGED <<macVars, wireVars, windowsVars, historyVars>>

----------------------------------------------------------------------------
\* SpeechExecutor.run: synthesize, look at the cancel event, announce, play

Synthesize(a) ==
    /\ pc[a] = "synthesize"
    /\ \/ pc' = [pc EXCEPT ![a] = "raised"]
       \/ pc' = [pc EXCEPT ![a] = IF a \in cancelled THEN "returned" ELSE "announce"]
    /\ UNCHANGED <<playSession, heard>>
    /\ UNCHANGED <<supervisorVars, macVars, wireVars, windowsVars, historyVars>>

\* mark_running waits for the condition and returns whatever it finds
MarkRunning(a) ==
    /\ pc[a] = "announce"
    /\ call = None
    /\ state' = IF current = a /\ state[a] = "preparing"
                THEN [state EXCEPT ![a] = "running"] ELSE state
    /\ pc' = [pc EXCEPT ![a] = "play"]
    /\ UNCHANGED <<token, owner, current, pending, lease, cancelled, call, playSession, heard>>
    /\ UNCHANGED <<macVars, wireVars, windowsVars, historyVars>>

\* play_wav reads the session id
PlayRead(a) ==
    /\ pc[a] = "play"
    /\ pc' = [pc EXCEPT ![a] = IF macSession = None THEN "raised" ELSE "send"]
    /\ playSession' = [playSession EXCEPT ![a] = macSession]
    /\ UNCHANGED heard
    /\ UNCHANGED <<supervisorVars, macVars, wireVars, windowsVars, historyVars>>

\* and registers its completion and sends through the current connection.
PlaySend(a) ==
    /\ pc[a] = "send"
    /\ IF macSession = None
       THEN pc' = [pc EXCEPT ![a] = "raised"] /\ UNCHANGED toWin
       ELSE /\ \/ pc' = [pc EXCEPT ![a] = "wait"]
               \/ link = "down" /\ pc' = [pc EXCEPT ![a] = "raised"]
            /\ SendToWin(DataMessage(playSession[a], a))
    /\ UNCHANGED <<playSession, heard, link, toMac>>
    /\ UNCHANGED <<supervisorVars, macVars, windowsVars, historyVars>>

\* play_wav returns: its locals and its registered completion are gone.
PlayForgets(a) ==
    /\ playSession' = [playSession EXCEPT ![a] = None]
    /\ heard' = [heard EXCEPT ![a] = None]

\* Faulty: waits for the completion without a deadline.
PlayWaitForever(a) ==
    /\ pc[a] = "wait"
    /\ heard[a] # None \/ a \in cancelled
    /\ pc' = [pc EXCEPT ![a] = IF heard[a] = "completed" \/ a \in cancelled
                              THEN "returned" ELSE "raised"]
    /\ PlayForgets(a)
    /\ UNCHANGED <<supervisorVars, macVars, wireVars, windowsVars, historyVars>>

\* play_wav's loop and what follows it.  The event may be set between a wait
\* that timed out and the look at the cancel event.
PlayWait(a) ==
    /\ pc[a] = "wait"
    /\ \/ /\ a \in cancelled
          /\ pc' = [pc EXCEPT ![a] = "returned"]
       \/ /\ heard[a] \in {None, "error", "failed"}      \* None: the deadline
          /\ pc' = [pc EXCEPT ![a] = "raised"]
       \/ /\ heard[a] = "completed"
          /\ pc' = [pc EXCEPT ![a] = "returned"]
       \/ /\ heard[a] = "cancelled" /\ a \notin cancelled
          /\ pc' = [pc EXCEPT ![a] = "raised"]
    /\ PlayForgets(a)
    /\ UNCHANGED <<supervisorVars, macVars, wireVars, windowsVars, historyVars>>

----------------------------------------------------------------------------
\* Windows connects, the server takes the hello and opens the output session
\* under a new id; from here on other threads may send.
Connect(s) ==
    /\ link = "down" /\ macSession = None /\ win = "offline"
    /\ s \notin used
    /\ used' = used \cup {s}
    /\ macSession' = s
    /\ macPhase' = "opening"
    /\ link' = "up"
    /\ win' = "hello"
    /\ toWin' = <<>> /\ toMac' = <<>>
    /\ UNCHANGED <<supervisorVars, executorVars, player, gatewayVars, historyVars>>

\* Only then does it send session.open.
SendOpen ==
    /\ macPhase = "opening"
    /\ SendToWin(OpenMessage(macSession))
    /\ macPhase' = "serving"
    /\ UNCHANGED <<macSession, used, link, toMac>>
    /\ UNCHANGED <<supervisorVars, executorVars, windowsVars, historyVars>>

\* output.receive: an answer nobody waits for is dropped
MacReceive ==
    /\ macPhase = "serving" /\ toMac # <<>>
    /\ LET m == Head(toMac) IN
         \/ /\ m.kind = "ack"
            /\ call' = IF call # None /\ call.stage = "wait" /\ call.id = m.id
                       THEN Ended(call, IF m.accepted THEN "ok" ELSE "failed")
                       ELSE call
            /\ UNCHANGED heard
         \/ /\ m.kind = "completed"
            /\ heard' = [a \in Action |->
                 IF /\ pc[a] = "wait" /\ a = m.action
                    /\ playSession[a] = m.session /\ lease[a] = m.token
                 THEN m.state ELSE heard[a]]
            /\ UNCHANGED call
    /\ toMac' = Tail(toMac)
    /\ UNCHANGED <<token, owner, current, pending, state, lease, cancelled>>
    /\ UNCHANGED <<pc, playSession, macVars, link, toWin, windowsVars, historyVars>>

\* The connection thread ends: everyone who waits for Windows is told.
MacEnds ==
    /\ link = "down" /\ macSession # None
    /\ macSession' = None
    /\ macPhase' = "closed"
    /\ toMac' = <<>>
    /\ call' = IF call # None /\ call.stage = "wait"
               THEN Ended(call, "failed") ELSE call
    /\ heard' = [a \in Action |-> IF pc[a] = "wait" THEN "error" ELSE heard[a]]
    /\ UNCHANGED <<token, owner, current, pending, state, lease, cancelled>>
    /\ UNCHANGED <<pc, playSession, used, link, toWin, windowsVars, historyVars>>

\* The network fails, or either program is told to stop.
Break ==
    /\ link = "up"
    /\ link' = "down"
    /\ UNCHANGED <<toWin, toMac>>
    /\ UNCHANGED <<supervisorVars, executorVars, macVars, windowsVars, historyVars>>

----------------------------------------------------------------------------
\* WaveAudioPlayer.stop as the gateway's neutralize reaches it.  It tells the
\* playback thread to stop and waits for it, whose last word is a completion;
\* a thread that hangs makes it raise, and failed is then not empty.
MayFail(failed) ==
    failed \subseteq (IF MayHang /\ player # None THEN {Voice} ELSE {})

\* Faulty: the gateway goes neutral and the player plays on.
StoppedPlayerIgnored(failed) == player

StoppedPlayer(failed) ==
    IF failed = {} THEN None ELSE [player EXCEPT !.stop = TRUE]

LastWord(failed) ==
    IF /\ failed = {} /\ player # None
       /\ player.phase = "playing" /\ player.lease.session = session
    THEN <<CompletedMessage(player.lease, "cancelled")>> ELSE <<>>

\* WindowsBridgeClient leaves _run_connection.
CloseConnection(failed) ==
    /\ MayFail(failed)
    /\ Gateway!CloseSession(session, failed)
    /\ player' = StoppedPlayer(failed)
    /\ SendToMac(LastWord(failed))
    /\ win' = "offline"
    /\ link' = "down"
    /\ toWin' = <<>>

\* The first message has to open the session.
WinOpen ==
    /\ win = "hello" /\ toWin # <<>>
    /\ IF Head(toWin).kind = "open"
       THEN \E failed \in SUBSET {Voice} :
              /\ MayFail(failed)
              /\ Gateway!OpenSession(Head(toWin).session, failed)
              /\ player' = StoppedPlayer(failed)
              /\ win' = "serving"
              /\ toWin' = Tail(toWin)
              /\ UNCHANGED link
       ELSE /\ win' = "offline"
            /\ link' = "down"
            /\ toWin' = <<>>
            /\ UNCHANGED <<player, gatewayVars>>
    /\ UNCHANGED toMac
    /\ UNCHANGED <<supervisorVars, executorVars, macVars, historyVars>>

WinAuthorize ==
    /\ win = "serving" /\ toWin # <<>> /\ Head(toWin).kind = "authorize"
    /\ LET m == Head(toWin)
           verdict == Gateway!AuthorizeVerdict(m.session, Voice, m.token, m.action)
       IN  /\ IF verdict = "accepted"
              THEN Gateway!Authorize(m.session, Voice, m.token, m.action)
              ELSE UNCHANGED gatewayVars
           /\ SendToMac(<<AckMessage(m, verdict \in {"accepted", "again"})>>)
    /\ toWin' = Tail(toWin)
    /\ UNCHANGED <<link, win, player>>
    /\ UNCHANGED <<supervisorVars, executorVars, macVars, historyVars>>

WinNeutralize ==
    /\ win = "serving" /\ toWin # <<>> /\ Head(toWin).kind = "neutralize"
    /\ LET m == Head(toWin) IN
         IF Gateway!NeutralizeVerdict(m.session, Voice, m.token) = "accepted"
         THEN \E failed \in SUBSET {Voice} :
                /\ MayFail(failed)
                /\ Gateway!Neutralize(m.session, Voice, m.token, failed)
                /\ player' = StoppedPlayer(failed)
                /\ SendToMac(LastWord(failed) \o <<AckMessage(m, failed = {})>>)
         ELSE /\ SendToMac(<<AckMessage(m, FALSE)>>)
              /\ UNCHANGED <<player, gatewayVars>>
    /\ toWin' = Tail(toWin)
    /\ UNCHANGED <<link, win>>
    /\ UNCHANGED <<supervisorVars, executorVars, macVars, historyVars>>

\* What the gateway answers to the speech at the head of the wire
DataVerdict ==
    LET m == Head(toWin) IN
    Gateway!EnvelopeVerdict(m.session, Voice, m.token, m.action, 0, 1, now, now)

\* Accepted speech starts to play.  A player that is still busy refuses it,
\* and refused speech ends the connection.
WinData ==
    /\ win = "serving" /\ toWin # <<>> /\ Head(toWin).kind = "data"
    /\ LET m == Head(toWin) IN
         IF DataVerdict = "accepted" /\ player = None
         THEN /\ Gateway!ApplyEnvelope(m.session, Voice, m.token, m.action, 0, 1, now, now)
              /\ player' = [phase |-> "playing", stop |-> FALSE,
                            lease |-> [session |-> m.session, token |-> m.token,
                                       action |-> m.action]]
              /\ toWin' = Tail(toWin)
              /\ UNCHANGED <<win, link, toMac>>
         ELSE \E failed \in SUBSET {Voice} : CloseConnection(failed)
    /\ UNCHANGED <<supervisorVars, executorVars, macVars, historyVars>>

\* A receive that finds nothing polls the watchdog.
WinPoll ==
    /\ win = "serving" /\ toWin = <<>>
    /\ Gateway!Overdue(now) # {}
    /\ \E failed \in SUBSET {Voice} :
         /\ MayFail(failed)
         /\ Gateway!PollExpired(now, failed)
         /\ player' = StoppedPlayer(failed)
         /\ SendToMac(LastWord(failed))
    /\ UNCHANGED <<link, toWin, win>>
    /\ UNCHANGED <<supervisorVars, executorVars, macVars, historyVars>>

\* The client notices that the connection is gone.
WinEnds ==
    /\ link = "down"
    /\ \/ /\ win = "serving"
          /\ \E failed \in SUBSET {Voice} : CloseConnection(failed)
       \/ /\ win = "hello"
          /\ win' = "offline"
          /\ toWin' = <<>>
          /\ UNCHANGED <<link, toMac, player, gatewayVars>>
    /\ UNCHANGED <<supervisorVars, executorVars, macVars, historyVars>>

\* The playback thread reaches the end, fails, or sees that it is to stop; it
\* reports through the connection it was started on ...
PlayerEnds(result) ==
    /\ player # None /\ player.phase = "playing"
    /\ result \in IF player.stop THEN {"cancelled"} ELSE {"completed", "failed"}
    /\ player' = [player EXCEPT !.phase = "ending"]
    /\ IF player.lease.session = session
       THEN SendToMac(<<CompletedMessage(player.lease, result)>>)
       ELSE UNCHANGED toMac
    /\ played' = IF result = "completed" THEN played \cup {player.lease.action} ELSE played
    /\ UNCHANGED <<link, toWin, win, gatewayVars, halts, quiet>>
    /\ UNCHANGED <<supervisorVars, executorVars, macVars>>

\* ... and only then is the player free.
PlayerIdle ==
    /\ player # None /\ player.phase = "ending"
    /\ player' = None
    /\ UNCHANGED <<win, gatewayVars>>
    /\ UNCHANGED <<supervisorVars, executorVars, macVars, wireVars, historyVars>>

Tick ==
    /\ Gateway!Tick
    /\ UNCHANGED <<win, player>>
    /\ UNCHANGED <<supervisorVars, executorVars, macVars, wireVars, historyVars>>

----------------------------------------------------------------------------
Init ==
    /\ token = 0 /\ owner = None /\ current = None /\ pending = None /\ call = None
    /\ state = [a \in Action |-> "new"]
    /\ lease = [a \in Action |-> 0]
    /\ cancelled = {}
    /\ pc = [a \in Action |-> "new"]
    /\ playSession = [a \in Action |-> None]
    /\ heard = [a \in Action |-> None]
    /\ macSession = None /\ macPhase = "closed" /\ used = {}
    /\ link = "down" /\ toWin = <<>> /\ toMac = <<>>
    /\ win = "offline" /\ player = None
    /\ Gateway!Init
    /\ halts = 0 /\ quiet = {} /\ played = {}

\* What the holder of the condition does while its output call lasts
CallStep ==
    \/ CallRead \/ CallSend \/ CallTimeout
    \/ ReturnStop \/ ReturnIdle \/ ReturnStart \/ ReturnFinish

ExecutorStep(a) ==
    \/ Synthesize(a) \/ MarkRunning(a) \/ PlayRead(a) \/ PlaySend(a) \/ PlayWait(a)
    \/ FinishHandle(a)

BridgeStep ==
    \/ \E s \in Session : Connect(s)
    \/ SendOpen \/ MacReceive \/ MacEnds \/ Break

WindowsStep ==
    \/ WinOpen \/ WinAuthorize \/ WinNeutralize \/ WinData \/ WinPoll \/ WinEnds
    \/ \E result \in {"completed", "failed", "cancelled"} : PlayerEnds(result)
    \/ PlayerIdle \/ Tick

Next ==
    \/ \E a \in Action : Request(a)
    \/ Halt
    \/ CallStep
    \/ \E a \in Action : ExecutorStep(a)
    \/ BridgeStep
    \/ WindowsStep

\* An output call returns, by its timeout if need be, and every executor moves
\* on, each wait of it having a timeout.  The network owes nothing.
Fairness ==
    /\ WF_vars(CallStep)
    /\ \A a \in Action : WF_vars(ExecutorStep(a))

Spec == Init /\ [][Next]_vars
FairSpec == Spec /\ Fairness

----------------------------------------------------------------------------
Final == {"completed", "cancelled", "failed"}

\* Every variable has the type the code gives it.
TypeOK ==
    /\ token \in Nat /\ owner \in Action \cup {None}
    /\ {current, pending} \subseteq Action \cup {None}
    /\ state \in [Action -> {"new", "pending", "preparing", "running", "stopping"} \cup Final]
    /\ lease \in [Action -> Nat] /\ {cancelled, quiet, played} \subseteq SUBSET Action
    /\ pc \in [Action -> {"new", "synthesize", "announce", "play", "send", "wait",
                          "returned", "raised", "ended"}]
    /\ playSession \in [Action -> Session \cup {None}]
    /\ heard \in [Action -> {None, "completed", "failed", "cancelled", "error"}]
    /\ call \in Calls \cup {None} /\ player \in Playbacks \cup {None}
    /\ halts \in 0..MaxHalts /\ used \subseteq Session
    /\ macSession \in Session \cup {None} /\ macPhase \in {"closed", "opening", "serving"}
    /\ toWin \in Seq(Openings \cup Authorizations \cup Neutralizations \cup Speeches)
    /\ toMac \in Seq(Acknowledgements \cup Completions)
    /\ link \in {"up", "down"} /\ win \in {"offline", "hello", "serving"}
    /\ Gateway!TypeOK

\* Once Windows acknowledged the fence of an action, its speech is never heard
\* again: what was on the wire, a reconnection or a late send cannot revive it
\* (character_supervisor.py:430).
AcknowledgedFenceSilences ==
    player # None => player.lease.action \notin quiet

\* Speech nobody told to stop is heard only while the gateway's lease for it
\* stands in the open session: the end of a session, its replacement and the
\* watchdog all silence it.
SpeechIsOwned ==
    player # None /\ player.phase = "playing" /\ ~player.stop =>
        Gateway!Owner(Voice) = player.lease

\* Speech the gateway accepts never meets the playback before it, although the
\* player reports a completion before it is free (windows_wave_player.py:127);
\* only a playback thread that hangs after it was told to stop is in its way.
AcceptedSpeechFindsPlayerFree ==
    /\ win = "serving" /\ toWin # <<>> /\ Head(toWin).kind = "data"
    /\ DataVerdict = "accepted"
    => player = None \/ player.stop

\* An action counts as completed only if Windows played it to its end: neither
\* a lost connection nor a late answer to another action makes it so.
CompletedWasPlayed ==
    \A a \in Action : state[a] = "completed" => a \in played

\* When nothing is under way, Windows holds the voice for the action the
\* supervisor holds it for, or for none: an authorization or a fence whose
\* answer was late or lost leaves no stale owner behind.
IdleBridgeAgrees ==
    /\ call = None
    /\ win = "serving" /\ link = "up" /\ session = macSession
    /\ toWin = <<>>
    => LET held == Gateway!Owner(Voice) IN
       held # None => held.action = owner /\ held.token = token

\* Those that ended, or have had a lease and lost it
Spent == {a \in Action : state[a] \in Final \/ (lease[a] # 0 /\ owner # a)}

\* The abstract specification, of the one resource; who waits or else owns is the
\* newest request.
Newest == INSTANCE NewestOwner WITH
    Resource <- {Voice}, Claimant <- Action, Nobody <- None,
    ResourceOf <- [a \in Action |-> Voice],
    wanted <- [r \in {Voice} |-> IF pending # None THEN pending ELSE owner],
    owner <- [r \in {Voice} |-> owner],
    spent <- Spent, told <- cancelled

\* Property: the supervisor still implements NewestOwner when its methods wait for
\* Windows in between, with executors and the connection's thread running on: an
\* action owns the voice only while it is the newest, loses it before it is told to
\* stop, and never gets it back, whatever becomes of the messages
\* (character_supervisor.py:297-451).
VoiceHasOneOwner == Newest!Spec

\* Every requested action ends: no lost answer, connection or completion
\* leaves one held for ever.
EveryActionEnds ==
    \A a \in Action : state[a] # "new" ~> state[a] \in Final

\* The first thing Windows hears on a connection opens the session, which is
\* what it insists on (windows_bridge_client.py:230).
SessionOpensFirst ==
    win = "hello" /\ toWin # <<>> => Head(toWin).kind = "open"

\* Speech of an action whose cancel event is set is discarded and never put on
\* the wire, as speech_executor.py:137 has it.
LateSpeechIsDiscarded ==
    [][\A a \in cancelled :
          toWin' = Append(toWin, DataMessage(playSession[a], a)) => pc'[a] = pc[a]]_vars
=============================================================================
