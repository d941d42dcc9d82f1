--------------------------------- MODULE Wire ---------------------------------
(***************************************************************************)
(* The messages of the bridge: what each component constructs, what        *)
(* encode_message makes of it, what decode_message makes of that at the    *)
(* other end, and whether the handler there takes it.  The two directions  *)
(* are written separately in stream_protocol.py and device_payloads.py,    *)
(* and so they are here: nothing but agreement of the two tables lets a    *)
(* message through.                                                        *)
(*                                                                         *)
(* One connection at a time, one message in flight at a time: the orders   *)
(* and races of several are VoiceBridge's and Sensors'.  Ids are made by   *)
(* uuid4 and the session is the current one.  A text stands for its class  *)
(* ("plain", "padded" with blanks around it, "long" beyond 1000            *)
(* characters), a number of a frame for whether it is as it should be.     *)
(* Sizes are in MiB, those of audio in units with the limit MaxChunk.      *)
(***************************************************************************)
EXTENDS Integers, FiniteSets

CONSTANTS
    None,           \* Python's None, for a text or a resource
    MaxChunk,       \* MAX_AUDIO_CHUNK_BYTES, in bytes
    Version,        \* PROTOCOL_VERSION
    Peers,          \* the versions a Windows companion may speak
    MaxSequence     \* bound on the heartbeats and the audio of a connection

ASSUME WireAssumption ==
    None \notin {"plain", "padded", "long"} /\ {MaxChunk, MaxSequence} \subseteq Nat

VARIABLES
    peer,       \* the version the Windows companion speaks
    phase,      \* what the connection has seen: "none", "hello", "open"
    next,       \* the senders' next sequence, per counted kind
    last,       \* the receivers' last sequence, per counted kind
    msg,        \* the message last constructed
    fate,       \* "none", "sent", "refused" by the encoder, "taken", "rejected"
    wire,       \* the JSON in flight
    got         \* the message its receiver handled

wireVars == <<peer, phase, next, last, msg, fate, wire, got>>

MaxMessage == 16        \* MAX_MESSAGE_BYTES
MaxScreenshot == 8      \* MAX_SCREENSHOT_BYTES
MaxWav == 16            \* MAX_WAV_PAYLOAD_BYTES

Resource == {"VOICE_OUTPUT", "FULL_BODY_POSE"}
Counted == {"mac", "windows", "audio"}
NoMessage == [type |-> "none"]

(***************************************************************************)
(* The field validators of stream_protocol.py.                             *)
(***************************************************************************)
Accepts(check, v) ==
    CASE check = "identifier"  -> v \in {"plain", "padded"}
      [] check = "text"        -> v \in {None, "plain", "padded"}
      [] check = "positive"    -> v > 0
      [] check = "nonnegative" -> v >= 0
      [] check = "resource"    -> v \in Resource
      [] check = "state"       -> v \in {"completed", "cancelled", "failed"}
      [] check = "sender"      -> v \in {"mac", "windows"}
      [] check = "pcm"         -> v \in 1..MaxChunk /\ v % 2 = 0
      [] check = "jpeg"        -> v \in 0..MaxScreenshot
      [] OTHER                 -> TRUE

\* Both directions strip what they read as a text.
Stripped(check, v) ==
    IF check \in {"identifier", "text"} /\ v = "padded" THEN "plain" ELSE v

\* What encode_message checks of the messages that command ...
EncodeCommand ==
    [hello     |-> [client_instance_id |-> "identifier"],
     open      |-> [session_id |-> "identifier"],
     authorize |-> [message_id |-> "identifier", resource |-> "any",
                    lease_token |-> "positive", action_id |-> "identifier"],
     neutralize |-> [message_id |-> "identifier", resource |-> "any", lease_token |-> "nonnegative"],
     data      |-> [action_id |-> "identifier", resource |-> "any", lease_token |-> "positive",
                    sequence |-> "nonnegative", ttl_ms |-> "positive", payload |-> "any"]]

\* ... and of those that report.
EncodeReport ==
    [ack       |-> [message_id |-> "identifier", accepted |-> "any", reason |-> "text"],
     completed |-> [action_id |-> "identifier", resource |-> "any", lease_token |-> "positive",
                    state |-> "state", error |-> "text"],
     audio     |-> [sequence |-> "nonnegative", captured_monotonic_ns |-> "nonnegative", pcm |-> "pcm"],
     request   |-> [request_id |-> "identifier"],
     response  |-> [request_id |-> "identifier", jpeg |-> "jpeg", error |-> "text"],
     heartbeat |-> [sender |-> "sender", sequence |-> "nonnegative"]]

\* What decode_message asks of them.
DecodeCommand ==
    [hello     |-> [client_instance_id |-> "identifier"],
     open      |-> [session_id |-> "identifier"],
     authorize |-> [message_id |-> "identifier", resource |-> "resource",
                    lease_token |-> "positive", action_id |-> "identifier"],
     neutralize |-> [message_id |-> "identifier", resource |-> "resource", lease_token |-> "nonnegative"],
     data      |-> [action_id |-> "identifier", resource |-> "resource", lease_token |-> "positive",
                    sequence |-> "nonnegative", ttl_ms |-> "positive", payload |-> "any"]]

DecodeReport ==
    [ack       |-> [message_id |-> "identifier", accepted |-> "any", reason |-> "text"],
     completed |-> [action_id |-> "identifier", resource |-> "resource", lease_token |-> "positive",
                    state |-> "state", error |-> "text"],
     audio     |-> [sequence |-> "nonnegative", captured_monotonic_ns |-> "nonnegative", pcm |-> "pcm"],
     request   |-> [request_id |-> "identifier"],
     response  |-> [request_id |-> "identifier", jpeg |-> "jpeg", error |-> "text"],
     heartbeat |-> [sender |-> "sender", sequence |-> "nonnegative"]]

\* The checks between fields, the same in both directions.
Consistent(m) ==
    CASE m.type = "completed" -> m.state = "failed" => m.error # None
      [] m.type = "response"  -> (m.jpeg = 0) # (m.error = None)
      [] OTHER                -> TRUE

\* The fields of each type of message, at the two ends.
Encoding(type) == IF type \in DOMAIN EncodeCommand THEN EncodeCommand[type] ELSE EncodeReport[type]
Decoding(type) == IF type \in DOMAIN DecodeCommand THEN DecodeCommand[type] ELSE DecodeReport[type]

Fits(fields, m) ==
    /\ DOMAIN m = DOMAIN fields \cup {"type"}
    /\ \A f \in DOMAIN fields : Accepts(fields[f], m[f])
    /\ Consistent(m)

Read(fields, m) ==
    [f \in DOMAIN m |-> IF f = "type" THEN m.type ELSE Stripped(fields[f], m[f])]

(***************************************************************************)
(* Payloads.                                                               *)
(***************************************************************************)
Base64(size) == (4 * size + 2) \div 3

\* The message's size: what is not base64 takes less than one more.
Bytes(m) ==
    1 + CASE m.type = "data" /\ m.payload.kind = "wav" -> Base64(m.payload.data)
          [] m.type = "response"                       -> Base64(m.jpeg)
          [] OTHER                                     -> 0

\* decode_pose_payload: every number finite, the rates positive, the walk within
\* its range.
PoseFits(payload) ==
    /\ payload.fps = "positive" /\ payload.scale = "positive"
    /\ payload.coordinates = "finite"
    /\ payload.locomotion = "within"

\* encode_pose_payload ends with the decoder's checks.
EncodePose(payload) == PoseFits(payload)

EncodeWav(payload) == payload.data \in 1..MaxWav

DecodeWav(payload) == payload.data \in 1..MaxWav

(***************************************************************************)
(* encode_message and decode_message.                                      *)
(***************************************************************************)
Encodable(m) ==
    /\ m.type \in DOMAIN EncodeCommand \cup DOMAIN EncodeReport
    /\ Fits(Encoding(m.type), m)
    /\ Bytes(m) <= MaxMessage

FromMac(m) ==
    \/ m.type \in {"open", "authorize", "neutralize", "data", "request"}
    \/ m.type = "heartbeat" /\ m.sender = "mac"

Encode(m) ==
    [version |-> IF FromMac(m) THEN Version ELSE peer,
     root    |-> Read(Encoding(m.type), m),
     bytes   |-> Bytes(m)]

\* reader is the version of the end that decodes.
Decodable(w, reader) ==
    /\ w.bytes <= MaxMessage
    /\ w.version = reader
    /\ w.root.type \in DOMAIN DecodeCommand \cup DOMAIN DecodeReport
    /\ Fits(Decoding(w.root.type), w.root)

Decode(w) == Read(Decoding(w.root.type), w.root)

(***************************************************************************)
(* Sending.  A message is encoded by the thread that constructs it: a      *)
(* refusal is raised there.                                                *)
(***************************************************************************)
\* A screenshot that cannot be sent ends the Windows end's connection thread, as
\* does a message its receiver does not take.
Over == fate = "rejected" \/ (fate = "refused" /\ msg.type = "response")

CanSend == fate # "sent" /\ ~Over

\* Payloads are encoded before the message that carries them is constructed.
PayloadEncodes(m) ==
    m.type = "data" => IF m.payload.kind = "wav" THEN EncodeWav(m.payload)
                                                 ELSE EncodePose(m.payload)

Send(m) ==
    /\ msg' = m
    /\ got' = NoMessage
    /\ IF PayloadEncodes(m) /\ Encodable(m)
       THEN fate' = "sent" /\ wire' = Encode(m)
       ELSE fate' = "refused" /\ wire' = NoMessage

SayHello ==
    /\ phase = "none" /\ CanSend
    /\ Send([type |-> "hello", client_instance_id |-> "plain"])
    /\ UNCHANGED <<peer, phase, next, last>>

OpenSession ==
    /\ phase = "hello" /\ CanSend
    /\ Send([type |-> "open", session_id |-> "plain"])
    /\ UNCHANGED <<peer, phase, next, last>>

\* Once the session is open both ends send: the supervisor and the motion
\* director their commands,
SendControl ==
    /\ phase = "open" /\ CanSend
    /\ \E r \in Resource, t \in 0..1 :
          \/ t > 0 /\ Send([type |-> "authorize", message_id |-> "plain", resource |-> r,
                            lease_token |-> t, action_id |-> "plain"])
          \/ Send([type |-> "neutralize", message_id |-> "plain", resource |-> r, lease_token |-> t])
    /\ UNCHANGED <<peer, phase, next, last>>

Data(r, sequence, payload) ==
    [type |-> "data", action_id |-> "plain", resource |-> r, lease_token |-> 1,
     sequence |-> sequence, ttl_ms |-> 1, payload |-> payload]

\* play_wav: speech of any length the synthesizer may return,
PlayWav ==
    /\ phase = "open" /\ CanSend
    /\ \E size \in {1, 11, 12, 16, 17} :
          Send(Data("VOICE_OUTPUT", 0, [kind |-> "wav", data |-> size]))
    /\ UNCHANGED <<peer, phase, next, last>>

\* send_pose: a frame as the generator made it,
SendPose ==
    /\ phase = "open" /\ CanSend
    /\ \E fps, scale \in {"positive", "zero", "infinite"},
          coordinates \in {"finite", "infinite"}, locomotion \in {"within", "beyond"} :
          Send(Data("FULL_BODY_POSE", 1, [kind |-> "pose", fps |-> fps, scale |-> scale,
                    coordinates |-> coordinates, locomotion |-> locomotion]))
    /\ UNCHANGED <<peer, phase, next, last>>

RequestScreenshot ==
    /\ phase = "open" /\ CanSend
    /\ Send([type |-> "request", request_id |-> "plain"])
    /\ UNCHANGED <<peer, phase, next, last>>

\* _ack: a reason of the gateway's, or none.
SendAck ==
    /\ phase = "open" /\ CanSend
    /\ \E accepted \in BOOLEAN :
          Send([type |-> "ack", message_id |-> "plain", accepted |-> accepted,
                reason |-> IF accepted THEN None ELSE "plain"])
    /\ UNCHANGED <<peer, phase, next, last>>

\* The player's callback: an error is the text of whatever was raised.
SendCompleted ==
    /\ phase = "open" /\ CanSend
    /\ \E state \in {"completed", "cancelled", "failed"}, error \in {"plain", "padded", "long"} :
          Send([type |-> "completed", action_id |-> "plain", resource |-> "VOICE_OUTPUT",
                lease_token |-> 1, state |-> state,
                error |-> IF state = "failed" THEN error ELSE None])
    /\ UNCHANGED <<peer, phase, next, last>>

\* handle_screenshot_request cuts the error to what a message takes.
ErrorCut(error) == IF error = "long" THEN "plain" ELSE error

\* A capture that fails is answered with its error; one that is too large for a
\* message is raised, and ends the connection.
AnswerScreenshot ==
    /\ phase = "open" /\ CanSend
    /\ \/ \E jpeg \in {1, MaxScreenshot, MaxScreenshot + 1} :
             Send([type |-> "response", request_id |-> "plain", jpeg |-> jpeg, error |-> None])
       \/ \E error \in {"plain", "padded", "long"} :
             Send([type |-> "response", request_id |-> "plain", jpeg |-> 0,
                   error |-> ErrorCut(error)])
    /\ UNCHANGED <<peer, phase, next, last>>

\* publish_audio checks the chunk, and counts it before it is sent.
PublishAudio ==
    /\ phase = "open" /\ CanSend
    /\ next["audio"] <= MaxSequence
    /\ \E pcm \in 0..(MaxChunk + 2) :
          /\ pcm > 0 /\ pcm <= MaxChunk /\ pcm % 2 = 0
          /\ Send([type |-> "audio", sequence |-> next["audio"], captured_monotonic_ns |-> 0, pcm |-> pcm])
    /\ next' = [next EXCEPT !["audio"] = @ + 1]
    /\ UNCHANGED <<peer, phase, last>>

SendHeartbeat(sender) ==
    /\ phase = "open" /\ CanSend
    /\ next[sender] <= MaxSequence
    /\ Send([type |-> "heartbeat", sender |-> sender, sequence |-> next[sender]])
    /\ next' = [next EXCEPT ![sender] = @ + 1]
    /\ UNCHANGED <<peer, phase, last>>

(***************************************************************************)
(* Receiving.                                                              *)
(***************************************************************************)
\* WindowsDeviceSink.apply, once the gateway has let the envelope through.
SinkTakes(m) ==
    CASE m.resource = "FULL_BODY_POSE" -> m.payload.kind = "pose" /\ PoseFits(m.payload)
      [] m.resource = "VOICE_OUTPUT"   -> m.payload.kind = "wav" /\ DecodeWav(m.payload)

\* A counted message is taken when it is newer than the last one: an older one
\* is dropped by the Mac, and an older heartbeat ends the connection on Windows.
Counter(m) == IF m.type = "audio" THEN "audio" ELSE m.sender
Newer(m) == m.sequence > last[Counter(m)]

MacTakes(m) ==
    IF phase = "none"
    THEN m.type = "hello"
    ELSE \/ m.type \in {"ack", "completed", "response"}
         \/ m.type = "audio" /\ Newer(m)
         \/ m.type = "heartbeat" /\ m.sender = "windows" /\ Newer(m)

WinTakes(m) ==
    IF phase = "hello"
    THEN m.type = "open"
    ELSE \/ m.type \in {"authorize", "neutralize", "request"}
         \/ m.type = "data" /\ SinkTakes(m)
         \/ m.type = "heartbeat" /\ m.sender = "mac" /\ Newer(m)

\* Faulty: Windows keeps the Mac's last heartbeat over a reconnection.
CountsKept(m) ==
    CASE m.type = "hello" ->
            /\ next' = [next EXCEPT !["mac"] = 0]
            /\ last' = [last EXCEPT !["windows"] = -1, !["audio"] = -1]
      [] m.type = "open" ->
            /\ next' = [next EXCEPT !["windows"] = 0, !["audio"] = 0]
            /\ UNCHANGED last
      [] m.type \in {"audio", "heartbeat"} ->
            /\ last' = [last EXCEPT ![Counter(m)] = m.sequence]
            /\ UNCHANGED next
      [] OTHER -> UNCHANGED <<next, last>>

\* Each end forgets the counts of the session before when it opens its own.
Counts(m) ==
    CASE m.type = "hello" ->
            /\ next' = [next EXCEPT !["mac"] = 0]
            /\ last' = [last EXCEPT !["windows"] = -1, !["audio"] = -1]
      [] m.type = "open" ->
            /\ next' = [next EXCEPT !["windows"] = 0, !["audio"] = 0]
            /\ last' = [last EXCEPT !["mac"] = -1]
      [] m.type \in {"audio", "heartbeat"} ->
            /\ last' = [last EXCEPT ![Counter(m)] = m.sequence]
            /\ UNCHANGED next
      [] OTHER -> UNCHANGED <<next, last>>

Receive ==
    /\ fate = "sent"
    /\ LET reader == IF FromMac(msg) THEN peer ELSE Version
           ok == /\ Decodable(wire, reader)
                 /\ IF FromMac(msg) THEN WinTakes(Decode(wire)) ELSE MacTakes(Decode(wire))
       IN  IF ok
           THEN /\ fate' = "taken"
                /\ got' = Decode(wire)
                /\ Counts(got')
                /\ phase' = CASE msg.type \in {"hello", "open"} -> msg.type [] OTHER -> phase
           ELSE fate' = "rejected" /\ UNCHANGED <<got, next, last, phase>>
    /\ wire' = NoMessage
    /\ UNCHANGED <<peer, msg>>

\* The connection ends, for a reason of its own or of the last message's.
ConnectionEnds ==
    /\ phase # "none" \/ Over
    /\ phase' = "none" /\ msg' = NoMessage /\ fate' = "none" /\ wire' = NoMessage /\ got' = NoMessage
    /\ UNCHANGED <<peer, next, last>>

WireInit ==
    /\ peer \in Peers
    /\ phase = "none"
    /\ next = [c \in Counted |-> 0] /\ last = [c \in Counted |-> -1]
    /\ msg = NoMessage /\ fate = "none" /\ wire = NoMessage /\ got = NoMessage

WireNext ==
    \/ SayHello \/ OpenSession
    \/ SendControl \/ PlayWav \/ SendPose \/ RequestScreenshot
    \/ SendAck \/ SendCompleted \/ AnswerScreenshot \/ PublishAudio
    \/ \E sender \in {"mac", "windows"} : SendHeartbeat(sender)
    \/ Receive
    \/ ConnectionEnds

\* What is lost at the sender: a frame that is not as it should be, speech or a
\* screenshot that fits no message, and an error too long to be reported.
Lost(m) ==
    \/ m.type = "data" /\ m.payload.kind = "pose" /\ ~PoseFits(m.payload)
    \/ m.type = "data" /\ m.payload.kind = "wav" /\ m.payload.data >= 12
    \/ m.type = "completed" /\ m.error = "long"
    \/ m.type = "response" /\ m.jpeg > MaxScreenshot

Meant(m) ==
    [f \in DOMAIN m |-> IF f = "error" /\ m[f] = "padded" THEN "plain" ELSE m[f]]

\* Property: every message a component of either end constructs is one that its
\* encoder lets through, the other end's decoder accepts, and the handler there
\* takes as what was meant, on the first connection and on every later one; the
\* exceptions are the four kinds of Lost, which never leave their sender, and
\* the first message of a companion of another version, which ends there.
WhatIsSentIsTaken ==
    /\ fate = "refused" => Lost(msg)
    /\ fate = "rejected" => peer # Version /\ msg.type = "hello"
    /\ fate = "taken" => got = Meant(msg) /\ ~Lost(msg) /\ peer = Version
=============================================================================
