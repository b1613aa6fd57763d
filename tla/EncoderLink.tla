---------------------------- MODULE EncoderLink ----------------------------
(***************************************************************************)
(* One BridgeComponent of amfrt64.dll (src/amfrt_bridge.c, the         *)
(* BRIDGE_NATIVE_PE build) and the encoding session that serves it in      *)
(* uu-amf-helper (src/amf_helper.c), joined by one TCP connection.     *)
(*                                                                         *)
(* A call of the component is a few steps: SubmitInput sends a frame and   *)
(* then waits for the header of the reply and for its payload, and the     *)
(* helper, its death and its timeouts come in between.  The caller makes   *)
(* one call at a time: the component has no lock.  A call that returns     *)
(* before it changes anything (AMF_ALREADY_INITIALIZED, a surface of the   *)
(* wrong format, AMF_NOT_INITIALIZED, ...) is a stuttering step.           *)
(*                                                                         *)
(* A frame is the number of its submission.  The streams carry whole       *)
(* messages; a reply whose header was read and whose payload was not is    *)
(* the message of kind "payload" that stays at the head of the stream.     *)
(***************************************************************************)
EXTENDS Naturals, Sequences, FiniteSets

CONSTANTS
    Sizes,              \* picture sizes
    NoSize,
    Versions,           \* protocol versions of the helpers installed over time
    BridgeVersion,      \* HELPER_PROTOCOL_VERSION of this amfrt64.dll
    MaxOutputs,         \* BRIDGE_MAX_OUTPUTS
    Backoff,            \* HELPER_CONNECT_BACKOFF_MS, in ticks
    MaxFrames,          \* bound: submissions in a behaviour
    EncoderDepth        \* bound: pictures the codec holds back

ASSUME SizeAssumption == NoSize \notin Sizes
ASSUME VersionAssumption == BridgeVersion \in Versions /\ Versions \subseteq Nat \ {0}
ASSUME BoundAssumption ==
    /\ MaxOutputs \in Nat \ {0}
    /\ Backoff \in Nat \ {0}
    /\ MaxFrames \in Nat
    /\ EncoderDepth \in Nat

VARIABLES
    \* the component
    call,               \* "idle", or what the current call waits for
    socket,             \* component->helper
    initialized,
    draining,
    formatKnown,        \* component->format was set by a successful Init
    size,               \* width and height of the session, or of the attempted one
    frame,              \* number of the latest submission
    outputs,            \* the ring outputs[output_head ...], oldest first
    cooldown,           \* ticks until helper_connect_failure_time has expired
    \* the connection
    requests,           \* bytes on their way to the helper
    replies,            \* bytes on their way to the component
    \* the helper
    helper,             \* the version of the running helper, or 0
    server,             \* the session: "none", "handshake", "loop", "closed"
    encSize,            \* EncoderState.width and height
    held,               \* pictures inside the codec
    \* history
    accepted,           \* frames whose SubmitInput returned AMF_OK
    refused,            \* frames whose SubmitInput returned AMF_INPUT_FULL
    dropped,            \* frames the codec took and nobody will ever receive
    delivered           \* frames the caller got from QueryOutput

component == <<call, socket, initialized, draining, formatKnown, size,
               frame, outputs, cooldown>>
stream    == <<requests, replies>>
session   == <<server, encSize, held>>
history   == <<accepted, refused, dropped, delivered>>
vars      == <<component, stream, helper, session, history>>

-----------------------------------------------------------------------------

Frames == 1..MaxFrames

Requests ==
    [kind : {"init"}, version : {BridgeVersion}, size : Sizes] \cup
    [kind : {"frame"}, frame : Frames, size : Sizes]

InitReplies == [kind : {"init"}, enabled : BOOLEAN, version : Versions]

FrameReplies ==
    [kind : {"reply", "payload"}, frame : Frames, ok : BOOLEAN, frames : SUBSET Frames]

Buffers == [pts : Frames, frames : SUBSET Frames]

TypeOK ==
    /\ call \in {"idle", "handshake", "reply", "payload"}
    /\ socket \in {"invalid", "open"}
    /\ initialized \in BOOLEAN
    /\ draining \in BOOLEAN
    /\ formatKnown \in BOOLEAN
    /\ size \in Sizes \cup {NoSize}
    /\ frame \in 0..MaxFrames
    /\ outputs \in Seq(Buffers)
    /\ cooldown \in 0..Backoff
    /\ requests \in Seq(Requests)
    /\ replies \in Seq(InitReplies \cup FrameReplies)
    /\ helper \in Versions \cup {0}
    /\ server \in {"none", "handshake", "loop", "closed"}
    /\ encSize \in Sizes \cup {NoSize}
    /\ held \in SUBSET Frames
    /\ accepted \in SUBSET Frames
    /\ refused \in SUBSET Frames
    /\ dropped \in SUBSET Frames
    /\ delivered \in SUBSET Frames

Init ==
    /\ call = "idle"
    /\ socket = "invalid"
    /\ initialized = FALSE
    /\ draining = FALSE
    /\ formatKnown = FALSE
    /\ size = NoSize
    /\ frame = 0
    /\ outputs = <<>>
    /\ cooldown = 0
    /\ requests = <<>>
    /\ replies = <<>>
    /\ helper = 0
    /\ server = "none"
    /\ encSize = NoSize
    /\ held = {}
    /\ accepted = {}
    /\ refused = {}
    /\ dropped = {}
    /\ delivered = {}

\* The frames of the packets in a stream or in the ring.
FramesOf(seq) == UNION {seq[i].frames : i \in {j \in 1..Len(seq) : seq[j].kind # "init"}}
Queued == UNION {outputs[i].frames : i \in 1..Len(outputs)}

(***************************************************************************)
(* component_close_codec: the socket is closed, the ring and the draining  *)
(* flag stay as they are.  The helper's thread for this connection finds   *)
(* the end of its stream; what it still does nobody sees.                  *)
(***************************************************************************)
CloseCodec ==
    /\ socket' = "invalid"
    /\ initialized' = FALSE
    /\ requests' = <<>>
    /\ replies' = <<>>
    /\ server' = "none"
    /\ encSize' = NoSize
    /\ held' = {}
    /\ dropped' = dropped \cup held \cup FramesOf(replies)

-----------------------------------------------------------------------------
(* Init and ReInit *)

(***************************************************************************)
(* The end of component_init that fails: nothing stays open and the        *)
(* process-wide failure time starts the backoff.                           *)
(***************************************************************************)
InitFails ==
    /\ CloseCodec
    /\ call' = "idle"
    /\ cooldown' = Backoff
    /\ UNCHANGED <<draining, formatKnown, frame, outputs, helper,
                   accepted, refused, delivered>>

(***************************************************************************)
(* connect() reaches a helper that listens and the init message follows,   *)
(* or the connection is refused.                                           *)
(* (component_init has a branch for an uninitialised component that still  *)
(* owns a socket; NoHalfInit says that there is none.)                     *)
(***************************************************************************)
Dial(s) ==
    /\ cooldown = 0
    /\ \/ /\ helper # 0
          /\ call' = "handshake"
          /\ socket' = "open"
          /\ initialized' = FALSE
          /\ size' = s
          /\ requests' = <<[kind |-> "init", version |-> BridgeVersion, size |-> s]>>
          /\ replies' = <<>>
          /\ server' = "handshake"
          /\ encSize' = NoSize
          /\ held' = {}
          /\ dropped' = dropped \cup held \cup FramesOf(replies)
          /\ UNCHANGED <<draining, formatKnown, frame, outputs, cooldown, helper,
                         accepted, refused, delivered>>
       \/ /\ InitFails
          /\ UNCHANGED size

InitCall(s) ==
    /\ call = "idle"
    /\ ~initialized
    /\ socket = "invalid"
    /\ Dial(s)

(***************************************************************************)
(* component_reinit closes whatever is open and initialises again with the *)
(* format of the last Init.  The close is all it does while the backoff    *)
(* lasts, for a size below 128, without a free socket, or when no Init     *)
(* ever set the format.                                                    *)
(***************************************************************************)
ReInitCall(s) ==
    /\ call = "idle"
    /\ \/ /\ formatKnown
          /\ Dial(s)
       \/ /\ CloseCodec
          /\ UNCHANGED <<call, draining, formatKnown, size, frame, outputs, cooldown, helper,
                         accepted, refused, delivered>>

\* Mutant: the version in the init reply is not compared.
BugInitReplyAnyVersion ==
    /\ call = "handshake"
    /\ replies # <<>>
    /\ IF Head(replies).enabled
       THEN /\ call' = "idle"
            /\ initialized' = TRUE
            /\ formatKnown' = TRUE
            /\ cooldown' = 0
            /\ replies' = Tail(replies)
            /\ UNCHANGED <<socket, draining, size, frame, outputs, requests,
                           helper, session, history>>
       ELSE /\ InitFails
            /\ UNCHANGED size

InitReply ==
    /\ call = "handshake"
    /\ replies # <<>>
    /\ IF Head(replies).enabled /\ Head(replies).version = BridgeVersion
       THEN /\ call' = "idle"
            /\ initialized' = TRUE
            /\ formatKnown' = TRUE
            /\ cooldown' = 0
            /\ replies' = Tail(replies)
            /\ UNCHANGED <<socket, draining, size, frame, outputs, requests,
                           helper, session, history>>
       ELSE /\ InitFails
            /\ UNCHANGED size

\* A send or a receive of the handshake failed: closed by the helper, or 5 s passed.
InitTimeout ==
    /\ call = "handshake"
    /\ InitFails
    /\ UNCHANGED size

Terminate ==
    /\ call = "idle"
    /\ socket = "open"
    /\ CloseCodec
    /\ UNCHANGED <<call, draining, formatKnown, size, frame, outputs, cooldown, helper,
                   accepted, refused, delivered>>

-----------------------------------------------------------------------------
(* SubmitInput and QueryOutput *)

\* component_submit up to the two sends; a surface of another size never gets so far.
SubmitInput ==
    /\ call = "idle"
    /\ initialized
    /\ frame < MaxFrames
    /\ frame' = frame + 1
    /\ call' = "reply"
    /\ requests' = Append(requests, [kind |-> "frame", frame |-> frame', size |-> size])
    /\ UNCHANGED <<socket, initialized, draining, formatKnown, size, outputs, cooldown, replies,
                   helper, session, history>>

\* Mutant: a failed submission leaves the connection open.
BugSubmitFailsOpen ==
    /\ call' = "idle"
    /\ UNCHANGED <<socket, initialized, draining, formatKnown, size, frame, outputs, cooldown,
                   stream, helper, session, history>>

\* A send or the receive of the header failed, or the header is not an answer that is 0.
SubmitFails ==
    /\ CloseCodec
    /\ call' = "idle"
    /\ UNCHANGED <<draining, formatKnown, size, frame, outputs, cooldown, helper,
                   accepted, refused, delivered>>

\* Mutant: no SO_RCVTIMEO on the socket, only the helper's hang-up is noticed.
BugSubmitWaits ==
    /\ call = "reply"
    /\ server = "closed"
    /\ SubmitFails

SubmitTimeout ==
    /\ call = "reply"
    /\ SubmitFails

GoodReply(message) == message.kind = "reply" /\ message.ok

SubmitReply ==
    /\ call = "reply"
    /\ replies # <<>>
    /\ \/ /\ ~GoodReply(Head(replies))
          /\ SubmitFails
       \/ /\ GoodReply(Head(replies))
          /\ Head(replies).frames = {}
          /\ call' = "idle"
          /\ replies' = Tail(replies)
          /\ accepted' = accepted \cup {frame}
          /\ UNCHANGED <<socket, initialized, draining, formatKnown, size, frame, outputs, cooldown,
                         requests, helper, session, refused, dropped, delivered>>
       \/ /\ GoodReply(Head(replies))
          /\ Head(replies).frames # {}
          /\ call' = "payload"
          /\ replies' = [replies EXCEPT ![1].kind = "payload"]
          /\ UNCHANGED <<socket, initialized, draining, formatKnown, size, frame, outputs, cooldown,
                         requests, helper, session, history>>

\* Mutants: the packet is tagged with the next submission, queued at the wrong
\* end, or queued without a look at output_count.
BugSubmitPayloadTag ==
    /\ call = "payload"
    /\ replies # <<>>
    /\ Len(outputs) < MaxOutputs
    /\ call' = "idle"
    /\ replies' = Tail(replies)
    /\ outputs' = Append(outputs, [pts |-> frame + 1, frames |-> Head(replies).frames])
    /\ accepted' = accepted \cup {frame}
    /\ UNCHANGED <<socket, initialized, draining, formatKnown, size, frame, cooldown, requests,
                   helper, session, refused, dropped, delivered>>

BugSubmitPayloadFront ==
    /\ call = "payload"
    /\ replies # <<>>
    /\ Len(outputs) < MaxOutputs
    /\ call' = "idle"
    /\ replies' = Tail(replies)
    /\ outputs' = <<[pts |-> frame, frames |-> Head(replies).frames]>> \o outputs
    /\ accepted' = accepted \cup {frame}
    /\ UNCHANGED <<socket, initialized, draining, formatKnown, size, frame, cooldown, requests,
                   helper, session, refused, dropped, delivered>>

BugSubmitPayloadOverrun ==
    /\ call = "payload"
    /\ replies # <<>>
    /\ call' = "idle"
    /\ replies' = Tail(replies)
    /\ outputs' = Append(outputs, [pts |-> frame, frames |-> Head(replies).frames])
    /\ accepted' = accepted \cup {frame}
    /\ UNCHANGED <<socket, initialized, draining, formatKnown, size, frame, cooldown, requests,
                   helper, session, refused, dropped, delivered>>

\* The packet is complete; it is tagged with the surface of this call and queued.
SubmitPayload ==
    /\ call = "payload"
    /\ replies # <<>>
    /\ call' = "idle"
    /\ replies' = Tail(replies)
    /\ IF Len(outputs) < MaxOutputs
       THEN /\ outputs' = Append(outputs, [pts |-> frame, frames |-> Head(replies).frames])
            /\ accepted' = accepted \cup {frame}
            /\ UNCHANGED <<refused, dropped>>
       ELSE /\ refused' = refused \cup {frame}
            /\ dropped' = dropped \cup Head(replies).frames
            /\ UNCHANGED <<outputs, accepted>>
    /\ UNCHANGED <<socket, initialized, draining, formatKnown, size, frame, cooldown, requests,
                   helper, session, delivered>>

\* No memory for the AMFBuffer: the packet is gone, the caller gets AMF_OUT_OF_MEMORY.
SubmitNoBuffer ==
    /\ call = "payload"
    /\ replies # <<>>
    /\ call' = "idle"
    /\ replies' = Tail(replies)
    /\ dropped' = dropped \cup Head(replies).frames
    /\ UNCHANGED <<socket, initialized, draining, formatKnown, size, frame, outputs, cooldown, requests,
                   helper, session, accepted, refused, delivered>>

(***************************************************************************)
(* malloc failed, or the payload did not arrive in 5 s: AMF_FAIL, but the  *)
(* connection stays open with the rest of the payload in front of whatever *)
(* the helper sends next.                                                  *)
(***************************************************************************)
SubmitPayloadFails ==
    /\ call = "payload"
    /\ call' = "idle"
    /\ UNCHANGED <<socket, initialized, draining, formatKnown, size, frame, outputs, cooldown,
                   stream, helper, session, history>>

\* Mutant: the packet handed out stays in the ring.
BugQueryOutputKeeps ==
    /\ call = "idle"
    /\ outputs # <<>>
    /\ delivered' = delivered \cup Head(outputs).frames
    /\ UNCHANGED <<call, socket, initialized, draining, formatKnown, size, frame, outputs,
                   cooldown, stream, helper, session, accepted, refused, dropped>>

\* component_query_output asks the ring alone: it also works on a closed component.
QueryOutput ==
    /\ call = "idle"
    /\ outputs # <<>>
    /\ outputs' = Tail(outputs)
    /\ delivered' = delivered \cup Head(outputs).frames
    /\ UNCHANGED <<call, socket, initialized, draining, formatKnown, size, frame, cooldown,
                   stream, helper, session, accepted, refused, dropped>>

Drain ==
    /\ call = "idle"
    /\ initialized
    /\ draining' = TRUE
    /\ UNCHANGED <<call, socket, initialized, formatKnown, size, frame, outputs, cooldown,
                   stream, helper, session, history>>

Flush ==
    /\ call = "idle"
    /\ initialized
    /\ draining' = FALSE
    /\ UNCHANGED <<call, socket, initialized, formatKnown, size, frame, outputs, cooldown,
                   stream, helper, session, history>>

Tick ==
    /\ cooldown > 0
    /\ cooldown' = cooldown - 1
    /\ UNCHANGED <<call, socket, initialized, draining, formatKnown, size, frame, outputs,
                   stream, helper, session, history>>

\* helper_connect_failure_time is shared: another component's Init fails or succeeds.
OtherComponentInit ==
    /\ cooldown' \in {0, Backoff}
    /\ UNCHANGED <<call, socket, initialized, draining, formatKnown, size, frame, outputs,
                   stream, helper, session, history>>

-----------------------------------------------------------------------------
(* The session in the helper: handle_client *)

EndSession ==
    /\ server' = "closed"
    /\ UNCHANGED <<component, requests, encSize, held, accepted, refused, delivered>>

\* The connection is turned away by the accept loop (AmfHelper says when).
HelperRejects ==
    /\ server = "handshake"
    /\ EndSession
    /\ UNCHANGED <<replies, helper, dropped>>

\* encoder_init: the codec is open for this picture size or not at all.
EncoderInit(enabled, message) == encSize' = IF enabled THEN message.size ELSE NoSize

(***************************************************************************)
(* The init message of another version ends the session without an answer. *)
(* A helper of another version is another program: it may as well answer   *)
(* with its own version.                                                   *)
(***************************************************************************)
ServeInit ==
    /\ server = "handshake"
    /\ requests # <<>>
    /\ requests' = Tail(requests)
    /\ \/ /\ helper # Head(requests).version
          /\ server' = "closed"
          /\ UNCHANGED <<replies, encSize>>
       \/ \E enabled \in BOOLEAN :
             /\ replies' = Append(replies, [kind |-> "init", enabled |-> enabled,
                                            version |-> helper])
             /\ server' = IF enabled THEN "loop" ELSE "closed"
             /\ EncoderInit(enabled, Head(requests))
    /\ UNCHANGED <<component, helper, held, history>>

(***************************************************************************)
(* encoder_frame.  The codec takes the picture and gives out all packets   *)
(* it has ready, oldest pictures first, or it fails: a frame of the wrong  *)
(* size at once, anything else with some pictures possibly lost.           *)
(***************************************************************************)
EncoderFrame(message, F) ==
    LET inside == held \cup {message.frame}
    IN /\ message.size = encSize
       /\ F \subseteq inside
       /\ \A x \in F : \A y \in inside \ F : x < y
       /\ Cardinality(inside \ F) <= EncoderDepth
       /\ held' = inside \ F
       /\ UNCHANGED dropped

EncoderFrameFails(message, kept) ==
    /\ kept \subseteq held \cup {message.frame}
    /\ message.size # encSize => kept = held
    /\ held' = kept
    /\ dropped' = dropped \cup (held \ kept)

ServeFrame ==
    /\ server = "loop"
    /\ requests # <<>>
    /\ requests' = Tail(requests)
    /\ LET message == Head(requests)
       IN \/ \E F \in SUBSET (held \cup {message.frame}) :
                /\ EncoderFrame(message, F)
                /\ replies' = Append(replies, [kind |-> "reply", frame |-> message.frame,
                                               ok |-> TRUE, frames |-> F])
          \/ /\ \E kept \in SUBSET (held \cup {message.frame}) : EncoderFrameFails(message, kept)
             /\ replies' = Append(replies, [kind |-> "reply", frame |-> message.frame,
                                            ok |-> FALSE, frames |-> {}])
    /\ UNCHANGED <<component, helper, server, encSize, accepted, refused, delivered>>

\* SO_RCVTIMEO: no message for 5 s ends the session, an idle one just the same.
ServerTimeout ==
    /\ server \in {"handshake", "loop"}
    /\ requests = <<>>
    /\ EndSession
    /\ UNCHANGED <<replies, helper, dropped>>

\* The helper exits or is killed; of what it had sent, only a part arrives.
HelperExit ==
    /\ helper # 0
    /\ helper' = 0
    /\ IF server = "none"
       THEN UNCHANGED <<component, stream, session, history>>
       ELSE /\ EndSession
            /\ \E n \in 0..Len(replies) :
                  /\ replies' = SubSeq(replies, 1, n)
                  /\ dropped' = dropped \cup (FramesOf(replies) \ FramesOf(replies'))

\* systemd starts it again, after an upgrade possibly another version.
HelperStart ==
    /\ helper = 0
    /\ helper' \in Versions
    /\ UNCHANGED <<component, stream, session, history>>

-----------------------------------------------------------------------------

Calls ==
    \/ \E s \in Sizes : InitCall(s) \/ ReInitCall(s)
    \/ Terminate \/ SubmitInput \/ QueryOutput \/ Drain \/ Flush

CallSteps ==
    \/ InitReply \/ InitTimeout
    \/ SubmitReply \/ SubmitTimeout
    \/ SubmitPayload \/ SubmitNoBuffer \/ SubmitPayloadFails

Helper ==
    \/ HelperRejects \/ ServeInit \/ ServeFrame \/ ServerTimeout
    \/ HelperExit \/ HelperStart

Next == Calls \/ CallSteps \/ Tick \/ OtherComponentInit \/ Helper

Spec == Init /\ [][Next]_vars

\* A blocked send or receive returns: that is what the socket timeouts are for.
FairSpec == Spec /\ WF_vars(CallSteps)

-----------------------------------------------------------------------------
(* Properties *)

(***************************************************************************)
(* Between calls the component owns a socket exactly while it is           *)
(* initialised, and a session that the helper still serves then is an open *)
(* encoder of the same protocol version and picture size: there is no half *)
(* initialised state (README.md:213-214), whatever failed on the way.      *)
(***************************************************************************)
NoHalfInit ==
    /\ call = "idle" => (socket = "open" <=> initialized)
    /\ initialized /\ server # "closed" =>
          /\ server = "loop"
          /\ helper = BridgeVersion
          /\ encSize = size

(***************************************************************************)
(* A reply that component_submit takes for good answers the frame of this  *)
(* very call: neither a reply that came too late for an earlier call nor   *)
(* the rest of a payload that was never read is mistaken for it.           *)
(***************************************************************************)
ReplyAnswersCall ==
    /\ call = "reply" /\ replies # <<>> /\ GoodReply(Head(replies)) =>
          Head(replies).frame = frame
    /\ call = "payload" /\ replies # <<>> =>
          Head(replies).kind = "payload" /\ Head(replies).frame = frame

\* Where a picture that the codec took can be.
Places == <<delivered, Queued, FramesOf(replies), held, dropped>>

(***************************************************************************)
(* Frames are conserved: one whose SubmitInput returned AMF_OK is with the *)
(* caller, in the ring, in the stream, in the codec or known to be lost,   *)
(* and no frame is in two of these places: nothing is delivered twice.     *)
(***************************************************************************)
Conservation ==
    /\ accepted \subseteq UNION {Places[i] : i \in 1..5}
    /\ \A i, j \in 1..5 : i # j => Places[i] \cap Places[j] = {}

(***************************************************************************)
(* QueryOutput hands the pictures out in the order of their submission,    *)
(* across failed calls, terminated sessions and reconnects.                *)
(***************************************************************************)
InOrder ==
    /\ \A i, j \in 1..Len(outputs) : i < j =>
          \A x \in outputs[i].frames : \A y \in outputs[j].frames : x < y
    /\ \A x \in delivered : \A y \in Queued : x < y

(***************************************************************************)
(* The exchanges with the helper implement the component that AmfEncoder   *)
(* describes: a submission counts once its call has returned.              *)
(***************************************************************************)
Promise == INSTANCE AmfEncoder WITH
    ready <- initialized,
    submitted <- IF call \in {"reply", "payload"} THEN frame - 1 ELSE frame
KeepsPromise == Promise!Spec

(***************************************************************************)
(* Every call returns, even when the helper neither answers nor hangs up:  *)
(* the graphics thread of UU is not blocked for good (README.md:215-217).  *)
(***************************************************************************)
CallReturns == call # "idle" ~> call = "idle"

(***************************************************************************)
(* AMF_INPUT_FULL tells the caller to offer the same frame again ("if      *)
(* input queue is full", third_party/AMF .../core/Result.h:89): the frame  *)
(* must not have reached the codec already.                                *)
(***************************************************************************)
InputFullKeepsFrameOut == \A i \in 1..5 : refused \cap Places[i] = {}

=============================================================================
