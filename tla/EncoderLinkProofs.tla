------------------------- MODULE EncoderLinkProofs -------------------------
(***************************************************************************)
(* For every ring size, backoff, number of frames and codec depth: the     *)
(* component never mistakes a stale answer for its own, keeps the order of *)
(* the frames and implements AmfEncoder.                                   *)
(***************************************************************************)
EXTENDS EncoderLink, SequenceTheorems, TLAPS

(***************************************************************************)
(* The connection exists exactly during Init and while initialised.        *)
(***************************************************************************)
Connection ==
    /\ socket = "invalid" =>
          /\ ~initialized
          /\ call = "idle"
          /\ server = "none"
          /\ requests = <<>>
          /\ replies = <<>>
          /\ held = {}
    /\ socket = "open" =>
          /\ server # "none"
          /\ initialized <=> call # "handshake"
          /\ size \in Sizes
    /\ server \in {"handshake", "loop"} => helper # 0

(***************************************************************************)
(* During the handshake the one init message is unread, answered, or lost  *)
(* with the session.                                                       *)
(***************************************************************************)
Handshake ==
    call = "handshake" =>
        /\ held = {}
        /\ server = "handshake" =>
              /\ replies = <<>>
              /\ requests = <<[kind |-> "init", version |-> BridgeVersion, size |-> size]>>
        /\ server = "loop" =>
              /\ requests = <<>>
              /\ encSize = size
              /\ Len(replies) = 1
              /\ replies[1].version = helper
        /\ Len(replies) \in {0, 1}
        /\ replies # <<>> => requests = <<>>
        /\ \A i \in 1..Len(replies) : replies[i] \in InitReplies

(***************************************************************************)
(* In a session the stream to the helper holds at most the frame of the    *)
(* current call.  The stream back holds at most the rest of one payload    *)
(* that was never read, and behind it the answer to the current call.      *)
(***************************************************************************)
Session ==
    initialized =>
        /\ server \in {"loop", "closed"}
        /\ server = "loop" => helper = BridgeVersion /\ encSize = size
        /\ Len(requests) \in {0, 1}
        /\ requests # <<>> =>
              /\ call = "reply"
              /\ requests[1] = [kind |-> "frame", frame |-> frame, size |-> size]
        /\ Len(replies) \in {0, 1, 2}
        /\ \A i \in 1..Len(replies) :
              /\ replies[i] \in FrameReplies
              /\ replies[i].kind = "payload" => i = 1 /\ replies[i].frames # {}
              /\ replies[i].kind = "reply" =>
                    /\ call = "reply"
                    /\ requests = <<>>
                    /\ i = Len(replies)
                    /\ replies[i].frame = frame
                    /\ replies[i].ok => frame \in replies[i].frames \cup held
        /\ call = "payload" =>
              /\ requests = <<>>
              /\ Len(replies) \in {0, 1}
              /\ replies # <<>> =>
                    /\ replies[1].kind = "payload"
                    /\ replies[1].frame = frame
                    /\ frame \in replies[1].frames \cup held

(***************************************************************************)
(* The places of the pictures are passed in order: whatever was delivered  *)
(* precedes the ring, the ring the stream, the stream the codec.  A frame  *)
(* the helper has not read is in none of them.                             *)
(***************************************************************************)
Passed(D, Q, R, H) ==
    /\ \A x \in D \cup Q : \A y \in R \cup H : x < y
    /\ \A x \in R : \A y \in H : x < y
    /\ \A x \in D : \A y \in Q : x < y

RingInOrder ==
    \A i, j \in 1..Len(outputs) : i < j =>
        \A x \in outputs[i].frames : \A y \in outputs[j].frames : x < y

Everywhere == delivered \cup Queued \cup FramesOf(replies) \cup held \cup dropped

Order ==
    /\ Passed(delivered, Queued, FramesOf(replies), held)
    /\ RingInOrder
    /\ Everywhere \subseteq 1..frame
    /\ accepted \subseteq Everywhere
    /\ dropped \cap (delivered \cup Queued \cup FramesOf(replies) \cup held) = {}
    /\ initialized /\ requests # <<>> => frame \notin Everywhere
    /\ call \in {"reply", "payload"} => frame > 0
    /\ Len(outputs) <= MaxOutputs

IInv == TypeOK /\ Connection /\ Handshake /\ Session /\ Order

-----------------------------------------------------------------------------
(* What the operations on the streams and on the ring do to their frames.  *)

Replies == InitReplies \cup FrameReplies

\* An empty stream carries no frame.
LEMMA FramesOfEmpty == FramesOf(<<>>) = {}
  BY DEF FramesOf

LEMMA FramesOfMember ==
    ASSUME NEW s, NEW x
    PROVE  x \in FramesOf(s) <=>
              \E i \in 1..Len(s) : s[i].kind # "init" /\ x \in s[i].frames
  BY DEF FramesOf

LEMMA FramesOfInits ==
    ASSUME NEW s \in Seq(Replies), \A i \in 1..Len(s) : s[i] \in InitReplies
    PROVE  FramesOf(s) = {}
<1>1. \A i \in 1..Len(s) : s[i].kind = "init"
  BY DEF InitReplies
<1>2. \A x : x \notin FramesOf(s)
  BY <1>1, FramesOfMember
<1>3. QED
  BY <1>2

LEMMA FramesOfOne ==
    ASSUME NEW s \in Seq(Replies), Len(s) = 1, s[1] \in FrameReplies
    PROVE  FramesOf(s) = s[1].frames
<1>1. s[1].kind # "init"
  BY DEF FrameReplies
<1>2. \A x : x \in FramesOf(s) <=> x \in s[1].frames
  <2>1. TAKE x
  <2>2. 1..Len(s) = {1}
    OBVIOUS
  <2>3. QED
    BY <1>1, <2>2, FramesOfMember
<1>3. QED
  BY <1>2

LEMMA FramesOfAppend ==
    ASSUME NEW s \in Seq(Replies), NEW m \in FrameReplies
    PROVE  FramesOf(Append(s, m)) = FramesOf(s) \cup m.frames
<1>1. m.kind # "init"
  BY DEF FrameReplies
<1> DEFINE t == Append(s, m)
<1>2. Len(t) = Len(s) + 1 /\ t[Len(s) + 1] = m /\ \A i \in 1..Len(s) : t[i] = s[i]
  OBVIOUS
<1>3. ASSUME NEW x PROVE x \in FramesOf(t) <=> x \in FramesOf(s) \cup m.frames
  <2>1. x \in FramesOf(t) <=> \E i \in 1..Len(t) : t[i].kind # "init" /\ x \in t[i].frames
    BY FramesOfMember
  <2>2. x \in FramesOf(s) <=> \E i \in 1..Len(s) : s[i].kind # "init" /\ x \in s[i].frames
    BY FramesOfMember
  <2> HIDE DEF t
  <2>3. QED
    BY <1>1, <1>2, <2>1, <2>2
<1>4. QED
  BY <1>3

LEMMA FramesOfAppendInit ==
    ASSUME NEW s \in Seq(Replies), NEW m \in InitReplies, FramesOf(s) = {}
    PROVE  FramesOf(Append(s, m)) = {}
<1>1. m.kind = "init"
  BY DEF InitReplies
<1> DEFINE t == Append(s, m)
<1>2. Len(t) = Len(s) + 1 /\ t[Len(s) + 1] = m /\ \A i \in 1..Len(s) : t[i] = s[i]
  OBVIOUS
<1>3. ASSUME NEW x PROVE x \notin FramesOf(t)
  <2>1. x \in FramesOf(t) <=> \E i \in 1..Len(t) : t[i].kind # "init" /\ x \in t[i].frames
    BY FramesOfMember
  <2>2. x \in FramesOf(s) <=> \E i \in 1..Len(s) : s[i].kind # "init" /\ x \in s[i].frames
    BY FramesOfMember
  <2> HIDE DEF t
  <2>3. QED
    BY <1>1, <1>2, <2>1, <2>2
<1>4. QED
  BY <1>3

\* Of a stream that is cut off, only frames of the stream remain.
LEMMA FramesOfPrefix ==
    ASSUME NEW s \in Seq(Replies), NEW n \in 0..Len(s)
    PROVE  FramesOf(SubSeq(s, 1, n)) \subseteq FramesOf(s)
<1> DEFINE t == SubSeq(s, 1, n)
<1>1. Len(t) = n /\ \A i \in 1..n : t[i] = s[i]
  OBVIOUS
<1>2. ASSUME NEW x \in FramesOf(t) PROVE x \in FramesOf(s)
  <2>1. x \in FramesOf(t) <=> \E i \in 1..Len(t) : t[i].kind # "init" /\ x \in t[i].frames
    BY FramesOfMember
  <2>2. x \in FramesOf(s) <=> \E i \in 1..Len(s) : s[i].kind # "init" /\ x \in s[i].frames
    BY FramesOfMember
  <2> HIDE DEF t
  <2>3. QED
    BY <1>1, <1>2, <2>1, <2>2
<1>3. QED
  BY <1>2

\* The stream or the ring after its only message is read.
LEMMA TailOfOne ==
    ASSUME NEW S, NEW s \in Seq(S), Len(s) = 1
    PROVE  Head(s) = s[1] /\ s[1] \in S /\ Tail(s) = <<>>
<1>1. s # <<>>
  OBVIOUS
<1>2. Len(Tail(s)) = 0 /\ Tail(s) \in Seq(S) /\ Head(s) \in S /\ Head(s) = s[1]
  BY <1>1, HeadTailProperties
<1>3. Tail(s) = <<>>
  BY <1>2, EmptySeq
<1>4. QED
  BY <1>2, <1>3

\* The ring: what QueryOutput takes and what a new packet adds.
FramesIn(seq) == UNION {seq[i].frames : i \in 1..Len(seq)}

LEMMA FramesInMember ==
    ASSUME NEW s, NEW x
    PROVE  x \in FramesIn(s) <=> \E i \in 1..Len(s) : x \in s[i].frames
  BY DEF FramesIn

LEMMA FramesInAppend ==
    ASSUME NEW s \in Seq(Buffers), NEW b \in Buffers
    PROVE  FramesIn(Append(s, b)) = FramesIn(s) \cup b.frames
<1> DEFINE t == Append(s, b)
<1>1. Len(t) = Len(s) + 1 /\ t[Len(s) + 1] = b /\ \A i \in 1..Len(s) : t[i] = s[i]
  OBVIOUS
<1>2. ASSUME NEW x PROVE x \in FramesIn(t) <=> x \in FramesIn(s) \cup b.frames
  <2>1. x \in FramesIn(t) <=> \E i \in 1..Len(t) : x \in t[i].frames
    BY FramesInMember
  <2>2. x \in FramesIn(s) <=> \E i \in 1..Len(s) : x \in s[i].frames
    BY FramesInMember
  <2> HIDE DEF t
  <2>3. QED
    BY <1>1, <2>1, <2>2
<1>3. QED
  BY <1>2

LEMMA FramesInTail ==
    ASSUME NEW s \in Seq(Buffers), s # <<>>
    PROVE  FramesIn(s) = FramesIn(Tail(s)) \cup Head(s).frames
<1> DEFINE t == Tail(s)
<1>1. Len(s) > 0 /\ Len(t) = Len(s) - 1 /\ Head(s) = s[1] /\ \A i \in 1..Len(t) : t[i] = s[i + 1]
  OBVIOUS
<1>2. ASSUME NEW x PROVE x \in FramesIn(s) <=> x \in FramesIn(t) \cup Head(s).frames
  <2>1. x \in FramesIn(t) <=> \E i \in 1..Len(t) : x \in t[i].frames
    BY FramesInMember
  <2>2. x \in FramesIn(s) <=> \E i \in 1..Len(s) : x \in s[i].frames
    BY FramesInMember
  <2>3. \A i \in 1..Len(s) : i = 1 \/ (i - 1 \in 1..Len(t) /\ s[i] = t[i - 1])
    BY <1>1
  <2>4. \A i \in 1..Len(t) : i + 1 \in 1..Len(s) /\ s[i + 1] = t[i]
    BY <1>1
  <2>5. 1 \in 1..Len(s)
    BY <1>1
  <2> HIDE DEF t
  <2>6. QED
    BY <1>1, <2>1, <2>2, <2>3, <2>4, <2>5
<1>3. QED
  BY <1>2

\* A stream of well-formed messages carries frames.
LEMMA FramesOfTyped ==
    ASSUME NEW s \in Seq(Replies)
    PROVE  FramesOf(s) \subseteq Frames
<1>1. ASSUME NEW x \in FramesOf(s) PROVE x \in Frames
  <2>1. PICK i \in 1..Len(s) : s[i].kind # "init" /\ x \in s[i].frames
    BY FramesOfMember
  <2>2. s[i] \in InitReplies \/ s[i] \in FrameReplies
    BY DEF Replies
  <2>3. s[i] \notin InitReplies
    BY <2>1 DEF InitReplies
  <2>4. s[i].frames \subseteq Frames
    BY <2>2, <2>3 DEF FrameReplies
  <2>5. QED
    BY <2>1, <2>4
<1>2. QED
  BY <1>1

LEMMA QueuedIsFramesIn == Queued = FramesIn(outputs) /\ Queued' = FramesIn(outputs')
  BY DEF Queued, FramesIn

-----------------------------------------------------------------------------
(* The invariant holds initially and every step preserves it. *)

LEMMA InitInvariant == Init => IInv
<1> SUFFICES ASSUME Init PROVE IInv
  OBVIOUS
<1> USE SizeAssumption, VersionAssumption, BoundAssumption
<1>1. TypeOK
  <2>1. initialized \in BOOLEAN /\ draining \in BOOLEAN /\ formatKnown \in BOOLEAN
    BY DEF Init
  <2>2. outputs \in Seq(Buffers) /\ requests \in Seq(Requests) /\ replies \in Seq(InitReplies \cup FrameReplies)
    BY DEF Init
  <2>3. frame \in 0..MaxFrames /\ cooldown \in 0..Backoff
    BY DEF Init
  <2>4. QED
    BY <2>1, <2>2, <2>3 DEF Init, TypeOK
<1>2. Connection /\ Handshake /\ Session
  BY DEF Init, Connection, Handshake, Session
<1>3. Queued = {} /\ FramesOf(replies) = {}
  BY FramesOfEmpty DEF Init, Queued
<1>4. Order
  BY <1>3 DEF Init, Order, Passed, RingInOrder, Everywhere
<1>5. QED
  BY <1>1, <1>2, <1>4 DEF IInv

(***************************************************************************)
(* Closing the connection: what was in the codec and in the stream is lost *)
(* and nothing else moves.                                                 *)
(***************************************************************************)
LEMMA CloseInvariant ==
    ASSUME IInv, CloseCodec, call' = "idle",
           UNCHANGED <<frame, outputs, helper, accepted, refused, delivered>>,
           draining' \in BOOLEAN, formatKnown' \in BOOLEAN,
           size' \in Sizes \cup {NoSize}, cooldown' \in 0..Backoff
    PROVE  IInv'
<1> USE SizeAssumption, VersionAssumption, BoundAssumption
<1>1. FramesOf(replies) \subseteq Frames
  BY FramesOfTyped DEF IInv, TypeOK, Replies
<1>2. TypeOK'
  <2>1. dropped' \subseteq Frames
    BY <1>1 DEF IInv, TypeOK, CloseCodec
  <2>2. frame' \in 0..MaxFrames /\ outputs' \in Seq(Buffers) /\ helper' \in Versions \cup {0}
        /\ accepted' \in SUBSET Frames /\ refused' \in SUBSET Frames
        /\ delivered' \in SUBSET Frames
    BY DEF IInv, TypeOK
  <2>3. initialized' \in BOOLEAN
    BY DEF CloseCodec
  <2>4. requests' \in Seq(Requests) /\ replies' \in Seq(InitReplies \cup FrameReplies)
    BY DEF CloseCodec
  <2>5. QED
    BY <2>1, <2>2, <2>3, <2>4 DEF TypeOK, CloseCodec
<1>3. Connection' /\ Handshake' /\ Session'
  BY DEF IInv, Connection, Handshake, Session, CloseCodec
<1>4. Queued' = Queued /\ FramesOf(replies') = {} /\ held' = {}
      /\ dropped' = dropped \cup held \cup FramesOf(replies)
  BY FramesOfEmpty DEF Queued, CloseCodec
<1>5. Order'
  BY <1>4 DEF IInv, Order, Passed, RingInOrder, Everywhere, CloseCodec
<1>6. QED
  BY <1>2, <1>3, <1>5 DEF IInv

LEMMA InitFailsInvariant ==
    ASSUME IInv, InitFails, size' = size
    PROVE  IInv'
<1> USE BoundAssumption
<1>1. CloseCodec /\ call' = "idle" /\ cooldown' \in 0..Backoff
  BY DEF InitFails
<1>2. /\ UNCHANGED <<frame, outputs, helper, accepted, refused, delivered>>
      /\ draining' \in BOOLEAN /\ formatKnown' \in BOOLEAN
      /\ size' \in Sizes \cup {NoSize}
  BY DEF InitFails, IInv, TypeOK
<1>3. QED
  BY <1>1, <1>2, CloseInvariant

LEMMA SubmitFailsInvariant ==
    ASSUME IInv, SubmitFails
    PROVE  IInv'
<1>1. CloseCodec /\ call' = "idle"
  BY DEF SubmitFails
<1>2. /\ UNCHANGED <<frame, outputs, helper, accepted, refused, delivered>>
      /\ draining' \in BOOLEAN /\ formatKnown' \in BOOLEAN
      /\ size' \in Sizes \cup {NoSize} /\ cooldown' \in 0..Backoff
  BY DEF SubmitFails, IInv, TypeOK
<1>3. QED
  BY <1>1, <1>2, CloseInvariant

LEMMA TerminateInvariant ==
    ASSUME IInv, CloseCodec, call = "idle",
           UNCHANGED <<call, draining, formatKnown, size, frame, outputs, cooldown, helper,
                       accepted, refused, delivered>>
    PROVE  IInv'
<1>1. /\ draining' \in BOOLEAN /\ formatKnown' \in BOOLEAN
      /\ size' \in Sizes \cup {NoSize} /\ cooldown' \in 0..Backoff
  BY DEF IInv, TypeOK
<1>2. QED
  BY <1>1, CloseInvariant

\* A new connection starts with one message and loses what the old one held.
LEMMA DialInvariant ==
    ASSUME IInv, NEW s \in Sizes, call = "idle", Dial(s)
    PROVE  IInv'
<1> USE SizeAssumption, VersionAssumption, BoundAssumption
<1>1. CASE InitFails /\ UNCHANGED size
  BY <1>1, InitFailsInvariant
<1>2. CASE call' = "handshake"
  <2> DEFINE message == [kind |-> "init", version |-> BridgeVersion, size |-> s]
  <2>1. /\ socket' = "open" /\ initialized' = FALSE /\ size' = s
        /\ requests' = <<message>> /\ replies' = <<>> /\ helper # 0
        /\ server' = "handshake" /\ encSize' = NoSize /\ held' = {}
        /\ dropped' = dropped \cup held \cup FramesOf(replies)
        /\ UNCHANGED <<draining, formatKnown, frame, outputs, cooldown, helper,
                       accepted, refused, delivered>>
    BY <1>2 DEF Dial, InitFails
  <2>2. message \in Requests
    BY DEF Requests
  <2>3. requests' \in Seq(Requests)
    BY <2>1, <2>2
  <2>4. FramesOf(replies) \subseteq Frames
    BY FramesOfTyped DEF IInv, TypeOK, Replies
  <2>5. TypeOK'
    <3>1. initialized' \in BOOLEAN /\ draining' \in BOOLEAN /\ formatKnown' \in BOOLEAN
      BY <2>1 DEF IInv, TypeOK
    <3>2. replies' \in Seq(InitReplies \cup FrameReplies)
      BY <2>1
    <3>3. dropped' \in SUBSET Frames
      BY <2>1, <2>4 DEF IInv, TypeOK
    <3>4. QED
      BY <1>2, <2>1, <2>3, <3>1, <3>2, <3>3 DEF IInv, TypeOK
  <2>6. Connection' /\ Handshake' /\ Session'
    BY <1>2, <2>1 DEF IInv, Connection, Handshake, Session
  <2>7. Queued' = Queued /\ FramesOf(replies') = {}
    BY <2>1, FramesOfEmpty DEF Queued
  <2>8. Order'
    BY <1>2, <2>1, <2>7 DEF IInv, Order, Passed, RingInOrder, Everywhere
  <2>9. QED
    BY <2>5, <2>6, <2>8 DEF IInv
<1>3. QED
  BY <1>1, <1>2 DEF Dial

LEMMA InitReplyInvariant ==
    ASSUME IInv, InitReply
    PROVE  IInv'
<1> USE SizeAssumption, VersionAssumption, BoundAssumption
<1>1. CASE Head(replies).enabled /\ Head(replies).version = BridgeVersion
  <2>1. /\ call = "handshake" /\ replies # <<>> /\ call' = "idle" /\ initialized' = TRUE
        /\ formatKnown' = TRUE /\ cooldown' = 0 /\ replies' = Tail(replies)
        /\ UNCHANGED <<socket, draining, size, frame, outputs, requests, helper,
                       server, encSize, held, accepted, refused, dropped, delivered>>
    BY <1>1 DEF InitReply, session, history
  <2>2. Len(replies) = 1 /\ replies[1] \in InitReplies /\ replies' = <<>>
    BY <2>1 DEF IInv, TypeOK, Handshake
  <2>3. TypeOK'
    BY <2>1, <2>2 DEF IInv, TypeOK
  <2>4. socket = "open" /\ server # "none"
    BY <2>1 DEF IInv, TypeOK, Connection
  <2>5. server # "handshake"
    BY <2>1, <2>2 DEF IInv, Handshake
  <2>6. server \in {"loop", "closed"}
    BY <2>4, <2>5 DEF IInv, TypeOK
  <2>7. server = "loop" => requests = <<>> /\ helper = BridgeVersion /\ encSize = size
    BY <1>1, <2>1, <2>2 DEF IInv, TypeOK, Handshake
  <2>8. requests = <<>> /\ held = {}
    BY <2>1, <2>2 DEF IInv, Handshake
  <2>9. Connection' /\ Handshake' /\ Session'
    <3>1. Connection'
      BY <2>1, <2>4, <2>6 DEF IInv, Connection
    <3>2. Handshake'
      BY <2>1 DEF Handshake
    <3>3. Session'
      BY <2>1, <2>2, <2>6, <2>7, <2>8 DEF Session
    <3>4. QED
      BY <3>1, <3>2, <3>3
  <2>10. Queued' = Queued /\ FramesOf(replies') = FramesOf(replies)
    <3>1. replies \in Seq(Replies) /\ \A i \in 1..Len(replies) : replies[i] \in InitReplies
      BY <2>1 DEF IInv, TypeOK, Handshake, Replies
    <3>2. FramesOf(replies) = {}
      BY <3>1, FramesOfInits
    <3>3. QED
      BY <2>1, <2>2, <3>2, FramesOfEmpty DEF Queued
  <2>11. Order'
    BY <2>1, <2>8, <2>10 DEF IInv, Order, Passed, RingInOrder, Everywhere
  <2>12. QED
    BY <2>3, <2>9, <2>11 DEF IInv
<1>2. CASE ~(Head(replies).enabled /\ Head(replies).version = BridgeVersion)
  BY <1>2, InitFailsInvariant DEF InitReply
<1>3. QED
  BY <1>1, <1>2

\* Steps that touch nothing but the draining flag and the backoff.
LEMMA FlagsInvariant ==
    ASSUME IInv, draining' \in BOOLEAN, cooldown' \in 0..Backoff,
           UNCHANGED <<call, socket, initialized, formatKnown, size, frame, outputs, requests, replies,
                       helper, server, encSize, held, accepted, refused, dropped, delivered>>
    PROVE  IInv'
<1>1. TypeOK'
  BY DEF IInv, TypeOK
<1>2. Connection' /\ Handshake' /\ Session'
  BY DEF IInv, Connection, Handshake, Session
<1>3. Queued' = Queued /\ FramesOf(replies') = FramesOf(replies)
  BY DEF Queued
<1>4. Order'
  BY <1>3 DEF IInv, Order, Passed, RingInOrder, Everywhere
<1>5. QED
  BY <1>1, <1>2, <1>4 DEF IInv

LEMMA HelperStartInvariant ==
    ASSUME IInv, HelperStart
    PROVE  IInv'
<1> USE VersionAssumption
<1>1. /\ helper = 0 /\ helper' \in Versions
      /\ UNCHANGED <<call, socket, initialized, draining, formatKnown, size, frame, outputs, cooldown,
                     requests, replies, server, encSize, held, accepted, refused, dropped, delivered>>
  BY DEF HelperStart, component, stream, session, history
<1>2. TypeOK'
  BY <1>1 DEF IInv, TypeOK
<1>3. server \notin {"handshake", "loop"}
  BY <1>1 DEF IInv, Connection
<1>4. Connection' /\ Handshake' /\ Session'
  <2>1. Connection'
    BY <1>1, <1>3 DEF IInv, Connection
  <2>2. Handshake'
    BY <1>1, <1>3 DEF IInv, Handshake
  <2>3. Session'
    BY <1>1, <1>3 DEF IInv, Session
  <2>4. QED
    BY <2>1, <2>2, <2>3
<1>5. Queued' = Queued /\ FramesOf(replies') = FramesOf(replies)
  BY <1>1 DEF Queued
<1>6. Order'
  BY <1>1, <1>5 DEF IInv, Order, Passed, RingInOrder, Everywhere
<1>7. QED
  BY <1>2, <1>4, <1>6 DEF IInv

\* The helper ends a session it serves; nothing else moves.
LEMMA EndSessionInvariant ==
    ASSUME IInv, server \in {"handshake", "loop"}, EndSession, UNCHANGED <<replies, helper, dropped>>
    PROVE  IInv'
<1>1. /\ server' = "closed"
      /\ UNCHANGED <<call, socket, initialized, draining, formatKnown, size, frame, outputs, cooldown,
                     requests, replies, helper, encSize, held, accepted, refused, dropped, delivered>>
  BY DEF EndSession, component
<1>2. TypeOK'
  BY <1>1 DEF IInv, TypeOK
<1>3. socket = "open"
  BY DEF IInv, TypeOK, Connection
<1>4. Connection' /\ Handshake' /\ Session'
  <2>1. Connection'
    BY <1>1, <1>3 DEF IInv, Connection
  <2>2. Handshake'
    BY <1>1 DEF IInv, Handshake
  <2>3. Session'
    BY <1>1 DEF IInv, Session
  <2>4. QED
    BY <2>1, <2>2, <2>3
<1>5. Queued' = Queued /\ FramesOf(replies') = FramesOf(replies)
  BY <1>1 DEF Queued
<1>6. Order'
  BY <1>1, <1>5 DEF IInv, Order, Passed, RingInOrder, Everywhere
<1>7. QED
  BY <1>2, <1>4, <1>6 DEF IInv

(***************************************************************************)
(* The helper goes away: of the stream to the component a prefix remains,  *)
(* and the frames that were in the rest are lost.                          *)
(***************************************************************************)
LEMMA HelperExitInvariant ==
    ASSUME IInv, HelperExit
    PROVE  IInv'
<1> USE VersionAssumption
<1>1. CASE server = "none"
  <2>1. /\ helper' = 0
        /\ UNCHANGED <<call, socket, initialized, draining, formatKnown, size, frame, outputs, cooldown,
                       requests, replies, server, encSize, held, accepted, refused, dropped, delivered>>
    BY <1>1 DEF HelperExit, component, stream, session, history
  <2>2. TypeOK'
    BY <2>1 DEF IInv, TypeOK
  <2>3. socket = "invalid" /\ ~initialized /\ call = "idle"
    BY <1>1 DEF IInv, TypeOK, Connection
  <2>4. Connection' /\ Handshake' /\ Session'
    BY <1>1, <2>1, <2>3 DEF IInv, Connection, Handshake, Session
  <2>5. Queued' = Queued /\ FramesOf(replies') = FramesOf(replies)
    BY <2>1 DEF Queued
  <2>6. Order'
    BY <2>1, <2>5 DEF IInv, Order, Passed, RingInOrder, Everywhere
  <2>7. QED
    BY <2>2, <2>4, <2>6 DEF IInv
<1>2. CASE server # "none"
  <2>1. PICK n \in 0..Len(replies) :
          /\ replies' = SubSeq(replies, 1, n)
          /\ dropped' = dropped \cup (FramesOf(replies) \ FramesOf(replies'))
    BY <1>2 DEF HelperExit
  <2>2. /\ helper' = 0 /\ server' = "closed"
        /\ UNCHANGED <<call, socket, initialized, draining, formatKnown, size, frame, outputs, cooldown,
                       requests, encSize, held, accepted, refused, delivered>>
    BY <1>2 DEF HelperExit, EndSession, component
  <2>3. replies \in Seq(Replies) /\ Len(replies) \in Nat
    BY DEF IInv, TypeOK, Replies
  <2>4. FramesOf(replies') \subseteq FramesOf(replies) /\ FramesOf(replies) \subseteq Frames
    BY <2>1, <2>3, FramesOfPrefix, FramesOfTyped
  <2>5. /\ replies' \in Seq(Replies) /\ Len(replies') = n
        /\ \A i \in 1..n : replies'[i] = replies[i]
    BY <2>1, <2>3
  <2>6. TypeOK'
    <3>1. dropped' \in SUBSET Frames
      BY <2>1, <2>4 DEF IInv, TypeOK
    <3>2. replies' \in Seq(InitReplies \cup FrameReplies)
      BY <2>5 DEF Replies
    <3>3. QED
      BY <2>2, <3>1, <3>2 DEF IInv, TypeOK
  <2>7. socket = "open" /\ (initialized <=> call # "handshake") /\ size \in Sizes
    BY <1>2 DEF IInv, TypeOK, Connection
  <2>8. Connection'
    BY <2>2, <2>7 DEF Connection
  <2>9. Handshake'
    <3>1. SUFFICES ASSUME call = "handshake" PROVE Handshake'
      BY <2>2 DEF Handshake
    <3>2. /\ held = {} /\ Len(replies) \in {0, 1} /\ (replies # <<>> => requests = <<>>)
          /\ \A i \in 1..Len(replies) : replies[i] \in InitReplies
      BY <3>1 DEF IInv, Handshake
    <3>3. n \in {0, 1} /\ (n = 1 => replies # <<>>)
      BY <2>3, <3>2
    <3>4. (replies' # <<>> => n = 1) /\ (\A i \in 1..n : i \in 1..Len(replies))
      BY <2>3, <2>5, <3>3
    <3>5. QED
      BY <2>2, <2>5, <3>2, <3>3, <3>4 DEF Handshake
  <2>10. Session'
    <3>1. SUFFICES ASSUME initialized PROVE Session'
      BY <2>2 DEF Session
    <3>2. Session
      BY DEF IInv
    <3>3. Len(replies) \in {0, 1, 2} /\ n \in {0, 1, 2} /\ n <= Len(replies)
      BY <2>3, <3>1, <3>2 DEF Session
    <3>4. ASSUME NEW i \in 1..n
          PROVE  /\ replies'[i] \in FrameReplies
                 /\ replies'[i].kind = "payload" => i = 1 /\ replies'[i].frames # {}
                 /\ replies'[i].kind = "reply" =>
                       /\ call' = "reply"
                       /\ requests' = <<>>
                       /\ i = n
                       /\ replies'[i].frame = frame'
                       /\ replies'[i].ok => frame' \in replies'[i].frames \cup held'
      BY <2>2, <2>5, <3>1, <3>2, <3>3, <3>4 DEF Session
    <3>5. call = "payload" =>
            /\ requests = <<>>
            /\ n \in {0, 1}
            /\ replies' # <<>> =>
                  /\ replies'[1].kind = "payload"
                  /\ replies'[1].frame = frame
                  /\ frame \in replies'[1].frames \cup held
      <4>1. HAVE call = "payload"
      <4>2. Len(replies) \in {0, 1}
        BY <3>1, <3>2, <4>1 DEF Session
      <4>3. replies' # <<>> => n = 1 /\ replies # <<>> /\ replies'[1] = replies[1]
        BY <2>3, <2>5, <4>2
      <4>4. QED
        BY <3>1, <3>2, <3>3, <4>1, <4>2, <4>3 DEF Session
    <3>6. requests # <<>> =>
            call = "reply" /\ requests[1] = [kind |-> "frame", frame |-> frame, size |-> size]
      BY <3>1, <3>2 DEF Session
    <3>7. Len(requests) \in {0, 1}
      BY <3>1, <3>2 DEF Session
    <3>8. QED
      BY <2>2, <2>5, <3>3, <3>4, <3>5, <3>6, <3>7 DEF Session
  <2>11. Queued' = Queued
    BY <2>2 DEF Queued
  <2>12. Order'
    BY <2>1, <2>2, <2>4, <2>11 DEF IInv, Order, Passed, RingInOrder, Everywhere
  <2>13. QED
    BY <2>6, <2>8, <2>9, <2>10, <2>12 DEF IInv
<1>3. QED
  BY <1>1, <1>2

(***************************************************************************)
(* The init message is read: the session ends, or it is answered.          *)
(***************************************************************************)
LEMMA ServeInitInvariant ==
    ASSUME IInv, ServeInit
    PROVE  IInv'
<1> USE SizeAssumption, VersionAssumption
<1>1. /\ server = "handshake" /\ requests # <<>> /\ requests' = Tail(requests)
      /\ UNCHANGED <<call, socket, initialized, draining, formatKnown, size, frame, outputs, cooldown,
                     helper, held, accepted, refused, dropped, delivered>>
  BY DEF ServeInit, component, history
<1>2. socket = "open" /\ ~initialized /\ call = "handshake" /\ helper # 0
  BY <1>1 DEF IInv, TypeOK, Connection, Session
<1>3. /\ held = {} /\ replies = <<>>
      /\ requests = <<[kind |-> "init", version |-> BridgeVersion, size |-> size]>>
  BY <1>1, <1>2 DEF IInv, Handshake
<1>4. requests' = <<>> /\ Head(requests).size = size /\ size \in Sizes
  <2>1. Head(requests) \in Requests
    BY <1>1 DEF IInv, TypeOK
  <2>2. Head(requests) = [kind |-> "init", version |-> BridgeVersion, size |-> size]
    BY <1>3
  <2>3. size \in Sizes
    BY <2>1, <2>2 DEF Requests
  <2>4. QED
    BY <1>1, <1>3, <2>2, <2>3
<1>5. Queued' = Queued
  BY <1>1 DEF Queued
<1>6. CASE server' = "closed" /\ UNCHANGED <<replies, encSize>>
  <2>1. TypeOK'
    BY <1>1, <1>3, <1>4, <1>6 DEF IInv, TypeOK
  <2>2. Connection'
    BY <1>1, <1>2, <1>4, <1>6 DEF Connection
  <2>3. Handshake'
    BY <1>1, <1>2, <1>3, <1>4, <1>6 DEF Handshake
  <2>4. Session'
    BY <1>1, <1>2 DEF Session
  <2>5. Order'
    BY <1>1, <1>2, <1>5, <1>6 DEF IInv, Order, Passed, RingInOrder, Everywhere
  <2>6. QED
    BY <2>1, <2>2, <2>3, <2>4, <2>5 DEF IInv
<1>7. ASSUME NEW enabled \in BOOLEAN,
             replies' = Append(replies, [kind |-> "init", enabled |-> enabled, version |-> helper]),
             server' = IF enabled THEN "loop" ELSE "closed",
             encSize' = IF enabled THEN Head(requests).size ELSE NoSize
      PROVE  IInv'
  <2> DEFINE message == [kind |-> "init", enabled |-> enabled, version |-> helper]
  <2>1. message \in InitReplies /\ message.version = helper
    BY <1>2 DEF IInv, TypeOK, InitReplies
  <2> HIDE DEF message
  <2>2. replies' = <<message>>
    BY <1>3, <1>7 DEF message
  <2>3. Len(replies') = 1 /\ replies'[1] = message /\ replies' \in Seq(InitReplies \cup FrameReplies)
    BY <2>1, <2>2
  <2>4. server' \in {"loop", "closed"} /\ (server' = "loop" => encSize' = size)
        /\ encSize' \in Sizes \cup {NoSize}
    BY <1>4, <1>7
  <2>5. TypeOK'
    BY <1>1, <1>4, <2>3, <2>4 DEF IInv, TypeOK
  <2>6. Connection'
    BY <1>1, <1>2, <1>4, <2>4 DEF Connection
  <2>7. Handshake'
    BY <1>1, <1>2, <1>3, <1>4, <2>1, <2>3, <2>4 DEF Handshake
  <2>8. Session'
    BY <1>1, <1>2 DEF Session
  <2>9. FramesOf(replies) = {} /\ FramesOf(replies') = {}
    <3>1. FramesOf(replies) = {}
      BY <1>3, FramesOfEmpty
    <3>2. replies \in Seq(Replies)
      BY <1>3
    <3>3. FramesOf(Append(replies, message)) = {}
      BY <2>1, <3>1, <3>2, FramesOfAppendInit
    <3>4. QED
      BY <1>7, <3>1, <3>3 DEF message
  <2>10. Order'
    BY <1>1, <1>2, <1>5, <2>9 DEF IInv, Order, Passed, RingInOrder, Everywhere
  <2>11. QED
    BY <2>5, <2>6, <2>7, <2>8, <2>10 DEF IInv
<1>8. QED
  BY <1>6, <1>7 DEF ServeInit, EncoderInit

(***************************************************************************)
(* The helper reads the frame of the current call: the stream back held at *)
(* most an unread payload, and the answer goes behind it.                  *)
(***************************************************************************)
LEMMA ServeFrameContext ==
    ASSUME IInv, server = "loop", requests # <<>>
    PROVE  /\ initialized /\ call = "reply" /\ socket = "open" /\ helper # 0
           /\ Head(requests) = [kind |-> "frame", frame |-> frame, size |-> size]
           /\ Tail(requests) = <<>>
           /\ encSize = size
           /\ frame \in Frames
           /\ Len(replies) \in {0, 1}
           /\ \A i \in 1..Len(replies) :
                 /\ replies[i] \in FrameReplies
                 /\ replies[i].kind = "payload" /\ replies[i].frames # {}
<1>1. socket = "open" /\ helper # 0
  BY DEF IInv, TypeOK, Connection
<1>2. initialized
  BY <1>1 DEF IInv, Connection, Handshake
<1>3. /\ call = "reply" /\ encSize = size /\ Len(requests) = 1
      /\ requests[1] = [kind |-> "frame", frame |-> frame, size |-> size]
  BY <1>2 DEF IInv, TypeOK, Session
<1>4. /\ Head(requests) = [kind |-> "frame", frame |-> frame, size |-> size]
      /\ Tail(requests) = <<>>
  <2>1. requests \in Seq(Requests)
    BY DEF IInv, TypeOK
  <2>2. Len(Tail(requests)) = 0 /\ Tail(requests) \in Seq(Requests)
    BY <1>3, <2>1
  <2>3. Head(requests) = requests[1]
    BY <1>3, <2>1
  <2>4. QED
    BY <1>3, <2>2, <2>3, EmptySeq
<1>5. frame \in Frames
  BY <1>3, BoundAssumption DEF IInv, TypeOK, Order, Frames
<1>6. ASSUME NEW i \in 1..Len(replies)
      PROVE  /\ replies[i] \in FrameReplies
             /\ replies[i].kind = "payload" /\ replies[i].frames # {} /\ i = 1
  <2>1. /\ replies[i] \in FrameReplies
        /\ replies[i].kind = "payload" => i = 1 /\ replies[i].frames # {}
        /\ replies[i].kind = "reply" => requests = <<>>
    BY <1>2 DEF IInv, Session
  <2>2. replies[i].kind \in {"reply", "payload"}
    BY <2>1 DEF FrameReplies
  <2>3. QED
    BY <2>1, <2>2
<1>7. Len(replies) \in {0, 1}
  <2>1. Len(replies) \in {0, 1, 2}
    BY <1>2 DEF IInv, Session
  <2>2. Len(replies) # 2
    BY <1>6
  <2>3. QED
    BY <2>1, <2>2
<1>8. QED
  BY <1>1, <1>2, <1>3, <1>4, <1>5, <1>6, <1>7

LEMMA ServeFrameInvariant ==
    ASSUME IInv, server = "loop", requests # <<>>, requests' = Tail(requests),
           UNCHANGED <<component, helper, server, encSize, accepted, refused, delivered>>,
           NEW F \in SUBSET (held \cup {frame}), NEW ok \in BOOLEAN,
           held' \in SUBSET (held \cup {frame}),
           replies' = Append(replies, [kind |-> "reply", frame |-> frame, ok |-> ok, frames |-> F]),
           ok => frame \in F \cup held',
           F \cap held' = {}, \A x \in F : \A y \in held' : x < y,
           held \subseteq F \cup held' \cup dropped',
           dropped \subseteq dropped', dropped' \subseteq dropped \cup held,
           dropped' \cap (F \cup held') = {}
    PROVE  IInv'
<1> DEFINE message == [kind |-> "reply", frame |-> frame, ok |-> ok, frames |-> F]
<1>1. UNCHANGED <<call, socket, initialized, draining, formatKnown, size, frame, outputs, cooldown,
                  helper, server, encSize, accepted, refused, delivered>>
  BY DEF component
<1>2. /\ initialized /\ call = "reply" /\ socket = "open" /\ helper # 0
      /\ Tail(requests) = <<>> /\ encSize = size /\ frame \in Frames
      /\ Len(replies) \in {0, 1}
      /\ \A i \in 1..Len(replies) :
            /\ replies[i] \in FrameReplies
            /\ replies[i].kind = "payload" /\ replies[i].frames # {}
  BY ServeFrameContext
<1>3. held \subseteq Frames /\ F \subseteq Frames /\ held' \subseteq Frames /\ dropped' \subseteq Frames
  BY <1>2 DEF IInv, TypeOK
<1>4. /\ message \in FrameReplies /\ message.kind = "reply" /\ message.frame = frame
      /\ message.ok = ok /\ message.frames = F
  BY <1>2, <1>3 DEF FrameReplies
<1> HIDE DEF message
<1>5. /\ replies \in Seq(Replies)
      /\ replies' = Append(replies, message) /\ replies' \in Seq(Replies)
      /\ Len(replies') = Len(replies) + 1 /\ replies'[Len(replies) + 1] = message
      /\ \A i \in 1..Len(replies) : replies'[i] = replies[i]
  <2>1. replies \in Seq(Replies)
    BY DEF IInv, TypeOK, Replies
  <2>2. message \in Replies
    BY <1>4 DEF Replies
  <2>3. replies' = Append(replies, message)
    BY DEF message
  <2>4. QED
    BY <2>1, <2>2, <2>3
<1>6. TypeOK'
  <2>1. requests' \in Seq(Requests)
    <3>1. requests' = <<>>
      BY <1>2
    <3>2. <<>> \in Seq(Requests)
      OBVIOUS
    <3>3. QED
      BY <3>1, <3>2
  <2>2. replies' \in Seq(InitReplies \cup FrameReplies)
    BY <1>5 DEF Replies
  <2>3. QED
    BY <1>1, <1>3, <2>1, <2>2 DEF IInv, TypeOK
<1>7. Connection'
  BY <1>1, <1>2 DEF IInv, Connection
<1>8. Handshake'
  BY <1>1, <1>2 DEF Handshake
<1>9. Session'
  <2>1. server \in {"loop", "closed"} /\ (server = "loop" => helper = BridgeVersion /\ encSize = size)
    BY <1>2 DEF IInv, Session
  <2>2. Len(replies') \in {1, 2} /\ requests' = <<>>
    BY <1>2, <1>5
  <2>3. ASSUME NEW i \in 1..Len(replies')
        PROVE  /\ replies'[i] \in FrameReplies
               /\ replies'[i].kind = "payload" => i = 1 /\ replies'[i].frames # {}
               /\ replies'[i].kind = "reply" =>
                     /\ i = Len(replies')
                     /\ replies'[i].frame = frame
                     /\ replies'[i].ok => frame \in replies'[i].frames \cup held'
    <3>1. CASE i = Len(replies) + 1
      BY <1>4, <1>5, <3>1
    <3>2. CASE i # Len(replies) + 1
      <4>1. i \in 1..Len(replies) /\ i = 1
        BY <1>2, <1>5, <3>2
      <4>2. QED
        BY <1>2, <1>5, <4>1
    <3>3. QED
      BY <3>1, <3>2
  <2>4. QED
    BY <1>1, <1>2, <2>1, <2>2, <2>3 DEF Session
<1>10. FramesOf(replies') = FramesOf(replies) \cup F /\ Queued' = Queued
  BY <1>1, <1>4, <1>5, FramesOfAppend DEF Queued
<1>11. Order'
  <2>1. frame \notin Everywhere /\ Everywhere \subseteq 1..frame
    BY <1>2 DEF IInv, Order
  <2>2. \A x \in delivered \cup Queued \cup FramesOf(replies) : x < frame
    BY <1>2, <2>1 DEF Everywhere, Frames
  <2>3. Passed(delivered, Queued, FramesOf(replies), held)
    BY DEF IInv, Order
  <2>4. Passed(delivered, Queued, FramesOf(replies) \cup F, held')
    BY <2>2, <2>3 DEF Passed
  <2>5. Everywhere' \subseteq 1..frame
    BY <1>1, <1>2, <1>10, <2>1 DEF Everywhere, Frames
  <2>6. Everywhere \subseteq Everywhere'
    BY <1>1, <1>10 DEF Everywhere
  <2>7. dropped' \cap (delivered \cup Queued \cup FramesOf(replies) \cup F \cup held') = {}
    <3>1. \A x \in held : x \notin delivered \cup Queued \cup FramesOf(replies)
      <4>1. \A x \in Frames : ~(x < x)
        BY DEF Frames
      <4>2. QED
        BY <1>3, <2>3, <4>1 DEF Passed
    <3>2. dropped \cap (delivered \cup Queued \cup FramesOf(replies)) = {}
      BY DEF IInv, Order
    <3>3. QED
      BY <3>1, <3>2
  <2>8. RingInOrder' /\ accepted \subseteq Everywhere /\ frame > 0 /\ Len(outputs) <= MaxOutputs
    BY <1>1, <1>2 DEF IInv, Order, RingInOrder
  <2>9. QED
    BY <1>1, <1>2, <1>10, <2>4, <2>5, <2>6, <2>7, <2>8 DEF Order
<1>12. QED
  BY <1>6, <1>7, <1>8, <1>9, <1>11 DEF IInv

\* Both answers of encoder_frame have the form that the lemma above asks for.
LEMMA ServeFrameCases ==
    ASSUME IInv, ServeFrame
    PROVE  IInv'
<1>1. /\ server = "loop" /\ requests # <<>> /\ requests' = Tail(requests)
      /\ UNCHANGED <<component, helper, server, encSize, accepted, refused, delivered>>
  BY DEF ServeFrame
<1>2. /\ Head(requests).frame = frame /\ Head(requests).size = encSize
      /\ frame \in Frames /\ frame \notin Everywhere
  <2>1. Head(requests) = [kind |-> "frame", frame |-> frame, size |-> size]
        /\ encSize = size /\ frame \in Frames /\ initialized
    BY <1>1, ServeFrameContext
  <2>2. frame \notin Everywhere
    BY <1>1, <2>1 DEF IInv, Order
  <2>3. QED
    BY <2>1, <2>2
<1> DEFINE inside == held \cup {frame}
<1>3. dropped \cap inside = {}
  BY <1>2 DEF IInv, Order, Everywhere
<1>4. ASSUME NEW F \in SUBSET inside,
             \A x \in F : \A y \in inside \ F : x < y,
             held' = inside \ F, UNCHANGED dropped,
             replies' = Append(replies, [kind |-> "reply", frame |-> frame, ok |-> TRUE, frames |-> F])
      PROVE  IInv'
  BY <1>1, <1>3, <1>4, ServeFrameInvariant
<1>5. ASSUME NEW kept \in SUBSET inside,
             held' = kept, dropped' = dropped \cup (held \ kept),
             replies' = Append(replies, [kind |-> "reply", frame |-> frame, ok |-> FALSE, frames |-> {}])
      PROVE  IInv'
  <2>1. dropped' \cap held' = {}
    BY <1>3, <1>5
  <2>2. QED
    BY <1>1, <1>5, <2>1, ServeFrameInvariant
<1>6. QED
  BY <1>2, <1>4, <1>5 DEF ServeFrame, EncoderFrame, EncoderFrameFails

-----------------------------------------------------------------------------
(* SubmitInput and QueryOutput. *)

LEMMA SubmitInputInvariant ==
    ASSUME IInv, SubmitInput
    PROVE  IInv'
<1> USE BoundAssumption
<1> DEFINE message == [kind |-> "frame", frame |-> frame', size |-> size]
<1>1. /\ call = "idle" /\ initialized /\ frame < MaxFrames /\ frame' = frame + 1 /\ call' = "reply"
      /\ requests' = Append(requests, message)
      /\ UNCHANGED <<socket, initialized, draining, formatKnown, size, outputs, cooldown, replies,
                     helper, server, encSize, held, accepted, refused, dropped, delivered>>
  BY DEF SubmitInput, session, history
<1>2. socket = "open" /\ server # "none" /\ size \in Sizes
  BY <1>1 DEF IInv, TypeOK, Connection
<1>3. /\ server \in {"loop", "closed"}
      /\ server = "loop" => helper = BridgeVersion /\ encSize = size
      /\ requests = <<>>
      /\ Len(replies) \in {0, 1, 2}
      /\ \A i \in 1..Len(replies) :
            /\ replies[i] \in FrameReplies
            /\ replies[i].kind = "payload" => i = 1 /\ replies[i].frames # {}
            /\ replies[i].kind # "reply"
  BY <1>1 DEF IInv, Session
<1>4. frame' \in 1..MaxFrames /\ frame \in Nat
  BY <1>1 DEF IInv, TypeOK
<1>5. /\ message \in Requests /\ requests' = <<message>>
      /\ requests' \in Seq(Requests) /\ Len(requests') = 1 /\ requests'[1] = message
  <2>1. message \in Requests
    BY <1>2, <1>4 DEF Requests, Frames
  <2> HIDE DEF message
  <2>2. QED
    BY <1>1, <1>3, <2>1
<1>6. TypeOK'
  BY <1>1, <1>4, <1>5 DEF IInv, TypeOK
<1>7. Connection'
  BY <1>1, <1>2 DEF IInv, Connection
<1>8. Handshake'
  BY <1>1 DEF Handshake
<1>9. Session'
  BY <1>1, <1>3, <1>5 DEF Session
<1>10. Queued' = Queued /\ FramesOf(replies') = FramesOf(replies) /\ Everywhere' = Everywhere
  BY <1>1 DEF Queued, Everywhere
<1>11. Order'
  <2>1. Everywhere \subseteq 1..frame
    BY DEF IInv, Order
  <2>2. Everywhere \subseteq 1..frame' /\ frame' \notin Everywhere /\ frame' > 0
    BY <1>1, <1>4, <2>1
  <2>3. RingInOrder' /\ Passed(delivered, Queued, FramesOf(replies), held)
        /\ accepted \subseteq Everywhere /\ Len(outputs) <= MaxOutputs
        /\ dropped \cap (delivered \cup Queued \cup FramesOf(replies) \cup held) = {}
    BY <1>1 DEF IInv, Order, RingInOrder
  <2>4. QED
    BY <1>1, <1>10, <2>2, <2>3 DEF Order
<1>12. QED
  BY <1>6, <1>7, <1>8, <1>9, <1>11 DEF IInv

(***************************************************************************)
(* A good answer of component_submit is the only message in the stream and *)
(* belongs to the frame of this call.                                      *)
(***************************************************************************)
LEMMA GoodReplyContext ==
    ASSUME IInv, call = "reply", replies # <<>>, GoodReply(Head(replies))
    PROVE  /\ initialized /\ requests = <<>> /\ Len(replies) = 1 /\ Tail(replies) = <<>>
           /\ Head(replies) = replies[1] /\ replies[1] \in FrameReplies
           /\ replies[1].kind = "reply" /\ replies[1].frame = frame
           /\ frame \in replies[1].frames \cup held
<1>1. initialized
  BY DEF IInv, TypeOK, Connection
<1>2. replies \in Seq(Replies) /\ Len(replies) \in Nat /\ Len(replies) > 0 /\ Head(replies) = replies[1]
  BY DEF IInv, TypeOK, Replies
<1>3. replies[1].kind = "reply" /\ replies[1].ok
  BY <1>2 DEF GoodReply
<1>4. /\ replies[1] \in FrameReplies /\ requests = <<>> /\ 1 = Len(replies)
      /\ replies[1].frame = frame /\ frame \in replies[1].frames \cup held
  <2>1. 1 \in 1..Len(replies)
    BY <1>2
  <2>2. QED
    BY <1>1, <1>3, <2>1 DEF IInv, Session
<1>5. Tail(replies) = <<>>
  BY <1>2, <1>4, TailOfOne
<1>6. QED
  BY <1>1, <1>2, <1>3, <1>4, <1>5

LEMMA SubmitReplyInvariant ==
    ASSUME IInv, SubmitReply
    PROVE  IInv'
<1>1. CASE ~GoodReply(Head(replies))
  BY <1>1, SubmitFailsInvariant DEF SubmitReply
<1>2. CASE GoodReply(Head(replies)) /\ Head(replies).frames = {}
  <2>1. /\ call = "reply" /\ replies # <<>> /\ call' = "idle" /\ replies' = Tail(replies)
        /\ accepted' = accepted \cup {frame}
        /\ UNCHANGED <<socket, initialized, draining, formatKnown, size, frame, outputs, cooldown,
                       requests, helper, server, encSize, held, refused, dropped, delivered>>
    BY <1>2 DEF SubmitReply, session
  <2>2. /\ initialized /\ requests = <<>> /\ Len(replies) = 1 /\ replies' = <<>>
        /\ replies[1] \in FrameReplies /\ replies[1].frames = {} /\ frame \in held
    BY <1>2, <2>1, GoodReplyContext
  <2>3. held \subseteq Frames
    BY DEF IInv, TypeOK
  <2>4. replies' \in Seq(InitReplies \cup FrameReplies)
    <3>1. <<>> \in Seq(InitReplies \cup FrameReplies)
      OBVIOUS
    <3>2. QED
      BY <2>2, <3>1
  <2>5. TypeOK'
    BY <2>1, <2>2, <2>3, <2>4 DEF IInv, TypeOK
  <2>6. Connection'
    BY <2>1, <2>2 DEF IInv, Connection
  <2>7. Handshake'
    BY <2>1 DEF Handshake
  <2>8. Session'
    <3>1. server \in {"loop", "closed"} /\ (server = "loop" => helper = BridgeVersion /\ encSize = size)
      BY <2>2 DEF IInv, Session
    <3>2. Len(replies') = 0 /\ Len(requests') = 0 /\ requests' = <<>> /\ 1..Len(replies') = {}
      BY <2>1, <2>2
    <3>3. call' # "payload"
      BY <2>1
    <3>4. QED
      BY <2>1, <3>1, <3>2, <3>3 DEF Session
  <2>9. Queued' = Queued /\ FramesOf(replies') = {} /\ FramesOf(replies) = {}
    <3>1. replies \in Seq(Replies)
      BY DEF IInv, TypeOK, Replies
    <3>2. FramesOf(replies) = {}
      BY <2>2, <3>1, FramesOfOne
    <3>3. QED
      BY <2>1, <2>2, <3>2, FramesOfEmpty DEF Queued
  <2>10. Everywhere' = Everywhere /\ frame \in Everywhere
    BY <2>1, <2>2, <2>9 DEF Everywhere
  <2>11. Order'
    BY <2>1, <2>2, <2>9, <2>10 DEF IInv, Order, RingInOrder
  <2>12. QED
    BY <2>5, <2>6, <2>7, <2>8, <2>11 DEF IInv
<1>3. CASE GoodReply(Head(replies)) /\ Head(replies).frames # {}
  <2>1. /\ call = "reply" /\ replies # <<>> /\ call' = "payload"
        /\ replies' = [replies EXCEPT ![1].kind = "payload"]
        /\ UNCHANGED <<socket, initialized, draining, formatKnown, size, frame, outputs, cooldown,
                       requests, helper, server, encSize, held, accepted, refused, dropped, delivered>>
    BY <1>3 DEF SubmitReply, session, history
  <2>2. /\ initialized /\ requests = <<>> /\ Len(replies) = 1
        /\ replies[1] \in FrameReplies /\ replies[1].frames # {} /\ replies[1].frame = frame
        /\ frame \in replies[1].frames \cup held
    BY <1>3, <2>1, GoodReplyContext
  <2>3. replies \in Seq(Replies)
    BY DEF IInv, TypeOK, Replies
  <2> DEFINE message == [replies[1] EXCEPT !.kind = "payload"]
  <2>4. /\ message \in FrameReplies /\ message.kind = "payload" /\ message.frame = frame
        /\ message.frames = replies[1].frames
    BY <2>2 DEF FrameReplies
  <2>5. replies' = [replies EXCEPT ![1] = message]
    BY <2>1
  <2> HIDE DEF message
  <2>6. message \in Replies
    BY <2>4 DEF Replies
  <2>7. replies' \in Seq(Replies) /\ Len(replies') = 1 /\ replies'[1] = message
    <3>1. 1 \in 1..Len(replies)
      BY <2>2
    <3>2. /\ [replies EXCEPT ![1] = message] \in Seq(Replies)
          /\ Len([replies EXCEPT ![1] = message]) = Len(replies)
          /\ [replies EXCEPT ![1] = message][1] = message
      BY <2>3, <2>6, <3>1, ExceptSeq
    <3>3. QED
      BY <2>2, <2>5, <3>2
  <2>8. TypeOK'
    BY <2>1, <2>7 DEF IInv, TypeOK, Replies
  <2>9. Connection'
    BY <2>1, <2>2 DEF IInv, Connection
  <2>10. Handshake'
    BY <2>1 DEF Handshake
  <2>11. Session'
    <3>1. server \in {"loop", "closed"} /\ (server = "loop" => helper = BridgeVersion /\ encSize = size)
      BY <2>2 DEF IInv, Session
    <3>2. 1..Len(replies') = {1} /\ Len(replies') = 1
      BY <2>7
    <3>5. requests' = <<>> /\ Len(requests') = 0
      <4>1. requests' = <<>>
        BY <2>1, <2>2
      <4>2. QED
        BY <4>1
    <3>3. message.frames # {} /\ frame \in message.frames \cup held
      BY <2>2, <2>4
    <3>4. QED
      BY <2>1, <2>4, <2>7, <3>1, <3>2, <3>3, <3>5 DEF Session
  <2>12. Queued' = Queued /\ FramesOf(replies') = FramesOf(replies)
    <3>1. FramesOf(replies) = replies[1].frames
      BY <2>2, <2>3, FramesOfOne
    <3>2. FramesOf(replies') = replies'[1].frames
      BY <2>4, <2>7, FramesOfOne
    <3>3. QED
      BY <2>1, <2>4, <2>7, <3>1, <3>2 DEF Queued
  <2>13. Order'
    BY <2>1, <2>2, <2>12 DEF IInv, Order, RingInOrder, Everywhere
  <2>14. QED
    BY <2>8, <2>9, <2>10, <2>11, <2>13 DEF IInv
<1>4. QED
  BY <1>1, <1>2, <1>3

\* The payload that component_submit waits for is the only message in the stream.
LEMMA PayloadContext ==
    ASSUME IInv, call = "payload", replies # <<>>
    PROVE  /\ initialized /\ requests = <<>> /\ Len(replies) = 1 /\ Tail(replies) = <<>>
           /\ Head(replies) = replies[1] /\ replies[1] \in FrameReplies
           /\ replies[1].kind = "payload" /\ replies[1].frame = frame
           /\ replies[1].frames # {} /\ replies[1].frames \subseteq Frames
           /\ frame \in replies[1].frames \cup held
           /\ FramesOf(replies) = replies[1].frames
           /\ frame \in Frames
<1>1. initialized
  BY DEF IInv, TypeOK, Connection
<1>2. replies \in Seq(Replies) /\ replies \in Seq(InitReplies \cup FrameReplies)
  BY DEF IInv, TypeOK, Replies
<1>3. /\ requests = <<>> /\ Len(replies) \in {0, 1}
      /\ replies[1].kind = "payload" /\ replies[1].frame = frame
      /\ frame \in replies[1].frames \cup held
  BY <1>1 DEF IInv, Session
<1>4. Len(replies) = 1
  BY <1>2, <1>3
<1>5. replies[1] \in FrameReplies /\ replies[1].frames # {}
  <2>1. 1 \in 1..Len(replies)
    BY <1>4
  <2>2. QED
    BY <1>1, <1>3, <2>1 DEF IInv, Session
<1>6. Tail(replies) = <<>> /\ Head(replies) = replies[1]
  BY <1>2, <1>4, TailOfOne
<1>7. FramesOf(replies) = replies[1].frames
  BY <1>2, <1>4, <1>5, FramesOfOne
<1>8. replies[1].frames \subseteq Frames
  BY <1>5 DEF FrameReplies
<1>9. frame \in Frames
  BY BoundAssumption DEF IInv, TypeOK, Order, Frames
<1>10. QED
  BY <1>1, <1>3, <1>4, <1>5, <1>6, <1>7, <1>8, <1>9

\* Whatever becomes of the packet: the stream is empty and the call is over.
LEMMA PayloadTaken ==
    ASSUME IInv, call = "payload", replies # <<>>, call' = "idle", replies' = Tail(replies),
           UNCHANGED <<socket, initialized, draining, formatKnown, size, frame, cooldown, requests,
                       helper, server, encSize, held, delivered>>,
           outputs' \in Seq(Buffers), accepted' \in SUBSET Frames, refused' \in SUBSET Frames,
           dropped' \in SUBSET Frames
    PROVE  TypeOK' /\ Connection' /\ Handshake' /\ Session' /\ FramesOf(replies') = {}
<1>1. initialized /\ replies' = <<>> /\ requests' = <<>>
  BY PayloadContext
<1>2. replies' \in Seq(InitReplies \cup FrameReplies)
  <2>1. <<>> \in Seq(InitReplies \cup FrameReplies)
    OBVIOUS
  <2>2. QED
    BY <1>1, <2>1
<1>3. TypeOK'
  BY <1>2 DEF IInv, TypeOK
<1>4. Connection'
  BY <1>1 DEF IInv, Connection
<1>5. Handshake'
  BY DEF Handshake
<1>6. Session'
  <2>1. server \in {"loop", "closed"} /\ (server = "loop" => helper = BridgeVersion /\ encSize = size)
    BY <1>1 DEF IInv, Session
  <2>2. Len(<<>>) = 0 /\ 1..0 = {}
    OBVIOUS
  <2>3. call' # "payload"
    OBVIOUS
  <2>4. QED
    BY <1>1, <2>1, <2>2, <2>3 DEF Session
<1>7. FramesOf(replies') = {}
  BY <1>1, FramesOfEmpty
<1>8. QED
  BY <1>3, <1>4, <1>5, <1>6, <1>7

\* The packet is lost: the ring is full or there is no memory for it.
LEMMA PayloadDroppedInvariant ==
    ASSUME IInv, call = "payload", replies # <<>>, call' = "idle", replies' = Tail(replies),
           UNCHANGED <<socket, initialized, draining, formatKnown, size, frame, cooldown, requests,
                       helper, server, encSize, held, delivered, outputs, accepted>>,
           refused' \in SUBSET Frames, dropped' = dropped \cup Head(replies).frames
    PROVE  IInv'
<1>1. dropped' = dropped \cup FramesOf(replies) /\ FramesOf(replies) \subseteq Frames
  BY PayloadContext
<1>2. outputs' \in Seq(Buffers) /\ accepted' \in SUBSET Frames /\ dropped' \in SUBSET Frames
  BY <1>1 DEF IInv, TypeOK
<1>3. TypeOK' /\ Connection' /\ Handshake' /\ Session' /\ FramesOf(replies') = {}
  BY <1>2, PayloadTaken
<1>4. Queued' = Queued
  BY DEF Queued
<1>5. Order'
  <2>1. Passed(delivered, Queued, {}, held) /\ RingInOrder' /\ Len(outputs) <= MaxOutputs
    BY DEF IInv, Order, RingInOrder, Passed
  <2>2. Everywhere' = Everywhere
    BY <1>1, <1>3, <1>4 DEF Everywhere
  <2>3. dropped' \cap (delivered \cup Queued \cup held) = {}
    <3>1. FramesOf(replies) \cap (delivered \cup Queued \cup held) = {}
      <4>1. \A x \in FramesOf(replies) : ~(x < x)
        BY <1>1 DEF Frames
      <4>2. Passed(delivered, Queued, FramesOf(replies), held)
        BY DEF IInv, Order
      <4>3. QED
        BY <4>1, <4>2 DEF Passed
    <3>2. dropped \cap (delivered \cup Queued \cup held) = {}
      BY DEF IInv, Order
    <3>3. QED
      BY <1>1, <3>1, <3>2
  <2>4. Everywhere \subseteq 1..frame /\ accepted \subseteq Everywhere
    BY DEF IInv, Order
  <2>5. requests' = <<>> /\ call' = "idle"
    BY PayloadContext
  <2>6. QED
    BY <1>3, <1>4, <2>1, <2>2, <2>3, <2>4, <2>5 DEF Order
<1>6. QED
  BY <1>3, <1>5 DEF IInv

\* The packet goes to the end of the ring, which has room for it.
LEMMA PayloadQueuedInvariant ==
    ASSUME IInv, call = "payload", replies # <<>>, call' = "idle", replies' = Tail(replies),
           Len(outputs) < MaxOutputs,
           UNCHANGED <<socket, initialized, draining, formatKnown, size, frame, cooldown, requests,
                       helper, server, encSize, held, delivered, refused, dropped>>,
           outputs' = Append(outputs, [pts |-> frame, frames |-> Head(replies).frames]),
           accepted' = accepted \cup {frame}
    PROVE  IInv'
<1> DEFINE F == Head(replies).frames
           buffer == [pts |-> frame, frames |-> F]
<1>1. /\ F = FramesOf(replies) /\ F # {} /\ F \subseteq Frames /\ frame \in Frames
      /\ frame \in F \cup held /\ requests' = <<>>
  BY PayloadContext
<1>2. buffer \in Buffers /\ buffer.frames = F
  BY <1>1 DEF Buffers
<1> HIDE DEF F
<1> HIDE DEF buffer
<1>3. outputs \in Seq(Buffers) /\ Len(outputs) \in Nat
  BY DEF IInv, TypeOK
<1>4. outputs' = Append(outputs, buffer)
  BY DEF buffer, F
<1>5. /\ outputs' \in Seq(Buffers) /\ Len(outputs') = Len(outputs) + 1
      /\ outputs'[Len(outputs) + 1] = buffer
      /\ \A i \in 1..Len(outputs) : outputs'[i] = outputs[i]
  BY <1>2, <1>3, <1>4
<1>6. accepted' \in SUBSET Frames /\ refused' \in SUBSET Frames /\ dropped' \in SUBSET Frames
  BY <1>1 DEF IInv, TypeOK
<1>7. TypeOK' /\ Connection' /\ Handshake' /\ Session' /\ FramesOf(replies') = {}
  BY <1>5, <1>6, PayloadTaken
<1>8. Queued' = Queued \cup F
  <2>1. FramesIn(outputs') = FramesIn(outputs) \cup F
    BY <1>2, <1>3, <1>4, FramesInAppend
  <2>2. QED
    BY <2>1, QueuedIsFramesIn
<1>9. Passed(delivered, Queued, F, held)
  BY <1>1 DEF IInv, Order
<1>10. Order'
  <2>1. Passed(delivered, Queued \cup F, {}, held)
    BY <1>9 DEF Passed
  <2>2. RingInOrder'
    <3>1. SUFFICES ASSUME NEW i \in 1..Len(outputs'), NEW j \in 1..Len(outputs'), i < j,
                          NEW x \in outputs'[i].frames, NEW y \in outputs'[j].frames
                   PROVE  x < y
      BY DEF RingInOrder
    <3>2. i \in 1..Len(outputs) /\ outputs'[i] = outputs[i]
      BY <1>3, <1>5, <3>1
    <3>3. CASE j \in 1..Len(outputs)
      BY <1>5, <3>1, <3>2, <3>3 DEF IInv, Order, RingInOrder
    <3>4. CASE j \notin 1..Len(outputs)
      <4>1. j = Len(outputs) + 1
        BY <1>3, <1>5, <3>4
      <4>2. y \in F
        BY <1>2, <1>5, <4>1
      <4>3. x \in Queued
        BY <3>2 DEF Queued
      <4>4. QED
        BY <1>9, <4>2, <4>3 DEF Passed
    <3>5. QED
      BY <3>3, <3>4
  <2>3. Everywhere' = Everywhere
    BY <1>1, <1>7, <1>8 DEF Everywhere
  <2>4. /\ Everywhere \subseteq 1..frame /\ accepted \subseteq Everywhere
        /\ dropped \cap (delivered \cup Queued \cup F \cup held) = {}
    BY <1>1 DEF IInv, Order
  <2>5. frame \in Everywhere
    BY <1>1 DEF Everywhere
  <2>6. Len(outputs') <= MaxOutputs
    BY <1>3, <1>5, BoundAssumption
  <2>7. QED
    BY <1>1, <1>7, <1>8, <2>1, <2>2, <2>3, <2>4, <2>5, <2>6 DEF Order
<1>11. QED
  BY <1>7, <1>10 DEF IInv

\* The oldest packet goes to the caller.
LEMMA QueryOutputInvariant ==
    ASSUME IInv, QueryOutput
    PROVE  IInv'
<1> DEFINE h == Head(outputs).frames
<1>1. /\ call = "idle" /\ outputs # <<>> /\ outputs' = Tail(outputs)
      /\ delivered' = delivered \cup h
      /\ UNCHANGED <<call, socket, initialized, draining, formatKnown, size, frame, cooldown,
                     requests, replies, helper, server, encSize, held, accepted, refused, dropped>>
  BY DEF QueryOutput, stream, session
<1>2. /\ outputs \in Seq(Buffers) /\ Len(outputs) \in Nat /\ Len(outputs) > 0
      /\ Head(outputs) = outputs[1] /\ Head(outputs) \in Buffers
  BY <1>1 DEF IInv, TypeOK
<1>3. /\ outputs' \in Seq(Buffers) /\ Len(outputs') = Len(outputs) - 1
      /\ \A i \in 1..Len(outputs') : outputs'[i] = outputs[i + 1]
  BY <1>1, <1>2, HeadTailProperties
<1>4. Queued = Queued' \cup h
  BY <1>1, <1>2, FramesInTail, QueuedIsFramesIn
<1>5. h \subseteq Frames
  BY <1>2 DEF Buffers
<1>6. TypeOK'
  <2>1. delivered' \in SUBSET Frames
    BY <1>1, <1>5 DEF IInv, TypeOK
  <2>2. QED
    BY <1>1, <1>3, <2>1 DEF IInv, TypeOK
<1>7. Connection' /\ Handshake' /\ Session'
  BY <1>1 DEF IInv, Connection, Handshake, Session
<1>8. FramesOf(replies') = FramesOf(replies)
  BY <1>1
<1>9. \A x \in h : \A y \in Queued' : x < y
  <2>1. SUFFICES ASSUME NEW x \in h, NEW y \in Queued' PROVE x < y
    OBVIOUS
  <2>2. PICK i \in 1..Len(outputs') : y \in outputs'[i].frames
    BY <2>1, FramesInMember, QueuedIsFramesIn
  <2>3. 1 \in 1..Len(outputs) /\ i + 1 \in 1..Len(outputs) /\ 1 < i + 1
    BY <1>2, <1>3, <2>2
  <2>4. y \in outputs[i + 1].frames /\ x \in outputs[1].frames
    BY <1>2, <1>3, <2>1, <2>2
  <2>5. QED
    BY <2>3, <2>4 DEF IInv, Order, RingInOrder
<1>10. RingInOrder'
  <2>1. SUFFICES ASSUME NEW i \in 1..Len(outputs'), NEW j \in 1..Len(outputs'), i < j,
                        NEW x \in outputs'[i].frames, NEW y \in outputs'[j].frames
                 PROVE  x < y
    BY DEF RingInOrder
  <2>2. i + 1 \in 1..Len(outputs) /\ j + 1 \in 1..Len(outputs) /\ i + 1 < j + 1
    BY <1>2, <1>3, <2>1
  <2>3. x \in outputs[i + 1].frames /\ y \in outputs[j + 1].frames
    BY <1>3, <2>1
  <2>4. QED
    BY <2>2, <2>3 DEF IInv, Order, RingInOrder
<1>11. Order'
  <2>1. Passed(delivered, Queued, FramesOf(replies), held)
    BY DEF IInv, Order
  <2>2. Passed(delivered', Queued', FramesOf(replies), held)
    BY <1>1, <1>4, <1>9, <2>1 DEF Passed
  <2>3. Everywhere' = Everywhere
    BY <1>1, <1>4, <1>8 DEF Everywhere
  <2>4. dropped \cap (delivered' \cup Queued' \cup FramesOf(replies) \cup held) = {}
    BY <1>1, <1>4 DEF IInv, Order
  <2>5. /\ Everywhere \subseteq 1..frame /\ accepted \subseteq Everywhere
        /\ initialized /\ requests # <<>> => frame \notin Everywhere
    BY DEF IInv, Order
  <2>6. Len(outputs') <= MaxOutputs
    BY <1>2, <1>3, BoundAssumption DEF IInv, Order
  <2>7. QED
    BY <1>1, <1>8, <1>10, <2>2, <2>3, <2>4, <2>5, <2>6 DEF Order
<1>12. QED
  BY <1>6, <1>7, <1>11 DEF IInv

-----------------------------------------------------------------------------

LEMMA CallsInvariant ==
    ASSUME IInv, Calls
    PROVE  IInv'
<1>1. CASE \E s \in Sizes : InitCall(s) \/ ReInitCall(s)
  <2>1. PICK s \in Sizes : InitCall(s) \/ ReInitCall(s)
    BY <1>1
  <2>2. CASE Dial(s)
    BY <2>1, <2>2, DialInvariant DEF InitCall, ReInitCall
  <2>3. CASE ~Dial(s)
    <3>1. /\ call = "idle" /\ CloseCodec
          /\ UNCHANGED <<call, draining, formatKnown, size, frame, outputs, cooldown, helper,
                         accepted, refused, delivered>>
      BY <2>1, <2>3 DEF InitCall, ReInitCall
    <3>2. QED
      BY <3>1, TerminateInvariant
  <2>4. QED
    BY <2>2, <2>3
<1>2. CASE Terminate
  BY <1>2, TerminateInvariant DEF Terminate
<1>3. CASE SubmitInput
  BY <1>3, SubmitInputInvariant
<1>4. CASE QueryOutput
  BY <1>4, QueryOutputInvariant
<1>5. CASE Drain \/ Flush
  <2>1. /\ draining' \in BOOLEAN
        /\ UNCHANGED <<call, socket, initialized, formatKnown, size, frame, outputs, cooldown,
                       stream, helper, session, history>>
    BY <1>5 DEF Drain, Flush
  <2>2. cooldown' \in 0..Backoff
    BY <2>1 DEF IInv, TypeOK
  <2>3. QED
    BY <2>1, <2>2, FlagsInvariant DEF stream, session, history
<1>6. QED
  BY <1>1, <1>2, <1>3, <1>4, <1>5 DEF Calls

LEMMA CallStepsInvariant ==
    ASSUME IInv, CallSteps
    PROVE  IInv'
<1>1. CASE InitReply
  BY <1>1, InitReplyInvariant
<1>2. CASE InitTimeout
  BY <1>2, InitFailsInvariant DEF InitTimeout
<1>3. CASE SubmitReply
  BY <1>3, SubmitReplyInvariant
<1>4. CASE SubmitTimeout
  BY <1>4, SubmitFailsInvariant DEF SubmitTimeout
<1>5. CASE SubmitPayload
  <2>1. /\ call = "payload" /\ replies # <<>> /\ call' = "idle" /\ replies' = Tail(replies)
        /\ UNCHANGED <<socket, initialized, draining, formatKnown, size, frame, cooldown, requests,
                       helper, server, encSize, held, delivered>>
    BY <1>5 DEF SubmitPayload, session
  <2>2. CASE Len(outputs) < MaxOutputs
    <3>1. /\ outputs' = Append(outputs, [pts |-> frame, frames |-> Head(replies).frames])
          /\ accepted' = accepted \cup {frame} /\ UNCHANGED <<refused, dropped>>
      BY <1>5, <2>2 DEF SubmitPayload
    <3>2. QED
      BY <2>1, <2>2, <3>1, PayloadQueuedInvariant
  <2>3. CASE ~(Len(outputs) < MaxOutputs)
    <3>1. /\ refused' = refused \cup {frame} /\ dropped' = dropped \cup Head(replies).frames
          /\ UNCHANGED <<outputs, accepted>>
      BY <1>5, <2>3 DEF SubmitPayload
    <3>2. refused' \in SUBSET Frames
      BY <2>1, <3>1, PayloadContext DEF IInv, TypeOK
    <3>3. QED
      BY <2>1, <3>1, <3>2, PayloadDroppedInvariant
  <2>4. QED
    BY <2>2, <2>3
<1>6. CASE SubmitNoBuffer
  <2>1. /\ call = "payload" /\ replies # <<>> /\ call' = "idle" /\ replies' = Tail(replies)
        /\ UNCHANGED <<socket, initialized, draining, formatKnown, size, frame, cooldown, requests,
                       helper, server, encSize, held, delivered, outputs, accepted>>
        /\ refused' = refused /\ dropped' = dropped \cup Head(replies).frames
    BY <1>6 DEF SubmitNoBuffer, session
  <2>2. refused' \in SUBSET Frames
    BY <2>1 DEF IInv, TypeOK
  <2>3. QED
    BY <2>1, <2>2, PayloadDroppedInvariant
<1>7. CASE SubmitPayloadFails
  <2>1. /\ call = "payload" /\ call' = "idle"
        /\ UNCHANGED <<socket, initialized, draining, formatKnown, size, frame, outputs, cooldown,
                       requests, replies, helper, server, encSize, held, accepted, refused, dropped, delivered>>
    BY <1>7 DEF SubmitPayloadFails, stream, session, history
  <2>2. TypeOK'
    BY <2>1 DEF IInv, TypeOK
  <2>3. initialized /\ requests = <<>>
    BY <2>1 DEF IInv, TypeOK, Connection, Session
  <2>4. Connection'
    BY <2>1, <2>3 DEF IInv, Connection
  <2>5. Handshake'
    BY <2>1 DEF Handshake
  <2>6. Session'
    <3>1. Len(replies) \in {0, 1}
      BY <2>1, <2>3 DEF IInv, Session
    <3>2. \A i \in 1..Len(replies) :
             /\ replies[i] \in FrameReplies
             /\ replies[i].kind = "payload" => i = 1 /\ replies[i].frames # {}
             /\ replies[i].kind # "reply"
      BY <2>1, <2>3 DEF IInv, Session
    <3>3. server \in {"loop", "closed"} /\ (server = "loop" => helper = BridgeVersion /\ encSize = size)
          /\ Len(requests) \in {0, 1}
      BY <2>3 DEF IInv, Session
    <3>4. QED
      BY <2>1, <2>3, <3>1, <3>2, <3>3 DEF Session
  <2>7. Queued' = Queued /\ FramesOf(replies') = FramesOf(replies)
    BY <2>1 DEF Queued
  <2>8. Order'
    BY <2>1, <2>7 DEF IInv, Order, Passed, RingInOrder, Everywhere
  <2>9. QED
    BY <2>2, <2>4, <2>5, <2>6, <2>8 DEF IInv
<1>8. QED
  BY <1>1, <1>2, <1>3, <1>4, <1>5, <1>6, <1>7 DEF CallSteps

LEMMA HelperInvariant ==
    ASSUME IInv, Helper
    PROVE  IInv'
<1>1. CASE HelperRejects \/ ServerTimeout
  BY <1>1, EndSessionInvariant DEF HelperRejects, ServerTimeout
<1>2. CASE ServeInit
  BY <1>2, ServeInitInvariant
<1>3. CASE ServeFrame
  BY <1>3, ServeFrameCases
<1>4. CASE HelperExit
  BY <1>4, HelperExitInvariant
<1>5. CASE HelperStart
  BY <1>5, HelperStartInvariant
<1>6. QED
  BY <1>1, <1>2, <1>3, <1>4, <1>5 DEF Helper

LEMMA NextInvariant == IInv /\ [Next]_vars => IInv'
<1> SUFFICES ASSUME IInv, [Next]_vars PROVE IInv'
  OBVIOUS
<1>1. CASE Calls
  BY <1>1, CallsInvariant
<1>2. CASE CallSteps
  BY <1>2, CallStepsInvariant
<1>3. CASE Tick \/ OtherComponentInit
  <2>1. UNCHANGED <<call, socket, initialized, draining, formatKnown, size, frame, outputs,
                    stream, helper, session, history>>
    BY <1>3 DEF Tick, OtherComponentInit
  <2>2. draining' \in BOOLEAN
    BY <2>1 DEF IInv, TypeOK
  <2>3. cooldown' \in 0..Backoff
    BY <1>3, BoundAssumption DEF IInv, TypeOK, Tick, OtherComponentInit
  <2>4. QED
    BY <2>1, <2>2, <2>3, FlagsInvariant DEF stream, session, history
<1>4. CASE Helper
  BY <1>4, HelperInvariant
<1>5. CASE UNCHANGED vars
  <2>1. UNCHANGED <<call, socket, initialized, draining, formatKnown, size, frame, outputs, cooldown,
                    requests, replies, helper, server, encSize, held, accepted, refused, dropped, delivered>>
    BY <1>5 DEF vars, component, stream, session, history
  <2>2. draining' \in BOOLEAN /\ cooldown' \in 0..Backoff
    BY <2>1 DEF IInv, TypeOK
  <2>3. QED
    BY <2>1, <2>2, FlagsInvariant
<1>6. QED
  BY <1>1, <1>2, <1>3, <1>4, <1>5 DEF Next

THEOREM Invariance == Spec => []IInv
<1>1. QED
  BY InitInvariant, NextInvariant, PTL DEF Spec

-----------------------------------------------------------------------------
(* What the invariant says about the component. *)

\* Every variable keeps its type, the ring's packets and both streams included.
THEOREM TypeCorrect == Spec => []TypeOK
<1>1. IInv => TypeOK
  BY DEF IInv
<1>2. QED
  BY <1>1, Invariance, PTL

(***************************************************************************)
(* No failure on the way leaves a half initialised component behind: an    *)
(* open socket between calls means an encoder of this version and size.    *)
(***************************************************************************)
THEOREM InitIsAllOrNothing == Spec => []NoHalfInit
<1>1. ASSUME IInv PROVE NoHalfInit
  <2>1. call = "idle" => (socket = "open" <=> initialized)
    BY <1>1 DEF IInv, TypeOK, Connection
  <2>2. initialized /\ server # "closed" => server = "loop" /\ helper = BridgeVersion /\ encSize = size
    BY <1>1 DEF IInv, Session
  <2>3. QED
    BY <2>1, <2>2 DEF NoHalfInit
<1>2. QED
  BY <1>1, Invariance, PTL

(***************************************************************************)
(* component_submit never takes a stale answer for the one of its call,    *)
(* although a payload that was not read stays in the stream.               *)
(***************************************************************************)
THEOREM AnswersMatchCalls == Spec => []ReplyAnswersCall
<1>1. ASSUME IInv PROVE ReplyAnswersCall
  <2>1. call = "reply" /\ replies # <<>> /\ GoodReply(Head(replies)) => Head(replies).frame = frame
    BY <1>1, GoodReplyContext
  <2>2. call = "payload" /\ replies # <<>> =>
          Head(replies).kind = "payload" /\ Head(replies).frame = frame
    BY <1>1, PayloadContext
  <2>3. QED
    BY <2>1, <2>2 DEF ReplyAnswersCall
<1>2. QED
  BY <1>1, Invariance, PTL

\* Packets leave the component in the order in which their frames came in.
THEOREM FramesStayInOrder == Spec => []InOrder
<1>1. ASSUME IInv PROVE InOrder
  BY <1>1 DEF IInv, Order, RingInOrder, Passed, InOrder
<1>2. QED
  BY <1>1, Invariance, PTL

(***************************************************************************)
(* An accepted frame is never lost without a trace and never in two        *)
(* places: the places are passed in order, so they cannot overlap.         *)
(***************************************************************************)
THEOREM FramesAreConserved == Spec => []Conservation
<1>1. ASSUME IInv PROVE Conservation
  <2>1. /\ Places[1] = delivered /\ Places[2] = Queued /\ Places[3] = FramesOf(replies)
        /\ Places[4] = held /\ Places[5] = dropped
    BY DEF Places
  <2>2. accepted \subseteq UNION {Places[i] : i \in 1..5}
    <3>1. SUFFICES ASSUME NEW x \in accepted PROVE \E i \in 1..5 : x \in Places[i]
      OBVIOUS
    <3>2. x \in Everywhere
      BY <1>1, <3>1 DEF IInv, Order
    <3>3. QED
      BY <2>1, <3>2 DEF Everywhere
  <2>3. ASSUME NEW x \in Everywhere PROVE ~(x < x)
    BY <1>1, <2>3 DEF IInv, TypeOK, Order
  <2>4. /\ delivered \cap Queued = {} /\ delivered \cap FramesOf(replies) = {} /\ delivered \cap held = {}
        /\ Queued \cap FramesOf(replies) = {} /\ Queued \cap held = {} /\ FramesOf(replies) \cap held = {}
    <3>1. Passed(delivered, Queued, FramesOf(replies), held)
      BY <1>1 DEF IInv, Order
    <3>2. QED
      BY <2>3, <3>1 DEF Passed, Everywhere
  <2>5. dropped \cap (delivered \cup Queued \cup FramesOf(replies) \cup held) = {}
    BY <1>1 DEF IInv, Order
  <2>6. ASSUME NEW i \in 1..5, NEW j \in 1..5, i # j PROVE Places[i] \cap Places[j] = {}
    <3>1. i \in {1, 2, 3, 4, 5} /\ j \in {1, 2, 3, 4, 5}
      OBVIOUS
    <3>2. QED
      BY <2>1, <2>4, <2>5, <2>6, <3>1
  <2>7. QED
    BY <2>2, <2>6 DEF Conservation
<1>2. QED
  BY <1>1, Invariance, PTL

-----------------------------------------------------------------------------
(* EncoderLink implements AmfEncoder. *)

Submitted == IF call \in {"reply", "payload"} THEN frame - 1 ELSE frame

\* A step of the ring's or the session's history that the caller sees as none.
LEMMA Stutter ==
    ASSUME UNCHANGED <<initialized, draining, outputs, delivered>>, Submitted' = Submitted
    PROVE  UNCHANGED Promise!vars
  BY DEF Promise!vars, Submitted

\* Closing a session between submissions is Close, or nothing if there was none.
LEMMA CloseIsClose ==
    ASSUME IInv, initialized' = FALSE, UNCHANGED <<draining, outputs, delivered>>, Submitted' = Submitted
    PROVE  [Promise!Next]_(Promise!vars)
<1>1. CASE initialized
  BY <1>1 DEF Promise!Next, Promise!Close, Submitted
<1>2. CASE ~initialized
  <2>1. initialized' = initialized
    BY <1>2 DEF IInv, TypeOK
  <2>2. QED
    BY <2>1, Stutter
<1>3. QED
  BY <1>1, <1>2

\* A submission that yields no packet, whether or not it ends the session.
LEMMA EmptySubmit ==
    ASSUME IInv, call \in {"reply", "payload"}, call' = "idle", initialized' \in BOOLEAN,
           UNCHANGED <<draining, outputs, delivered, frame>>
    PROVE  [Promise!Next]_(Promise!vars)
<1>1. initialized /\ frame \in Nat
  BY DEF IInv, TypeOK, Connection
<1>2. Submitted' = Submitted + 1
  BY <1>1 DEF Submitted
<1>3. Promise!Submit
  BY <1>1, <1>2 DEF Promise!Submit, Submitted
<1>4. QED
  BY <1>3 DEF Promise!Next

LEMMA CallStepsRefine ==
    ASSUME IInv, CallSteps
    PROVE  [Promise!Next]_(Promise!vars)
<1>1. CASE InitReply \/ InitTimeout
  <2>1. call = "handshake" /\ ~initialized /\ call' = "idle" /\ UNCHANGED <<draining, outputs, delivered, frame>>
    BY <1>1 DEF IInv, TypeOK, Connection, InitReply, InitTimeout, InitFails, history
  <2>2. Submitted' = Submitted
    BY <2>1 DEF Submitted
  <2>3. CASE initialized' = TRUE
    BY <2>1, <2>2, <2>3 DEF Promise!Next, Promise!Open, Submitted
  <2>4. CASE initialized' = FALSE
    BY <2>1, <2>2, <2>4, CloseIsClose
  <2>5. initialized' = TRUE \/ initialized' = FALSE
    BY <1>1 DEF InitReply, InitTimeout, InitFails, CloseCodec
  <2>6. QED
    BY <2>3, <2>4, <2>5
<1>2. CASE SubmitFails /\ call = "reply"
  BY <1>2, EmptySubmit DEF SubmitFails, CloseCodec
<1>3. CASE SubmitReply
  <2>1. CASE ~GoodReply(Head(replies))
    BY <1>2, <1>3, <2>1 DEF SubmitReply
  <2>2. CASE GoodReply(Head(replies)) /\ Head(replies).frames = {}
    <3>1. call = "reply" /\ call' = "idle" /\ UNCHANGED <<initialized, draining, outputs, delivered, frame>>
      BY <1>3, <2>2 DEF SubmitReply
    <3>2. initialized' \in BOOLEAN
      BY <3>1 DEF IInv, TypeOK
    <3>3. QED
      BY <3>1, <3>2, EmptySubmit
  <2>3. CASE GoodReply(Head(replies)) /\ Head(replies).frames # {}
    <3>1. call = "reply" /\ call' = "payload" /\ UNCHANGED <<initialized, draining, outputs, delivered, frame>>
      BY <1>3, <2>3 DEF SubmitReply, history
    <3>2. QED
      BY <3>1, Stutter DEF Submitted
  <2>4. QED
    BY <2>1, <2>2, <2>3
<1>4. CASE SubmitTimeout
  BY <1>2, <1>4 DEF SubmitTimeout
<1>5. CASE SubmitPayload
  <2>1. /\ call = "payload" /\ replies # <<>> /\ call' = "idle"
        /\ UNCHANGED <<initialized, draining, frame, delivered>>
    BY <1>5 DEF SubmitPayload
  <2>2. initialized' \in BOOLEAN
    BY <2>1 DEF IInv, TypeOK
  <2>3. CASE Len(outputs) < MaxOutputs
    <3> DEFINE F == Head(replies).frames
    <3>1. /\ F = FramesOf(replies) /\ F # {} /\ initialized /\ frame \in Frames
      BY <2>1, PayloadContext
    <3>2. F \subseteq 1..frame
      BY <3>1 DEF IInv, Order, Everywhere
    <3>3. \A old \in Queued \cup delivered : \A new \in F : old < new
      BY <3>1 DEF IInv, Order, Passed
    <3>4. outputs' = Append(outputs, [pts |-> frame, frames |-> F])
      BY <1>5, <2>3 DEF SubmitPayload
    <3>5. Submitted' = frame /\ Submitted + 1 = frame
      BY <2>1, <3>1 DEF Submitted, Frames
    <3>6. Promise!Queued = Queued
      BY DEF Promise!Queued, Queued
    <3> HIDE DEF F
    <3>7. F \in (SUBSET (1..frame)) \ {{}}
      BY <3>1, <3>2
    <3>8. Promise!Submit
      BY <2>1, <2>3, <3>1, <3>3, <3>4, <3>5, <3>6, <3>7 DEF Promise!Submit, Submitted
    <3>9. QED
      BY <3>8 DEF Promise!Next
  <2>4. CASE ~(Len(outputs) < MaxOutputs)
    <3>1. outputs' = outputs
      BY <1>5, <2>4 DEF SubmitPayload
    <3>2. QED
      BY <2>1, <2>2, <3>1, EmptySubmit
  <2>5. QED
    BY <2>3, <2>4
<1>6. CASE SubmitNoBuffer \/ SubmitPayloadFails
  <2>1. call = "payload" /\ call' = "idle" /\ UNCHANGED <<initialized, draining, outputs, delivered, frame>>
    BY <1>6 DEF SubmitNoBuffer, SubmitPayloadFails, history
  <2>2. initialized' \in BOOLEAN
    BY <2>1 DEF IInv, TypeOK
  <2>3. QED
    BY <2>1, <2>2, EmptySubmit
<1>7. QED
  BY <1>1, <1>3, <1>4, <1>5, <1>6 DEF CallSteps

LEMMA NextRefines == IInv /\ [Next]_vars => [Promise!Next]_(Promise!vars)
<1> SUFFICES ASSUME IInv, [Next]_vars PROVE [Promise!Next]_(Promise!vars)
  OBVIOUS
<1>1. CASE CallSteps
  BY <1>1, CallStepsRefine
<1>2. CASE \E s \in Sizes : InitCall(s) \/ ReInitCall(s)
  <2>1. PICK s \in Sizes : InitCall(s) \/ ReInitCall(s)
    BY <1>2
  <2>2. /\ call = "idle" /\ initialized' = FALSE /\ call' \in {"idle", "handshake"}
        /\ UNCHANGED <<draining, outputs, delivered, frame>>
    BY <2>1 DEF InitCall, ReInitCall, Dial, InitFails, CloseCodec
  <2>3. QED
    BY <2>2, CloseIsClose DEF Submitted
<1>3. CASE Terminate
  BY <1>3, CloseIsClose DEF Terminate, CloseCodec, Submitted
<1>4. CASE SubmitInput
  <2>1. /\ call = "idle" /\ call' = "reply" /\ frame' = frame + 1 /\ frame \in Nat
        /\ UNCHANGED <<initialized, draining, outputs, delivered>>
    BY <1>4 DEF SubmitInput, history, IInv, TypeOK
  <2>2. QED
    BY <2>1, Stutter DEF Submitted
<1>5. CASE QueryOutput
  <2>1. Submitted' = Submitted
    BY <1>5 DEF QueryOutput, Submitted
  <2>2. QED
    BY <1>5, <2>1 DEF QueryOutput, Promise!Next, Promise!Take, Submitted
<1>6. CASE Drain \/ Flush
  <2>1. Submitted' = Submitted /\ draining' \in BOOLEAN /\ initialized
        /\ UNCHANGED <<initialized, outputs, delivered>>
    BY <1>6 DEF Drain, Flush, Submitted, history
  <2>2. QED
    BY <2>1 DEF Promise!Next, Promise!SetDraining, Submitted
<1>7. CASE Tick \/ OtherComponentInit
  BY <1>7, Stutter DEF Tick, OtherComponentInit, Submitted, history
<1>8. CASE Helper
  <2>1. UNCHANGED <<component, delivered>>
    BY <1>8 DEF Helper, HelperRejects, ServeInit, ServeFrame, ServerTimeout, HelperExit, HelperStart,
                EncoderFrame, EncoderFrameFails, EndSession, history
  <2>2. QED
    BY <2>1, Stutter DEF component, Submitted
<1>9. CASE UNCHANGED vars
  BY <1>9, Stutter DEF vars, component, history, Submitted
<1>10. QED
  BY <1>1, <1>2, <1>3, <1>4, <1>5, <1>6, <1>7, <1>8, <1>9 DEF Next, Calls

(***************************************************************************)
(* Every behaviour of the component with its helper, crashes and timeouts  *)
(* included, is a behaviour of the encoder that AmfEncoder promises.       *)
(***************************************************************************)
THEOREM ImplementsEncoder == Spec => KeepsPromise
<1>1. Init => Promise!Init
  BY DEF Init, Promise!Init
<1>2. QED
  BY <1>1, NextRefines, Invariance, PTL DEF Spec, KeepsPromise, Promise!Spec
=============================================================================
