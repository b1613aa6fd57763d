---------------------------- MODULE DxvaDecoder ----------------------------
(***************************************************************************)
(* The decoders of the DXVA bridge (src/dxva_bridge.c) in one UU process:  *)
(* each sends its pictures' packets to a session of uu-amf-helper          *)
(* (src/amf_helper.c) over a connection of its own and draws the pictures  *)
(* that come back.  What they share is the time of the last failure, kept  *)
(* in helper_probe_time without a lock, by which one decoder's failure     *)
(* keeps all of them away from the helper for a while.                     *)
(*                                                                         *)
(* Time is counted in ticks from 1: the code writes 0 for "never".         *)
(* helper_probe_result is 0 or -1, so that the test "probed <= 0" never    *)
(* decides anything; it is left out.  So are the buffers, the output view  *)
(* and the check of the picture's size, which this helper always passes;   *)
(* an end_frame without a bitstream changes nothing.  A picture is the     *)
(* number of its packet, a stream carries whole messages, and a reply      *)
(* whose header was read and whose pixels were not is the message of kind  *)
(* "pixels" at the head of the stream.                                     *)
(***************************************************************************)
EXTENDS Naturals, Sequences, FiniteSets

CONSTANTS
    Threads,            \* UU's threads that decode
    NoThread,
    Decoders,
    NoDecoder,
    Backoff,            \* DXVA_RETRY_BACKOFF_MS, in ticks
    CacheTime,          \* HELPER_PROBE_CACHE_MS, in ticks
    MaxTime,            \* bound: ticks in a behaviour
    MaxPackets          \* bound: packets of each decoder

ASSUME ThreadsAssumption == IsFiniteSet(Threads) /\ NoThread \notin Threads
ASSUME DecodersAssumption == NoDecoder \notin Decoders
ASSUME TimeAssumption ==
    /\ Backoff \in Nat \ {0}
    /\ CacheTime \in Nat \ {0}
    /\ MaxTime \in Nat \ {0}
    /\ MaxPackets \in [Decoders -> Nat]

VARIABLES
    clock,              \* GetTickCount64
    probe_time,         \* helper_probe_time
    \* the calls of DecoderEndFrame
    at,                 \* what a thread's call waits for
    target,             \* the decoder of its call
    now,                \* the call's local variable of that name
    \* the decoders
    lock,               \* owner of decoder->lock
    open,               \* decoder->helper is a socket
    retry_after,
    packet,             \* number of the latest packet
    shown,              \* the picture drawn last
    \* the connections, by decoder
    requests,
    replies,
    \* the helper
    running,
    server,             \* a session: "none", "handshake", "refused", "loop", "closed"
    held,               \* pictures inside its codec
    \* history
    last_failure        \* the latest time that any decoder failed

calls    == <<at, target, now>>
decoder  == <<lock, open, retry_after, packet, shown>>
stream   == <<requests, replies>>
session  == <<server, held>>
vars     == <<clock, probe_time, calls, decoder, stream, running, session, last_failure>>

-----------------------------------------------------------------------------

Times == 0..MaxTime
Packets == Nat \ {0}

Requests == [kind : {"init"}] \cup [kind : {"packet"}, packet : Packets]

\* The picture 0 is none: the codec needs more packets.
Replies ==
    [kind : {"init"}, enabled : BOOLEAN] \cup
    [kind : {"reply", "pixels"}, packet : Packets, ok : BOOLEAN, picture : Packets \cup {0}]

TypeOK ==
    /\ clock \in Times \ {0}
    /\ probe_time \in Times
    /\ at \in [Threads -> {"idle", "enter", "probe", "handshake", "reply", "pixels", "backoff"}]
    /\ target \in [Threads -> Decoders \cup {NoDecoder}]
    /\ now \in [Threads -> Times]
    /\ lock \in [Decoders -> Threads \cup {NoThread}]
    /\ open \in [Decoders -> BOOLEAN]
    /\ retry_after \in [Decoders -> Nat]
    /\ packet \in [Decoders -> Packets \cup {0}]
    /\ shown \in [Decoders -> Packets \cup {0}]
    /\ requests \in [Decoders -> Seq(Requests)]
    /\ replies \in [Decoders -> Seq(Replies)]
    /\ running \in BOOLEAN
    /\ server \in [Decoders -> {"none", "handshake", "refused", "loop", "closed"}]
    /\ held \in [Decoders -> SUBSET Packets]
    /\ last_failure \in Times

Init ==
    /\ clock = 1
    /\ probe_time = 0
    /\ at = [t \in Threads |-> "idle"]
    /\ target = [t \in Threads |-> NoDecoder]
    /\ now = [t \in Threads |-> 0]
    /\ lock = [d \in Decoders |-> NoThread]
    /\ open = [d \in Decoders |-> FALSE]
    /\ retry_after = [d \in Decoders |-> 0]
    /\ packet = [d \in Decoders |-> 0]
    /\ shown = [d \in Decoders |-> 0]
    /\ requests = [d \in Decoders |-> <<>>]
    /\ replies = [d \in Decoders |-> <<>>]
    /\ running = FALSE
    /\ server = [d \in Decoders |-> "none"]
    /\ held = [d \in Decoders |-> {}]
    /\ last_failure = 0

-----------------------------------------------------------------------------
(* DecoderEndFrame *)

Goto(t, label) == at' = [at EXCEPT ![t] = label]

\* LeaveCriticalSection and return.
Leave(t) ==
    /\ lock' = [lock EXCEPT ![target[t]] = NoThread]
    /\ Goto(t, "idle")
    /\ target' = [target EXCEPT ![t] = NoDecoder]
    /\ now' = [now EXCEPT ![t] = 0]

\* The connection of a closed socket; what the helper still does with it nobody sees.
Disconnect(d) ==
    /\ open' = [open EXCEPT ![d] = FALSE]
    /\ requests' = [requests EXCEPT ![d] = <<>>]
    /\ replies' = [replies EXCEPT ![d] = <<>>]
    /\ server' = [server EXCEPT ![d] = "none"]
    /\ held' = [held EXCEPT ![d] = {}]

(***************************************************************************)
(* The socket is closed and decoder_backoff reads the clock; the failure   *)
(* is written to helper_probe_time by a later step, StoreFailure.          *)
(***************************************************************************)
Fail(t) ==
    /\ Disconnect(target[t])
    /\ retry_after' = [retry_after EXCEPT ![target[t]] = clock + Backoff]
    /\ now' = [now EXCEPT ![t] = clock]
    /\ last_failure' = clock
    /\ Goto(t, "backoff")
    /\ UNCHANGED <<clock, probe_time, target, lock, packet, shown, running>>

\* Mutant: the time at which to try again is taken for the time of the failure.
BugStoreRetryTime(t) ==
    /\ at[t] = "backoff"
    /\ probe_time' = now[t] + Backoff
    /\ Leave(t)
    /\ UNCHANGED <<clock, open, retry_after, packet, shown, stream, running, session, last_failure>>

\* helper_mark_unavailable: another decoder may have stored a later failure meanwhile.
StoreFailure(t) ==
    /\ at[t] = "backoff"
    /\ probe_time' = now[t]
    /\ Leave(t)
    /\ UNCHANGED <<clock, open, retry_after, packet, shown, stream, running, session, last_failure>>

CallsOf(d) == {t \in Threads : target[t] = d}

\* retry_after is read before the lock is taken; a call that comes too early returns.
EndFrame(t, d) ==
    /\ at[t] = "idle"
    /\ packet[d] + Cardinality(CallsOf(d)) < MaxPackets[d]
    /\ ~(retry_after[d] # 0 /\ clock < retry_after[d])
    /\ Goto(t, "enter")
    /\ target' = [target EXCEPT ![t] = d]
    /\ UNCHANGED <<clock, probe_time, now, decoder, stream, running, session, last_failure>>

\* The parameter sets and the bitstream of the next picture.
Send(d) ==
    /\ packet' = [packet EXCEPT ![d] = @ + 1]
    /\ requests' = [requests EXCEPT ![d] = Append(@, [kind |-> "packet", packet |-> packet[d] + 1])]

\* Mutant: the lock is not taken.
BugEnterUnlocked(t) ==
    LET d == target[t]
    IN /\ at[t] = "enter"
       /\ IF open[d]
          THEN /\ Goto(t, "reply")
               /\ Send(d)
               /\ lock' = [lock EXCEPT ![d] = t]
               /\ UNCHANGED <<target, now>>
          ELSE /\ lock' = [lock EXCEPT ![d] = t]
               /\ Goto(t, "probe")
               /\ now' = [now EXCEPT ![t] = clock]
               /\ UNCHANGED <<target, packet, requests>>
       /\ UNCHANGED <<clock, probe_time, open, retry_after, shown, replies, running, session, last_failure>>

(***************************************************************************)
(* The lock is taken and decoder_connect begins: it returns at once when   *)
(* the decoder is connected, and reads the clock otherwise.  The decoder   *)
(* may have failed while this thread waited for the lock.                  *)
(***************************************************************************)
Enter(t) ==
    LET d == target[t]
    IN /\ at[t] = "enter"
       /\ lock[d] = NoThread
       /\ \/ /\ open[d]
             /\ lock' = [lock EXCEPT ![d] = t]
             /\ Goto(t, "reply")
             /\ Send(d)
             /\ UNCHANGED <<target, now>>
          \/ /\ ~open[d]
             /\ retry_after[d] = 0 \/ clock >= retry_after[d]
             /\ lock' = [lock EXCEPT ![d] = t]
             /\ Goto(t, "probe")
             /\ now' = [now EXCEPT ![t] = clock]
             /\ UNCHANGED <<target, packet, requests>>
          \/ /\ ~open[d]
             /\ retry_after[d] # 0 /\ clock < retry_after[d]
             /\ Leave(t)
             /\ UNCHANGED <<packet, requests>>
       /\ UNCHANGED <<clock, probe_time, open, retry_after, shown, replies, running, session, last_failure>>

(***************************************************************************)
(* now - helper_probe_time < HELPER_PROBE_CACHE_MS in unsigned arithmetic: *)
(* a failure stored after this call has read the clock makes the           *)
(* difference wrap around, and the call goes on as if there were none.     *)
(***************************************************************************)
Cached(time) == probe_time # 0 /\ probe_time <= time /\ time - probe_time < CacheTime

\* Mutant: the refusal counts as a failure of its own.
BugRefuseMarks(t) ==
    /\ at[t] = "probe"
    /\ Cached(now[t])
    /\ retry_after' = [retry_after EXCEPT ![target[t]] = now[t] + Backoff]
    /\ probe_time' = now[t]
    /\ Leave(t)
    /\ UNCHANGED <<clock, open, packet, shown, stream, running, session, last_failure>>

Refuse(t) ==
    /\ at[t] = "probe"
    /\ Cached(now[t])
    /\ retry_after' = [retry_after EXCEPT ![target[t]] = now[t] + Backoff]
    /\ Leave(t)
    /\ UNCHANGED <<clock, probe_time, open, packet, shown, stream, running, session, last_failure>>

\* There is no socket to be had, the connection is refused, or the handshake begins.
Dial(t) ==
    LET d == target[t]
    IN /\ at[t] = "probe"
       /\ ~Cached(now[t])
       /\ \/ /\ Leave(t)
             /\ UNCHANGED <<clock, probe_time, open, retry_after, packet, shown, stream, running,
                            session, last_failure>>
          \/ Fail(t)
          \/ /\ running
             /\ open' = [open EXCEPT ![d] = TRUE]
             /\ requests' = [requests EXCEPT ![d] = <<[kind |-> "init"]>>]
             /\ server' = [server EXCEPT ![d] = "handshake"]
             /\ Goto(t, "handshake")
             /\ UNCHANGED <<clock, probe_time, target, now, lock, retry_after, packet, shown,
                            replies, running, held, last_failure>>

Receive(d) == replies' = [replies EXCEPT ![d] = Tail(@)]

\* enabled, by a helper of the same protocol version: the packet follows in the same call.
Welcome(t) ==
    LET d == target[t]
    IN /\ at[t] = "handshake"
       /\ replies[d] # <<>>
       /\ \/ /\ Head(replies[d]).enabled
             /\ retry_after' = [retry_after EXCEPT ![d] = 0]
             /\ Receive(d)
             /\ Send(d)
             /\ Goto(t, "reply")
             /\ UNCHANGED <<clock, probe_time, target, now, lock, open, shown, running, session,
                            last_failure>>
          \/ /\ ~Head(replies[d]).enabled
             /\ Fail(t)

GoodReply(message) == message.kind = "reply" /\ message.ok

\* A reply of another kind is the rest of an earlier one: its bytes are no header.
Reply(t) ==
    LET d == target[t]
    IN /\ at[t] = "reply"
       /\ replies[d] # <<>>
       /\ \/ /\ ~GoodReply(Head(replies[d]))
             /\ Fail(t)
          \/ /\ GoodReply(Head(replies[d]))
             /\ Head(replies[d]).picture = 0
             /\ Receive(d)
             /\ Leave(t)
             /\ UNCHANGED <<clock, probe_time, open, retry_after, packet, shown, requests, running,
                            session, last_failure>>
          \/ /\ GoodReply(Head(replies[d]))
             /\ Head(replies[d]).picture # 0
             /\ replies' = [replies EXCEPT ![d][1].kind = "pixels"]
             /\ Goto(t, "pixels")
             /\ UNCHANGED <<clock, probe_time, target, now, decoder, requests, running, session,
                            last_failure>>

\* upload_nv12: the picture is fitted into the texture of the output view.
Draw(d, picture) == shown' = [shown EXCEPT ![d] = picture]

\* Mutant: the pixels that were drawn are not taken out of the stream.
BugPixelsKept(t) ==
    LET d == target[t]
    IN /\ at[t] = "pixels"
       /\ replies[d] # <<>>
       /\ Draw(d, Head(replies[d]).picture)
       /\ Leave(t)
       /\ UNCHANGED <<clock, probe_time, open, retry_after, packet, stream, running, session, last_failure>>

\* The picture is drawn, or upload_nv12 fails: no view, or one it cannot draw to.
Pixels(t) ==
    LET d == target[t]
    IN /\ at[t] = "pixels"
       /\ replies[d] # <<>>
       /\ \/ /\ Draw(d, Head(replies[d]).picture)
             /\ Receive(d)
             /\ Leave(t)
             /\ UNCHANGED <<clock, probe_time, open, retry_after, packet, requests, running, session,
                            last_failure>>
          \/ Fail(t)

\* realloc fails: the connection stays open with the pixels unread.
NoMemory(t) ==
    /\ at[t] = "pixels"
    /\ Leave(t)
    /\ UNCHANGED <<clock, probe_time, open, retry_after, packet, shown, stream, running, session,
                   last_failure>>

\* Mutant: the socket has no timeouts, only the end of the stream is noticed.
BugTimeoutAtEofOnly(t) ==
    /\ at[t] \in {"handshake", "reply", "pixels"}
    /\ server[target[t]] \in {"refused", "closed"}
    /\ Fail(t)

\* A send or a receive failed: the helper has closed, or 2 s have passed.
Timeout(t) ==
    /\ at[t] \in {"handshake", "reply", "pixels"}
    /\ Fail(t)

\* UU releases a decoder that no call uses, and creates another one in its place.
Recreate(d) ==
    /\ CallsOf(d) = {}
    /\ Disconnect(d)
    /\ retry_after' = [retry_after EXCEPT ![d] = 0]
    /\ packet' = [packet EXCEPT ![d] = 0]
    /\ shown' = [shown EXCEPT ![d] = 0]
    /\ UNCHANGED <<clock, probe_time, calls, lock, running, last_failure>>

Tick ==
    /\ clock < MaxTime
    /\ clock' = clock + 1
    /\ UNCHANGED <<probe_time, calls, decoder, stream, running, session, last_failure>>

-----------------------------------------------------------------------------
(* The sessions in the helper: handle_client *)

\* The codec opens or not; a helper of another version or without a slot hangs up.
ServeInit(d) ==
    /\ server[d] = "handshake"
    /\ requests[d] # <<>>
    /\ \/ \E enabled \in BOOLEAN :
             /\ requests' = [requests EXCEPT ![d] = Tail(@)]
             /\ replies' = [replies EXCEPT ![d] = Append(@, [kind |-> "init", enabled |-> enabled])]
             /\ server' = [server EXCEPT ![d] = IF enabled THEN "loop" ELSE "refused"]
       \/ /\ server' = [server EXCEPT ![d] = "refused"]
          /\ UNCHANGED stream
    /\ UNCHANGED <<clock, probe_time, calls, decoder, running, held, last_failure>>

(***************************************************************************)
(* decoder_packet: the codec takes the packet, and avcodec_receive_frame   *)
(* is asked once: it gives no picture or the oldest one it has.  On an     *)
(* error some of the pictures may be lost.                                 *)
(***************************************************************************)
Decoded(inside, ok, picture, rest) ==
    \/ ok /\ picture = 0 /\ rest = inside
    \/ ok /\ picture \in inside /\ (\A p \in inside : picture <= p) /\ rest = inside \ {picture}
    \/ ~ok /\ picture = 0 /\ rest \subseteq inside

ServePacket(d) ==
    /\ server[d] = "loop"
    /\ requests[d] # <<>>
    /\ requests' = [requests EXCEPT ![d] = Tail(@)]
    /\ LET message == Head(requests[d])
           inside  == held[d] \cup {message.packet}
       IN \E ok \in BOOLEAN, picture \in inside \cup {0}, rest \in SUBSET inside :
             /\ Decoded(inside, ok, picture, rest)
             /\ replies' = [replies EXCEPT ![d] =
                               Append(@, [kind |-> "reply", packet |-> message.packet,
                                          ok |-> ok, picture |-> picture])]
             /\ held' = [held EXCEPT ![d] = rest]
    /\ UNCHANGED <<clock, probe_time, calls, decoder, running, server, last_failure>>

\* SO_RCVTIMEO of the helper: 5 s without a packet end the session.
ServerTimeout(d) ==
    /\ server[d] = "loop"
    /\ requests[d] = <<>>
    /\ server' = [server EXCEPT ![d] = "closed"]
    /\ UNCHANGED <<clock, probe_time, calls, decoder, stream, running, held, last_failure>>

\* The helper exits or is killed; of what it had sent, only a part arrives.
HelperExit ==
    /\ running
    /\ running' = FALSE
    /\ server' = [d \in Decoders |-> CASE server[d] = "handshake" -> "refused"
                                       [] server[d] = "loop"      -> "closed"
                                       [] OTHER                   -> server[d]]
    /\ \E n \in [Decoders -> 0..2] :
          replies' = [d \in Decoders |->
                         IF n[d] < Len(replies[d]) THEN SubSeq(replies[d], 1, n[d]) ELSE replies[d]]
    /\ UNCHANGED <<clock, probe_time, calls, decoder, requests, held, last_failure>>

HelperStart ==
    /\ ~running
    /\ running' = TRUE
    /\ UNCHANGED <<clock, probe_time, calls, decoder, stream, session, last_failure>>

-----------------------------------------------------------------------------

CallSteps(t) ==
    \/ Refuse(t) \/ Dial(t) \/ Welcome(t) \/ Reply(t) \/ Pixels(t)
    \/ NoMemory(t) \/ Timeout(t) \/ StoreFailure(t)

Helper ==
    \/ \E d \in Decoders : ServeInit(d) \/ ServePacket(d) \/ ServerTimeout(d)
    \/ HelperExit \/ HelperStart

Next ==
    \/ \E t \in Threads, d \in Decoders : EndFrame(t, d)
    \/ \E t \in Threads : Enter(t) \/ CallSteps(t)
    \/ \E d \in Decoders : Recreate(d)
    \/ Tick
    \/ Helper

Spec == Init /\ [][Next]_vars

\* A thread inside the lock goes on, and what it waits for returns after 2 s.
FairSpec == Spec /\ \A t \in Threads : WF_vars(CallSteps(t))

-----------------------------------------------------------------------------
(* Properties *)

Inside(t) == at[t] \notin {"idle", "enter"}

(***************************************************************************)
(* A decoder's lock is held by the one thread whose call is past it, and   *)
(* by nobody otherwise: each early return and each failure leaves it.      *)
(***************************************************************************)
LockExact ==
    \A d \in Decoders, t \in Threads : lock[d] = t <=> Inside(t) /\ target[t] = d

(***************************************************************************)
(* What DecoderEndFrame takes for the answer to its packet is that answer, *)
(* not one that came too late for another call, and not the pixels that    *)
(* nobody read when there was no memory for them.                          *)
(***************************************************************************)
ReplyAnswersPacket ==
    \A t \in Threads :
        LET d == target[t] IN
        /\ at[t] = "reply" /\ replies[d] # <<>> /\ GoodReply(Head(replies[d])) =>
              Head(replies[d]).packet = packet[d]
        /\ at[t] = "pixels" /\ replies[d] # <<>> =>
              Head(replies[d]).kind = "pixels" /\ Head(replies[d]).packet = packet[d]

(***************************************************************************)
(* Pictures are drawn in their order and none is drawn twice: whatever is  *)
(* still in the codec or in the stream is later than what was drawn last.  *)
(***************************************************************************)
DrawnInOrder ==
    \A d \in Decoders :
        /\ \A p \in held[d] : p > shown[d]
        /\ \A i \in 1..Len(replies[d]) :
              replies[d][i].kind # "init" /\ replies[d][i].picture # 0 =>
                  replies[d][i].picture > shown[d]

\* DecoderEndFrame would not try to reach the helper now.
Silent(d) ==
    /\ ~open[d]
    /\ (retry_after[d] # 0 /\ clock < retry_after[d]) \/ Cached(clock)

(***************************************************************************)
(* The silence ends: refusals do not feed on refusals.  Some decoder has   *)
(* really failed less than HELPER_PROBE_CACHE_MS + DXVA_RETRY_BACKOFF_MS   *)
(* ago whenever a decoder stays away from the helper, although a refusal   *)
(* renews retry_after and failures are stored late and out of order.       *)
(***************************************************************************)
SilenceBounded ==
    \A d \in Decoders :
        Silent(d) => last_failure # 0 /\ clock < last_failure + CacheTime + Backoff

(***************************************************************************)
(* Every call that has entered the lock returns, even when the helper      *)
(* neither answers nor hangs up.                                           *)
(***************************************************************************)
EndFrameReturns == \A t \in Threads : Inside(t) ~> at[t] = "idle"

=============================================================================

