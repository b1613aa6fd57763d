------------------------- MODULE DxvaDecoderProofs -------------------------
(***************************************************************************)
(* For any threads, decoders, backoff and cache time: the lock of a        *)
(* decoder is held exactly while a call is past it, and the silence after  *)
(* a failure is bounded.  Neither depends on what the helper answers, so   *)
(* that the streams and the sessions do not occur in the first invariant,  *)
(* IInv.  The second, SInv, rests on the lock: whatever the helper does    *)
(* and wherever it is cut off, a call takes no other answer for its own,   *)
(* and pictures are drawn in their order.                                  *)
(***************************************************************************)
EXTENDS DxvaDecoder, SequenceTheorems, TLAPS

CallTypes ==
    /\ clock \in Nat \ {0}
    /\ probe_time \in Nat
    /\ last_failure \in Nat
    /\ at \in [Threads -> {"idle", "enter", "probe", "handshake", "reply", "pixels", "backoff"}]
    /\ target \in [Threads -> Decoders \cup {NoDecoder}]
    /\ now \in [Threads -> Nat]
    /\ lock \in [Decoders -> Threads \cup {NoThread}]
    /\ retry_after \in [Decoders -> Nat]

\* A call has a decoder exactly while it lasts.
Targets == \A t \in Threads : target[t] \in Decoders <=> at[t] # "idle"

(***************************************************************************)
(* Every time that was noted down goes back to a failure: what a refusal   *)
(* adds to it is less than CacheTime + Backoff, since the refusal itself   *)
(* needs a failure less than CacheTime ago.                                *)
(***************************************************************************)
Deadlines ==
    /\ last_failure <= clock
    /\ probe_time <= last_failure
    /\ \A t \in Threads :
          /\ now[t] <= clock
          /\ at[t] = "backoff" => now[t] <= last_failure
    /\ \A d \in Decoders :
          retry_after[d] # 0 =>
             last_failure # 0 /\ retry_after[d] < last_failure + CacheTime + Backoff

IInv == CallTypes /\ LockExact /\ Targets /\ Deadlines

inner == <<clock, probe_time, at, target, now, lock, retry_after, last_failure>>

-----------------------------------------------------------------------------

LEMMA InitInvariant == Init => IInv
  BY ThreadsAssumption, DecodersAssumption, TimeAssumption
     DEF Init, IInv, CallTypes, LockExact, Inside, Targets, Deadlines

\* A step that only moves a thread from one place inside the lock to another.
LEMMA MoveInside ==
    ASSUME IInv, NEW t \in Threads, NEW label \in {"handshake", "reply", "pixels"},
           Inside(t), Goto(t, label),
           UNCHANGED <<clock, probe_time, target, now, lock, last_failure>>,
           \/ UNCHANGED retry_after
           \/ retry_after' = [retry_after EXCEPT ![target[t]] = 0]
    PROVE  IInv'
<1>1. CallTypes'
  BY TimeAssumption DEF IInv, CallTypes, Goto
<1>2. LockExact'
  BY DEF IInv, CallTypes, LockExact, Inside, Goto
<1>3. Targets'
  BY DEF IInv, CallTypes, Targets, Inside, Goto
<1>4. Deadlines'
  BY TimeAssumption DEF IInv, CallTypes, Deadlines, Goto
<1>5. QED
  BY <1>1, <1>2, <1>3, <1>4 DEF IInv

\* Leaving gives the lock back and ends the call, whatever the call has found out.
LEMMA LeaveKeepsLock ==
    ASSUME IInv, NEW t \in Threads, Leave(t),
           Inside(t) \/ (at[t] = "enter" /\ lock[target[t]] = NoThread)
    PROVE  /\ at' \in [Threads -> {"idle", "enter", "probe", "handshake", "reply", "pixels", "backoff"}]
           /\ target' \in [Threads -> Decoders \cup {NoDecoder}]
           /\ now' \in [Threads -> Nat]
           /\ lock' \in [Decoders -> Threads \cup {NoThread}]
           /\ LockExact'
           /\ Targets'
           /\ \A u \in Threads : now'[u] <= now[u] /\ (at'[u] = "backoff" => at[u] = "backoff" /\ now'[u] = now[u])
<1>1. /\ at' \in [Threads -> {"idle", "enter", "probe", "handshake", "reply", "pixels", "backoff"}]
      /\ target' \in [Threads -> Decoders \cup {NoDecoder}]
      /\ now' \in [Threads -> Nat]
      /\ lock' \in [Decoders -> Threads \cup {NoThread}]
  BY DEF IInv, CallTypes, Leave, Goto
<1>2. target[t] \in Decoders
  BY DEF IInv, Targets, Inside
<1>3. LockExact'
  <2>1. SUFFICES ASSUME NEW d \in Decoders, NEW u \in Threads
                 PROVE  (lock[d] = u <=> Inside(u) /\ target[u] = d)'
    BY DEF LockExact
  <2>2. lock[d] = u <=> Inside(u) /\ target[u] = d
    BY DEF IInv, LockExact
  <2>3. CASE u = t
    BY <2>2, <2>3, <1>2, ThreadsAssumption, DecodersAssumption
       DEF IInv, CallTypes, LockExact, Inside, Leave, Goto
  <2>4. CASE u # t
    BY <2>2, <2>4, <1>2, ThreadsAssumption, DecodersAssumption
       DEF IInv, CallTypes, LockExact, Inside, Leave, Goto
  <2>5. QED
    BY <2>3, <2>4
<1>4. Targets'
  BY DecodersAssumption DEF IInv, CallTypes, Targets, Leave, Goto
<1>5. \A u \in Threads : now'[u] <= now[u] /\ (at'[u] = "backoff" => at[u] = "backoff" /\ now'[u] = now[u])
  BY DEF IInv, CallTypes, Leave, Goto
<1>6. QED
  BY <1>1, <1>3, <1>4, <1>5

LEMMA LeaveInvariant ==
    ASSUME IInv, NEW t \in Threads, Leave(t),
           Inside(t) \/ (at[t] = "enter" /\ lock[target[t]] = NoThread),
           UNCHANGED <<clock, probe_time, retry_after, last_failure>>
    PROVE  IInv'
<1>1. CallTypes'
  BY LeaveKeepsLock DEF IInv, CallTypes
<1>2. Deadlines'
  BY LeaveKeepsLock, TimeAssumption DEF IInv, CallTypes, Deadlines
<1>3. QED
  BY <1>1, <1>2, LeaveKeepsLock DEF IInv

-----------------------------------------------------------------------------
(* The steps that note a time *)

LEMMA FailInvariant ==
    ASSUME IInv, NEW t \in Threads, Inside(t), Fail(t)
    PROVE  IInv'
<1>1. target[t] \in Decoders
  BY DEF IInv, Targets, Inside
<1>2. CallTypes'
  <2>1. clock + Backoff \in Nat
    BY TimeAssumption DEF IInv, CallTypes
  <2>2. retry_after' \in [Decoders -> Nat]
    BY <2>1 DEF IInv, CallTypes, Fail
  <2>3. QED
    BY <2>2 DEF IInv, CallTypes, Fail, Goto
<1>3. LockExact'
  BY DEF IInv, CallTypes, LockExact, Inside, Fail, Goto
<1>4. Targets'
  BY DEF IInv, CallTypes, Targets, Inside, Fail, Goto
<1>5. Deadlines'
  BY <1>1, TimeAssumption DEF IInv, CallTypes, Deadlines, Fail, Goto
<1>6. QED
  BY <1>2, <1>3, <1>4, <1>5 DEF IInv

LEMMA StoreInvariant ==
    ASSUME IInv, NEW t \in Threads, StoreFailure(t)
    PROVE  IInv'
<1>1. Inside(t)
  BY DEF StoreFailure, Inside
<1>2. Leave(t)
  BY DEF StoreFailure
<1>3. CallTypes'
  BY <1>1, <1>2, LeaveKeepsLock DEF IInv, CallTypes, StoreFailure
<1>4. Deadlines'
  <2>1. now[t] <= last_failure
    BY DEF StoreFailure, IInv, Deadlines
  <2>2. QED
    BY <1>1, <1>2, <2>1, LeaveKeepsLock, TimeAssumption
       DEF IInv, CallTypes, Deadlines, StoreFailure
<1>5. QED
  BY <1>1, <1>2, <1>3, <1>4, LeaveKeepsLock DEF IInv

LEMMA RefuseInvariant ==
    ASSUME IInv, NEW t \in Threads, Refuse(t)
    PROVE  IInv'
<1>1. Inside(t)
  BY DEF Refuse, Inside
<1>2. Leave(t)
  BY DEF Refuse
<1>3. CallTypes'
  <2>1. now[t] + Backoff \in Nat
    BY TimeAssumption DEF IInv, CallTypes
  <2>2. retry_after' \in [Decoders -> Nat]
    BY <2>1 DEF IInv, CallTypes, Refuse
  <2>3. QED
    BY <1>1, <1>2, <2>2, LeaveKeepsLock DEF IInv, CallTypes, Refuse
<1>4. Deadlines'
  <2>1. last_failure # 0 /\ now[t] + Backoff < last_failure + CacheTime + Backoff
    BY TimeAssumption DEF Refuse, Cached, IInv, CallTypes, Deadlines
  <2>2. \A d \in Decoders :
           retry_after'[d] # 0 =>
              last_failure' # 0 /\ retry_after'[d] < last_failure' + CacheTime + Backoff
    BY <2>1, TimeAssumption DEF Refuse, IInv, CallTypes, Deadlines
  <2>3. QED
    BY <1>1, <1>2, <2>2, LeaveKeepsLock, TimeAssumption
       DEF IInv, CallTypes, Deadlines, Refuse
<1>5. QED
  BY <1>1, <1>2, <1>3, <1>4, LeaveKeepsLock DEF IInv

-----------------------------------------------------------------------------
(* The other steps *)

LEMMA EndFrameInvariant ==
    ASSUME IInv, NEW t \in Threads, NEW d \in Decoders, EndFrame(t, d)
    PROVE  IInv'
<1>1. CallTypes'
  BY DEF IInv, CallTypes, EndFrame, Goto, decoder
<1>2. LockExact'
  BY DEF IInv, CallTypes, LockExact, Inside, EndFrame, Goto, decoder
<1>3. Targets'
  BY DEF IInv, CallTypes, Targets, EndFrame, Goto
<1>4. Deadlines'
  BY DEF IInv, CallTypes, Deadlines, EndFrame, Goto, decoder
<1>5. QED
  BY <1>1, <1>2, <1>3, <1>4 DEF IInv

\* The lock is taken, with or without reading the clock.
LEMMA TakeInvariant ==
    ASSUME IInv, NEW t \in Threads, at[t] = "enter", lock[target[t]] = NoThread,
           lock' = [lock EXCEPT ![target[t]] = t],
           NEW label \in {"reply", "probe"}, Goto(t, label),
           now' = [now EXCEPT ![t] = clock] \/ UNCHANGED now,
           UNCHANGED <<clock, probe_time, target, retry_after, last_failure>>
    PROVE  IInv'
<1>1. target[t] \in Decoders
  BY DEF IInv, Targets
<1>2. CallTypes'
  BY DEF IInv, CallTypes, Goto
<1>3. LockExact'
  BY <1>1, ThreadsAssumption DEF IInv, CallTypes, LockExact, Inside, Goto
<1>4. Targets'
  BY DEF IInv, CallTypes, Targets, Goto
<1>5. Deadlines'
  BY DEF IInv, CallTypes, Deadlines, Goto
<1>6. QED
  BY <1>2, <1>3, <1>4, <1>5 DEF IInv

LEMMA EnterInvariant ==
    ASSUME IInv, NEW t \in Threads, Enter(t)
    PROVE  IInv'
<1>1. CASE open[target[t]]
  BY <1>1, TakeInvariant DEF Enter
<1>2. CASE ~open[target[t]] /\ (retry_after[target[t]] = 0 \/ clock >= retry_after[target[t]])
                            /\ at'[t] # "idle"
  <2>1. ~Leave(t)
    BY <1>2 DEF Leave, Goto, IInv, CallTypes
  <2>2. QED
    BY <1>2, <2>1, TakeInvariant DEF Enter
<1>3. CASE ~open[target[t]] /\ Leave(t)
  BY <1>3, LeaveInvariant DEF Enter
<1>4. QED
  BY <1>1, <1>2, <1>3 DEF Enter, Goto, IInv, CallTypes

LEMMA DialInvariant ==
    ASSUME IInv, NEW t \in Threads, Dial(t)
    PROVE  IInv'
<1>1. Inside(t)
  BY DEF Dial, Inside
<1>2. CASE Leave(t) /\ UNCHANGED <<clock, probe_time, retry_after, last_failure>>
  BY <1>1, <1>2, LeaveInvariant
<1>3. CASE Fail(t)
  BY <1>1, <1>3, FailInvariant
<1>4. CASE /\ Goto(t, "handshake")
           /\ UNCHANGED <<clock, probe_time, target, now, lock, retry_after, last_failure>>
  BY <1>1, <1>4, MoveInside
<1>5. QED
  BY <1>2, <1>3, <1>4 DEF Dial

LEMMA WelcomeInvariant ==
    ASSUME IInv, NEW t \in Threads, Welcome(t)
    PROVE  IInv'
<1>1. Inside(t)
  BY DEF Welcome, Inside
<1>2. CASE Fail(t)
  BY <1>1, <1>2, FailInvariant
<1>3. CASE ~Fail(t)
  BY <1>1, <1>3, MoveInside DEF Welcome
<1>4. QED
  BY <1>2, <1>3

LEMMA ReplyInvariant ==
    ASSUME IInv, NEW t \in Threads, Reply(t)
    PROVE  IInv'
<1>1. Inside(t)
  BY DEF Reply, Inside
<1>2. CASE Fail(t)
  BY <1>1, <1>2, FailInvariant
<1>3. CASE Leave(t) /\ UNCHANGED <<clock, probe_time, retry_after, last_failure>>
  BY <1>1, <1>3, LeaveInvariant
<1>4. CASE /\ Goto(t, "pixels")
           /\ UNCHANGED <<clock, probe_time, target, now, lock, retry_after, last_failure>>
  BY <1>1, <1>4, MoveInside
<1>5. QED
  BY <1>2, <1>3, <1>4 DEF Reply, decoder

LEMMA PixelsInvariant ==
    ASSUME IInv, NEW t \in Threads, Pixels(t) \/ NoMemory(t) \/ Timeout(t)
    PROVE  IInv'
<1>1. Inside(t)
  BY DEF Pixels, NoMemory, Timeout, Inside
<1>2. CASE Fail(t)
  BY <1>1, <1>2, FailInvariant
<1>3. CASE Leave(t) /\ UNCHANGED <<clock, probe_time, retry_after, last_failure>>
  BY <1>1, <1>3, LeaveInvariant
<1>4. QED
  BY <1>2, <1>3 DEF Pixels, NoMemory, Timeout

LEMMA RecreateInvariant ==
    ASSUME IInv, NEW d \in Decoders, Recreate(d)
    PROVE  IInv'
<1>1. UNCHANGED <<clock, probe_time, at, target, now, lock, last_failure>>
  BY DEF Recreate, calls
<1>2. CallTypes'
  BY <1>1 DEF IInv, CallTypes, Recreate
<1>3. Deadlines'
  BY <1>1 DEF IInv, CallTypes, Deadlines, Recreate
<1>4. QED
  BY <1>1, <1>2, <1>3 DEF IInv, LockExact, Inside, Targets

LEMMA TickInvariant == IInv /\ Tick => IInv'
<1>1. SUFFICES ASSUME IInv, Tick
               PROVE  IInv'
  OBVIOUS
<1>2. UNCHANGED <<probe_time, at, target, now, lock, retry_after, last_failure>>
  BY <1>1 DEF Tick, calls, decoder
<1>3. CallTypes' /\ Deadlines'
  BY <1>1, <1>2 DEF IInv, CallTypes, Deadlines, Tick
<1>4. QED
  BY <1>1, <1>2, <1>3 DEF IInv, LockExact, Inside, Targets

\* What the helper does touches nothing of this.
LEMMA HelperFrame == Helper \/ UNCHANGED vars => UNCHANGED inner
  BY DEF Helper, ServeInit, ServePacket, ServerTimeout, HelperExit, HelperStart,
         vars, calls, decoder, inner

LEMMA FrameInvariant == IInv /\ UNCHANGED inner => IInv'
  BY DEF IInv, CallTypes, LockExact, Inside, Targets, Deadlines, inner

LEMMA NextInvariant == IInv /\ [Next]_vars => IInv'
<1>1. SUFFICES ASSUME IInv, [Next]_vars
               PROVE  IInv'
  OBVIOUS
<1>2. CASE \E t \in Threads, d \in Decoders : EndFrame(t, d)
  BY <1>1, <1>2, EndFrameInvariant
<1>3. CASE \E t \in Threads : Enter(t)
  BY <1>1, <1>3, EnterInvariant
<1>4. CASE \E t \in Threads : CallSteps(t)
  BY <1>1, <1>4, RefuseInvariant, DialInvariant, WelcomeInvariant, ReplyInvariant,
     PixelsInvariant, StoreInvariant DEF CallSteps
<1>5. CASE \E d \in Decoders : Recreate(d)
  BY <1>1, <1>5, RecreateInvariant
<1>6. CASE Tick
  BY <1>1, <1>6, TickInvariant
<1>7. CASE Helper \/ UNCHANGED vars
  BY <1>1, <1>7, HelperFrame, FrameInvariant
<1>8. QED
  BY <1>1, <1>2, <1>3, <1>4, <1>5, <1>6, <1>7 DEF Next

-----------------------------------------------------------------------------

\* The times and the lock of every reachable state satisfy the invariant.
THEOREM Invariance == Spec => []IInv
<1>1. QED
  BY InitInvariant, NextInvariant, PTL DEF Spec

(***************************************************************************)
(* The lock of a decoder is held by the thread whose call is past it and   *)
(* by nobody else, for any number of threads and decoders.                 *)
(***************************************************************************)
THEOREM LockIsExact == Spec => []LockExact
<1>1. IInv => LockExact
  BY DEF IInv
<1>2. QED
  BY <1>1, Invariance, PTL

(***************************************************************************)
(* While a decoder stays away from the helper some decoder has failed less *)
(* than CacheTime + Backoff ago, for any values of the two.                *)
(***************************************************************************)
THEOREM SilenceEnds == Spec => []SilenceBounded
<1>1. IInv => SilenceBounded
  BY TimeAssumption DEF IInv, CallTypes, Deadlines, SilenceBounded, Silent, Cached
<1>2. QED
  BY <1>1, Invariance, PTL

-----------------------------------------------------------------------------
(* The streams.  The second invariant says, decoder by decoder, what may   *)
(* be on the connection and in the codec at each point of the one call     *)
(* that has the decoder's lock, and between two calls.                     *)

\* Where the call is that holds a decoder's lock.
Phase(d) == IF lock[d] = NoThread THEN "free" ELSE at[lock[d]]

StreamTypes ==
    /\ clock <= MaxTime
    /\ open \in [Decoders -> BOOLEAN]
    /\ packet \in [Decoders -> Nat]
    /\ shown \in [Decoders -> Nat]
    /\ requests \in [Decoders -> Seq(Requests)]
    /\ replies \in [Decoders -> Seq(Replies)]
    /\ running \in BOOLEAN
    /\ server \in [Decoders -> {"none", "handshake", "refused", "loop", "closed"}]
    /\ held \in [Decoders -> SUBSET Packets]

\* Without a connection there is no session, and nothing on its way.
Apart(d) ==
    /\ Phase(d) \in {"probe", "backoff"} => ~open[d]
    /\ ~open[d] =>
          /\ Phase(d) \in {"free", "probe", "backoff"}
          /\ requests[d] = <<>> /\ replies[d] = <<>>
          /\ server[d] = "none" /\ held[d] = {}

\* During the handshake only its two messages are on their way, one after the other.
Greeting(d) ==
    Phase(d) = "handshake" =>
       /\ held[d] = {}
       /\ requests[d] # <<>> =>
             /\ server[d] \in {"handshake", "refused"}
             /\ requests[d] = <<[kind |-> "init"]>>
             /\ replies[d] = <<>>
       /\ replies[d] # <<>> =>
             /\ Len(replies[d]) = 1
             /\ replies[d][1].kind = "init"
             /\ replies[d][1].enabled => server[d] \in {"loop", "closed"}

\* An answer to the packet of the call, with nothing behind it.
Answer(d, i) ==
    /\ replies[d][i].kind = "reply"
    /\ replies[d][i].packet = packet[d]
    /\ i = Len(replies[d])

\* After it: pixels that were left unread, then the packet of the call or the answer to it.
Serving(d) ==
    open[d] /\ Phase(d) # "handshake" =>
       /\ server[d] \in {"loop", "closed"}
       /\ Phase(d) # "reply" => requests[d] = <<>>
       /\ requests[d] # <<>> => requests[d] = <<[kind |-> "packet", packet |-> packet[d]]>>
       /\ \A i \in DOMAIN replies[d] :
             \/ replies[d][i].kind = "pixels"
             \/ Phase(d) = "reply" /\ requests[d] = <<>> /\ Answer(d, i)
       /\ Phase(d) = "pixels" =>
             \A i \in DOMAIN replies[d] :
                i = Len(replies[d]) /\ i = 1 /\ replies[d][i].packet = packet[d]
                                    /\ replies[d][i].picture # 0

\* Every picture is in one place: drawn or lost, in the stream, or in the codec, in this order.
Pictures(d) ==
    /\ shown[d] <= packet[d]
    /\ \A p \in held[d] : shown[d] < p /\ p <= packet[d]
    /\ \A i \in DOMAIN replies[d] :
          replies[d][i].kind # "init" =>
             /\ replies[d][i].picture # 0 => shown[d] < replies[d][i].picture
             /\ replies[d][i].picture <= packet[d]
             /\ \A p \in held[d] : replies[d][i].picture < p

\* While the packet of a call waits, no picture is as late.
Latest(d) ==
    Phase(d) = "reply" /\ requests[d] # <<>> =>
       /\ shown[d] < packet[d]
       /\ \A i \in DOMAIN replies[d] : replies[d][i].picture < packet[d]

Line(d) == Apart(d) /\ Greeting(d) /\ Serving(d) /\ Pictures(d) /\ Latest(d)

Streams == \A d \in Decoders : Line(d)

-----------------------------------------------------------------------------
(* Facts about sequences *)

LEMMA Added ==
    ASSUME NEW S, NEW s \in Seq(S), NEW e \in S
    PROVE  /\ Append(s, e) \in Seq(S)
           /\ Len(s) \in Nat /\ DOMAIN s = 1..Len(s)
           /\ Len(Append(s, e)) = Len(s) + 1
           /\ DOMAIN Append(s, e) = 1..(Len(s) + 1)
           /\ \A i \in DOMAIN s : Append(s, e)[i] = s[i]
           /\ Append(s, e)[Len(s) + 1] = e
OBVIOUS

LEMMA First == \A e : Append(<<>>, e) = <<e>>
OBVIOUS

LEMMA Removed ==
    ASSUME NEW S, NEW s \in Seq(S), s # <<>>
    PROVE  /\ Tail(s) \in Seq(S)
           /\ Head(s) = s[1] /\ s[1] \in S
           /\ 1 \in DOMAIN s
OBVIOUS

LEMMA Emptied ==
    ASSUME NEW S, NEW s \in Seq(S), Len(s) = 1
    PROVE  Tail(s) = <<>>
<1>1. s # <<>>
  OBVIOUS
<1>2. Tail(s) \in Seq(S) /\ Len(Tail(s)) = 0
  BY <1>1, HeadTailProperties
<1>3. QED
  BY <1>2, EmptySeq

LEMMA Cut ==
    ASSUME NEW S, NEW s \in Seq(S), NEW n \in Nat, n < Len(s)
    PROVE  /\ SubSeq(s, 1, n) \in Seq(S)
           /\ Len(SubSeq(s, 1, n)) = n
           /\ DOMAIN SubSeq(s, 1, n) = 1..n
           /\ \A i \in 1..n : i \in DOMAIN s /\ SubSeq(s, 1, n)[i] = s[i]
OBVIOUS

LEMMA Alone ==
    ASSUME NEW e
    PROVE  /\ <<e>> # <<>> /\ Len(<<e>>) = 1 /\ DOMAIN <<e>> = {1}
           /\ <<e>>[1] = e /\ Head(<<e>>) = e /\ Tail(<<e>>) = <<>>
OBVIOUS

-----------------------------------------------------------------------------
(* Phases *)

\* Nothing of this decoder moves.
Same(d) ==
    /\ Phase(d)' = Phase(d)
    /\ open'[d] = open[d] /\ packet'[d] = packet[d] /\ shown'[d] = shown[d]
    /\ requests'[d] = requests[d] /\ replies'[d] = replies[d]
    /\ server'[d] = server[d] /\ held'[d] = held[d]

LEMMA PhaseIs ==
    ASSUME IInv, NEW t \in Threads, NEW d, target[t] = d, Inside(t)
    PROVE  d \in Decoders /\ lock[d] = t /\ Phase(d) = at[t]
<1>1. d \in Decoders
  BY DEF IInv, Targets, Inside
<1>2. lock[d] = t
  BY <1>1 DEF IInv, LockExact
<1>3. QED
  BY <1>1, <1>2, ThreadsAssumption DEF Phase

\* A call is the phase of no decoder but its own.
LEMMA PhaseOthers ==
    ASSUME IInv, NEW t \in Threads, NEW label, Goto(t, label),
           NEW d \in Decoders, d # target[t] \/ ~Inside(t), lock'[d] = lock[d]
    PROVE  Phase(d)' = Phase(d)
<1>1. lock[d] # t
  BY DEF IInv, LockExact
<1>2. lock[d] \in Threads => at'[lock[d]] = at[lock[d]]
  BY <1>1 DEF Goto, IInv, CallTypes
<1>3. lock[d] \in Threads \cup {NoThread}
  BY DEF IInv, CallTypes
<1>4. QED
  BY <1>2, <1>3 DEF Phase

LEMMA LeavePhases ==
    ASSUME IInv, NEW t \in Threads, NEW d, target[t] = d, Leave(t),
           Inside(t) \/ (at[t] = "enter" /\ lock[d] = NoThread)
    PROVE  /\ d \in Decoders
           /\ Phase(d)' = "free"
           /\ \A e \in Decoders : e # d => Phase(e)' = Phase(e)
<1>1. d \in Decoders
  BY DEF IInv, Targets, Inside
<1>2. lock'[d] = NoThread
  BY <1>1 DEF Leave, IInv, CallTypes
<1>3. Phase(d)' = "free"
  BY <1>2 DEF Phase
<1>4. Goto(t, "idle") /\ \A e \in Decoders : e # d => lock'[e] = lock[e]
  BY DEF Leave, IInv, CallTypes
<1>5. QED
  BY <1>1, <1>3, <1>4, PhaseOthers

\* A call that has, or takes, the lock and goes on.
LEMMA MovePhases ==
    ASSUME IInv, NEW t \in Threads, NEW d, target[t] = d, NEW label, Goto(t, label),
           \/ Inside(t) /\ UNCHANGED lock
           \/ at[t] = "enter" /\ lock' = [lock EXCEPT ![d] = t]
    PROVE  /\ d \in Decoders
           /\ Phase(d)' = label
           /\ \A e \in Decoders : e # d => Phase(e)' = Phase(e)
<1>1. d \in Decoders
  BY DEF IInv, Targets, Inside
<1>2. lock'[d] = t
  BY <1>1, PhaseIs DEF IInv, CallTypes
<1>3. at'[t] = label
  BY DEF Goto, IInv, CallTypes
<1>4. Phase(d)' = label
  BY <1>2, <1>3, ThreadsAssumption DEF Phase
<1>5. \A e \in Decoders : e # d => lock'[e] = lock[e]
  BY DEF IInv, CallTypes
<1>6. QED
  BY <1>1, <1>4, <1>5, PhaseOthers

\* A decoder of which nothing moves stays as it was.
LEMMA SameLine ==
    ASSUME NEW d \in Decoders, Line(d), Same(d)
    PROVE  Line(d)'
<1>1. Apart(d)' /\ Greeting(d)' /\ Latest(d)'
  BY DEF Line, Same, Apart, Greeting, Latest
<1>2. Serving(d)'
  BY DEF Line, Same, Serving, Answer
<1>3. Pictures(d)'
  BY DEF Line, Same, Pictures
<1>4. QED
  BY <1>1, <1>2, <1>3 DEF Line

-----------------------------------------------------------------------------
(* The steps of the calls *)

SInv == StreamTypes /\ Streams

LEMMA StreamsInitial == Init => SInv
<1>1. SUFFICES ASSUME Init
               PROVE  SInv
  OBVIOUS
<1>2. StreamTypes
  <2>1. <<>> \in Seq(Requests) /\ <<>> \in Seq(Replies)
    OBVIOUS
  <2>2. requests \in [Decoders -> Seq(Requests)] /\ replies \in [Decoders -> Seq(Replies)]
    BY <1>1, <2>1 DEF Init
  <2>3. clock <= MaxTime
    BY <1>1, TimeAssumption DEF Init
  <2>4. held \in [Decoders -> SUBSET Packets]
    BY <1>1 DEF Init
  <2>5. /\ open \in [Decoders -> BOOLEAN]
        /\ packet \in [Decoders -> Nat]
        /\ shown \in [Decoders -> Nat]
        /\ running \in BOOLEAN
        /\ server \in [Decoders -> {"none", "handshake", "refused", "loop", "closed"}]
    BY <1>1 DEF Init
  <2>6. QED
    BY <2>2, <2>3, <2>4, <2>5 DEF StreamTypes
<1>3. ASSUME NEW d \in Decoders
      PROVE  Line(d)
  <2>1. /\ Phase(d) = "free" /\ open[d] = FALSE /\ packet[d] = 0 /\ shown[d] = 0
        /\ requests[d] = <<>> /\ replies[d] = <<>> /\ server[d] = "none" /\ held[d] = {}
    BY <1>1 DEF Init, Phase
  <2>2. QED
    BY <2>1 DEF Line, Apart, Greeting, Serving, Pictures, Latest
<1>4. QED
  BY <1>2, <1>3 DEF SInv, Streams

LEMMA OneMoves ==
    ASSUME SInv, StreamTypes', NEW d \in Decoders, Line(d)',
           \A e \in Decoders : e # d => Same(e)
    PROVE  SInv'
<1>1. \A e \in Decoders : Line(e)'
  BY SameLine DEF SInv, Streams
<1>2. QED
  BY <1>1 DEF SInv, Streams

LEMMA NoneMoves ==
    ASSUME SInv, StreamTypes', \A e \in Decoders : Same(e)
    PROVE  SInv'
<1>1. \A e \in Decoders : Line(e)'
  BY SameLine DEF SInv, Streams
<1>2. QED
  BY <1>1 DEF SInv, Streams

\* A connection that is closed leaves nothing behind.
LEMMA DisconnectLine ==
    ASSUME StreamTypes, NEW d \in Decoders, Disconnect(d),
           Phase(d)' \in {"free", "probe", "backoff"},
           shown'[d] <= packet'[d]
    PROVE  Line(d)'
<1>1. /\ open'[d] = FALSE /\ requests'[d] = <<>> /\ replies'[d] = <<>>
      /\ server'[d] = "none" /\ held'[d] = {}
  BY DEF StreamTypes, Disconnect
<1>2. Apart(d)' /\ Greeting(d)' /\ Serving(d)' /\ Latest(d)'
  BY <1>1 DEF Apart, Greeting, Serving, Latest
<1>3. Pictures(d)'
  BY <1>1 DEF Pictures
<1>4. QED
  BY <1>2, <1>3 DEF Line

LEMMA DisconnectTypes ==
    ASSUME StreamTypes, NEW d \in Decoders, Disconnect(d)
    PROVE  /\ open' \in [Decoders -> BOOLEAN]
           /\ requests' \in [Decoders -> Seq(Requests)]
           /\ replies' \in [Decoders -> Seq(Replies)]
           /\ server' \in [Decoders -> {"none", "handshake", "refused", "loop", "closed"}]
           /\ held' \in [Decoders -> SUBSET Packets]
<1>1. <<>> \in Seq(Requests) /\ <<>> \in Seq(Replies)
  OBVIOUS
<1>2. QED
  BY <1>1 DEF StreamTypes, Disconnect

LEMMA FailStreams ==
    ASSUME IInv, SInv, NEW t \in Threads, Inside(t), Fail(t)
    PROVE  SInv'
<1>1. PICK d : d = target[t]
  OBVIOUS
<1>2. Disconnect(d) /\ Goto(t, "backoff") /\ UNCHANGED <<clock, lock, packet, shown, running>>
  BY <1>1 DEF Fail
<1>3. /\ d \in Decoders
      /\ Phase(d)' = "backoff"
      /\ \A e \in Decoders : e # d => Phase(e)' = Phase(e)
  BY <1>1, <1>2, MovePhases
<1>4. StreamTypes'
  BY <1>2, <1>3, DisconnectTypes DEF SInv, StreamTypes
<1>5. Line(d)'
  <2>1. shown[d] <= packet[d]
    BY <1>3 DEF SInv, Streams, Line, Pictures
  <2>2. QED
    BY <1>2, <1>3, <2>1, DisconnectLine DEF SInv
<1>6. \A e \in Decoders : e # d => Same(e)
  BY <1>2, <1>3 DEF Same, Disconnect, SInv, StreamTypes
<1>7. QED
  BY <1>3, <1>4, <1>5, <1>6, OneMoves

\* The call ends and leaves the connection as it is: closed, or with pixels to be read.
LEMMA QuitStreams ==
    ASSUME IInv, SInv, NEW t \in Threads, Leave(t),
           \/ Inside(t) /\ at[t] \in {"probe", "backoff", "pixels"}
           \/ at[t] = "enter" /\ lock[target[t]] = NoThread,
           UNCHANGED <<clock, open, packet, shown, requests, replies, running, server, held>>
    PROVE  SInv'
<1>1. PICK d : d = target[t]
  OBVIOUS
<1>2. /\ d \in Decoders
      /\ Phase(d)' = "free"
      /\ \A e \in Decoders : e # d => Phase(e)' = Phase(e)
  BY <1>1, LeavePhases
<1>3. Phase(d) \in {"free", "probe", "backoff", "pixels"}
  BY <1>1, <1>2, PhaseIs DEF Phase
<1>4. StreamTypes'
  BY DEF SInv, StreamTypes
<1>5. Line(d)'
  <2>1. Line(d)
    BY <1>2 DEF SInv, Streams
  <2>2. Apart(d)' /\ Greeting(d)' /\ Latest(d)'
    BY <1>2, <2>1 DEF Line, Apart, Greeting, Latest
  <2>3. Serving(d)'
    BY <1>2, <1>3, <2>1 DEF Line, Serving
  <2>4. Pictures(d)'
    BY <2>1 DEF Line, Pictures
  <2>5. QED
    BY <2>2, <2>3, <2>4 DEF Line
<1>6. \A e \in Decoders : e # d => Same(e)
  BY <1>2 DEF Same
<1>7. QED
  BY <1>2, <1>4, <1>5, <1>6, OneMoves

LEMMA RefuseStreams ==
    ASSUME IInv, SInv, NEW t \in Threads, Refuse(t) \/ StoreFailure(t) \/ NoMemory(t)
    PROVE  SInv'
<1>1. Inside(t) /\ at[t] \in {"probe", "backoff", "pixels"} /\ Leave(t)
  BY DEF Inside, Refuse, StoreFailure, NoMemory
<1>2. UNCHANGED <<clock, open, packet, shown, requests, replies, running, server, held>>
  BY DEF Refuse, StoreFailure, NoMemory, stream, session
<1>3. QED
  BY <1>1, <1>2, QuitStreams

LEMMA DialStreams ==
    ASSUME IInv, SInv, NEW t \in Threads, Dial(t)
    PROVE  SInv'
<1>1. Inside(t) /\ at[t] = "probe"
  BY DEF Dial, Inside
<1>2. CASE Leave(t) /\ UNCHANGED <<clock, open, packet, shown, stream, running, session>>
  BY <1>1, <1>2, QuitStreams DEF stream, session
<1>3. CASE Fail(t)
  BY <1>1, <1>3, FailStreams
<1>4. PICK d : d = target[t]
  OBVIOUS
<1>5. CASE /\ open' = [open EXCEPT ![d] = TRUE]
           /\ requests' = [requests EXCEPT ![d] = <<[kind |-> "init"]>>]
           /\ server' = [server EXCEPT ![d] = "handshake"]
           /\ Goto(t, "handshake")
           /\ UNCHANGED <<clock, lock, packet, shown, replies, running, held>>
  <2>1. /\ d \in Decoders
        /\ Phase(d)' = "handshake"
        /\ \A e \in Decoders : e # d => Phase(e)' = Phase(e)
    BY <1>1, <1>4, <1>5, MovePhases
  <2>2. StreamTypes'
    <3>1. [kind |-> "init"] \in Requests
      BY DEF Requests
    <3>2. <<[kind |-> "init"]>> \in Seq(Requests)
      BY <3>1
    <3>3. requests' \in [Decoders -> Seq(Requests)]
      BY <1>5, <3>2 DEF SInv, StreamTypes
    <3>4. QED
      BY <1>5, <3>3 DEF SInv, StreamTypes
  <2>3. Line(d) /\ Phase(d) = "probe"
    BY <1>1, <1>4, <2>1, PhaseIs DEF SInv, Streams
  <2>4. ~open[d] /\ replies[d] = <<>> /\ held[d] = {}
    BY <2>3 DEF Line, Apart
  <2>5. /\ open'[d] /\ requests'[d] = <<[kind |-> "init"]>> /\ server'[d] = "handshake"
        /\ replies'[d] = <<>> /\ held'[d] = {}
    BY <1>5, <2>1, <2>4 DEF SInv, StreamTypes
  <2>6. Line(d)'
    <3>1. Apart(d)' /\ Greeting(d)' /\ Serving(d)' /\ Latest(d)'
      BY <2>1, <2>5 DEF Apart, Greeting, Serving, Latest
    <3>2. Pictures(d)'
      BY <1>5, <2>3, <2>5 DEF Line, Pictures
    <3>3. QED
      BY <3>1, <3>2 DEF Line
  <2>7. \A e \in Decoders : e # d => Same(e)
    BY <1>5, <2>1 DEF Same, SInv, StreamTypes
  <2>8. QED
    BY <2>1, <2>2, <2>6, <2>7, OneMoves
<1>6. QED
  BY <1>2, <1>3, <1>4, <1>5 DEF Dial
LEMMA PicturesTyped ==
    ASSUME StreamTypes, NEW d \in Decoders, NEW i \in DOMAIN replies[d],
           replies[d][i].kind # "init"
    PROVE  /\ replies[d][i].kind \in {"reply", "pixels"}
           /\ replies[d][i].picture \in Nat
           /\ replies[d][i].packet \in Nat
           /\ replies[d][i].ok \in BOOLEAN
<1>1. replies[d] \in Seq(Replies)
  BY DEF StreamTypes
<1>2. replies[d][i] \in Replies
  BY <1>1
<1>3. QED
  BY <1>2 DEF Replies, Packets

LEMMA SendTypes ==
    ASSUME StreamTypes, NEW d \in Decoders, requests[d] = <<>>, Send(d)
    PROVE  /\ packet' \in [Decoders -> Nat]
           /\ requests' \in [Decoders -> Seq(Requests)]
           /\ packet'[d] = packet[d] + 1
           /\ requests'[d] = <<[kind |-> "packet", packet |-> packet'[d]]>>
           /\ \A e \in Decoders : e # d => packet'[e] = packet[e] /\ requests'[e] = requests[e]
<1> DEFINE message == [kind |-> "packet", packet |-> packet[d] + 1]
<1>1. packet[d] \in Nat /\ packet[d] + 1 \in Packets
  BY DEF StreamTypes, Packets
<1>2. message \in Requests
  BY <1>1 DEF Requests
<1>3. Append(requests[d], message) = <<message>>
  BY First
<1>4. <<message>> \in Seq(Requests)
  BY <1>2
<1> HIDE DEF message
<1>5. /\ requests' = [requests EXCEPT ![d] = Append(requests[d], message)]
      /\ packet' = [packet EXCEPT ![d] = packet[d] + 1]
  BY DEF Send, message
<1>6. packet' \in [Decoders -> Nat] /\ packet'[d] = packet[d] + 1
      /\ \A e \in Decoders : e # d => packet'[e] = packet[e]
  BY <1>1, <1>5 DEF StreamTypes
<1>7. requests' \in [Decoders -> Seq(Requests)] /\ requests'[d] = <<message>>
      /\ \A e \in Decoders : e # d => requests'[e] = requests[e]
  BY <1>3, <1>4, <1>5 DEF StreamTypes
<1>8. message = [kind |-> "packet", packet |-> packet'[d]]
  BY <1>6 DEF message
<1>9. QED
  BY <1>6, <1>7, <1>8

\* A packet goes out behind at most the pixels of an earlier picture.
LEMMA SendLine ==
    ASSUME StreamTypes, NEW d \in Decoders, Pictures(d), open[d], server[d] \in {"loop", "closed"},
           requests[d] = <<>>, Send(d), Phase(d)' = "reply",
           open'[d] = open[d], shown'[d] = shown[d], server'[d] = server[d], held'[d] = held[d],
           replies'[d] = replies[d] \/ replies'[d] = <<>>,
           \A i \in DOMAIN replies'[d] : replies'[d][i].kind = "pixels"
    PROVE  Line(d)'
<1>1. /\ packet'[d] = packet[d] + 1
      /\ requests'[d] = <<[kind |-> "packet", packet |-> packet'[d]]>>
  BY SendTypes
<1>2. packet[d] \in Nat /\ shown[d] \in Nat /\ held[d] \subseteq Nat
  BY DEF StreamTypes, Packets
<1>3. ASSUME NEW i \in DOMAIN replies'[d]
      PROVE  /\ replies'[d][i].picture \in Nat
             /\ replies'[d][i].picture # 0 => shown[d] < replies'[d][i].picture
             /\ replies'[d][i].picture <= packet[d]
             /\ \A p \in held[d] : replies'[d][i].picture < p
  <2>1. replies'[d] = replies[d]
    BY <1>3
  <2>2. i \in DOMAIN replies[d] /\ replies[d][i].kind # "init"
    BY <2>1, <1>3
  <2>3. QED
    BY <2>1, <2>2, PicturesTyped DEF Pictures
<1>4. Pictures(d)'
  <2>1. shown'[d] <= packet'[d]
    BY <1>1, <1>2 DEF Pictures
  <2>2. \A p \in held'[d] : shown'[d] < p /\ p <= packet'[d]
    BY <1>1, <1>2 DEF Pictures
  <2>3. ASSUME NEW i \in DOMAIN replies'[d]
        PROVE  /\ replies'[d][i].picture # 0 => shown'[d] < replies'[d][i].picture
               /\ replies'[d][i].picture <= packet'[d]
               /\ \A p \in held'[d] : replies'[d][i].picture < p
    BY <1>1, <1>2, <1>3, <2>3
  <2>4. QED
    BY <2>1, <2>2, <2>3 DEF Pictures
<1>5. Latest(d)'
  <2>1. shown'[d] < packet'[d]
    BY <1>1, <1>2 DEF Pictures
  <2>2. \A i \in DOMAIN replies'[d] : replies'[d][i].picture < packet'[d]
    BY <1>1, <1>2, <1>3
  <2>3. QED
    BY <2>1, <2>2 DEF Latest
<1>6. Apart(d)' /\ Greeting(d)'
  BY DEF Apart, Greeting
<1>7. Serving(d)'
  BY <1>1 DEF Serving
<1>8. QED
  BY <1>4, <1>5, <1>6, <1>7 DEF Line

LEMMA EnterStreams ==
    ASSUME IInv, SInv, NEW t \in Threads, Enter(t)
    PROVE  SInv'
<1>1. PICK d : d = target[t]
  OBVIOUS
<1>2. /\ at[t] = "enter" /\ lock[d] = NoThread
      /\ UNCHANGED <<clock, open, shown, replies, running, server, held>>
  BY <1>1 DEF Enter, session
<1>3. d \in Decoders /\ Phase(d) = "free"
  BY <1>1, <1>2 DEF IInv, Targets, Phase
<1>4. Line(d)
  BY <1>3 DEF SInv, Streams
<1>5. CASE open[d] /\ lock' = [lock EXCEPT ![d] = t] /\ Goto(t, "reply") /\ Send(d)
  <2>1. Phase(d)' = "reply" /\ \A e \in Decoders : e # d => Phase(e)' = Phase(e)
    BY <1>1, <1>2, <1>5, MovePhases
  <2>2. server[d] \in {"loop", "closed"} /\ requests[d] = <<>> /\ Pictures(d)
        /\ \A i \in DOMAIN replies[d] : replies[d][i].kind = "pixels"
    BY <1>3, <1>4, <1>5 DEF Line, Serving
  <2>3. StreamTypes'
    BY <1>2, <1>3, <1>5, <2>2, SendTypes DEF SInv, StreamTypes
  <2>4. Line(d)'
    BY <1>2, <1>3, <1>5, <2>1, <2>2, SendLine DEF SInv
  <2>5. \A e \in Decoders : e # d => Same(e)
    BY <1>2, <1>3, <1>5, <2>1, <2>2, SendTypes DEF Same, SInv
  <2>6. QED
    BY <1>3, <2>3, <2>4, <2>5, OneMoves
<1>6. CASE ~open[d] /\ lock' = [lock EXCEPT ![d] = t] /\ Goto(t, "probe") /\ UNCHANGED <<packet, requests>>
  <2>1. Phase(d)' = "probe" /\ \A e \in Decoders : e # d => Phase(e)' = Phase(e)
    BY <1>1, <1>2, <1>6, MovePhases
  <2>2. StreamTypes'
    BY <1>2, <1>6 DEF SInv, StreamTypes
  <2>3. Line(d)'
    <3>1. requests[d] = <<>> /\ replies[d] = <<>> /\ held[d] = {}
      BY <1>4, <1>6 DEF Line, Apart
    <3>2. Apart(d)'
      BY <1>2, <1>4, <1>6, <2>1 DEF Line, Apart
    <3>3. Greeting(d)' /\ Serving(d)' /\ Latest(d)'
      BY <1>2, <1>6, <2>1 DEF Greeting, Serving, Latest
    <3>4. Pictures(d)'
      BY <1>2, <1>4, <1>6 DEF Line, Pictures
    <3>5. QED
      BY <3>2, <3>3, <3>4 DEF Line
  <2>4. \A e \in Decoders : e # d => Same(e)
    BY <1>2, <1>6, <2>1 DEF Same
  <2>5. QED
    BY <1>3, <2>2, <2>3, <2>4, OneMoves
<1>7. CASE Leave(t) /\ UNCHANGED <<packet, requests>>
  BY <1>1, <1>2, <1>7, QuitStreams
<1>8. QED
  BY <1>1, <1>5, <1>6, <1>7 DEF Enter

LEMMA WelcomeStreams ==
    ASSUME IInv, SInv, NEW t \in Threads, Welcome(t)
    PROVE  SInv'
<1>1. Inside(t) /\ at[t] = "handshake"
  BY DEF Welcome, Inside
<1>2. CASE Fail(t)
  BY <1>1, <1>2, FailStreams
<1>3. CASE ~Fail(t)
  <2>1. PICK d : d = target[t]
    OBVIOUS
  <2>2. /\ replies[d] # <<>> /\ Head(replies[d]).enabled
        /\ Receive(d) /\ Send(d) /\ Goto(t, "reply")
        /\ UNCHANGED <<clock, lock, open, shown, running, server, held>>
    BY <1>3, <2>1 DEF Welcome, session
  <2>3. /\ d \in Decoders /\ Phase(d)' = "reply"
        /\ \A e \in Decoders : e # d => Phase(e)' = Phase(e)
    BY <1>1, <2>1, <2>2, MovePhases
  <2>4. Phase(d) = "handshake" /\ Line(d)
    BY <1>1, <2>1, <2>3, PhaseIs DEF SInv, Streams
  <2>5. replies[d] \in Seq(Replies)
    BY <2>3 DEF SInv, StreamTypes
  <2>6. Len(replies[d]) = 1 /\ requests[d] = <<>> /\ open[d]
    BY <2>2, <2>4 DEF Line, Greeting, Apart
  <2>7. server[d] \in {"loop", "closed"}
    BY <2>2, <2>4, <2>5, Removed DEF Line, Greeting
  <2>8. Tail(replies[d]) = <<>>
    BY <2>5, <2>6, Emptied
  <2>9. replies'[d] = <<>> /\ \A e \in Decoders : e # d => replies'[e] = replies[e]
    BY <2>2, <2>3, <2>8 DEF Receive, SInv, StreamTypes
  <2>10. StreamTypes'
    <3>1. <<>> \in Seq(Replies)
      OBVIOUS
    <3>2. replies' \in [Decoders -> Seq(Replies)]
      BY <2>2, <2>8, <3>1 DEF Receive, SInv, StreamTypes
    <3>3. QED
      BY <2>2, <2>3, <2>6, <3>2, SendTypes DEF SInv, StreamTypes
  <2>11. Line(d)'
    <3>1. Pictures(d)
      BY <2>4 DEF Line
    <3>2. QED
      BY <2>2, <2>3, <2>6, <2>7, <2>9, <3>1, SendLine DEF SInv
  <2>12. \A e \in Decoders : e # d => Same(e)
    BY <2>2, <2>3, <2>6, <2>9, SendTypes DEF Same, SInv
  <2>13. QED
    BY <2>3, <2>10, <2>11, <2>12, OneMoves
<1>4. QED
  BY <1>2, <1>3
\* What a call in "reply" finds, when it takes it for its answer, is its answer and the last message.
LEMMA AnswerFound ==
    ASSUME StreamTypes, NEW d \in Decoders, Line(d), Phase(d) = "reply",
           replies[d] # <<>>, GoodReply(Head(replies[d]))
    PROVE  /\ Head(replies[d]) = replies[d][1] /\ 1 \in DOMAIN replies[d] /\ Len(replies[d]) = 1
           /\ replies[d][1].kind = "reply" /\ replies[d][1].packet = packet[d]
           /\ requests[d] = <<>> /\ open[d] /\ server[d] \in {"loop", "closed"}
<1>1. replies[d] \in Seq(Replies)
  BY DEF StreamTypes
<1>2. Head(replies[d]) = replies[d][1] /\ 1 \in DOMAIN replies[d]
  BY <1>1, Removed
<1>3. replies[d][1].kind = "reply"
  BY <1>2 DEF GoodReply
<1>4. open[d]
  BY DEF Line, Apart
<1>5. requests[d] = <<>> /\ Answer(d, 1) /\ server[d] \in {"loop", "closed"}
  BY <1>2, <1>3, <1>4 DEF Line, Serving
<1>6. QED
  BY <1>2, <1>3, <1>4, <1>5 DEF Answer

\* The one message there was is taken out, and the call ends.
LEMMA ReceiveStreams ==
    ASSUME IInv, SInv, NEW t \in Threads, NEW d, d = target[t], Inside(t), Leave(t),
           Len(replies[d]) = 1, requests[d] = <<>>, server[d] \in {"loop", "closed"}, open[d],
           Receive(d), UNCHANGED <<clock, open, packet, requests, running, server, held>>,
           shown' \in [Decoders -> Nat],
           shown'[d] <= packet[d], \A p \in held[d] : shown'[d] < p /\ p <= packet[d],
           \A e \in Decoders : e # d => shown'[e] = shown[e]
    PROVE  SInv'
<1>1. /\ d \in Decoders /\ Phase(d)' = "free"
      /\ \A e \in Decoders : e # d => Phase(e)' = Phase(e)
  BY LeavePhases
<1>2. replies[d] \in Seq(Replies)
  BY <1>1 DEF SInv, StreamTypes
<1>3. Tail(replies[d]) = <<>>
  BY <1>2, Emptied
<1>4. replies'[d] = <<>> /\ \A e \in Decoders : e # d => replies'[e] = replies[e]
  BY <1>1, <1>3 DEF Receive, SInv, StreamTypes
<1>5. StreamTypes'
  <2>1. <<>> \in Seq(Replies)
    OBVIOUS
  <2>2. replies' \in [Decoders -> Seq(Replies)]
    BY <1>3, <2>1 DEF Receive, SInv, StreamTypes
  <2>3. QED
    BY <2>2 DEF SInv, StreamTypes
<1>6. Line(d)'
  <2>1. Apart(d)' /\ Greeting(d)' /\ Latest(d)'
    BY <1>1 DEF Apart, Greeting, Latest
  <2>2. Serving(d)'
    BY <1>1, <1>4 DEF Serving
  <2>3. Pictures(d)'
    BY <1>4 DEF Pictures
  <2>4. QED
    BY <2>1, <2>2, <2>3 DEF Line
<1>7. \A e \in Decoders : e # d => Same(e)
  BY <1>1, <1>4 DEF Same
<1>8. QED
  BY <1>1, <1>5, <1>6, <1>7, OneMoves

LEMMA ReplyStreams ==
    ASSUME IInv, SInv, NEW t \in Threads, Reply(t)
    PROVE  SInv'
<1>1. Inside(t) /\ at[t] = "reply"
  BY DEF Reply, Inside
<1>2. PICK d : d = target[t]
  OBVIOUS
<1>3. d \in Decoders /\ Phase(d) = "reply"
  BY <1>1, <1>2, PhaseIs
<1>4. Line(d) /\ StreamTypes
  BY <1>3 DEF SInv, Streams
<1>5. CASE Fail(t)
  BY <1>1, <1>5, FailStreams
<1>6. CASE /\ replies[d] # <<>> /\ GoodReply(Head(replies[d]))
           /\ Receive(d) /\ Leave(t)
           /\ UNCHANGED <<clock, open, packet, shown, requests, running, server, held>>
  <2>1. Len(replies[d]) = 1 /\ requests[d] = <<>> /\ open[d] /\ server[d] \in {"loop", "closed"}
    BY <1>3, <1>4, <1>6, AnswerFound
  <2>2. shown[d] <= packet[d] /\ \A p \in held[d] : shown[d] < p /\ p <= packet[d]
    BY <1>4 DEF Line, Pictures
  <2>3. shown' \in [Decoders -> Nat]
    BY <1>4, <1>6 DEF StreamTypes
  <2>4. QED
    BY <1>1, <1>2, <1>6, <2>1, <2>2, <2>3, ReceiveStreams
<1>7. CASE /\ replies[d] # <<>> /\ GoodReply(Head(replies[d])) /\ Head(replies[d]).picture # 0
           /\ replies' = [replies EXCEPT ![d][1].kind = "pixels"]
           /\ Goto(t, "pixels")
           /\ UNCHANGED <<clock, lock, open, packet, shown, requests, running, server, held>>
  <2>1. Phase(d)' = "pixels" /\ \A e \in Decoders : e # d => Phase(e)' = Phase(e)
    BY <1>1, <1>2, <1>7, MovePhases
  <2>2. /\ Head(replies[d]) = replies[d][1] /\ 1 \in DOMAIN replies[d] /\ Len(replies[d]) = 1
        /\ replies[d][1].kind = "reply" /\ replies[d][1].packet = packet[d]
        /\ requests[d] = <<>> /\ open[d] /\ server[d] \in {"loop", "closed"}
    BY <1>3, <1>4, <1>7, AnswerFound
  <2> DEFINE old == replies[d][1]
             new == [old EXCEPT !.kind = "pixels"]
             rs  == [replies[d] EXCEPT ![1] = new]
  <2>3. replies[d] \in Seq(Replies)
    BY <1>3, <1>4 DEF StreamTypes
  <2>old. old \in Replies
    BY <2>2, <2>3, Removed
  <2>4. old \in [kind : {"reply", "pixels"}, packet : Packets, ok : BOOLEAN, picture : Packets \cup {0}]
    BY <2>2, <2>old DEF Replies
  <2>5. /\ new \in Replies /\ new.kind = "pixels" /\ new.packet = old.packet
        /\ new.picture = old.picture
    BY <2>4 DEF Replies
  <2>6. replies' = [replies EXCEPT ![d] = rs]
    BY <1>7
  <2> HIDE DEF new, old
  <2>7. rs \in Seq(Replies) /\ Len(rs) = 1 /\ DOMAIN rs = {1} /\ rs[1] = new
    BY <2>2, <2>3, <2>5
  <2> HIDE DEF rs
  <2>8. replies'[d] = rs /\ \A e \in Decoders : e # d => replies'[e] = replies[e]
    BY <1>3, <1>4, <2>6 DEF StreamTypes
  <2>9. StreamTypes'
    <3>1. replies' \in [Decoders -> Seq(Replies)]
      BY <1>4, <2>6, <2>7 DEF StreamTypes
    <3>2. QED
      BY <1>4, <1>7, <3>1 DEF StreamTypes
  <2>10. new.packet = packet[d] /\ new.picture # 0
    BY <1>7, <2>2, <2>5 DEF old
  <2>11. Line(d)'
    <3>1. Apart(d)' /\ Greeting(d)' /\ Latest(d)'
      BY <1>7, <2>1, <2>2 DEF Apart, Greeting, Latest
    <3>2. Serving(d)'
      BY <1>7, <2>1, <2>2, <2>5, <2>7, <2>8, <2>10 DEF Serving
    <3>3. Pictures(d)
      BY <1>4 DEF Line
    <3>4. /\ old.picture # 0 => shown[d] < old.picture
          /\ old.picture <= packet[d]
          /\ \A p \in held[d] : old.picture < p
      BY <2>2, <3>3 DEF Pictures, old
    <3>5. Pictures(d)'
      BY <1>7, <2>5, <2>7, <2>8, <3>3, <3>4 DEF Pictures
    <3>6. QED
      BY <3>1, <3>2, <3>5 DEF Line
  <2>12. \A e \in Decoders : e # d => Same(e)
    BY <1>7, <2>1, <2>8 DEF Same
  <2>13. QED
    BY <1>3, <2>9, <2>11, <2>12, OneMoves
<1>8. QED
  BY <1>2, <1>5, <1>6, <1>7 DEF Reply, decoder, session

LEMMA PixelsStreams ==
    ASSUME IInv, SInv, NEW t \in Threads, Pixels(t) \/ Timeout(t)
    PROVE  SInv'
<1>1. Inside(t)
  BY DEF Pixels, Timeout, Inside
<1>2. CASE Fail(t)
  BY <1>1, <1>2, FailStreams
<1>3. PICK d : d = target[t]
  OBVIOUS
<1>4. CASE /\ at[t] = "pixels" /\ replies[d] # <<>>
           /\ Draw(d, Head(replies[d]).picture) /\ Receive(d) /\ Leave(t)
           /\ UNCHANGED <<clock, open, packet, requests, running, server, held>>
  <2>1. d \in Decoders /\ Phase(d) = "pixels"
    BY <1>1, <1>3, <1>4, PhaseIs
  <2>2. Line(d) /\ StreamTypes
    BY <2>1 DEF SInv, Streams
  <2>3. replies[d] \in Seq(Replies)
    BY <2>1, <2>2 DEF StreamTypes
  <2>4. Head(replies[d]) = replies[d][1] /\ 1 \in DOMAIN replies[d]
    BY <1>4, <2>3, Removed
  <2>5. open[d] /\ requests[d] = <<>> /\ server[d] \in {"loop", "closed"}
    BY <2>1, <2>2 DEF Line, Apart, Serving
  <2>6. Len(replies[d]) = 1 /\ replies[d][1].kind = "pixels" /\ replies[d][1].picture # 0
    BY <2>1, <2>2, <2>4, <2>5 DEF Line, Serving
  <2> DEFINE picture == replies[d][1].picture
  <2>7. picture \in Nat
    BY <2>1, <2>2, <2>4, <2>6, PicturesTyped
  <2>8. picture <= packet[d] /\ \A p \in held[d] : picture < p /\ p <= packet[d]
    BY <2>2, <2>4, <2>6 DEF Line, Pictures
  <2>9. shown' = [shown EXCEPT ![d] = picture]
    BY <1>4, <2>4 DEF Draw
  <2> HIDE DEF picture
  <2>10. shown' \in [Decoders -> Nat] /\ shown'[d] = picture
         /\ \A e \in Decoders : e # d => shown'[e] = shown[e]
    BY <2>1, <2>2, <2>7, <2>9 DEF StreamTypes
  <2>11. QED
    BY <1>1, <1>3, <1>4, <2>5, <2>6, <2>8, <2>10, ReceiveStreams
<1>5. QED
  BY <1>2, <1>3, <1>4 DEF Pixels, Timeout, session

LEMMA RecreateStreams ==
    ASSUME IInv, SInv, NEW d \in Decoders, Recreate(d)
    PROVE  SInv'
<1>1. /\ Disconnect(d)
      /\ packet' = [packet EXCEPT ![d] = 0] /\ shown' = [shown EXCEPT ![d] = 0]
      /\ UNCHANGED <<clock, at, lock, running>>
  BY DEF Recreate, calls
<1>2. \A e : Phase(e)' = Phase(e)
  BY <1>1 DEF Phase
<1>3. Phase(d) = "free"
  <2>1. lock[d] \notin Threads
    BY DEF Recreate, CallsOf, IInv, LockExact
  <2>2. QED
    BY <2>1 DEF IInv, CallTypes, Phase
<1>4. packet'[d] = 0 /\ shown'[d] = 0 /\ packet' \in [Decoders -> Nat] /\ shown' \in [Decoders -> Nat]
  BY <1>1 DEF SInv, StreamTypes
<1>5. StreamTypes'
  BY <1>1, <1>4, DisconnectTypes DEF SInv, StreamTypes
<1>6. Line(d)'
  BY <1>1, <1>2, <1>3, <1>4, DisconnectLine DEF SInv
<1>7. \A e \in Decoders : e # d => Same(e)
  BY <1>1, <1>2 DEF Same, Disconnect, SInv, StreamTypes
<1>8. QED
  BY <1>5, <1>6, <1>7, OneMoves

LEMMA EndFrameStreams ==
    ASSUME IInv, SInv, NEW t \in Threads, NEW d \in Decoders, EndFrame(t, d)
    PROVE  SInv'
<1>1. /\ at[t] = "idle" /\ Goto(t, "enter")
      /\ UNCHANGED <<clock, lock, open, packet, shown, requests, replies, running, server, held>>
  BY DEF EndFrame, decoder, stream, session
<1>2. \A e \in Decoders : Phase(e)' = Phase(e)
  BY <1>1, PhaseOthers DEF Inside
<1>3. StreamTypes'
  BY <1>1 DEF SInv, StreamTypes
<1>4. QED
  BY <1>1, <1>2, <1>3, NoneMoves DEF Same

LEMMA TickStreams ==
    ASSUME IInv, SInv, Tick \/ HelperStart \/ UNCHANGED vars
    PROVE  SInv'
<1>1. /\ UNCHANGED <<at, lock, open, packet, shown, requests, replies, server, held>>
      /\ running' \in BOOLEAN
      /\ clock' <= MaxTime
  <2>1. clock \in Nat /\ clock <= MaxTime /\ running \in BOOLEAN
    BY DEF IInv, CallTypes, SInv, StreamTypes
  <2>2. CASE Tick
    <3>1. clock' = clock + 1 /\ clock < MaxTime /\ MaxTime \in Nat
      BY <2>2, TimeAssumption DEF Tick
    <3>2. clock' <= MaxTime
      BY <2>1, <3>1
    <3>3. QED
      BY <2>1, <2>2, <3>2 DEF Tick, calls, decoder, stream, session
  <2>3. CASE HelperStart
    BY <2>1, <2>3 DEF HelperStart, calls, decoder, stream, session
  <2>4. CASE UNCHANGED vars
    BY <2>1, <2>4 DEF vars, calls, decoder, stream, session
  <2>5. QED
    BY <2>2, <2>3, <2>4
<1>2. \A e : Phase(e)' = Phase(e)
  BY <1>1 DEF Phase
<1>3. StreamTypes'
  BY <1>1 DEF SInv, StreamTypes
<1>4. QED
  BY <1>1, <1>2, <1>3, NoneMoves DEF Same
-----------------------------------------------------------------------------
(* The steps of the helper *)

LEMMA HelperPhases == ASSUME UNCHANGED <<calls, decoder>>
                      PROVE  \A d : Phase(d)' = Phase(d)
BY DEF Phase, calls, decoder

\* Something was sent to the helper: it is the one message of the call, in its phase.
LEMMA RequestFound ==
    ASSUME StreamTypes, NEW d \in Decoders, Line(d), requests[d] # <<>>
    PROVE  /\ open[d]
           /\ Tail(requests[d]) = <<>>
           /\ \/ /\ Phase(d) = "handshake" /\ server[d] \in {"handshake", "refused"}
                 /\ replies[d] = <<>>
              \/ /\ Phase(d) = "reply" /\ server[d] \in {"loop", "closed"}
                 /\ Head(requests[d]).packet = packet[d]
                 /\ packet[d] \in Packets
                 /\ \A i \in DOMAIN replies[d] : replies[d][i].kind = "pixels"
<1>1. open[d]
  BY DEF Line, Apart
<1>2. CASE Phase(d) = "handshake"
  <2>1. /\ server[d] \in {"handshake", "refused"} /\ replies[d] = <<>>
        /\ requests[d] = <<[kind |-> "init"]>>
    BY <1>2 DEF Line, Greeting
  <2>2. Tail(requests[d]) = <<>>
    BY <2>1, Alone
  <2>3. QED
    BY <1>1, <1>2, <2>1, <2>2
<1>3. CASE Phase(d) # "handshake"
  <2>1. /\ Phase(d) = "reply" /\ server[d] \in {"loop", "closed"}
        /\ requests[d] = <<[kind |-> "packet", packet |-> packet[d]]>>
        /\ \A i \in DOMAIN replies[d] : replies[d][i].kind = "pixels"
    BY <1>1, <1>3 DEF Line, Serving
  <2>2. Head(requests[d]).packet = packet[d] /\ Tail(requests[d]) = <<>>
    BY <2>1, Alone
  <2>3. packet[d] \in Packets
    BY <2>1 DEF Line, Latest, StreamTypes, Packets
  <2>4. QED
    BY <1>1, <2>1, <2>2, <2>3
<1>4. QED
  BY <1>2, <1>3

LEMMA ServeInitStreams ==
    ASSUME IInv, SInv, NEW d \in Decoders, ServeInit(d)
    PROVE  SInv'
<1>1. /\ server[d] = "handshake" /\ requests[d] # <<>>
      /\ UNCHANGED <<clock, open, packet, shown, running, held>>
      /\ \A e : Phase(e)' = Phase(e)
  BY HelperPhases DEF ServeInit, decoder
<1>2. Line(d) /\ StreamTypes
  BY DEF SInv, Streams
<1>3. /\ open[d] /\ Phase(d) = "handshake" /\ Tail(requests[d]) = <<>> /\ replies[d] = <<>>
  BY <1>1, <1>2, RequestFound
<1>4. held[d] = {}
  BY <1>2, <1>3 DEF Line, Greeting
<1>5. CASE \E enabled \in BOOLEAN :
              /\ requests' = [requests EXCEPT ![d] = Tail(@)]
              /\ replies' = [replies EXCEPT ![d] = Append(@, [kind |-> "init", enabled |-> enabled])]
              /\ server' = [server EXCEPT ![d] = IF enabled THEN "loop" ELSE "refused"]
  <2>1. PICK enabled \in BOOLEAN :
              /\ requests' = [requests EXCEPT ![d] = <<>>]
              /\ replies' = [replies EXCEPT ![d] = Append(replies[d], [kind |-> "init", enabled |-> enabled])]
              /\ server' = [server EXCEPT ![d] = IF enabled THEN "loop" ELSE "refused"]
    BY <1>3, <1>5
  <2> DEFINE answer == [kind |-> "init", enabled |-> enabled]
  <2>2. answer \in Replies /\ answer.kind = "init" /\ answer.enabled = enabled
    BY DEF Replies
  <2> HIDE DEF answer
  <2>3. Append(replies[d], answer) = <<answer>>
    BY <1>3, First
  <2>4. replies' = [replies EXCEPT ![d] = <<answer>>]
    BY <2>1, <2>3 DEF answer
  <2>5. /\ requests'[d] = <<>> /\ replies'[d] = <<answer>>
        /\ server'[d] = (IF enabled THEN "loop" ELSE "refused")
        /\ \A e \in Decoders : e # d => /\ requests'[e] = requests[e] /\ replies'[e] = replies[e]
                                        /\ server'[e] = server[e]
    BY <1>2, <2>1, <2>4 DEF StreamTypes
  <2>6. StreamTypes'
    <3>1. <<>> \in Seq(Requests)
      OBVIOUS
    <3>2. <<answer>> \in Seq(Replies)
      BY <2>2
    <3>3. replies' \in [Decoders -> Seq(Replies)]
      BY <1>2, <2>4, <3>2 DEF StreamTypes
    <3>4. requests' \in [Decoders -> Seq(Requests)]
      BY <1>2, <2>1, <3>1 DEF StreamTypes
    <3>5. server' \in [Decoders -> {"none", "handshake", "refused", "loop", "closed"}]
      BY <1>2, <2>1 DEF StreamTypes
    <3>6. QED
      BY <1>1, <1>2, <3>3, <3>4, <3>5 DEF StreamTypes
  <2>7. Line(d)'
    <3>1. /\ replies'[d] # <<>> /\ Len(replies'[d]) = 1 /\ replies'[d][1] = answer
          /\ DOMAIN replies'[d] = {1}
      BY <2>5, Alone
    <3>2. Apart(d)' /\ Serving(d)' /\ Latest(d)'
      BY <1>1, <1>3 DEF Apart, Serving, Latest
    <3>3. Greeting(d)'
      BY <1>1, <1>4, <2>2, <2>5, <3>1 DEF Greeting
    <3>4. Pictures(d)'
      BY <1>1, <1>2, <2>2, <3>1 DEF Line, Pictures
    <3>5. QED
      BY <3>2, <3>3, <3>4 DEF Line
  <2>8. \A e \in Decoders : e # d => Same(e)
    BY <1>1, <2>5 DEF Same
  <2>9. QED
    BY <2>6, <2>7, <2>8, OneMoves
<1>6. CASE server' = [server EXCEPT ![d] = "refused"] /\ UNCHANGED <<requests, replies>>
  <2>1. server'[d] = "refused" /\ \A e \in Decoders : e # d => server'[e] = server[e]
    BY <1>2, <1>6 DEF StreamTypes
  <2>2. StreamTypes'
    BY <1>1, <1>2, <1>6 DEF StreamTypes
  <2>3. Line(d)'
    <3>1. Apart(d)' /\ Serving(d)' /\ Latest(d)'
      BY <1>1, <1>3 DEF Apart, Serving, Latest
    <3>2. Greeting(d)'
      BY <1>1, <1>2, <1>3, <1>6, <2>1 DEF Line, Greeting
    <3>3. Pictures(d)'
      BY <1>1, <1>2, <1>6 DEF Line, Pictures
    <3>4. QED
      BY <3>1, <3>2, <3>3 DEF Line
  <2>4. \A e \in Decoders : e # d => Same(e)
    BY <1>1, <1>6, <2>1 DEF Same
  <2>5. QED
    BY <2>2, <2>3, <2>4, OneMoves
<1>7. QED
  BY <1>5, <1>6 DEF ServeInit, stream

\* The codec gives the oldest picture, or loses some: what it keeps is later.
LEMMA DecodedOrder ==
    ASSUME NEW inside \in SUBSET Packets, NEW ok \in BOOLEAN, NEW picture \in inside \cup {0},
           NEW rest \in SUBSET inside, Decoded(inside, ok, picture, rest)
    PROVE  picture \in Nat /\ \A p \in rest : picture < p
<1>1. inside \subseteq Nat /\ \A p \in inside : 0 < p
  BY DEF Packets
<1>2. QED
  BY <1>1 DEF Decoded

LEMMA ServePacketStreams ==
    ASSUME IInv, SInv, NEW d \in Decoders, ServePacket(d)
    PROVE  SInv'
<1>1. /\ server[d] = "loop" /\ requests[d] # <<>>
      /\ requests' = [requests EXCEPT ![d] = Tail(@)]
      /\ UNCHANGED <<clock, open, packet, shown, running, server>>
      /\ \A e : Phase(e)' = Phase(e)
  BY HelperPhases DEF ServePacket, decoder
<1>2. Line(d) /\ StreamTypes
  BY DEF SInv, Streams
<1>3. /\ open[d] /\ Phase(d) = "reply" /\ Tail(requests[d]) = <<>>
      /\ Head(requests[d]).packet = packet[d] /\ packet[d] \in Packets
      /\ \A i \in DOMAIN replies[d] : replies[d][i].kind = "pixels"
  BY <1>1, <1>2, RequestFound
<1> DEFINE inside == held[d] \cup {packet[d]}
<1>4. PICK ok \in BOOLEAN, picture \in inside \cup {0}, rest \in SUBSET inside :
         /\ Decoded(inside, ok, picture, rest)
         /\ replies' = [replies EXCEPT ![d] =
                           Append(replies[d], [kind |-> "reply", packet |-> packet[d],
                                               ok |-> ok, picture |-> picture])]
         /\ held' = [held EXCEPT ![d] = rest]
  BY <1>3 DEF ServePacket
<1>5. inside \in SUBSET Packets
  BY <1>2, <1>3 DEF StreamTypes
<1>6. picture \in Nat /\ \A p \in rest : picture < p
  BY <1>4, <1>5, DecodedOrder
<1>7. shown[d] < packet[d] /\ shown[d] \in Nat /\ packet[d] \in Nat
      /\ \A i \in DOMAIN replies[d] : replies[d][i].picture < packet[d]
  BY <1>1, <1>2, <1>3 DEF Line, Latest, StreamTypes
<1>8. \A p \in inside : shown[d] < p /\ p <= packet[d] /\ p \in Nat
  BY <1>2, <1>5, <1>7 DEF Line, Pictures, Packets
<1>9. \A i \in DOMAIN replies[d] : \A p \in inside : replies[d][i].picture < p
  BY <1>2, <1>3, <1>7 DEF Line, Pictures
<1> DEFINE answer == [kind |-> "reply", packet |-> packet[d], ok |-> ok, picture |-> picture]
           rs     == Append(replies[d], answer)
<1>10. picture \in Packets \cup {0}
  BY <1>6 DEF Packets
<1>11. answer \in Replies /\ answer.kind = "reply" /\ answer.packet = packet[d] /\ answer.picture = picture
  BY <1>3, <1>10 DEF Replies
<1>12. replies[d] \in Seq(Replies)
  BY <1>2 DEF StreamTypes
<1>13. replies' = [replies EXCEPT ![d] = rs] /\ requests' = [requests EXCEPT ![d] = <<>>]
  BY <1>1, <1>3, <1>4
<1> HIDE DEF answer, inside
<1>14. /\ rs \in Seq(Replies) /\ Len(rs) = Len(replies[d]) + 1 /\ Len(replies[d]) \in Nat
       /\ DOMAIN replies[d] = 1..Len(replies[d])
       /\ DOMAIN rs = 1..(Len(replies[d]) + 1)
       /\ \A i \in DOMAIN replies[d] : rs[i] = replies[d][i]
       /\ rs[Len(replies[d]) + 1] = answer
  BY <1>11, <1>12, Added
<1> HIDE DEF rs
<1>15. /\ replies'[d] = rs /\ requests'[d] = <<>> /\ held'[d] = rest
       /\ \A e \in Decoders : e # d => /\ requests'[e] = requests[e] /\ replies'[e] = replies[e]
                                       /\ held'[e] = held[e]
  BY <1>2, <1>4, <1>13 DEF StreamTypes
<1>16. StreamTypes'
  <2>1. <<>> \in Seq(Requests)
    OBVIOUS
  <2>2. replies' \in [Decoders -> Seq(Replies)]
    BY <1>2, <1>13, <1>14 DEF StreamTypes
  <2>3. requests' \in [Decoders -> Seq(Requests)]
    BY <1>2, <1>13, <2>1 DEF StreamTypes
  <2>4. held' \in [Decoders -> SUBSET Packets]
    BY <1>2, <1>4, <1>5 DEF StreamTypes
  <2>5. QED
    BY <1>1, <1>2, <2>2, <2>3, <2>4 DEF StreamTypes
<1>17. \A i \in DOMAIN rs :
          \/ /\ i \in DOMAIN replies[d] /\ rs[i] = replies[d][i]
          \/ /\ i = Len(rs) /\ rs[i] = answer
  BY <1>14
<1>18. Line(d)'
  <2>1. Apart(d)' /\ Greeting(d)' /\ Latest(d)'
    BY <1>1, <1>3, <1>15 DEF Apart, Greeting, Latest
  <2>2. Serving(d)'
    <3>1. \A i \in DOMAIN rs :
             \/ rs[i].kind = "pixels"
             \/ rs[i].kind = "reply" /\ rs[i].packet = packet[d] /\ i = Len(rs)
      BY <1>3, <1>11, <1>17
    <3>2. QED
      BY <1>1, <1>3, <1>15, <3>1 DEF Serving, Answer
  <2>3. Pictures(d)'
    <3>1. \A p \in rest : shown[d] < p /\ p <= packet[d]
      BY <1>8
    <3>2. ASSUME NEW i \in DOMAIN rs
          PROVE  /\ rs[i].picture # 0 => shown[d] < rs[i].picture
                 /\ rs[i].picture <= packet[d]
                 /\ \A p \in rest : rs[i].picture < p
      <4>1. CASE i \in DOMAIN replies[d] /\ rs[i] = replies[d][i]
        <5>1. replies[d][i].kind # "init"
          BY <1>3, <4>1
        <5>2. QED
          BY <1>2, <1>9, <4>1, <5>1 DEF Line, Pictures
      <4>2. CASE rs[i] = answer
        BY <1>4, <1>6, <1>7, <1>8, <1>11, <4>2
      <4>3. QED
        BY <1>17, <4>1, <4>2
    <3>3. shown[d] <= packet[d]
      BY <1>7
    <3>4. QED
      BY <1>1, <1>15, <3>1, <3>2, <3>3 DEF Pictures
  <2>4. QED
    BY <2>1, <2>2, <2>3 DEF Line
<1>19. \A e \in Decoders : e # d => Same(e)
  BY <1>1, <1>15 DEF Same
<1>20. QED
  BY <1>16, <1>18, <1>19, OneMoves

LEMMA ServerTimeoutStreams ==
    ASSUME IInv, SInv, NEW d \in Decoders, ServerTimeout(d)
    PROVE  SInv'
<1>1. /\ server[d] = "loop" /\ server' = [server EXCEPT ![d] = "closed"]
      /\ UNCHANGED <<clock, open, packet, shown, requests, replies, running, held>>
      /\ \A e : Phase(e)' = Phase(e)
  BY HelperPhases DEF ServerTimeout, decoder, stream
<1>2. Line(d) /\ StreamTypes
  BY DEF SInv, Streams
<1>3. server'[d] = "closed" /\ \A e \in Decoders : e # d => server'[e] = server[e]
  BY <1>1, <1>2 DEF StreamTypes
<1>4. StreamTypes'
  BY <1>1, <1>2 DEF StreamTypes
<1>5. Line(d)'
  <2>1. Apart(d)' /\ Greeting(d)' /\ Latest(d)'
    BY <1>1, <1>2, <1>3 DEF Line, Apart, Greeting, Latest
  <2>2. Serving(d)'
    BY <1>1, <1>2, <1>3 DEF Line, Serving, Answer
  <2>3. Pictures(d)'
    BY <1>1, <1>2 DEF Line, Pictures
  <2>4. QED
    BY <2>1, <2>2, <2>3 DEF Line
<1>6. \A e \in Decoders : e # d => Same(e)
  BY <1>1, <1>3 DEF Same
<1>7. QED
  BY <1>4, <1>5, <1>6, OneMoves
\* Only the beginning of what was sent arrives: what the invariant says of it holds of a part.
LEMMA HelperExitStreams ==
    ASSUME IInv, SInv, HelperExit
    PROVE  SInv'
<1>1. /\ running' = FALSE
      /\ UNCHANGED <<clock, open, packet, shown, requests, held>>
      /\ \A e : Phase(e)' = Phase(e)
  BY HelperPhases DEF HelperExit, decoder
<1>2. StreamTypes
  BY DEF SInv
<1>3. /\ server' \in [Decoders -> {"none", "handshake", "refused", "loop", "closed"}]
      /\ \A d \in Decoders :
            server'[d] = CASE server[d] = "handshake" -> "refused"
                           [] server[d] = "loop"      -> "closed"
                           [] OTHER                   -> server[d]
  BY <1>2 DEF HelperExit, StreamTypes
<1>4. PICK n \in [Decoders -> 0..2] :
         replies' = [d \in Decoders |->
                        IF n[d] < Len(replies[d]) THEN SubSeq(replies[d], 1, n[d]) ELSE replies[d]]
  BY DEF HelperExit
<1>5. ASSUME NEW d \in Decoders
      PROVE  /\ replies'[d] \in Seq(Replies)
             /\ Len(replies'[d]) <= Len(replies[d])
             /\ replies[d] = <<>> => replies'[d] = <<>>
             /\ DOMAIN replies'[d] = 1..Len(replies'[d]) /\ Len(replies'[d]) \in Nat
             /\ \A i \in DOMAIN replies'[d] :
                   /\ i \in DOMAIN replies[d] /\ replies'[d][i] = replies[d][i]
                   /\ i = Len(replies[d]) => i = Len(replies'[d])
  <2>1. replies[d] \in Seq(Replies) /\ Len(replies[d]) \in Nat /\ n[d] \in Nat
        /\ DOMAIN replies[d] = 1..Len(replies[d])
    BY <1>2 DEF StreamTypes
  <2>2. CASE n[d] < Len(replies[d])
    <3>1. replies'[d] = SubSeq(replies[d], 1, n[d])
      BY <1>4, <2>2
    <3>2. /\ SubSeq(replies[d], 1, n[d]) \in Seq(Replies)
          /\ Len(SubSeq(replies[d], 1, n[d])) = n[d]
          /\ DOMAIN SubSeq(replies[d], 1, n[d]) = 1..n[d]
          /\ \A i \in 1..n[d] : i \in DOMAIN replies[d] /\ SubSeq(replies[d], 1, n[d])[i] = replies[d][i]
      BY <2>1, <2>2, Cut
    <3>3. replies[d] # <<>>
      BY <2>1, <2>2
    <3>4. QED
      BY <2>1, <2>2, <3>1, <3>2, <3>3
  <2>3. CASE ~(n[d] < Len(replies[d]))
    <3>1. replies'[d] = replies[d]
      BY <1>4, <2>3
    <3>2. QED
      BY <2>1, <3>1
  <2>4. QED
    BY <2>2, <2>3
<1>6. StreamTypes'
  <2>1. replies' \in [Decoders -> Seq(Replies)]
    <3>1. DOMAIN replies' = Decoders /\ replies' = [d \in Decoders |-> replies'[d]]
      BY <1>4
    <3>2. QED
      BY <1>5, <3>1
  <2>2. QED
    BY <1>1, <1>2, <1>3, <2>1 DEF StreamTypes
<1>7. ASSUME NEW d \in Decoders
      PROVE  Line(d)'
  <2>1. Line(d)
    BY DEF SInv, Streams
  <2>2. Apart(d)'
    BY <1>1, <1>3, <1>5, <2>1 DEF Line, Apart
  <2>3. Greeting(d)'
    <3>1. SUFFICES ASSUME Phase(d) = "handshake"
                   PROVE  /\ held'[d] = {}
                          /\ requests'[d] # <<>> =>
                                /\ server'[d] \in {"handshake", "refused"}
                                /\ requests'[d] = <<[kind |-> "init"]>>
                                /\ replies'[d] = <<>>
                          /\ replies'[d] # <<>> =>
                                /\ Len(replies'[d]) = 1
                                /\ replies'[d][1].kind = "init"
                                /\ replies'[d][1].enabled => server'[d] \in {"loop", "closed"}
      BY <1>1 DEF Greeting
    <3>2. /\ held[d] = {}
          /\ requests[d] # <<>> =>
                /\ server[d] \in {"handshake", "refused"}
                /\ requests[d] = <<[kind |-> "init"]>>
                /\ replies[d] = <<>>
      BY <2>1, <3>1 DEF Line, Greeting
    <3>3. requests'[d] # <<>> => server'[d] \in {"handshake", "refused"} /\ replies'[d] = <<>>
      BY <1>1, <1>3, <1>5, <3>2
    <3>4. ASSUME replies'[d] # <<>>
          PROVE  /\ Len(replies'[d]) = 1
                 /\ replies'[d][1].kind = "init"
                 /\ replies'[d][1].enabled => server'[d] \in {"loop", "closed"}
      <4>1. replies[d] # <<>>
        BY <1>5, <3>4
      <4>2. /\ Len(replies[d]) = 1 /\ replies[d][1].kind = "init"
            /\ replies[d][1].enabled => server[d] \in {"loop", "closed"}
        BY <2>1, <3>1, <4>1 DEF Line, Greeting
      <4>3. Len(replies'[d]) = 1
        <5>1. Len(replies'[d]) <= 1 /\ Len(replies'[d]) \in Nat
          BY <1>5, <4>2
        <5>2. Len(replies'[d]) # 0
          BY <1>5, <3>4, EmptySeq
        <5>3. \A k \in Nat : k <= 1 /\ k # 0 => k = 1
          OBVIOUS
        <5>4. QED
          BY <5>1, <5>2, <5>3
      <4>4. replies'[d][1] = replies[d][1]
        BY <1>5, <4>3
      <4>5. server[d] \in {"loop", "closed"} => server'[d] \in {"loop", "closed"}
        BY <1>3
      <4>6. QED
        BY <4>2, <4>3, <4>4, <4>5
    <3>5. QED
      BY <1>1, <3>2, <3>3, <3>4
  <2>4. Serving(d)'
    <3>1. SUFFICES ASSUME open[d], Phase(d) # "handshake"
                   PROVE  /\ server'[d] \in {"loop", "closed"}
                          /\ \A i \in DOMAIN replies'[d] :
                                \/ replies'[d][i].kind = "pixels"
                                \/ /\ Phase(d) = "reply" /\ requests[d] = <<>>
                                   /\ replies'[d][i].kind = "reply"
                                   /\ replies'[d][i].packet = packet[d]
                                   /\ i = Len(replies'[d])
                          /\ Phase(d) = "pixels" =>
                                \A i \in DOMAIN replies'[d] :
                                   i = Len(replies'[d]) /\ i = 1 /\ replies'[d][i].packet = packet[d]
                                                        /\ replies'[d][i].picture # 0
      BY <1>1, <2>1 DEF Line, Serving, Answer
    <3>2. server[d] \in {"loop", "closed"}
      BY <2>1, <3>1 DEF Line, Serving
    <3>3. server'[d] \in {"loop", "closed"}
      BY <1>3, <3>2
    <3>4. ASSUME NEW i \in DOMAIN replies'[d]
          PROVE  /\ \/ replies'[d][i].kind = "pixels"
                    \/ /\ Phase(d) = "reply" /\ requests[d] = <<>>
                       /\ replies'[d][i].kind = "reply"
                       /\ replies'[d][i].packet = packet[d]
                       /\ i = Len(replies'[d])
                 /\ Phase(d) = "pixels" =>
                       i = Len(replies'[d]) /\ i = 1 /\ replies'[d][i].packet = packet[d]
                                            /\ replies'[d][i].picture # 0
      <4>1. /\ i \in DOMAIN replies[d] /\ replies'[d][i] = replies[d][i]
            /\ i = Len(replies[d]) => i = Len(replies'[d])
        BY <1>5
      <4>2. QED
        BY <2>1, <3>1, <4>1 DEF Line, Serving, Answer
    <3>5. QED
      BY <3>3, <3>4
  <2>5. Pictures(d)'
    BY <1>1, <1>5, <2>1 DEF Line, Pictures
  <2>6. Latest(d)'
    BY <1>1, <1>5, <2>1 DEF Line, Latest
  <2>7. QED
    BY <2>2, <2>3, <2>4, <2>5, <2>6 DEF Line
<1>8. QED
  BY <1>6, <1>7 DEF SInv, Streams

-----------------------------------------------------------------------------

LEMMA StreamsInductive == IInv /\ SInv /\ [Next]_vars => SInv'
<1>1. SUFFICES ASSUME IInv, SInv, [Next]_vars
               PROVE  SInv'
  OBVIOUS
<1>2. CASE \E t \in Threads, d \in Decoders : EndFrame(t, d)
  BY <1>1, <1>2, EndFrameStreams
<1>3. CASE \E t \in Threads : Enter(t)
  BY <1>1, <1>3, EnterStreams
<1>4. CASE \E t \in Threads : CallSteps(t)
  BY <1>1, <1>4, RefuseStreams, DialStreams, WelcomeStreams, ReplyStreams, PixelsStreams
     DEF CallSteps
<1>5. CASE \E d \in Decoders : Recreate(d)
  BY <1>1, <1>5, RecreateStreams
<1>6. CASE Tick \/ HelperStart \/ UNCHANGED vars
  BY <1>1, <1>6, TickStreams
<1>7. CASE \E d \in Decoders : ServeInit(d) \/ ServePacket(d) \/ ServerTimeout(d)
  BY <1>1, <1>7, ServeInitStreams, ServePacketStreams, ServerTimeoutStreams
<1>8. CASE HelperExit
  BY <1>1, <1>8, HelperExitStreams
<1>9. QED
  BY <1>1, <1>2, <1>3, <1>4, <1>5, <1>6, <1>7, <1>8 DEF Next, Helper

\* What each connection and each codec can hold at each point of a call.
THEOREM StreamInvariance == Spec => []SInv
<1>1. QED
  BY StreamsInitial, StreamsInductive, Invariance, PTL DEF Spec

\* Every state is well typed; no time that is noted down is later than the clock.
THEOREM TypeCorrect == Spec => []TypeOK
<1>1. IInv /\ SInv => TypeOK
  <2>1. SUFFICES ASSUME IInv, SInv
                 PROVE  TypeOK
    OBVIOUS
  <2>2. clock \in Nat \ {0} /\ clock <= MaxTime /\ MaxTime \in Nat
    BY <2>1, TimeAssumption DEF IInv, CallTypes, SInv, StreamTypes
  <2>3. clock \in Times \ {0}
    BY <2>2 DEF Times
  <2>4. last_failure \in Times /\ probe_time \in Times
    BY <2>1, <2>2 DEF Times, IInv, CallTypes, Deadlines
  <2>5. \A t \in Threads : now[t] \in Times
    BY <2>1, <2>2 DEF Times, IInv, CallTypes, Deadlines
  <2>6. now \in [Threads -> Times]
    BY <2>1, <2>5 DEF IInv, CallTypes
  <2>7. Packets \cup {0} = Nat
    BY DEF Packets
  <2>8. QED
    BY <2>1, <2>3, <2>4, <2>6, <2>7 DEF TypeOK, IInv, CallTypes, SInv, StreamTypes
<1>2. QED
  BY <1>1, Invariance, StreamInvariance, PTL

(***************************************************************************)
(* The reply that a call takes for the answer to its packet is that        *)
(* answer, and the pixels that it draws are those of the reply, for any    *)
(* number of threads and decoders and wherever the helper is cut off.      *)
(***************************************************************************)
THEOREM RepliesAnswer == Spec => []ReplyAnswersPacket
<1>1. IInv /\ SInv => ReplyAnswersPacket
  <2>1. SUFFICES ASSUME IInv, SInv, NEW t \in Threads, NEW d, d = target[t]
                 PROVE  /\ at[t] = "reply" /\ replies[d] # <<>> /\ GoodReply(Head(replies[d])) =>
                              Head(replies[d]).packet = packet[d]
                        /\ at[t] = "pixels" /\ replies[d] # <<>> =>
                              Head(replies[d]).kind = "pixels" /\ Head(replies[d]).packet = packet[d]
    BY DEF ReplyAnswersPacket
  <2>2. CASE at[t] \in {"reply", "pixels"} /\ replies[d] # <<>>
    <3>1. d \in Decoders /\ Phase(d) = at[t]
      BY <2>1, <2>2, PhaseIs DEF Inside
    <3>2. Line(d) /\ StreamTypes
      BY <2>1, <3>1 DEF SInv, Streams
    <3>3. replies[d] \in Seq(Replies)
      BY <3>1, <3>2 DEF StreamTypes
    <3>4. Head(replies[d]) = replies[d][1] /\ 1 \in DOMAIN replies[d]
      BY <2>2, <3>3, Removed
    <3>5. at[t] = "pixels" => replies[d][1].kind = "pixels" /\ replies[d][1].packet = packet[d]
      BY <2>2, <3>1, <3>2, <3>4 DEF Line, Apart, Serving
    <3>6. at[t] = "reply" /\ GoodReply(Head(replies[d])) => replies[d][1].packet = packet[d]
      BY <2>2, <3>1, <3>2, AnswerFound
    <3>7. QED
      BY <3>4, <3>5, <3>6
  <2>3. QED
    BY <2>2
<1>2. QED
  BY <1>1, Invariance, StreamInvariance, PTL

(***************************************************************************)
(* Whatever is in the codec or on the connection is later than what was    *)
(* drawn last, also when pixels were left unread or pictures were lost.    *)
(***************************************************************************)
THEOREM DrawnInTheirOrder == Spec => []DrawnInOrder
<1>1. SInv => DrawnInOrder
  <2>1. SUFFICES ASSUME SInv, NEW d \in Decoders
                 PROVE  /\ \A p \in held[d] : p > shown[d]
                        /\ \A i \in 1..Len(replies[d]) :
                              replies[d][i].kind # "init" /\ replies[d][i].picture # 0 =>
                                  replies[d][i].picture > shown[d]
    BY DEF DrawnInOrder
  <2>2. Pictures(d) /\ replies[d] \in Seq(Replies)
    BY <2>1 DEF SInv, Streams, Line, StreamTypes
  <2>3. DOMAIN replies[d] = 1..Len(replies[d])
    BY <2>2
  <2>4. QED
    BY <2>2, <2>3 DEF Pictures
<1>2. QED
  BY <1>1, StreamInvariance, PTL
=============================================================================
