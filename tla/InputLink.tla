----------------------------- MODULE InputLink -----------------------------
(***************************************************************************)
(* How UU's input reaches the Wayland desktop: SendInput in the Wine       *)
(* process goes to capture_send_input (src/wayland_capture_hook.c), which  *)
(* sends the events in chunks to uu-wayland-capture-helper                 *)
(* (src/wayland_capture_helper.cpp) and falls back to Wine's own SendInput *)
(* when none of them was accepted.                                         *)
(*                                                                         *)
(* UU's threads share one connection under input_lock.  The helper has a   *)
(* session per connection; one that the hook gave up still applies the     *)
(* chunk it has read.  All sessions share one InputBridge; whether that    *)
(* has a backend and takes an event is left open here.  Connecting and     *)
(* authenticating, which CaptureLink has in detail, is one step.           *)
(*                                                                         *)
(* Calls are numbered in the order in which they begin.  An event is       *)
(* "known", a mouse or keyboard event, or "other".                         *)
(***************************************************************************)
EXTENDS Naturals, Sequences, FiniteSets

CONSTANTS
    Threads,            \* UU's threads that inject input
    NoThread,
    Links,              \* bound: connections the helper serves at a time
    NoLink,
    Inputs,             \* the arrays of events that calls pass
    MaxEvents,          \* CAPTURE_MAX_INPUT_EVENTS
    MaxCalls            \* bound: calls of SendInput

ASSUME NoneAssumption == NoThread \notin Threads /\ NoLink \notin Links
ASSUME InputsAssumption == Inputs \subseteq Seq({"known", "other"}) \ {<<>>}
ASSUME BoundsAssumption == MaxEvents \in Nat \ {0} /\ MaxCalls \in Nat

VARIABLES
    \* the calls of capture_send_input
    at,                 \* what a thread does next
    call,               \* the number of its call, 0 if none
    input,              \* the events of a call
    accepted,           \* how many of them the helper has accepted
    outcome,            \* of a call: "none", "running", "done", "wine"
    \* the connection
    lock,               \* owner of input_lock
    connection,         \* input_connection
    valid,              \* Winsock still knows that handle
    requests,
    replies,
    \* the helper
    running,
    bridge,             \* owner of InputBridge's mutex_
    session,            \* handle_client of a connection, by what it does next
    job,                \* the chunk it has read
    done,               \* how many of its events are accepted
    \* history
    log,                \* the events applied, in order, with the first of their chunk
    before,             \* the calls that had returned when a call began
    given_up,           \* the calls whose last request was not answered in time
    trouble             \* the helper was not there, not able or not in time, or the
                        \* socket was lost in the middle of a call

calls   == <<at, call, input, accepted, outcome>>
hook    == <<lock, connection, valid>>
stream  == <<requests, replies>>
helper  == <<running, bridge, session, job, done>>
history == <<log, before, given_up, trouble>>
vars    == <<calls, hook, stream, helper, history>>

-----------------------------------------------------------------------------

Calls == 1..MaxCalls

Chunks == [call : Calls, first : Nat \ {0}, count : 1..MaxEvents]

NoChunk == [call |-> 0, first |-> 0, count |-> 0]

TypeOK ==
    /\ at \in [Threads -> {"idle", "chunk", "locked", "reply"}]
    /\ call \in [Threads -> Calls \cup {0}]
    /\ input \in [Calls -> Inputs \cup {<<>>}]
    /\ accepted \in [Calls -> Nat] /\ \A c \in Calls : accepted[c] <= Len(input[c])
    /\ outcome \in [Calls -> {"none", "running", "done", "wine"}]
    /\ lock \in Threads \cup {NoThread}
    /\ connection \in Links \cup {NoLink}
    /\ valid \in BOOLEAN
    /\ requests \in [Links -> Seq(Chunks)]
    /\ replies \in [Links -> Seq(0..MaxEvents)]
    /\ running \in BOOLEAN
    /\ bridge \in Links \cup {NoLink}
    /\ session \in [Links -> {"none", "read", "bridge", "apply", "answer"}]
    /\ job \in [Links -> Chunks \cup {NoChunk}]
    /\ done \in [Links -> 0..MaxEvents]
    /\ log \in Seq([call : Calls, first : Nat \ {0}, event : Nat \ {0}])
    /\ before \in [Calls -> SUBSET Calls]
    /\ given_up \subseteq Calls
    /\ trouble \in BOOLEAN

Init ==
    /\ at = [t \in Threads |-> "idle"]
    /\ call = [t \in Threads |-> 0]
    /\ input = [c \in Calls |-> <<>>]
    /\ accepted = [c \in Calls |-> 0]
    /\ outcome = [c \in Calls |-> "none"]
    /\ lock = NoThread
    /\ connection = NoLink
    /\ valid = FALSE
    /\ requests = [l \in Links |-> <<>>]
    /\ replies = [l \in Links |-> <<>>]
    /\ running \in BOOLEAN
    /\ bridge = NoLink
    /\ session = [l \in Links |-> "none"]
    /\ job = [l \in Links |-> NoChunk]
    /\ done = [l \in Links |-> 0]
    /\ log = <<>>
    /\ before = [c \in Calls |-> {}]
    /\ given_up = {}
    /\ trouble = ~running

-----------------------------------------------------------------------------
(* The hook: capture_send_input and send_input_chunk *)

Goto(t, label) == at' = [at EXCEPT ![t] = label]

SendInput(t, events) ==
    /\ at[t] = "idle"
    /\ \E c \in Calls :
          /\ outcome[c] = "none"
          /\ \A d \in 1..(c - 1) : outcome[d] # "none"
          /\ call' = [call EXCEPT ![t] = c]
          /\ input' = [input EXCEPT ![c] = events]
          /\ outcome' = [outcome EXCEPT ![c] = "running"]
          /\ before' = [before EXCEPT ![c] = {d \in Calls : outcome[d] \in {"done", "wine"}}]
    /\ Goto(t, "chunk")
    /\ UNCHANGED <<accepted, hook, stream, helper, log, given_up, trouble>>

Lesser(m, n) == IF m < n THEN m ELSE n

\* Mutant: every chunk is a full one.
BugChunk(t) ==
    LET c == call[t]
    IN [call |-> c, first |-> accepted[c] + 1, count |-> MaxEvents]

\* The next chunk of the thread's call.
Chunk(t) ==
    LET c == call[t]
    IN [call |-> c, first |-> accepted[c] + 1,
        count |-> Lesser(MaxEvents, Len(input[c]) - accepted[c])]

Return(t, how) ==
    /\ Goto(t, "idle")
    /\ call' = [call EXCEPT ![t] = 0]
    /\ outcome' = [outcome EXCEPT ![call[t]] = how]

\* Mutant: a chunk that fails sends the call to Wine, whatever was accepted before.
BugResult(t, n) ==
    LET c == call[t]
        all == accepted[c] + n = Len(input[c])
    IN /\ accepted' = [accepted EXCEPT ![c] = @ + n]
       /\ \/ n = 0 /\ Return(t, "wine")
          \/ /\ n = Chunk(t).count /\ ~all
             /\ Goto(t, "chunk")
             /\ UNCHANGED <<call, outcome>>
          \/ /\ n # 0
             /\ n # Chunk(t).count \/ all
             /\ Return(t, "done")
       /\ UNCHANGED input

(***************************************************************************)
(* send_input_chunk has returned n.  Nothing accepted at all: the whole    *)
(* call goes to Wine.  A full chunk and more to come: the loop goes on.    *)
(* Anything else ends the call with what was accepted.                     *)
(***************************************************************************)
Result(t, n) ==
    LET c == call[t]
        all == accepted[c] + n = Len(input[c])
    IN /\ accepted' = [accepted EXCEPT ![c] = @ + n]
       /\ \/ n + accepted[c] = 0 /\ Return(t, "wine")
          \/ /\ n = Chunk(t).count /\ ~all
             /\ Goto(t, "chunk")
             /\ UNCHANGED <<call, outcome>>
          \/ /\ n + accepted[c] # 0
             /\ n # Chunk(t).count \/ all
             /\ Return(t, "done")
       /\ UNCHANGED input

Unsendable(t) ==
    LET chunk == Chunk(t)
        last  == chunk.first + chunk.count - 1
    IN \E i \in DOMAIN input[chunk.call] \cap chunk.first..last : input[chunk.call][i] # "known"

\* An event that is neither mouse nor keyboard: the chunk is not sent.
Refuse(t) ==
    /\ at[t] = "chunk"
    /\ Unsendable(t)
    /\ Result(t, 0)
    /\ trouble' = TRUE
    /\ UNCHANGED <<hook, stream, helper, log, before, given_up>>

Lock(t) ==
    /\ at[t] = "chunk"
    /\ ~Unsendable(t)
    /\ lock = NoThread
    /\ lock' = t
    /\ Goto(t, "locked")
    /\ UNCHANGED <<call, input, accepted, outcome, connection, valid, stream, helper, history>>

(***************************************************************************)
(* The socket is closed, the lock is left and the chunk counts as not      *)
(* accepted.  The session may still read what was sent and apply it.       *)
(***************************************************************************)
ChunkFails(t) ==
    /\ connection' = NoLink
    /\ valid' = FALSE
    /\ lock' = NoThread
    /\ replies' = [l \in Links |-> IF l = connection THEN <<>> ELSE replies[l]]
    /\ Result(t, 0)
    /\ UNCHANGED <<requests, helper, log, before>>

\* Accepted, accepted and closed at once (no thread for it), or refused.
Connect(t) ==
    /\ at[t] = "locked"
    /\ connection = NoLink
    /\ \/ \E l \in Links :
             /\ running
             /\ session[l] = "none"
             /\ connection' = l
             /\ valid' = TRUE
             /\ \/ /\ session' = [session EXCEPT ![l] = "read"]
                   /\ UNCHANGED trouble
                \/ /\ trouble' = TRUE
                   /\ UNCHANGED session
             /\ UNCHANGED <<calls, lock, stream, running, bridge, job, done, log, before, given_up>>
       \/ /\ ChunkFails(t)
          /\ trouble' = TRUE
          /\ UNCHANGED given_up

\* What is sent to a session that has ended may still be taken by the network.
Send(t) ==
    /\ at[t] = "locked"
    /\ connection # NoLink
    /\ \/ /\ valid
          /\ session[connection] # "none"
          /\ requests' = [requests EXCEPT ![connection] = Append(@, Chunk(t))]
          /\ Goto(t, "reply")
          /\ UNCHANGED <<call, input, accepted, outcome, hook, replies, helper, history>>
       \/ /\ valid
          /\ session[connection] = "none"
          /\ Goto(t, "reply")
          /\ UNCHANGED <<call, input, accepted, outcome, hook, stream, helper, history>>
       \/ /\ ~valid \/ session[connection] = "none"
          /\ ChunkFails(t)
          /\ UNCHANGED <<given_up, trouble>>

Receive(t) ==
    /\ at[t] = "reply"
    /\ valid
    /\ replies[connection] # <<>>
    /\ \/ /\ Head(replies[connection]) <= Chunk(t).count
          /\ Result(t, Head(replies[connection]))
          /\ replies' = [replies EXCEPT ![connection] = Tail(@)]
          /\ lock' = NoThread
          /\ UNCHANGED <<connection, valid, requests, helper, history>>
       \/ /\ Head(replies[connection]) > Chunk(t).count
          /\ ChunkFails(t)
          /\ UNCHANGED <<given_up, trouble>>

\* Mutant: a chunk that was sent and not answered in time counts as accepted.
BugTimeoutAccepts(t) ==
    /\ at[t] = "reply"
    /\ connection' = NoLink
    /\ valid' = FALSE
    /\ lock' = NoThread
    /\ replies' = [replies EXCEPT ![connection] = <<>>]
    /\ Result(t, Chunk(t).count)
    /\ UNCHANGED <<requests, helper, history>>

\* Mutant: the socket has no timeouts, only the end of the connection is noticed.
BugTimeoutAtEofOnly(t) ==
    /\ at[t] = "reply"
    /\ ~valid \/ session[connection] = "none"
    /\ ChunkFails(t)
    /\ given_up' = given_up \cup {call[t]}
    /\ trouble' = (trouble \/ valid)

\* A receive failed: the connection is gone, or 3 s have passed.
Timeout(t) ==
    /\ at[t] = "reply"
    /\ ChunkFails(t)
    /\ given_up' = given_up \cup {call[t]}
    /\ trouble' = (trouble \/ valid)

\* UU balances its WSAStartup with WSACleanup, which takes the hook's socket along.
HostCleanup ==
    /\ valid
    /\ valid' = FALSE
    /\ replies' = [replies EXCEPT ![connection] = <<>>]
    /\ trouble' = (trouble \/ \E t \in Threads : at[t] # "idle")
    /\ UNCHANGED <<calls, lock, connection, requests, helper, log, before, given_up>>

-----------------------------------------------------------------------------
(* The helper: handle_client and InputBridge::send *)

Connected(l) == connection = l /\ valid

ReadInput(l) ==
    /\ session[l] = "read"
    /\ requests[l] # <<>>
    /\ requests' = [requests EXCEPT ![l] = Tail(@)]
    /\ job' = [job EXCEPT ![l] = Head(requests[l])]
    /\ session' = [session EXCEPT ![l] = "bridge"]
    /\ UNCHANGED <<calls, hook, replies, running, bridge, done, history>>

EndSession(l) ==
    /\ session' = [session EXCEPT ![l] = "none"]
    /\ requests' = [requests EXCEPT ![l] = <<>>]
    /\ job' = [job EXCEPT ![l] = NoChunk]
    /\ done' = [done EXCEPT ![l] = 0]

\* The hook has closed the connection, or WSACleanup has, and what was sent may be lost.
ReadEof(l) ==
    /\ session[l] = "read"
    /\ ~Connected(l)
    /\ EndSession(l)
    /\ UNCHANGED <<calls, hook, replies, running, bridge, history>>

\* Mutant: InputBridge::send does not take the mutex.
BugTakeUnlocked(l) ==
    /\ session[l] = "bridge"
    /\ bridge' = l
    /\ session' = [session EXCEPT ![l] = "apply"]
    /\ UNCHANGED <<calls, hook, stream, running, job, done, history>>

\* The session gets the bridge's mutex, and the bridge has a backend or none.
TakeBridge(l) ==
    /\ session[l] = "bridge"
    /\ bridge = NoLink
    /\ \/ /\ bridge' = l
          /\ session' = [session EXCEPT ![l] = "apply"]
          /\ UNCHANGED trouble
       \/ /\ session' = [session EXCEPT ![l] = "answer"]
          /\ trouble' = TRUE
          /\ UNCHANGED bridge
    /\ UNCHANGED <<calls, hook, stream, running, job, done, log, before, given_up>>

\* Events are applied one by one up to the first that cannot be.
Apply(l) ==
    /\ session[l] = "apply"
    /\ done[l] < job[l].count
    /\ \/ /\ log' = Append(log, [call |-> job[l].call, first |-> job[l].first,
                               event |-> job[l].first + done[l]])
          /\ done' = [done EXCEPT ![l] = @ + 1]
          /\ UNCHANGED <<bridge, session, trouble>>
       \/ /\ session' = [session EXCEPT ![l] = "answer"]
          /\ bridge' = NoLink
          /\ trouble' = TRUE
          /\ UNCHANGED <<log, done>>
    /\ UNCHANGED <<calls, hook, stream, running, job, before, given_up>>

Applied(l) ==
    /\ session[l] = "apply"
    /\ done[l] = job[l].count
    /\ session' = [session EXCEPT ![l] = "answer"]
    /\ bridge' = NoLink
    /\ UNCHANGED <<calls, hook, stream, running, job, done, history>>

\* The answer; one to a connection that is closed may fail, which ends the session.
Answer(l) ==
    /\ session[l] = "answer"
    /\ \/ /\ replies' = [replies EXCEPT ![l] = IF Connected(l) THEN Append(@, done[l]) ELSE @]
          /\ session' = [session EXCEPT ![l] = "read"]
          /\ job' = [job EXCEPT ![l] = NoChunk]
          /\ done' = [done EXCEPT ![l] = 0]
          /\ UNCHANGED requests
       \/ /\ ~Connected(l)
          /\ EndSession(l)
          /\ UNCHANGED replies
    /\ UNCHANGED <<calls, hook, running, bridge, history>>

\* The helper exits or is killed, at any point of a chunk.
HelperExit ==
    /\ running
    /\ running' = FALSE
    /\ bridge' = NoLink
    /\ session' = [l \in Links |-> "none"]
    /\ job' = [l \in Links |-> NoChunk]
    /\ done' = [l \in Links |-> 0]
    /\ requests' = [l \in Links |-> <<>>]
    /\ trouble' = TRUE
    /\ UNCHANGED <<calls, hook, replies, log, before, given_up>>

HelperStart ==
    /\ ~running
    /\ running' = TRUE
    /\ UNCHANGED <<calls, hook, stream, bridge, session, job, done, history>>

-----------------------------------------------------------------------------

InsideLock(t) == Connect(t) \/ Send(t) \/ Receive(t) \/ Timeout(t)

Helper ==
    \/ \E l \in Links :
          ReadInput(l) \/ ReadEof(l) \/ TakeBridge(l) \/ Apply(l) \/ Applied(l) \/ Answer(l)
    \/ HelperExit
    \/ HelperStart

Next ==
    \/ \E t \in Threads, events \in Inputs : SendInput(t, events)
    \/ \E t \in Threads : Refuse(t) \/ Lock(t) \/ InsideLock(t)
    \/ HostCleanup
    \/ Helper

Spec == Init /\ [][Next]_vars

\* A thread inside the lock goes on, and what it waits for returns after 3 s.
FairSpec == Spec /\ \A t \in Threads : WF_vars(InsideLock(t))

-----------------------------------------------------------------------------
(* Properties *)

\* How many of the first n events applied belong to each call.
Count(n) == [c \in Calls |-> Cardinality({i \in 1..n : log[i].call = c})]

Total == Count(Len(log))

SameChunk(i, j) == log[i].call = log[j].call /\ log[i].first = log[j].first

(***************************************************************************)
(* The desktop gets the events of a call in their order, each once and     *)
(* with none left out in between, and nothing comes between the events of  *)
(* a chunk, although a session that the hook has given up goes on next to  *)
(* the new one.                                                            *)
(***************************************************************************)
AppliedInOrder ==
    /\ \A i \in DOMAIN log : log[i].event = Count(i)[log[i].call]
    /\ \A i, j \in DOMAIN log : i < j /\ SameChunk(i, j) => \A k \in i..j : log[k].call = log[i].call

(***************************************************************************)
(* An event that reaches the desktop after one of a later call belongs to  *)
(* a call that was given up: while the helper answers, what UU sends after *)
(* SendInput has returned also arrives after it.                           *)
(***************************************************************************)
CallsInOrder ==
    \A i, j \in DOMAIN log :
        i < j /\ log[j].call \in before[log[i].call] => log[j].call \in given_up

(***************************************************************************)
(* What SendInput reports is what was applied.  A call that was given up   *)
(* may have had more applied than it reports, and only such a call can     *)
(* reach both the desktop and Wine.                                        *)
(***************************************************************************)
ReportedIsApplied ==
    \A c \in Calls :
        /\ outcome[c] = "wine" => accepted[c] = 0
        /\ outcome[c] \in {"done", "wine"} =>
              \/ Total[c] = accepted[c]
              \/ c \in given_up /\ Total[c] > accepted[c]

\* Every thread that has entered input_lock leaves it, even if the helper never answers.
LockIsLeft == \A t \in Threads : at[t] \in {"locked", "reply"} ~> lock # t

(***************************************************************************)
(* What README.md:215-216 says: the connection may stay idle for a whole   *)
(* session and the first key or click after that is not lost.  Once a call *)
(* has been served, by a helper that was always there, able and in time    *)
(* and with nothing happening during a call, no later call goes to Wine,   *)
(* which does not reach the desktop.                                       *)
(***************************************************************************)
IdleIsHarmless ==
    \A c \in Calls :
        outcome[c] = "wine" /\ (\E d \in before[c] : outcome[d] = "done") => trouble

=============================================================================
