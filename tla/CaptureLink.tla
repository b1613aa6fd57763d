---------------------------- MODULE CaptureLink ----------------------------
(***************************************************************************)
(* How UU gets the Wayland desktop: BitBlt in the Wine process goes to     *)
(* capture_bitblt (src/wayland_capture_hook.c), which asks                 *)
(* uu-wayland-capture-helper (src/wayland_capture_helper.cpp) for a frame  *)
(* over TCP and falls back to the original BitBlt when it gets none.       *)
(*                                                                         *)
(* UU's threads share one connection under capture_lock.  The helper has a *)
(* thread per connection; one that the hook gave up goes on with what it   *)
(* was doing.  Frames come from the portal's stream, or in the greeter     *)
(* from a KWin screenshot that every request takes first.                  *)
(*                                                                         *)
(* A frame is the version of the desktop that it shows and its size.       *)
(***************************************************************************)
EXTENDS Naturals, Sequences

CONSTANTS
    Threads,            \* UU's threads that copy the screen
    NoThread,
    Sessions,           \* connections the helper serves at a time
    NoSession,
    Main,               \* the helper's main thread
    Sizes,              \* sizes of the desktop
    NoSize,
    FirstSize,          \* the size it has at first
    Tokens,             \* values of UU_CAPTURE_AUTH_TOKEN
    NoToken,
    HookToken,          \* the value in UU's environment
    MaxVersion          \* bound: versions of the desktop

ASSUME NoneAssumption ==
    /\ NoThread \notin Threads
    /\ {NoSession, Main} \cap Sessions = {} /\ NoSession # Main
    /\ NoSize \notin Sizes
    /\ NoToken \notin Tokens
ASSUME SizeAssumption == FirstSize \in Sizes
ASSUME TokenAssumption == HookToken \in Tokens \cup {NoToken}
ASSUME VersionAssumption == MaxVersion \in Nat \ {0}

VARIABLES
    \* the hook
    pc,                 \* what each thread is doing
    reply,              \* CaptureReply on a thread's stack: the size it announces
    got,                \* the pixels a thread has received
    asked,              \* history: the newest frame there was when the thread asked
    had,                \* history: the helper had a frame when the thread asked
    lock,               \* owner of capture_lock
    connection,         \* helper_connection
    valid,              \* Winsock still knows that handle
    latest,             \* history: the newest version UU has received
    \* the connections
    link,               \* "none", "open", "abandoned" by the hook, "shut" by the helper
    requests,
    replies,
    \* the helper
    running,
    token,              \* required_auth_token
    onRequest,          \* kwin_capture_on_request
    frame,              \* frame_state
    kwin,               \* owner of kwin_capture_mutex
    session,            \* handle_client of a connection, or main, by what it does next
    authenticated,
    grabbed,            \* the screenshot a session, or main, has and did not publish yet
    \* the compositor
    desktop

hook   == <<pc, reply, got, asked, had, lock, connection, valid, latest>>
stream == <<link, requests, replies>>
helper == <<running, token, onRequest, frame, kwin, session, authenticated, grabbed>>
vars   == <<hook, stream, helper, desktop>>

-----------------------------------------------------------------------------

Grabbers == Sessions \cup {Main}

Frames == [version : 0..MaxVersion, size : Sizes \cup {NoSize}]
NoFrame == [version |-> 0, size |-> NoSize]

Replies ==
    [kind : {"auth"}, ok : BOOLEAN] \cup
    [kind : {"reply"}, ok : BOOLEAN, size : Sizes \cup {NoSize}] \cup
    [kind : {"pixels"}, frame : Frames]

TypeOK ==
    /\ pc \in [Threads -> {"idle", "connect", "auth", "send", "header", "pixels", "blit"}]
    /\ reply \in [Threads -> Sizes \cup {NoSize}]
    /\ got \in [Threads -> Frames]
    /\ asked \in [Threads -> 0..MaxVersion]
    /\ had \in [Threads -> BOOLEAN]
    /\ lock \in Threads \cup {NoThread}
    /\ connection \in Sessions \cup {NoSession}
    /\ valid \in BOOLEAN
    /\ latest \in 0..MaxVersion
    /\ link \in [Sessions -> {"none", "open", "abandoned", "shut"}]
    /\ requests \in [Sessions -> Seq({"auth", "frame"})]
    /\ replies \in [Sessions -> Seq(Replies)]
    /\ running \in BOOLEAN
    /\ token \in Tokens \cup {NoToken}
    /\ onRequest \in BOOLEAN
    /\ frame \in Frames
    /\ kwin \in Grabbers \cup {NoSession}
    /\ session \in [Grabbers -> {"none", "read", "grab", "grabbed", "serve"}]
    /\ authenticated \in [Sessions -> BOOLEAN]
    /\ grabbed \in [Grabbers -> Frames]
    /\ desktop \in Frames

Init ==
    /\ pc = [t \in Threads |-> "idle"]
    /\ reply = [t \in Threads |-> NoSize]
    /\ got = [t \in Threads |-> NoFrame]
    /\ asked = [t \in Threads |-> 0]
    /\ had = [t \in Threads |-> FALSE]
    /\ lock = NoThread
    /\ connection = NoSession
    /\ valid = FALSE
    /\ latest = 0
    /\ link = [s \in Sessions |-> "none"]
    /\ requests = [s \in Sessions |-> <<>>]
    /\ replies = [s \in Sessions |-> <<>>]
    /\ running = FALSE
    /\ token = NoToken
    /\ onRequest = FALSE
    /\ frame = NoFrame
    /\ kwin = NoSession
    /\ session = [g \in Grabbers |-> "none"]
    /\ authenticated = [s \in Sessions |-> FALSE]
    /\ grabbed = [g \in Grabbers |-> NoFrame]
    /\ desktop = [version |-> 1, size |-> FirstSize]

-----------------------------------------------------------------------------
(* The hook: capture_bitblt and request_frame *)

Goto(t, label) == pc' = [pc EXCEPT ![t] = label]

\* A BitBlt that copies the screen enters capture_lock; any other goes to the original.
Call(t) ==
    /\ pc[t] = "idle"
    /\ lock = NoThread
    /\ lock' = t
    /\ Goto(t, IF connection = NoSession THEN "connect" ELSE "send")
    /\ UNCHANGED <<reply, got, asked, had, connection, valid, latest, stream, helper, desktop>>

\* What the call had on its stack is gone when it returns.
Forget(t) ==
    /\ reply' = [reply EXCEPT ![t] = NoSize]
    /\ got' = [got EXCEPT ![t] = NoFrame]
    /\ asked' = [asked EXCEPT ![t] = 0]
    /\ had' = [had EXCEPT ![t] = FALSE]

(***************************************************************************)
(* The label fail: the socket is closed, the lock is left, the caller      *)
(* draws with the original BitBlt.  The helper's thread may still read     *)
(* what was sent, but nobody reads its answer.                             *)
(***************************************************************************)
RequestFails(t) ==
    /\ connection' = NoSession
    /\ valid' = FALSE
    /\ lock' = NoThread
    /\ Goto(t, "idle")
    /\ Forget(t)
    /\ IF connection = NoSession
       THEN UNCHANGED <<link, replies>>
       ELSE /\ link' = [link EXCEPT ![connection] =
                           CASE @ = "open" -> "abandoned" [] @ = "shut" -> "none" [] OTHER -> @]
            /\ replies' = [replies EXCEPT ![connection] = <<>>]
    /\ UNCHANGED <<latest, requests, helper, desktop>>

\* Accepted, accepted and closed at once (no thread for it), or refused.
Connect(t) ==
    /\ pc[t] = "connect"
    /\ \/ \E s \in Sessions :
             /\ running
             /\ link[s] = "none"
             /\ connection' = s
             /\ valid' = TRUE
             /\ Goto(t, IF HookToken = NoToken THEN "send" ELSE "auth")
             /\ \/ /\ link' = [link EXCEPT ![s] = "open"]
                   /\ session' = [session EXCEPT ![s] = "read"]
                   /\ requests' = [requests EXCEPT ![s] =
                                      IF HookToken = NoToken THEN <<>> ELSE <<"auth">>]
                   /\ authenticated' = [authenticated EXCEPT ![s] = (token = NoToken)]
                \/ /\ link' = [link EXCEPT ![s] = "shut"]
                   /\ UNCHANGED <<session, requests, authenticated>>
             /\ UNCHANGED <<reply, got, asked, had, lock, latest, replies, running, token,
                            onRequest, frame, kwin, grabbed, desktop>>
       \/ RequestFails(t)

Incoming == replies[connection]

Receive == replies' = [replies EXCEPT ![connection] = Tail(@)]

AuthReply(t) ==
    /\ pc[t] = "auth"
    /\ Incoming # <<>>
    /\ \/ /\ Head(Incoming).kind = "auth"
          /\ Head(Incoming).ok
          /\ Receive
          /\ Goto(t, "send")
          /\ UNCHANGED <<reply, got, asked, had, lock, connection, valid, latest, link, requests,
                         helper, desktop>>
       \/ /\ Head(Incoming).kind = "auth" => ~Head(Incoming).ok
          /\ RequestFails(t)

\* What was published or received before a request must not be followed by older frames.
Newest == IF frame.version > latest THEN frame.version ELSE latest

Send(t) ==
    /\ pc[t] = "send"
    /\ \/ /\ valid
          /\ requests' = IF link[connection] = "open"
                         THEN [requests EXCEPT ![connection] = Append(@, "frame")]
                         ELSE requests
          /\ asked' = [asked EXCEPT ![t] = Newest]
          /\ had' = [had EXCEPT ![t] = frame # NoFrame]
          /\ Goto(t, "header")
          /\ UNCHANGED <<reply, got, lock, connection, valid, latest, link, replies, helper, desktop>>
       \/ RequestFails(t)

Header(t) ==
    /\ pc[t] = "header"
    /\ Incoming # <<>>
    /\ \/ /\ Head(Incoming).kind = "reply"
          /\ Head(Incoming).ok
          /\ reply' = [reply EXCEPT ![t] = Head(Incoming).size]
          /\ Receive
          /\ Goto(t, "pixels")
          /\ UNCHANGED <<got, asked, had, lock, connection, valid, latest, link, requests,
                         helper, desktop>>
       \/ /\ Head(Incoming).kind = "reply" => ~Head(Incoming).ok
          /\ RequestFails(t)

\* Mutant: the buffer takes the message with its header.
BugPixelsWithHeader(t) ==
    /\ pc[t] = "pixels"
    /\ Incoming # <<>>
    /\ got' = [got EXCEPT ![t] = Head(Incoming)]
    /\ latest' = Head(Incoming).frame.version
    /\ Receive
    /\ lock' = NoThread
    /\ Goto(t, "blit")
    /\ UNCHANGED <<reply, asked, had, connection, valid, link, requests, helper, desktop>>

\* The frame is complete and the lock is left before StretchDIBits.
Pixels(t) ==
    /\ pc[t] = "pixels"
    /\ Incoming # <<>>
    /\ got' = [got EXCEPT ![t] = Head(Incoming).frame]
    /\ latest' = Head(Incoming).frame.version
    /\ Receive
    /\ lock' = NoThread
    /\ Goto(t, "blit")
    /\ UNCHANGED <<reply, asked, had, connection, valid, link, requests, helper, desktop>>

\* Mutant: without memory for the pixels the connection is kept.
BugOutOfMemoryKeepsConnection(t) ==
    /\ pc[t] \in {"auth", "header", "pixels"}
    /\ IF pc[t] = "pixels"
       THEN /\ lock' = NoThread
            /\ Goto(t, "idle")
            /\ Forget(t)
            /\ UNCHANGED <<connection, valid, latest, stream, helper, desktop>>
       ELSE RequestFails(t)

\* Mutant: a failed receive leaves without LeaveCriticalSection.
BugTimeoutKeepsLock(t) ==
    /\ pc[t] \in {"auth", "header", "pixels"}
    /\ Goto(t, "idle")
    /\ Forget(t)
    /\ UNCHANGED <<lock, connection, valid, latest, stream, helper, desktop>>

\* A receive fails or has waited for 3 s, or there is no memory for the pixels.
Timeout(t) ==
    /\ pc[t] \in {"auth", "header", "pixels"}
    /\ RequestFails(t)

\* StretchDIBits draws the pixels, or refuses them.
Return(t) ==
    /\ pc[t] = "blit"
    /\ Goto(t, "idle")
    /\ Forget(t)
    /\ UNCHANGED <<lock, connection, valid, latest, stream, helper, desktop>>

\* UU's own WSACleanup closes the hook's socket under its feet.
HostCleanup ==
    /\ connection # NoSession
    /\ valid
    /\ valid' = FALSE
    /\ link' = [link EXCEPT ![connection] = IF @ = "open" THEN "abandoned" ELSE "none"]
    /\ replies' = [replies EXCEPT ![connection] = <<>>]
    /\ UNCHANGED <<pc, reply, got, asked, had, lock, connection, latest, requests, helper, desktop>>

-----------------------------------------------------------------------------
(* The helper *)

\* What is sent on a connection that the hook has closed is lost.
Answer(s, messages) ==
    replies' = IF link[s] = "open" THEN [replies EXCEPT ![s] = @ \o messages] ELSE replies

\* handle_client returns and the descriptor is closed.
EndSession(s) ==
    /\ session' = [session EXCEPT ![s] = "none"]
    /\ authenticated' = [authenticated EXCEPT ![s] = FALSE]
    /\ grabbed' = [grabbed EXCEPT ![s] = NoFrame]
    /\ link' = [link EXCEPT ![s] = IF @ = "open" THEN "shut" ELSE "none"]

\* Only a helper that requires a token ever accepts one.
ReadAuth(s) ==
    /\ session[s] = "read"
    /\ requests[s] # <<>>
    /\ Head(requests[s]) = "auth"
    /\ LET equal == token # NoToken /\ token = HookToken
       IN /\ Answer(s, <<[kind |-> "auth", ok |-> equal]>>)
          /\ \/ /\ equal
                /\ requests' = [requests EXCEPT ![s] = Tail(@)]
                /\ authenticated' = [authenticated EXCEPT ![s] = TRUE]
                /\ UNCHANGED <<link, session, grabbed>>
             \/ /\ ~equal \/ link[s] # "open"
                /\ requests' = [requests EXCEPT ![s] = <<>>]
                /\ EndSession(s)
    /\ UNCHANGED <<hook, running, token, onRequest, frame, kwin, desktop>>

ReadRequest(s) ==
    /\ session[s] = "read"
    /\ requests[s] # <<>>
    /\ Head(requests[s]) = "frame"
    /\ IF authenticated[s]
       THEN /\ requests' = [requests EXCEPT ![s] = Tail(@)]
            /\ session' = [session EXCEPT ![s] = IF onRequest THEN "grab" ELSE "serve"]
            /\ UNCHANGED <<link, authenticated, grabbed>>
       ELSE /\ requests' = [requests EXCEPT ![s] = <<>>]
            /\ EndSession(s)
    /\ UNCHANGED <<hook, replies, running, token, onRequest, frame, kwin, desktop>>

\* A session goes on to its answer, main to its event loop.
Grabbed(g) == session' = [session EXCEPT ![g] = IF g = Main THEN "none" ELSE "serve"]

\* Mutants: no kwin_capture_mutex; a failed screenshot clears the last frame.
BugGrabUnlocked(g) ==
    /\ session[g] = "grab"
    /\ \/ /\ grabbed' = [grabbed EXCEPT ![g] = desktop]
          /\ session' = [session EXCEPT ![g] = "grabbed"]
       \/ /\ g # Main
          /\ Grabbed(g)
          /\ UNCHANGED grabbed
    /\ UNCHANGED <<hook, stream, running, token, onRequest, frame, kwin, authenticated, desktop>>

BugGrabClearsFrame(g) ==
    /\ session[g] = "grab"
    /\ kwin = NoSession
    /\ \/ /\ kwin' = g
          /\ grabbed' = [grabbed EXCEPT ![g] = desktop]
          /\ session' = [session EXCEPT ![g] = "grabbed"]
          /\ UNCHANGED frame
       \/ /\ g # Main
          /\ Grabbed(g)
          /\ frame' = NoFrame
          /\ UNCHANGED <<kwin, grabbed>>
    /\ UNCHANGED <<hook, stream, running, token, onRequest, authenticated, desktop>>

(***************************************************************************)
(* capture_kwin_workspace up to the pixels.  Whatever fails in a session,  *)
(* the last frame stays; main exits without its first one (HelperExit).    *)
(***************************************************************************)
Grab(g) ==
    /\ session[g] = "grab"
    /\ kwin = NoSession
    /\ \/ /\ kwin' = g
          /\ grabbed' = [grabbed EXCEPT ![g] = desktop]
          /\ session' = [session EXCEPT ![g] = "grabbed"]
       \/ /\ g # Main
          /\ Grabbed(g)
          /\ UNCHANGED <<kwin, grabbed>>
    /\ UNCHANGED <<hook, stream, running, token, onRequest, frame, authenticated, desktop>>

PublishGrab(g) ==
    /\ session[g] = "grabbed"
    /\ frame' = grabbed[g]
    /\ grabbed' = [grabbed EXCEPT ![g] = NoFrame]
    /\ kwin' = NoSession
    /\ Grabbed(g)
    /\ UNCHANGED <<hook, stream, running, token, onRequest, authenticated, desktop>>

\* Mutant: header and pixels are read in two critical sections of frame_state.
BugServeTorn(s) ==
    /\ session[s] = "serve"
    /\ \/ /\ IF frame # NoFrame
             THEN \E size \in Sizes :
                     Answer(s, <<[kind |-> "reply", ok |-> TRUE, size |-> size],
                                 [kind |-> "pixels", frame |-> frame]>>)
             ELSE Answer(s, <<[kind |-> "reply", ok |-> FALSE, size |-> NoSize]>>)
          /\ session' = [session EXCEPT ![s] = "read"]
          /\ UNCHANGED <<link, requests, authenticated, grabbed>>
       \/ /\ link[s] # "open"
          /\ requests' = [requests EXCEPT ![s] = <<>>]
          /\ EndSession(s)
          /\ UNCHANGED replies
    /\ UNCHANGED <<hook, running, token, onRequest, frame, kwin, desktop>>

(***************************************************************************)
(* The last complete frame, its size and its pixels read under the mutex;  *)
(* without a frame in 3 s the answer is status 1.  A send to a connection  *)
(* that the hook has closed may fail, which ends the session.              *)
(***************************************************************************)
Serve(s) ==
    /\ session[s] = "serve"
    /\ \/ /\ Answer(s, IF frame # NoFrame
                       THEN <<[kind |-> "reply", ok |-> TRUE, size |-> frame.size],
                              [kind |-> "pixels", frame |-> frame]>>
                       ELSE <<[kind |-> "reply", ok |-> FALSE, size |-> NoSize]>>)
          /\ session' = [session EXCEPT ![s] = "read"]
          /\ UNCHANGED <<link, requests, authenticated, grabbed>>
       \/ /\ link[s] # "open"
          /\ requests' = [requests EXCEPT ![s] = <<>>]
          /\ EndSession(s)
          /\ UNCHANGED replies
    /\ UNCHANGED <<hook, running, token, onRequest, frame, kwin, desktop>>

\* The end of the stream; an idle connection is kept for as long as it lasts.
ReadEof(s) ==
    /\ session[s] = "read"
    /\ requests[s] = <<>>
    /\ link[s] = "abandoned"
    /\ EndSession(s)
    /\ UNCHANGED <<hook, requests, replies, running, token, onRequest, frame, kwin, desktop>>

\* A GStreamer sample from the portal's stream: one thread, the newest buffer only.
PublishSample ==
    /\ running
    /\ ~onRequest
    /\ frame' = desktop
    /\ UNCHANGED <<hook, stream, running, token, onRequest, kwin, session, authenticated,
                   grabbed, desktop>>

\* The helper ends; the tail of what it sent may be lost.
HelperExit ==
    /\ running
    /\ running' = FALSE
    /\ token' = NoToken
    /\ onRequest' = FALSE
    /\ frame' = NoFrame
    /\ kwin' = NoSession
    /\ session' = [g \in Grabbers |-> "none"]
    /\ authenticated' = [s \in Sessions |-> FALSE]
    /\ grabbed' = [g \in Grabbers |-> NoFrame]
    /\ requests' = [s \in Sessions |-> <<>>]
    /\ \E n \in 0..2 :
          replies' = [s \in Sessions |-> IF n < Len(replies[s]) THEN SubSeq(replies[s], 1, n)
                                                                ELSE replies[s]]
    /\ link' = [s \in Sessions |-> IF link[s] \in {"open", "shut"} THEN "shut" ELSE "none"]
    /\ UNCHANGED <<hook, desktop>>

\* The desktop's helper, or the greeter's, which takes a first screenshot while it listens
\* already; each has its own environment.
HelperStart ==
    /\ ~running
    /\ running' = TRUE
    /\ token' \in Tokens \cup {NoToken}
    /\ onRequest' \in BOOLEAN
    /\ session' = [session EXCEPT ![Main] = IF onRequest' THEN "grab" ELSE "none"]
    /\ UNCHANGED <<hook, stream, frame, kwin, authenticated, grabbed, desktop>>

Redraw ==
    /\ desktop.version < MaxVersion
    /\ \E size \in Sizes : desktop' = [version |-> desktop.version + 1, size |-> size]
    /\ UNCHANGED <<hook, stream, helper>>

-----------------------------------------------------------------------------

ThreadStep(t) ==
    \/ Connect(t) \/ AuthReply(t) \/ Send(t) \/ Header(t) \/ Pixels(t) \/ Timeout(t) \/ Return(t)

SessionStep(s) ==
    \/ ReadAuth(s) \/ ReadRequest(s) \/ Serve(s) \/ ReadEof(s)

Next ==
    \/ \E t \in Threads : Call(t) \/ ThreadStep(t)
    \/ HostCleanup
    \/ \E s \in Sessions : SessionStep(s)
    \/ \E g \in Grabbers : Grab(g) \/ PublishGrab(g)
    \/ PublishSample
    \/ HelperExit \/ HelperStart
    \/ Redraw

Spec == Init /\ [][Next]_vars

\* UU's threads are scheduled, and a blocked send or receive returns after 3 s.
FairSpec == Spec /\ \A t \in Threads : WF_vars(ThreadStep(t))

-----------------------------------------------------------------------------
(* Properties *)

(***************************************************************************)
(* UU draws whole frames: the pixels have the size that the header in      *)
(* front of them announced, although the desktop may be resized and other  *)
(* sessions may publish at any time (wayland_capture_helper.cpp:1281-1293).*)
(***************************************************************************)
FrameWhole ==
    \A t \in Threads : pc[t] = "blit" => got[t] # NoFrame /\ got[t].size = reply[t]

(***************************************************************************)
(* A frame is never older than one that had been published, or that UU had *)
(* received, when it was asked for: no answer to an earlier request, and   *)
(* no screenshot that an abandoned session finished late.                  *)
(***************************************************************************)
FrameFresh ==
    \A t \in Threads : pc[t] = "blit" => got[t].version >= asked[t]

(***************************************************************************)
(* Once the helper has a frame it goes on serving the last one: a request  *)
(* is answered with status 1, which makes BitBlt fall back, only if there  *)
(* was none when it was sent (wayland_capture_helper.cpp:1275-1278).       *)
(***************************************************************************)
LastFrameServed ==
    \A t \in Threads :
        /\ pc[t] = "header"
        /\ Incoming # <<>>
        /\ Head(Incoming).kind = "reply"
        /\ ~Head(Incoming).ok
        => ~had[t]

(***************************************************************************)
(* A connection kept for the next request carries nothing of the last one. *)
(***************************************************************************)
ConnectionClean ==
    lock = NoThread /\ connection # NoSession =>
        /\ replies[connection] = <<>>
        /\ link[connection] = "open" => requests[connection] = <<>>
        /\ link[connection] = "open" => session[connection] = "read"
        /\ link[connection] = "open" => token = NoToken \/ token = HookToken

\* No thread keeps capture_lock for ever: a helper that hangs does not hang UU.
LockIsLeft == \A t \in Threads : lock = t ~> lock # t

=============================================================================
