---------------------------- MODULE CaptureStart ----------------------------
(***************************************************************************)
(* How uu-wayland-capture-helper starts (main, ScreenSaverInhibitor and    *)
(* PortalCapture of src/wayland_capture_helper.cpp): a thread listens on   *)
(* the port while main asks the desktop portal for the screen.             *)
(*                                                                         *)
(* The user approves the request once; then the portal hands out a restore *)
(* token with every start, which is good for one more start, and takes it  *)
(* back with the request that sends it.  The helper keeps the last one in  *)
(* a file.  Of a token only matters whether it is still good.              *)
(*                                                                         *)
(* Every error on the way ends the process with 1 and systemd starts it    *)
(* again (Restart=on-failure), so an error is the same step as a crash at  *)
(* that point.  The greeter's mode, which asks no portal, the test pattern *)
(* and the arguments are left out; so is an error of the stream later on,  *)
(* which the helper logs and survives.                                     *)
(***************************************************************************)

VARIABLES
    at,                 \* where main stands
    listener,           \* the thread server_thread
    file,               \* portal-restore-token
    sent,               \* the token that SelectSources was called with
    next_token,         \* the token among the results of Start
    locked,             \* the screen is locked
    \* history
    trusted             \* a start can do without the user

startVars == <<at, listener, file, sent, next_token, locked, trusted>>

-----------------------------------------------------------------------------

Tokens == {"none", "good", "spent"}

StartTypeOK ==
    /\ at \in {"down", "inhibit", "create", "select", "start", "asking", "save", "open", "up"}
    /\ listener \in {"none", "starting", "listening", "failed"}
    /\ file \in Tokens /\ sent \in Tokens /\ next_token \in Tokens
    /\ locked \in BOOLEAN /\ trusted \in BOOLEAN

StartInit ==
    /\ at = "down" /\ listener = "none"
    /\ file = "none" /\ sent = "none" /\ next_token = "none"
    /\ locked \in BOOLEAN
    /\ trusted = FALSE

Goto(from, to) == at = from /\ at' = to

-----------------------------------------------------------------------------
(* The process *)

\* systemd; the thread is created before anything else is asked for.
HelperStarts ==
    /\ Goto("down", "inhibit")
    /\ listener' = "starting"
    /\ UNCHANGED <<file, sent, next_token, locked, trusted>>

\* Without the port the thread ends, and the process goes on without it.
Listen ==
    /\ listener = "starting"
    /\ listener' \in {"listening", "failed"}
    /\ UNCHANGED <<at, file, sent, next_token, locked, trusted>>

\* An error, a request that is refused or not answered in 300 s, a crash.  What
\* was sent is not good any more, and what came for it is gone with the process.
HelperEnds ==
    /\ at # "down"
    /\ at' = "down" /\ listener' = "none"
    /\ sent' = "none" /\ next_token' = "none"
    /\ trusted' = (trusted /\ at \notin {"start", "save"})
    /\ UNCHANGED <<file, locked>>

\* A locked desktop ends the process here (HelperEnds).
Inhibit ==
    /\ Goto("inhibit", "create")
    /\ ~locked
    /\ UNCHANGED <<listener, file, sent, next_token, locked, trusted>>

-----------------------------------------------------------------------------
(* PortalCapture::start *)

CreateSession ==
    /\ Goto("create", "select")
    /\ sent' = file
    /\ UNCHANGED <<listener, file, next_token, locked, trusted>>

\* The portal may take the token now or when it answers Start.
SelectSources ==
    /\ Goto("select", "start")
    /\ file' \in {file, IF sent = "good" THEN "spent" ELSE file}
    /\ UNCHANGED <<listener, sent, next_token, locked, trusted>>

Restored ==
    /\ Goto("start", "save")
    /\ sent = "good"
    /\ file' = "spent"
    /\ next_token' = "good"
    /\ UNCHANGED <<listener, sent, locked, trusted>>

Ask ==
    /\ Goto("start", "asking")
    /\ sent # "good"
    /\ UNCHANGED <<listener, file, sent, next_token, locked, trusted>>

\* The portal may not keep permissions, and gives no token.
Approve ==
    /\ Goto("asking", "save")
    /\ ~locked
    /\ next_token' \in {"good", "none"}
    /\ UNCHANGED <<listener, file, sent, locked, trusted>>

\* Mutant: what the file holds is taken to stay good.
BugSave ==
    /\ Goto("save", "open")
    /\ next_token # "none"
    /\ file' = IF file = "none" THEN next_token ELSE file
    /\ trusted' = (trusted \/ next_token = "good")
    /\ UNCHANGED <<listener, sent, next_token, locked>>

\* save_restore_token replaces the file as a whole; without a token, or a disk
\* to write it to, the process ends (HelperEnds).
Save ==
    /\ Goto("save", "open")
    /\ next_token # "none"
    /\ file' = next_token
    /\ trusted' = (next_token = "good")
    /\ UNCHANGED <<listener, sent, next_token, locked>>

\* OpenPipeWireRemote, and the pipeline that plays.
Open ==
    /\ Goto("open", "up")
    /\ UNCHANGED <<listener, file, sent, next_token, locked, trusted>>

-----------------------------------------------------------------------------
(* The desktop *)

Lock == locked' = ~locked /\ UNCHANGED <<at, listener, file, sent, next_token, trusted>>

\* The user withdraws the permission, or the monitor it was for is gone.
Revoke ==
    /\ trusted
    /\ trusted' = FALSE
    /\ file' = IF file = "good" THEN "spent" ELSE file
    /\ sent' = IF sent = "good" THEN "spent" ELSE sent
    /\ next_token' = IF next_token = "good" THEN "spent" ELSE next_token
    /\ UNCHANGED <<at, listener, locked>>

StartNext ==
    \/ HelperStarts \/ Listen \/ HelperEnds \/ Inhibit
    \/ CreateSession \/ SelectSources \/ Restored \/ Ask \/ Approve \/ Save \/ Open
    \/ Lock \/ Revoke

-----------------------------------------------------------------------------

\* The user is asked once: again only when the permission is gone, or when a
\* start was cut between the request that spends the token and the file that
\* keeps its successor (wayland_capture_helper.cpp:408-439, README.md:148-151).
AskedOnce == [][at' = "asking" /\ at # "asking" => ~trusted]_startVars

=============================================================================
