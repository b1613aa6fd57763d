------------------------------ MODULE Session ------------------------------
(***************************************************************************)
(* A Wayland session with UU, by packaging/*.service: the capture helper   *)
(* (CaptureStart), the unit that starts UU when the helper listens, and    *)
(* the guard that watches over UU's processes (SessionGuard).              *)
(*                                                                         *)
(* uu-wayland-remote.service waits for the listener, not for a frame: UU   *)
(* runs while the user has not approved the portal's request yet.  It is   *)
(* started with the session or by install.sh and not tried again when its  *)
(* wait is over; a helper that ends does not stop it (Requires= is about   *)
(* starting, and stopping on purpose).                                     *)
(***************************************************************************)
EXTENDS CaptureStart, SessionGuard

VARIABLES
    remote              \* uu-wayland-remote.service

vars == <<startVars, guardVars, remote>>

-----------------------------------------------------------------------------

TypeOK ==
    /\ StartTypeOK
    /\ GuardTypeOK
    /\ remote \in {"inactive", "waiting", "starting", "active", "failed"}

Init == StartInit /\ GuardInit /\ remote = "inactive"

StartRemote ==
    /\ remote \in {"inactive", "failed"}
    /\ remote' = "waiting"
    /\ UNCHANGED <<startVars, guardVars>>

\* --wait-listening connects once a second for 20 s.
ListenerFound ==
    /\ remote = "waiting" /\ listener = "listening"
    /\ remote' = "starting"
    /\ UNCHANGED <<startVars, guardVars>>

WaitExpires ==
    /\ remote = "waiting" /\ listener # "listening"
    /\ remote' = "failed"
    /\ UNCHANGED <<startVars, guardVars>>

\* ExecStart; a client that was started by hand before stays the only one.
StartUu ==
    /\ remote = "starting"
    /\ remote' = "active"
    /\ processes' = processes \cup {"client"}
    /\ UNCHANGED <<startVars, loop, listed, seen, since>>

\* ExecStop.
StopRemote ==
    /\ remote = "active"
    /\ remote' = "inactive"
    /\ processes' = {} /\ listed' = {} /\ since' = {}
    /\ UNCHANGED <<startVars, loop, seen>>

Next ==
    \/ StartNext /\ UNCHANGED <<guardVars, remote>>
    \/ GuardNext /\ UNCHANGED <<startVars, remote>>
    \/ StartRemote \/ ListenerFound \/ WaitExpires \/ StartUu \/ StopRemote

\* The guard's loop runs on: nothing in a round waits for another process.
Spec == Init /\ [][Next]_vars /\ WF_vars(GuardLoop /\ UNCHANGED <<startVars, remote>>)

=============================================================================
