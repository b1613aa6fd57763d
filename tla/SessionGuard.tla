---------------------------- MODULE SessionGuard ----------------------------
(***************************************************************************)
(* The loop of scripts/uu-session-guard.sh: it looks through /proc for the *)
(* processes of UU's Wine prefix, stops the prefix when a WebView is left  *)
(* without its client, and starts the background processes that a running  *)
(* client lacks.                                                           *)
(*                                                                         *)
(* The scan is not atomic: the shell expands /proc/[0-9]* first and looks  *)
(* at each process later, when it may be gone, and what is started in      *)
(* between is not on the list.  `listed` is what is left to be looked at;  *)
(* a process that ends leaves it, so that its successor, which has another *)
(* pid, is not on it.                                                      *)
(*                                                                         *)
(* Left out: the upgrader that is killed after two minutes, the quarantine *)
(* of upgrades and drivers (Installer has the driver's), a second instance *)
(* of a background process, and the guard's own death, which forgets a     *)
(* scan and no more (Restart=always).                                      *)
(***************************************************************************)

CONSTANTS
    Background          \* what runs beside a client: GameViewerHealthd, and the server of a host

ASSUME BackgroundAssumption == {"client", "webview"} \cap Background = {}

VARIABLES
    processes,          \* the kinds of process that run in the prefix
    loop,               \* where the guard stands
    listed,             \* on the list of the scan and not looked at yet
    seen,               \* client_running, webview_running, health_running, server_running
    \* history
    since               \* running since before the scan

guardVars == <<processes, loop, listed, seen, since>>

-----------------------------------------------------------------------------

Processes == {"client", "webview"} \cup Background

GuardTypeOK ==
    /\ processes \subseteq Processes
    /\ loop \in {"sleep", "scan", "stop", "kill", "maintain"}
    /\ listed \subseteq processes
    /\ seen \subseteq Processes
    /\ since \subseteq processes

GuardInit ==
    /\ processes = {} /\ loop = "sleep"
    /\ listed = {} /\ seen = {} /\ since = {}

-----------------------------------------------------------------------------
(* UU *)

\* By its unit, or by hand.
StartClient ==
    /\ "client" \notin processes
    /\ processes' = processes \cup {"client"}
    /\ UNCHANGED <<loop, listed, seen, since>>

ClientStarts(p) ==
    /\ "client" \in processes /\ p \notin processes
    /\ processes' = processes \cup {p}
    /\ UNCHANGED <<loop, listed, seen, since>>

\* Mutant: a process that has ended is looked at.
BugEnd(p) ==
    /\ p \in processes
    /\ processes' = processes \ {p}
    /\ since' = since \ {p}
    /\ UNCHANGED <<loop, listed, seen>>

End(p) ==
    /\ p \in processes
    /\ processes' = processes \ {p}
    /\ listed' = listed \ {p}
    /\ since' = since \ {p}
    /\ UNCHANGED <<loop, seen>>

-----------------------------------------------------------------------------
(* The guard *)

\* Mutant: the snapshot of the round before is used again.
BugScan ==
    /\ loop = "sleep"
    /\ loop' = "scan"
    /\ listed' = IF seen = {} THEN processes ELSE {}
    /\ since' = processes
    /\ UNCHANGED <<processes, seen>>

\* main: every round begins with snapshot_ready=false.
Scan ==
    /\ loop = "sleep"
    /\ loop' = "scan"
    /\ listed' = processes
    /\ since' = processes
    /\ seen' = {}
    /\ UNCHANGED processes

Visit(p) ==
    /\ loop = "scan" /\ p \in listed
    /\ listed' = listed \ {p}
    /\ seen' = seen \cup {p}
    /\ UNCHANGED <<processes, loop, since>>

\* stale_prefix, and prefix_image_running in maintain_background_processes.
Decide ==
    /\ loop = "scan" /\ listed = {}
    /\ loop' = CASE "client" \in seen  -> "maintain"
                 [] "webview" \in seen /\ "client" \notin seen -> "stop"
                 [] OTHER -> "sleep"
    /\ UNCHANGED <<processes, listed, seen, since>>

\* stop_prefix: wineserver -k, which may fail, and then a list of its own.
StopPrefix ==
    /\ loop = "stop"
    /\ processes' \in {processes, {}}
    /\ listed' = processes' \cap {"webview"}
    /\ since' = since \cap processes'
    /\ loop' = "kill"
    /\ UNCHANGED seen

\* Mutant: only wineserver -k, which may fail.
BugKillWebviews ==
    /\ loop = "kill"
    /\ listed' = {}
    /\ loop' = "sleep"
    /\ UNCHANGED <<processes, seen, since>>

KillWebviews ==
    /\ loop = "kill"
    /\ processes' = processes \ listed
    /\ since' = since \ listed
    /\ listed' = {}
    /\ loop' = "sleep"
    /\ UNCHANGED seen

\* By the snapshot: the client may be gone and the process there by now.
Maintain ==
    /\ loop = "maintain"
    /\ processes' = processes \cup (Background \ seen)
    /\ loop' = "sleep"
    /\ UNCHANGED <<listed, seen, since>>

GuardLoop ==
    \/ Scan \/ Decide \/ StopPrefix \/ KillWebviews \/ Maintain
    \/ \E p \in Processes : Visit(p)

GuardNext ==
    \/ StartClient
    \/ \E p \in Processes : ClientStarts(p) \/ End(p)
    \/ GuardLoop

-----------------------------------------------------------------------------

\* A client that was running when the scan began is never stopped with the
\* prefix (uu-session-guard.sh:103-124, 174-196, README.md:139-144): whatever
\* starts and ends while the guard looks, it only takes a client for gone that
\* was not there at the start of the scan or has ended since.
StopSparesClient ==
    [][loop = "stop" /\ loop' = "kill" =>
         ~("client" \in since /\ "client" \notin processes')]_guardVars

\* A WebView without a client ends, and a client gets its background processes
\* back, unless the client comes or goes meanwhile (uu-session-guard.sh:192-206,
\* README.md:141-143).
GuardHeals ==
    /\ "webview" \in processes /\ "client" \notin processes
         ~> "webview" \notin processes \/ "client" \in processes
    /\ \A b \in Background :
         "client" \in processes /\ b \notin processes
           ~> b \in processes \/ "client" \notin processes

=============================================================================
