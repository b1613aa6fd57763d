------------------------------- MODULE Hooks --------------------------------
(***************************************************************************)
(* How the hooks get into UU's server and how they find what they          *)
(* replaced:                                                               *)
(*                                                                         *)
(*  - src/server_launcher.c starts GameViewerServer.real.exe suspended and *)
(*    has it load src/server_compat_hook.c, which patches two imports;     *)
(*  - DllMain of src/d3d11_proxy.c starts a thread that waits for          *)
(*    streamer.dll and patches imports of it and of the server             *)
(*    (src/wayland_capture_hook.c), while UU's threads already call them;  *)
(*  - every D3D11 device that UU creates gets tables of functions of its   *)
(*    own (dxva_bridge_install of src/dxva_bridge.c), created by several   *)
(*    of UU's threads at once.                                             *)
(*                                                                         *)
(* A device's context goes with it: it is patched by the same steps.  What *)
(* the hooks do when they are called is in CaptureLink, InputLink and      *)
(* DxvaDecoder.  UUInstallWaylandCaptureHook, which only a test calls, is  *)
(* left out: with two threads that patch, each could take the other's hook *)
(* for the original.                                                       *)
(***************************************************************************)
EXTENDS Integers, Sequences

CONSTANTS
    Threads,            \* UU's threads that create devices
    Devices,
    Slots,              \* DXVA_RUNTIME_COUNT
    Attempts,           \* how often the hook thread looks for streamer.dll
    None

ASSUME SlotsAssumption == Slots \in Nat \ {0}
ASSUME AttemptsAssumption == Attempts \in Nat

ASSUME NoneAssumption == None \notin Threads \cup Devices

VARIABLES
    launcher,           \* where run() stands
    server,             \* the process of GameViewerServer.real.exe
    loader,             \* the remote thread that loads the compat hook
    hooker,             \* uu_wayland_capture_hook_thread
    attempt,
    streamer,           \* streamer.dll is loaded
    transport,          \* transport_state = 2
    iat,                \* what an import points at
    saved,              \* the variables original_...
    returned,           \* devices that UU has in its hands
    video,              \* devices whose QueryInterface knows ID3D11VideoDevice
    installing,         \* per thread: where dxva_bridge_install stands, and for which device
    runtime_lock,
    runtimes,           \* the slots in use, as far as they are filled
    vtbl                \* per device and interface: the slot of its table, 0 for DXVK's own

processVars == <<launcher, server>>
importVars == <<loader, hooker, attempt, streamer, transport, iat, saved>>
deviceVars == <<returned, video, installing, runtime_lock, runtimes, vtbl>>
vars == <<processVars, importVars, deviceVars>>

-----------------------------------------------------------------------------

\* An import is patched for a function, whose original is kept in one variable.
Function ==
    [get_child |-> "CM_Get_Child", remove |-> "CM_Query_And_Remove_SubTreeW",
     streamer_input |-> "SendInput", server_input |-> "SendInput",
     gvinput |-> "GvInput_Send", bitblt |-> "BitBlt"]
Imports == DOMAIN Function
Functions == {Function[i] : i \in Imports}

CompatImports == <<"get_child", "remove">>
CaptureImports == <<"streamer_input", "server_input", "gvinput", "bitblt">>

\* What is left of them to do.
CompatTodo == {CompatImports, <<"remove">>, <<>>}
CaptureTodo ==
    {CaptureImports, <<"server_input", "gvinput", "bitblt">>, <<"gvinput", "bitblt">>, <<"bitblt">>, <<>>}

At(place) == [at |-> place, todo |-> <<>>]
Idle == [at |-> "idle", device |-> None, slot |-> 0]
Interfaces == {"device", "video"}

TypeOK ==
    /\ launcher \in {"start", "inject", "wait", "up", "failed", "done", "dead"}
    /\ server \in {"none", "suspended", "running", "ended"}
    /\ loader \in [at: {"none", "check", "swap", "loaded", "failed"}, todo: CompatTodo]
    /\ hooker \in [at: {"none", "poll", "init", "check", "swap", "done"}, todo: CaptureTodo]
    /\ attempt \in 0..Attempts
    /\ streamer \in BOOLEAN /\ transport \in BOOLEAN
    /\ iat \in [Imports -> {"own", "hook"}]
    /\ saved \in [Functions -> {"null", "own", "hook"}]
    /\ returned \subseteq Devices /\ video \subseteq Devices
    /\ installing \in [Threads -> [at: {"idle", "lock", "find", "fill", "publish", "patch", "leave"},
                                   device: Devices \cup {None}, slot: 0..Slots]]
    /\ runtime_lock \in Threads \cup {None}
    /\ runtimes \in UNION {[1..n -> Devices \cup {None}] : n \in 0..Slots}
    /\ vtbl \in [Devices -> [Interfaces -> 0..Slots]]

Init ==
    /\ launcher = "start" /\ server = "none"
    /\ loader = At("none") /\ hooker = At("none") /\ attempt = 0
    /\ streamer = FALSE /\ transport = FALSE
    /\ iat = [i \in Imports |-> "own"]
    /\ saved = [f \in Functions |-> "null"]
    /\ returned = {} /\ video \in SUBSET Devices
    /\ installing = [t \in Threads |-> Idle]
    /\ runtime_lock = None /\ runtimes = <<>>
    /\ vtbl = [d \in Devices |-> [i \in Interfaces |-> 0]]

Alive == server \in {"suspended", "running"}

-----------------------------------------------------------------------------
(* The launcher *)

Launch ==
    /\ launcher = "start"
    /\ \/ launcher' = "inject" /\ server' = "suspended"
       \/ launcher' = "done" /\ UNCHANGED server
    /\ UNCHANGED <<importVars, deviceVars>>

Inject ==
    /\ launcher = "inject"
    /\ \/ launcher' = "wait" /\ loader' = [at |-> "check", todo |-> CompatImports]
       \/ launcher' = "failed" /\ UNCHANGED loader
    /\ UNCHANGED <<server, hooker, attempt, streamer, transport, iat, saved, deviceVars>>

\* LoadLibraryW ends with 0, or does not end within 10 s.
WaitFails ==
    /\ launcher = "wait" /\ loader.at # "loaded"
    /\ launcher' = "failed"
    /\ UNCHANGED <<server, importVars, deviceVars>>

Resume ==
    /\ launcher = "wait" /\ loader.at = "loaded"
    /\ launcher' = "up" /\ server' = "running"
    /\ UNCHANGED <<importVars, deviceVars>>

Terminate ==
    /\ launcher = "failed"
    /\ launcher' = "done" /\ server' = "ended"
    /\ UNCHANGED <<importVars, deviceVars>>

\* The launcher returns the server's exit code.
ServerEnds ==
    /\ server = "running"
    /\ server' = "ended"
    /\ launcher' = IF launcher = "up" THEN "done" ELSE launcher
    /\ UNCHANGED <<importVars, deviceVars>>

\* The launcher is killed; the server it has started stays as it is.
LauncherKilled ==
    /\ launcher \in {"inject", "wait", "up", "failed"}
    /\ launcher' = "dead"
    /\ UNCHANGED <<server, importVars, deviceVars>>

-----------------------------------------------------------------------------
(* Patching *)

\* Is import i to be patched now?  GvInput_Send jumps through the server's import
\* of SendInput, and is rewritten only after one of the two was patched.
Wanted(i) ==
    /\ iat[i] = "own"
    /\ i = "gvinput" => iat["streamer_input"] = "hook" \/ iat["server_input"] = "hook"

\* Where a thread goes that is through with an import.
After(thread, end) ==
    IF Tail(thread.todo) = <<>> THEN At(end) ELSE [at |-> "check", todo |-> Tail(thread.todo)]

\* One step of patch_import, patch_send_input_import, patch_bitblt_import or
\* patch_gvinput_send in a thread, which goes to `next`.  The import may not be
\* there, or VirtualProtect fail.  What replaces the code of GvInput_Send keeps no
\* original.
Check(thread, next, end) ==
    LET i == Head(thread.todo) IN
    /\ thread.at = "check"
    /\ \/ /\ Wanted(i)
          /\ saved' = IF i = "gvinput" THEN saved ELSE [saved EXCEPT ![Function[i]] = iat[i]]
          /\ next = [thread EXCEPT !.at = "swap"]
       \/ next = After(thread, end) /\ UNCHANGED saved
    /\ UNCHANGED iat

Swap(thread, next, end) ==
    /\ thread.at = "swap"
    /\ iat' = [iat EXCEPT ![Head(thread.todo)] = "hook"]
    /\ next = After(thread, end)
    /\ UNCHANGED saved

\* DllMain of the compat hook returns TRUE whatever it could patch.
LoaderStep ==
    /\ Alive
    /\ \/ Check(loader, loader', "loaded")
       \/ Swap(loader, loader', "loaded")
       \/ loader.todo = CompatImports /\ loader.at = "check" /\ loader' = At("failed") /\ UNCHANGED <<iat, saved>>
    /\ UNCHANGED <<processVars, hooker, attempt, streamer, transport, deviceVars>>

\* DllMain of d3d11.dll, in a Wayland session; the server may import it and
\* have it loaded by the remote thread already.
HookThreadStarts ==
    /\ Alive /\ hooker = At("none")
    /\ hooker' = At("poll")
    /\ UNCHANGED <<processVars, loader, attempt, streamer, transport, iat, saved, deviceVars>>

LoadStreamer ==
    /\ server = "running" /\ ~streamer
    /\ streamer' = TRUE
    /\ UNCHANGED <<processVars, loader, hooker, attempt, transport, iat, saved, deviceVars>>

\* GetModuleHandleW every 25 ms; after the last attempt the thread ends for good.
Poll ==
    /\ Alive /\ hooker.at = "poll"
    /\ \/ streamer /\ hooker' = At("init") /\ UNCHANGED attempt
       \/ ~streamer /\ attempt < Attempts /\ attempt' = attempt + 1 /\ UNCHANGED hooker
       \/ ~streamer /\ attempt = Attempts /\ hooker' = At("done") /\ UNCHANGED attempt
    /\ UNCHANGED <<processVars, loader, streamer, transport, iat, saved, deviceVars>>

\* WSAStartup, and the critical sections.
InitTransport ==
    /\ Alive /\ hooker.at = "init"
    /\ \/ hooker' = [at |-> "check", todo |-> CaptureImports] /\ transport' = TRUE
       \/ hooker' = At("done") /\ UNCHANGED transport
    /\ UNCHANGED <<processVars, loader, attempt, streamer, iat, saved, deviceVars>>

HookerStep ==
    /\ Alive
    /\ Check(hooker, hooker', "done") \/ Swap(hooker, hooker', "done")
    /\ UNCHANGED <<processVars, loader, attempt, streamer, transport, deviceVars>>

-----------------------------------------------------------------------------
(* Devices *)

Goto(t, from, to) ==
    /\ server = "running" /\ installing[t].at = from
    /\ installing' = [installing EXCEPT ![t].at = to]
    /\ UNCHANGED <<processVars, importVars, video>>

Creating == {installing[t].device : t \in Threads}

\* D3D11CreateDevice and its three sisters: DXVK makes a device, for which
\* install_bridge is called unless amfrt64.dll is missing or WSAStartup fails.
Create(t, d) ==
    /\ server = "running" /\ installing[t].at = "idle"
    /\ d \notin returned \cup Creating
    /\ \/ /\ installing' = [installing EXCEPT ![t] = [at |-> "lock", device |-> d, slot |-> 0]]
          /\ UNCHANGED returned
       \/ returned' = returned \cup {d} /\ UNCHANGED installing
    /\ UNCHANGED <<processVars, importVars, video, runtime_lock, runtimes, vtbl>>

\* Mutant: the lock is not waited for.
BugTakeLock(t) ==
    /\ Goto(t, "lock", "find")
    /\ runtime_lock' = t
    /\ UNCHANGED <<returned, runtimes, vtbl>>

TakeLock(t) ==
    /\ Goto(t, "lock", "find")
    /\ runtime_lock = None
    /\ runtime_lock' = t
    /\ UNCHANGED <<returned, runtimes, vtbl>>

\* No slot is left, or the module cannot be pinned.
NoSlot(t) ==
    /\ Goto(t, "find", "leave")
    /\ UNCHANGED <<returned, runtime_lock, runtimes, vtbl>>

\* Mutant: the table is taken to have room.
BugFindSlot(t) ==
    /\ server = "running" /\ installing[t].at = "find"
    /\ installing' = [installing EXCEPT ![t].at = "fill", ![t].slot = Len(runtimes) + 1]
    /\ UNCHANGED <<processVars, importVars, returned, video, runtime_lock, runtimes, vtbl>>

\* runtime_count++, in two steps: what is read is the slot.
FindSlot(t) ==
    /\ server = "running" /\ installing[t].at = "find"
    /\ Len(runtimes) < Slots
    /\ installing' = [installing EXCEPT ![t].at = "fill", ![t].slot = Len(runtimes) + 1]
    /\ UNCHANGED <<processVars, importVars, returned, video, runtime_lock, runtimes, vtbl>>

\* The slot counts from here on and is empty.
CountSlot(t) ==
    /\ Goto(t, "fill", "publish")
    /\ runtimes' = [s \in 1..installing[t].slot |->
                      IF s = installing[t].slot THEN None ELSE runtimes[s]]
    /\ UNCHANGED <<returned, runtime_lock, vtbl>>

\* The slot is filled, and then the device gets its table.
Publish(t) ==
    LET d == installing[t].device  s == installing[t].slot IN
    /\ Goto(t, "publish", "patch")
    /\ runtimes' = [runtimes EXCEPT ![s] = d]
    /\ vtbl' = [vtbl EXCEPT ![d]["device"] = s]
    /\ UNCHANGED <<returned, runtime_lock>>

\* patch_video_device and patch_video_context.
PatchVideo(t) ==
    LET d == installing[t].device IN
    /\ Goto(t, "patch", "leave")
    /\ vtbl' = IF d \in video THEN [vtbl EXCEPT ![d]["video"] = installing[t].slot] ELSE vtbl
    /\ UNCHANGED <<returned, runtime_lock, runtimes>>

\* The device is UU's, whatever dxva_bridge_install has returned.
LeaveLock(t) ==
    /\ server = "running" /\ installing[t].at = "leave"
    /\ installing' = [installing EXCEPT ![t] = Idle]
    /\ returned' = returned \cup {installing[t].device}
    /\ runtime_lock' = None
    /\ UNCHANGED <<processVars, importVars, video, runtimes, vtbl>>

Next ==
    \/ Launch \/ Inject \/ WaitFails \/ Resume \/ Terminate \/ ServerEnds \/ LauncherKilled
    \/ LoaderStep \/ HookThreadStarts \/ LoadStreamer \/ Poll \/ InitTransport \/ HookerStep
    \/ \E t \in Threads :
         \/ \E d \in Devices : Create(t, d)
         \/ TakeLock(t) \/ NoSlot(t) \/ FindSlot(t) \/ CountSlot(t) \/ Publish(t)
         \/ PatchVideo(t) \/ LeaveLock(t)

Spec == Init /\ [][Next]_vars

\* What the query hooks find for device d with runtime_from_device: a table's
\* address says its slot.
Runtime(d) == {runtimes[s] : s \in {n \in DOMAIN runtimes : n = vtbl[d]["device"]}}

-----------------------------------------------------------------------------

\* UU's code runs only with the compat hook in it.
CompatBeforeMain == server = "running" => loader.at = "loaded"

\* A hook that a call can reach finds its original and its critical sections.
ImportsEndInOriginals ==
    \A i \in Imports :
      iat[i] = "hook" =>
        /\ i # "gvinput" => saved[Function[i]] = "own"
        /\ i \notin {"get_child", "remove"} => transport

\* A device in UU's hands with a table of the bridge's is found by the query hooks
\* in a slot that is filled, and by no other; and its video interface, where it has
\* one, is patched already, so that a query hook never rewrites a table in use.
TablesEndInDxvk ==
    \A d \in returned :
      vtbl[d]["device"] # 0 =>
        /\ Runtime(d) = {d}
        /\ vtbl[d]["video"] = IF d \in video THEN vtbl[d]["device"] ELSE 0

\* What is hooked ends in what it replaced, at every moment at which UU can call
\* it, and before UU's first instruction where the launcher promises it
\* (server_launcher.c:72-94, wayland_capture_hook.c:300-308, 394-408,
\* dxva_bridge.c:77-91, 843-913).
HooksEndInOriginals == CompatBeforeMain /\ ImportsEndInOriginals /\ TablesEndInDxvk

=============================================================================
