# A verification model of the UU Remote bridge

The repository lets UU Remote, a Windows program run under Wine, use a Linux
desktop's hardware: `amfrt64.dll` offers an AMF encoder and forwards frames to
`uu-amf-helper` (Vulkan Video), `d3d11.dll` does the same for decoding, hooks on
`BitBlt` and `SendInput` exchange frames and input with
`uu-wayland-capture-helper`, and scripts install all this and watch over the
processes. Nearly every hard part is an exchange between a Wine process and a
helper over loopback TCP, with timeouts on both sides, helpers that crash and
restart, threads that share a connection, and state that outlives a session.
These modules model those exchanges, check them with TLC and prove safety
properties of all of them with TLAPS.

## Inventory

| Part | State it keeps | Operations | What makes it correct |
|---|---|---|---|
| AMF encoder component, `src/amfrt_bridge.c` | socket, `initialized`, `draining`, ring of packets, process-wide failure time | Init, ReInit, Terminate, SubmitInput, QueryOutput, Drain, Flush | no half-initialised session, replies matched to calls, packets in order and once, calls return |
| `uu-amf-helper`, `src/amf_helper.c` | `active_clients`, a thread and a codec per client | accept, admit or turn away, init, frame/packet, end | at most 16 clients, no leaked slot, descriptor or codec, slots of dead clients reclaimed |
| Capture hook, `src/wayland_capture_hook.c` | connection under `capture_lock` | BitBlt, connect and authenticate, reconnect | whole frames, never older ones, no stale reply, lock always left |
| Capture sessions, `src/wayland_capture_helper.cpp` | `frame_state`, `kwin_capture_mutex`, a thread per client | authenticate, serve last frame, screenshot on request, publish | last frame always served, no torn frame |
| Input hook and `InputBridge` | connection under `input_lock`; EIS context and device slots, uinput descriptors | SendInput in chunks, EIS setup and dispatch, fallback | events applied once and in order, slots match live devices, both uinput devices or none |
| Portal session | restore token file, portal session, listening thread | create, select, start, rotate token | the user is asked once, whatever ends the helper |
| DXVA bridge, `src/dxva_bridge.c` (its decoder is not advertised) | runtimes and patched tables, decoder socket, shared probe result and time, retry time | create decoder, get buffer, submit, end frame, install hooks | replies matched, backoff ends, hooks never see half-filled tables |
| Server launcher, compat hook, hook thread | a suspended process, a remote thread, patched imports and the variables that keep their originals | start the server with a DLL, wait for `streamer.dll`, patch | UU's code runs only with the compat hook; a hook that can be called finds its original |
| Installer, uninstaller | files in UU's directory, backups, markers, registry values | install, upgrade, uninstall | uninstalling restores what was there; a crash can be repaired by another run; UU's newest server survives |
| Session guard, units | processes of a prefix, unit order | scan, stop orphans, start background processes | never stops a live client, background processes come back |

How they interact: the encoder component and the DXVA decoder are clients of
`uu-amf-helper`; the two hooks are clients of `uu-wayland-capture-helper`, each
with a connection of its own; systemd restarts both helpers; the guard and the
units decide when UU runs. The hard behaviours are listed one by one, at their
lines, under `hazards` in `PROJECT.json`, with the property that watches over
each or the module that is to do so.

## Modules

| Module | What it is |
|---|---|
| `AmfEncoder` | abstract: what an encoder component promises its caller |
| `EncoderLink` | the component, its two streams and the helper's session; implements `AmfEncoder` |
| `EncoderLinkProofs` | its theorems |
| `AmfHelper` | the helper's admission of clients, with their threads |
| `AmfHelperProofs` | its theorems |
| `CaptureLink` | BitBlt hook, capture sessions, frames |
| `CaptureLinkProofs` | its theorems |
| `InputLink` | SendInput hook, input sessions, the order in which events are applied |
| `InputLinkProofs` | its theorems |
| `InputBridge` | how a chunk of events is applied: EIS devices, uinput |
| `InputBridgeProofs` | its theorems |
| `DxvaDecoder` | the decoders of one UU process, their connections and sessions, the shared failure time |
| `DxvaDecoderProofs` | its theorems |
| `Hooks` | how launcher, hook thread and `dxva_bridge_install` put the hooks in place |
| `HooksProofs` | its theorems |
| `CaptureStart` | the capture helper's start: portal requests, restore token, listening thread |
| `SessionGuard` | the guard's loop over UU's processes |
| `Session` | a Wayland session: `CaptureStart`, `SessionGuard` and the units between them |
| `Installer` | what `install.sh`, `uninstall.sh`, the guard and two kinds of upgrade do to files and registry |
| `DeploymentProofs` | the theorems of `Session` and of `Installer` |
| `MCEncoderLink`, `MCAmfHelper`, `MCCaptureLink`, `MCInputLink`, `MCInputBridge`, `MCDxvaDecoder`, `MCHooks`, `MCInstaller` | instances for TLC |

### EncoderLink

State and code: `call` is where the one AMF call in progress stands
(`component_init` or `component_submit` waiting for the helper), `socket`,
`initialized`, `draining`, `size`, `outputs` are fields of `BridgeComponent`,
`cooldown` is what is left of the backoff that `helper_connect_failure_time`
starts, `requests` and `replies` are the two directions of the connection,
`server`, `encSize`, `held` the thread in `handle_client` and the codec it owns.
A frame is the number of its submission. A reply and its payload are one message
in the stream until the header is read; then the payload stays behind alone,
which is what a failing receive leaves there (`SubmitPayloadFails`).
`accepted`, `refused`, `dropped` and `delivered` are history.

Every operation of the component in the `BRIDGE_NATIVE_PE` build is an action;
those that wait for the helper are two or three (the send, each receive, the
timeout), so the helper may do anything in between. The helper of another
version either hangs up or, being another program, answers with its own version.
FFmpeg is the nondeterministic codec of `EncoderFrame`: it takes a picture, may
hold up to `EncoderDepth` back and gives out older ones first, or fails and
loses some. `OtherComponentInit` is any other component of the process, which
shares the failure time.

Assumed: one caller at a time (the ring has no lock, and how UU threads its calls
is not in the repository); `ReInit`'s own argument checks are folded into its
branch that only closes.

Properties: `NoHalfInit` (README.md:213-214: no half-initialised state),
`ReplyAnswersCall`, `Conservation`, `InOrder`, `KeepsPromise` (it implements
`AmfEncoder`, with `ready` mapped to `initialized` and `submitted` to the calls
that have returned), and `CallReturns`.

### AmfHelper

`acceptor` is the program counter of main's loop between `accept` and the next
one, `thread` that of each `client_thread`; the counter is changed where
`__sync_fetch_and_add` and `_sub` change it, so main and any number of threads
interleave between reading the limit and giving a slot back. `Falter` lets a
client freeze (its socket stays open) or vanish at any moment. Messages are only
"init" and "frame": what the loop tells apart.

Properties: `SessionLimit`, `NothingLeaks`, `TurnedAwayOnlyAtLimit`,
`SlotReclaimed`, and `CounterExact`, which only the proofs need. `TurnedAwayOnlyAtLimit` says
*registered threads*, not open connections: a thread closes its descriptor
before it gives its slot back, so a client that reconnects at once may be turned
away while one of the 16 counted clients is gone already.

### CaptureLink

`pc` is where each copying thread of UU stands in `request_frame`; everything
from `Call` to `Pixels` happens inside `capture_lock`. `link`, `requests` and
`replies` describe each connection; one that the hook has closed stays
"abandoned" until its session in the helper notices, and that session goes on
with a request it has read. `frame` is `frame_state`; it is replaced by
`PublishSample` (the portal's stream, one thread) or, in the greeter, by
`Grab`/`PublishGrab` under `kwin_capture_mutex`, by sessions and by main at
start. A frame is the version of the desktop it shows and its size; `Redraw`
changes both at any time. `asked` and `had` record, when a thread sends its
request, the newest frame there was and whether the helper had one. Calls that
do not copy the screen, and the original BitBlt that draws when no frame comes,
change nothing here. `HostCleanup` is UU calling `WSACleanup`.

Properties: `FrameWhole`, `FrameFresh`, `LastFrameServed`, `ConnectionClean`,
`LockIsLeft`. `LastFrameServed` is about the frame the helper had when the
request was sent: a helper that gets its first frame between its own answer "no
frame" and the moment the hook reads it has done nothing wrong.

Assumed: a sample shows the desktop as it is when it is published, i.e. the
stream does not go back in time. The readiness probe (`--wait-ready`,
`--wait-listening`) is left out; the input messages that the same loop serves on
connections of their own are `InputLink`.

### InputLink

Calls of SendInput are numbered as they begin; `input`, `accepted` and `outcome`
belong to a call, `at` and `call` say where a thread is in `capture_send_input`
and `send_input_chunk`. `Result` is the loop's decision on what the chunk
returned: go on, end, or hand everything to Wine. The connection is as in
`CaptureLink`, with connecting and authenticating in one step. `session`, `job`
and `done` are `handle_client` with a chunk in hand, `bridge` the owner of
`InputBridge`'s mutex; a session whose connection the hook has given up still
waits for the mutex and applies its chunk. `TakeBridge` may find no backend and
`Apply` may stop at any event. `log`, `before`, `given_up` and `trouble` are
history.

Properties: `AppliedInOrder`, `CallsInOrder`, `ReportedIsApplied`, `LockIsLeft`,
and `IdleIsHarmless`, which fails (below). They say what a timeout costs and
that nothing else does: only a call whose last request was not answered in time
can reach both the desktop and Wine, or arrive after a later one.

Left out: the check of SendInput's arguments, and a call of no events, which
changes nothing. `original_send_input` is set before the hook is reachable, so
the test for it is no guard.

### InputBridge

What `InputLink` leaves open: whether the bridge has a backend, and at which event
it stops. `pc` is where `send` stands, `slots` the five device pointers, `eis` the
context, `cooling` whether it is before `eis_retry_after_`, `uinput` the two
descriptors that `ensure_uinput` opens or closes together. The compositor
(`device`, `connected`) puts what it does into `events`; `Dispatch` is one turn of
the loop in `dispatch_eis`, which may end before all is read, because more
may be on its way. An event is the sequence of the capabilities its parts need, so
a drag has two parts and can be injected by half. Which code, coordinate or amount
is injected is left out; so is an error of `poll`.

Properties: `SlotsLive`, `AcceptedInjected`. Nothing says that a key is released
through the backend that pressed it: the choice is made per chunk, and the code
keeps no record of what is pressed. Nor does anything say that EIS, which
README.md:206-207 puts first, is used whenever a device for the event is there: a
slot is filled by the first device that offers the capability and others that do
are not remembered (`set_eis_device`, `src/wayland_capture_helper.cpp:654`). When
the first goes after the second has come, the slot stays empty as long as the
second lives, and every chunk goes to uinput, because the context that is still
there keeps `ensure_eis` from asking again.

### DxvaDecoder

`at`, `target` and `now` are the calls of `context_end_frame` in progress: what
each waits for, its decoder and its local `now`. `lock`, `open`, `retry_after`
are fields of `BridgeDecoder`; `packet` and `shown` number its pictures;
`probe_time` is `helper_probe_time`, the one thing the decoders share and write
without a lock, so reading the clock (`Fail`, `Enter`), testing it (`Refuse`,
`Dial`) and writing it (`StoreFailure`) are steps of their own and other threads
come between them. The subtraction is unsigned: `Cached` says what it yields when
a failure was stored after this call had read the clock. `NoMemory` is the path
that leaves with the connection open and the pixels unread. `Recreate` is UU
releasing a decoder and creating another; `Tick` lets time pass.

Properties: `ReplyAnswersPacket`, `DrawnInOrder`, `SilenceBounded`,
`EndFrameReturns`, and `LockExact`, which only the proofs need. `SilenceBounded` is
what makes the backoff safe: a refusal renews `retry_after`, and it must not keep
the others away too.

UU is not told that there is a decoder: `video_profile_count` answers 0
(`src/dxva_bridge.c:533`), because the round trip delays frames. This code runs
only when UU, or another program that loads the DLL, creates a decoder without asking.

Left out: the buffers UU fills and the bitstream assembled from them (pure, see
the plan), the output view, the geometry of the upload. `helper_probe_result` is
only ever 0 or -1, so the test `probed <= 0` decides nothing and is no state.

### Hooks

`launcher` is where `run` of `src/server_launcher.c` stands, `server` the process
it starts suspended, `loader` the remote thread that loads the compat hook,
`hooker` the thread that `DllMain` of `d3d11.dll` starts. The two threads patch
imports in the same two steps, `Check` (which keeps the original) and `Swap`,
between which UU and the other thread go on. `installing` is where each of UU's
threads stands in `D3D11CreateDevice` and `dxva_bridge_install`: `runtime_count`
is raised, the slot is filled and the tables are replaced in steps of their own,
which is what the query hooks of other threads see. They search the slots without
the lock; that a search sees a slot counted and not yet filled is harmless because
the device it is for has not been returned, and this is what `TablesEndInDxvk`
says.

Property: `HooksEndInOriginals` (`CompatBeforeMain`, `ImportsEndInOriginals`,
`TablesEndInDxvk`). Left out: `UUInstallWaylandCaptureHook`, which only a test
calls, and what a processor executes while `GvInput_Send` is rewritten.

### CaptureStart, SessionGuard, Session

`CaptureStart`: `at` is where main stands between the inhibitor and the playing
pipeline, `listener` the thread that listens meanwhile. Of a restore token only
matters whether the portal still takes it: `file`, `sent` and `next_token` are the
places where one is kept. `HelperEnds` is every error and every crash, because an
error ends the process and systemd starts it again. `trusted` is history: a start
could do without the user. `AskedOnce` is the promise of README.md:148-151 as far as
it can be kept: it also says where it cannot, between the request that spends the
token and the file that keeps its successor.

`SessionGuard`: `processes` are the kinds of process in the prefix, `listed` what
the shell's `/proc/[0-9]*` still has to look at, `seen` the flags of the snapshot.
`StartClient`, `ClientStarts` and `End` may come between any two looks.
`StopSparesClient` and `GuardHeals` are its properties. `StopSparesClient` is about a
client that was there when the scan began: one that starts during the scan may be
stopped with the session that is taken for an orphan. `GuardHeals` speaks of the
background processes in general; the guard starts `GameViewerServer.exe` only in the
host's role (`scripts/uu-session-guard.sh:201-205`), which README.md:140-143 does not
say. That the process it starts comes up is assumed, and that no command of a
round fails each time: the script runs under `set -e`, and a guard that ends so is started
again but gets no further.

`Session` puts both beside `uu-wayland-remote.service` (`remote`). The unit waits
for the listener (`--wait-listening`), not for a frame, so UU runs while the user
has not approved anything yet; README.md:59 says it waits for the first frame. What
UU's copying then does is in `CaptureLink`. There is no run for this: it is a
sentence about one condition of one unit file.

Left out: the quarantine of downloaded upgrades and the upgrader that is killed
after two minutes, a second instance of a background process, the greeter's mode.

### Installer

A script is a list of steps and `agenda` what is left of it; `Crash` ends it
between any two steps or in the middle of a copy, which leaves the file `Torn`.
`disk` is the content of every place: the DLLs under `bin`, their backups and
markers, the server, the launcher in its place, the driver installer and what the
guard renames it to, and the registry values with their state files. `UpgradeUu`
and `UpgradePackage` happen between runs. `guard` is where the guard stands in
`disable_wine_driver_installers`. The scripts stop it first, but ignore it when that
fails, so it may go on beside every step of theirs. Only *whose* a content is and its
version matter. `original`, `misread`, `undeleted`, `outlived`, `removed` and `excuses`
are history. The specification is `InstallSpec` and its types are `InstallTypeOK`,
because `DeploymentProofs` extends `Session` as well.

`RollbackRestores` says what a complete `uninstall.sh` gives back after any number
of interrupted runs. Its exceptions are what the code does lose:

- a registry value that was there and whose query failed is recorded as absent (`misread`);
- a value that was absent and whose deletion fails stays as the bridge set it
  (`undeleted`; `scripts/uninstall.sh:50-51, 65-66, 80-81` ignore the failure and the
  script still ends with "removed", while README.md:208-209 says that the values are
  restored). A value that was there is written back, and a failure of
  that ends the script;
- a state file that was cut short matches no case of the script, so that what it
  described is left alone;
- the driver installer, when a guard has outlived the start of `uninstall.sh`
  (`outlived`; `:19-22` ignore that too). The guard may rename it once more after it was
  put back, and it may be lost: when `uninstall.sh` moves the copy back over its source
  between the guard's `cp` and its `rm`, the `rm` deletes the only one.

`ServerKept` says that UU's newest server is lost in three ways only: `install.sh`
is cut while it writes the launcher (the next run takes the torn file for a new
server), it is run with another launcher than the one in place (below), or `uninstall.sh` is run
after an upgrade of UU without `install.sh` before it. Cut between moving the
server away and installing the launcher, `install.sh` fails from then on until
`uninstall.sh` has put the server back; nothing is lost.

Left out: helpers, scripts and unit files, which are replaced as a whole, the
download of DXVK, the X11 backend, versions of the driver installer, a second process
in `disable_wine_driver_installers` (the units run it before UU, too), and writes that
the disk itself loses.

## Runs

| Run | Shows | Bounds |
|---|---|---|
| `helper_admission` | all properties of `AmfHelper` | 3 clients for 2 slots: the limit is reached with a client to spare, and slots are reused while others end |
| `encoder_session` | all properties of `EncoderLink` | 4 frames, a ring of 2, a codec that holds 1 back, 2 protocol versions, 2 sizes, a backoff of 1: the ring fills, overflows, is emptied and filled again across sessions |
| `encoder_input_full` | violation: see below | 3 frames |
| `capture_frames` | all properties of `CaptureLink` | 2 threads, 2 sessions (one live, one abandoned and still busy), 2 sizes, 2 versions of the desktop, helpers with and without token |
| `input_calls` | all properties of `InputLink` but the last | 2 threads, 2 sessions, 2 calls, a chunk of 2: calls of one chunk, of a full one and a part, and one whose second chunk cannot be sent; one session is given up with its chunk in hand while the other serves the next call |
| `input_idle` | violation: see below | 1 thread |
| `input_bridge` | all properties of `InputBridge` | 3 devices, two of which share a capability, 3 unread events, 3 chunks: a slot has a second candidate, devices go before, between and during chunks |
| `dxva_decoders` | all properties of `DxvaDecoder` | 2 threads, 2 decoders, with 2 packets and 1, 4 ticks, backoff 1, cache 2: threads contend for a decoder, and one decoder's failure silences the other, ends, and is renewed |
| `hooks` | all properties of `Hooks` | 2 threads, 3 devices for 2 slots, one look too many for `streamer.dll`: two installations at once, a full table, launcher and hook thread failing everywhere |
| `session` | all properties of `Session` | one background process; nothing else is bounded |
| `installer` | all properties of `Installer` | 1 DLL, 1 registry value (each has places of its own), 1 upgrade, of UU or of the package; any number of runs and crashes. What comes of several upgrades of both kinds is left to the theorems |
| `server_restored` | violation: see below | 1 upgrade |

Constants other than these are model values. Counters are bounded in the
guards: `MaxFrames` in `SubmitInput`, `MaxVersion` in `Redraw`, `MaxPackets` in
`EndFrame`, `MaxTime` in `Tick`, `MaxCalls` in `SendInput`,
`MaxPending` in the compositor's actions of `InputBridge`, `Attempts` in `Poll`
(200 in the code), `Slots` (`DXVA_RUNTIME_COUNT`, 64) in `FindSlot`, `MaxUpgrades`
in the upgrades. In the code the cache is ten times the backoff;
what matters is that it is longer. Threads and devices are symmetric in `hooks`,
which checks no liveness; the other runs use no symmetry. Deadlock is checked
everywhere but in `hooks`, where the server's process ends for good.

What a larger instance could add: all values that these protocols compare are
"the current one or another", which two frames, sessions, versions or sizes
already give; the ring is exercised past its wrap because packets are appended
and taken at every fill level; a second background process of the guard is one
more of the same kind. What holds for more is proved: every safety
property of the runs that pass.

### Fairness

`CallReturns` assumes weak fairness of the steps of a call: both sockets have
`SO_SNDTIMEO` and `SO_RCVTIMEO` set before `connect`, so a send or a receive
returns, with data or with an error, after `HELPER_IO_TIMEOUT_MS`. Nothing is
assumed of the helper. `SlotReclaimed` assumes that main and every client thread
of the helper are scheduled and that its receives time out (5 s), again nothing
of the clients. `LockIsLeft`, of both hooks, assumes the same of UU's threads
inside the lock (3 s in `connect_helper`). It does not say that a waiting thread gets the lock: Windows'
critical sections are not fair. `EndFrameReturns` assumes it of the threads that
are inside a decoder's lock (2 s, `HELPER_DECODE_IO_TIMEOUT_MS`). `GuardHeals` assumes
that the guard's loop goes on: nothing in a round waits for another process, and
systemd starts a guard that ends again.

### What was found

`encoder_input_full`. With `BRIDGE_MAX_OUTPUTS` packets waiting, the native
build has the helper encode the frame, then finds the ring full, throws the
packet away and returns `AMF_INPUT_FULL`, the code that tells the caller to offer
the same frame again (`third_party/AMF/.../Result.h:89`). The in-process build of
the same function asks before it encodes (`src/amfrt_bridge.c:1050`).

`input_idle`. README.md:215-216 says that the input connection may stay idle for
a whole session and the first key or click after that is not lost. When UU has
called `WSACleanup` meanwhile, which the hook's comment expects
(`src/wayland_capture_hook.c:101`), the first send of the next SendInput fails,
and the call goes to Wine although the helper is there; only the call after it
connects again. `connect_helper` is asked for a connection only when there is
none, and a send that fails is not tried again on a new one.

`server_restored`. `install.sh` takes every `GameViewerServer.exe` that is not the
launcher of its own package for a new server of UU and moves it over
`GameViewerServer.real.exe`. After an upgrade of the bridge whose launcher has
changed it is the old launcher; UU's server is overwritten, and `uninstall.sh` puts
a launcher in its place. `aur/uu-amf-bridge.install:9` tells users to rerun the
installer after just this. A copy of the first server is left under `backup/`,
which no script reads.

## Proofs

TLAPS proves, for every value of the constants that satisfies the modules'
named assumptions:

- `AmfHelperProofs`: type correctness, `CounterExact`, `SessionLimit`,
  `NothingLeaks` and the action property `TurnedAwayOnlyAtLimit`. `CounterExact`
  is not inductive alone: the invariant adds what `acceptor.client` is in each
  phase of main's loop and that the client main holds has no thread yet, so that
  spawning one changes the set of registered threads by exactly one, and that
  a stopped process has none.
- `EncoderLinkProofs`: type correctness, `NoHalfInit`, `ReplyAnswersCall`,
  `InOrder`, `Conservation` and the refinement `KeepsPromise`. The inductive
  invariant `IInv` adds four parts to the types. `Connection`: which phases of a call go with
  which state of socket and session. `Handshake`: what the two streams hold while
  the init message is on its way. `Session`: an initialised component talks to an
  encoder of its own version and size. `Order`: in each direction at most one
  message of the current frame follows at most one unread payload of an earlier
  one, and every picture in the stream, the codec and the ring is later than what
  was handed out before. This is the reason why closing the socket on a bad
  header, and not resetting the ring, is enough: stale bytes can only be an unread
  payload at the very front, which the next call takes for a bad header.
- `DxvaDecoderProofs`: type correctness, `LockExact`, `SilenceBounded`,
  `ReplyAnswersPacket` and `DrawnInOrder`, from two invariants. `IInv` knows
  nothing of the streams: it is the types of the calls and the clocks,
  `LockExact`, that a call has a decoder exactly while it is in progress, and
  `Deadlines`: `helper_probe_time`, each pending store of it and each local `now`
  are at most the clock, what is stored never exceeds `last_failure`, and every
  `retry_after` is less than both backoffs after it. The last part is why a
  refusal must not be stored as a failure. `SInv` rests on the lock and says, decoder
  by decoder, what may be there in each phase of the one call that holds it.
  `Apart`: no connection, no session. `Greeting`: in the handshake only its two
  messages. `Serving`: behind pixels that were left unread at most the packet of
  this call or the answer to it. `Pictures` and `Latest`: what is drawn, in the
  stream and in the codec follow one another in this order. As in `EncoderLink`,
  only pixels can be stale, and pixels are never taken for a header.
- `InputBridgeProofs`: type correctness, `SlotsLive` and `AcceptedInjected`, from
  two invariants of which neither needs the other. `IInv` is about the EIS context
  and its queue. `SlotsLive` is not inductive alone: a resumed device
  fills a slot only when its event is read, so `Announced` adds that what an
  unread event announces is there, or withdrawn by an event after it, and `Bare`
  that without a context no slot is filled. `Sending` is about one call of `send`:
  there is an event left while it runs (`Underway`), nothing is out before a backend
  is chosen (`Unsent`) and nothing of an unaccepted event between two events
  (`Whole`). `Capable`, for the types, says that a slot holds a device that can do
  what the slot is for.
- `CaptureLinkProofs`: type correctness, `FrameWhole`, `FrameFresh`,
  `LastFrameServed` and `ConnectionClean`. The invariant has four parts. `Locking`:
  `capture_lock` is held from connecting to the last pixel, and the connection is
  there in between. `Serving`: which link goes with which session, that only the
  hook's own connection can be read from, and that one screenshot at a time is
  between taking and publishing. `Ordered`: whatever will be published from now on
  is at least as new as what any thread has received or has found when it asked
  (`Above`); every lemma about a publishing step shows that it stays so.
  `Talking`: what the connection may hold at each point of a request: nothing, one
  answer, or a header and its pixels, which may be cut short by the end of the
  helper but not mixed with another answer. The fact the rest depends on is that
  `RequestFails` gives up the connection with the request.
- `InputLinkProofs`: type correctness, `AppliedInOrder`, `CallsInOrder` and
  `ReportedIsApplied`. The invariant has five parts. `Calling`: which thread has
  which call, and `input_lock` while it sends or waits. `Serving`: what a session
  does, and that a connection nobody waits on is empty. `Carrying`: a call has at
  most one chunk on its way, which starts behind what is accepted; how much of the
  call is applied is what is accepted plus what that chunk's session has done; a chunk
  whose call has returned belongs to one that was given up. `Answering`: an answer on
  the connection says exactly what was applied. `Logged`: the chunk that is being
  applied is the end of the log. Two facts carry it: a connection is never used
  again after a request on it has failed, so that no late answer is taken for a later
  chunk's, and the bridge's mutex is held for a whole chunk.
- `HooksProofs`: type correctness and `HooksEndInOriginals`. The invariant adds how
  far the launcher has come, what each patching thread has kept of the import it is
  about to replace, and which slot and which tables each device has at each step of
  its installation; two installations never hold `runtime_lock` together.
- `DeploymentProofs`, of `Session`: type correctness, `AskedOnce` and
  `StopSparesClient`. The helper's start and the guard share no variable, so each has
  an invariant of its own and the other's steps stutter on it. `TokenKept`: as long
  as a start can do without the user, the good token is where the helper looks for
  it next, in the file, in the request or in the answer. `ClientSeen`: a client that
  was there when the scan began and still is has been seen or is still listed.
- `DeploymentProofs`, of `Installer`: type correctness, `RollbackRestores` and
  `ServerKept`, for any lists of DLLs and values. An interrupted run may leave
  anything half done, so the invariant is stated over the steps that are still ahead
  (`Ahead`, `AheadFor`): what is ahead makes up for what is not done yet. `Orderly`
  is what is true of either list of steps and of every rest of it: a backup is
  saved right before its marker, a value recorded right before it is set, every
  marker written before any DLL is replaced. `Kept` says what a state file is worth:
  none, and the place is untouched; "present", and the backup is the original; torn,
  and a DLL's backup is whole. `Prepared` is what the next step finds, `Marked` that
  no DLL is replaced before its marker, `Removing` and `AfterRemoval` what
  `uninstall.sh` has undone so far and in the end, but for the values it could not
  delete, and `ServerSafe` where UU's newest server is while
  nothing excuses its loss. `Driver` says, as long as no guard has outlived the start of
  `uninstall.sh`, that one of the driver installer's two places has it; `Removing` and
  `AfterRemoval` have the same condition for it. The guard moves nothing else
  (`GuardFrame`), so its steps beside those of a script leave the rest of the invariant
  alone. That the two scripts' lists are `Orderly` is proved from
  how they are put together, position by position.

The argument in all of them: `Init => IInv`; one lemma per action (or group of actions
that touch the same state) for `IInv /\ Next => IInv'`; the property from `IInv`
(or, for an action property or the refinement, from `IInv` and one step); the
temporal step last.

Assumptions on constants are few: limits are natural numbers (the client limit
is not 0), the "none" values are not members of the sets they stand beside,
versions are positive because 0 stands for "not running", the sets of clients and of
decoding threads are finite, calls and chunks are sequences that are not empty, the
background processes are not the client, and the names of DLLs and registry values are strings, apart from each
other and from the five files that the scripts know by name.

Only model-checked: the liveness properties (`CallReturns`, `SlotReclaimed`,
`LockIsLeft`, `EndFrameReturns`, `GuardHeals`), because liveness under fairness is
out of the prover's reach here. Every invariant and every action property
of the runs that pass, and the refinement, is a theorem as well. The three
violations are runs only.

## Not modelled

Property stores, variants and reference counts of the AMF objects; pixel
conversions; the bitstream and the buffers of the DXVA bridge; key codes and wheel
values; the in-process FFmpeg build; FFmpeg, Vulkan, GStreamer, PipeWire, the
portal, Wine and Qt themselves (their results are nondeterministic choices); an
error of the running GStreamer pipeline, which the helper only logs; the guard's
quarantine of upgrades; the X11 fallback, verifier, probe and packages (no state of
their own).

## Plan

What would come next, in this order:

1. `InputLink` with `InputBridge` as its bridge.
2. Reference counts of the AMF objects (`src/amfrt_bridge.c:74-681`): a buffer in
   the ring while its component is released.
3. Pure parts: bit writer and emulation prevention of the H.264 parameter sets,
   NV12 geometry of an upload, wheel values, ports; against reference definitions.
4. `EncoderLink` with the admission of `AmfHelper`: several components, one
   helper with its limit, the shared failure time as real components.
