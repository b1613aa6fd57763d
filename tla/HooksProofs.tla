----------------------------- MODULE HooksProofs ----------------------------
(***************************************************************************)
(* Proofs about Hooks: for any number of threads, devices and slots, what  *)
(* is hooked ends in what it replaced.                                     *)
(*                                                                         *)
(* The launcher, the two threads that patch imports and the installation   *)
(* of the devices' tables share no variable but `server`, so each has a    *)
(* part of the invariant.                                                  *)
(***************************************************************************)
EXTENDS Hooks, TLAPS

\* A new server is suspended until the compat hook is in it.
Injected ==
    /\ launcher = "inject" => server = "suspended"
    /\ CompatBeforeMain

\* What a thread that patches has left to do, and what it has kept already.
Patching(thread) ==
    /\ thread.at \in {"check", "swap"} <=> thread.todo # <<>>
    /\ thread.at = "swap" /\ Head(thread.todo) # "gvinput" => saved[Function[Head(thread.todo)]] = "own"

Patches ==
    /\ Patching(loader)
    /\ Patching(hooker)
    /\ hooker.at \in {"check", "swap"} => transport
    /\ ImportsEndInOriginals

\* The lock is held by the one thread that is inside it, and each device is in the
\* hands of one thread.
Exclusive ==
    /\ \A t \in Threads :
         /\ runtime_lock = t <=> installing[t].at \notin {"idle", "lock"}
         /\ installing[t].at # "idle" => installing[t].device \in Devices \ returned
    /\ \A t, u \in Threads :
         installing[t].at # "idle" /\ installing[u].at # "idle" /\ t # u
           => installing[t].device # installing[u].device

\* What a thread knows of its slot.
SlotOf(t) ==
    LET d == installing[t].device  s == installing[t].slot IN
    /\ installing[t].at = "fill" => s = Len(runtimes) + 1
    /\ installing[t].at = "publish" => s \in 1..Len(runtimes) /\ runtimes[s] = None
    /\ installing[t].at = "patch" => s = vtbl[d]["device"] /\ s # 0 /\ vtbl[d]["video"] = 0

\* A table is in its slot, and only a device that has got through has one.
TableOf(d) ==
    /\ vtbl[d]["device"] # 0 => vtbl[d]["device"] \in 1..Len(runtimes) /\ runtimes[vtbl[d]["device"]] = d
    /\ vtbl[d]["device"] # 0 \/ vtbl[d]["video"] # 0 =>
         \/ d \in returned
         \/ \E t \in Threads : installing[t].device = d /\ installing[t].at \in {"patch", "leave"}
    /\ \/ vtbl[d]["video"] = IF d \in video THEN vtbl[d]["device"] ELSE 0
       \/ \E t \in Threads : installing[t].device = d /\ installing[t].at = "patch"

Tables ==
    /\ Exclusive
    /\ \A t \in Threads : SlotOf(t)
    /\ \A d \in Devices : TableOf(d)

IInv == TypeOK /\ Injected /\ Patches /\ Tables

-----------------------------------------------------------------------------

\* A thread goes from an import to the next one.
LEMMA CompatGoesOn ==
    /\ CompatImports \in CompatTodo /\ CompatImports # <<>>
    /\ \A todo \in CompatTodo \ {<<>>} :
         /\ Head(todo) \in {"get_child", "remove"}
         /\ Tail(todo) \in CompatTodo
<1>1. /\ Tail(<<"get_child", "remove">>) = <<"remove">>
      /\ Tail(<<"remove">>) = <<>>
  OBVIOUS
<1>2. /\ Head(<<"get_child", "remove">>) = "get_child"
      /\ Head(<<"remove">>) = "remove"
  OBVIOUS
<1>3. CompatImports # <<>>
  BY DEF CompatImports
<1> QED
  BY <1>1, <1>2, <1>3, Zenon DEF CompatTodo, CompatImports

LEMMA CaptureGoesOn ==
    /\ CaptureImports \in CaptureTodo /\ CaptureImports # <<>>
    /\ \A todo \in CaptureTodo \ {<<>>} :
         /\ Head(todo) \in {"streamer_input", "server_input", "gvinput", "bitblt"}
         /\ Tail(todo) \in CaptureTodo
<1>1. /\ Tail(<<"streamer_input", "server_input", "gvinput", "bitblt">>) = <<"server_input", "gvinput", "bitblt">>
      /\ Tail(<<"server_input", "gvinput", "bitblt">>) = <<"gvinput", "bitblt">>
      /\ Tail(<<"gvinput", "bitblt">>) = <<"bitblt">>
      /\ Tail(<<"bitblt">>) = <<>>
  OBVIOUS
<1>2. /\ Head(<<"streamer_input", "server_input", "gvinput", "bitblt">>) = "streamer_input"
      /\ Head(<<"server_input", "gvinput", "bitblt">>) = "server_input"
      /\ Head(<<"gvinput", "bitblt">>) = "gvinput"
      /\ Head(<<"bitblt">>) = "bitblt"
  OBVIOUS
<1>3. CaptureImports # <<>>
  BY DEF CaptureImports
<1> QED
  BY <1>1, <1>2, <1>3, Zenon DEF CaptureTodo, CaptureImports

\* Every import has a function, and those the two threads patch are imports.
LEMMA ImportsTyped ==
    /\ \A i \in Imports : Function[i] \in Functions
    /\ {"get_child", "remove", "streamer_input", "server_input", "gvinput", "bitblt"} = Imports
BY DEF Imports, Functions, Function

-----------------------------------------------------------------------------

\* What a step leaves unchanged keeps its part of the invariant.
LEMMA ImportsUntouched == Patches /\ UNCHANGED importVars => Patches'
BY DEF importVars, Patches, Patching, ImportsEndInOriginals

LEMMA DevicesUntouched == Tables /\ UNCHANGED deviceVars => Tables'
BY DEF deviceVars, Tables, Exclusive, SlotOf, TableOf

\* The launcher starts, resumes and ends a server.
LEMMA ProcessesKeep ==
    ASSUME TypeOK, Injected,
           \/ Launch \/ WaitFails \/ Resume \/ Terminate \/ ServerEnds \/ LauncherKilled
    PROVE  TypeOK' /\ Injected'
<1> USE DEF TypeOK, Injected, CompatBeforeMain, importVars, deviceVars
<1>1. CASE Launch
  BY <1>1 DEF Launch
<1>2. CASE WaitFails
  BY <1>2 DEF WaitFails
<1>3. CASE Resume
  BY <1>3 DEF Resume
<1>4. CASE Terminate
  BY <1>4 DEF Terminate
<1>5. CASE ServerEnds
  BY <1>5 DEF ServerEnds
<1>6. CASE LauncherKilled
  BY <1>6 DEF LauncherKilled
<1> QED
  BY <1>1, <1>2, <1>3, <1>4, <1>5, <1>6

\* A step of a thread that patches, of either kind: an original that has been
\* kept stays kept, and a hook takes the place of an import only after that.
LEMMA PatchingKeeps ==
    ASSUME iat \in [Imports -> {"own", "hook"}], saved \in [Functions -> {"null", "own", "hook"}],
           ImportsEndInOriginals, UNCHANGED transport,
           NEW thread, NEW next, NEW end, Patching(thread),
           thread.todo # <<>> => Head(thread.todo) \in Imports,
           thread.todo # <<>> /\ Head(thread.todo) \notin {"get_child", "remove"} => transport,
           Check(thread, next, end) \/ Swap(thread, next, end)
    PROVE  /\ iat' \in [Imports -> {"own", "hook"}]
           /\ saved' \in [Functions -> {"null", "own", "hook"}]
           /\ ImportsEndInOriginals'
           /\ \A f \in Functions : saved[f] = "own" => saved'[f] = "own"
           /\ thread.todo # <<>>
           /\ \/ next = After(thread, end)
              \/ /\ next = [thread EXCEPT !.at = "swap"]
                 /\ Head(thread.todo) # "gvinput" => saved'[Function[Head(thread.todo)]] = "own"
<1> DEFINE i == Head(thread.todo)
<1>1. thread.todo # <<>> /\ i \in Imports
  BY DEF Patching, Check, Swap
<1>2. CASE Check(thread, next, end)
  <2>1. CASE next = After(thread, end) /\ UNCHANGED saved
    BY <1>1, <1>2, <2>1 DEF Check, ImportsEndInOriginals
  <2>2. CASE /\ Wanted(i)
             /\ saved' = IF i = "gvinput" THEN saved ELSE [saved EXCEPT ![Function[i]] = iat[i]]
             /\ next = [thread EXCEPT !.at = "swap"]
    <3>1. UNCHANGED iat /\ iat[i] = "own"
      BY <1>2, <2>2 DEF Check, Wanted
    <3>2. Function[i] \in Functions
      BY <1>1, ImportsTyped
    <3>3. \A f \in Functions : saved[f] = "own" => saved'[f] = "own"
      BY <2>2, <3>1
    <3>4. saved' \in [Functions -> {"null", "own", "hook"}]
      BY <2>2, <3>1
    <3>5. i # "gvinput" => saved'[Function[i]] = "own"
      BY <2>2, <3>1, <3>2
    <3>6. ImportsEndInOriginals'
      BY <3>1, <3>3, ImportsTyped DEF ImportsEndInOriginals
    <3> QED
      BY <1>1, <2>2, <3>1, <3>3, <3>4, <3>5, <3>6
  <2> QED
    BY <1>2, <2>1, <2>2 DEF Check
<1>3. CASE Swap(thread, next, end)
  <2>1. /\ UNCHANGED saved
        /\ iat' = [iat EXCEPT ![i] = "hook"]
        /\ next = After(thread, end)
        /\ i # "gvinput" => saved[Function[i]] = "own"
        /\ i \notin {"get_child", "remove"} => transport
    BY <1>1, <1>3 DEF Swap, Patching
  <2> QED
    BY <1>1, <2>1 DEF ImportsEndInOriginals
<1> QED
  BY <1>2, <1>3

\* A thread of the launcher's or of DllMain's starts, or looks for streamer.dll.
LEMMA ThreadsStart ==
    ASSUME TypeOK, Injected, Patches,
           Inject \/ HookThreadStarts \/ LoadStreamer \/ Poll \/ InitTransport
    PROVE  TypeOK' /\ Injected' /\ Patches'
<1>1. /\ CompatImports \in CompatTodo /\ CompatImports # <<>> /\ Head(CompatImports) = "get_child"
      /\ CaptureImports \in CaptureTodo /\ CaptureImports # <<>>
      /\ <<>> \in CompatTodo /\ <<>> \in CaptureTodo
  BY CompatGoesOn, CaptureGoesOn DEF CompatImports, CompatTodo, CaptureTodo
<1> USE <1>1 DEF TypeOK, Injected, CompatBeforeMain, Patches, Patching, ImportsEndInOriginals,
                 processVars, deviceVars, At
<1>2. CASE Inject
  BY <1>2 DEF Inject
<1>3. CASE HookThreadStarts
  BY <1>3 DEF HookThreadStarts
<1>4. CASE LoadStreamer
  BY <1>4 DEF LoadStreamer
<1>5. CASE Poll
  BY <1>5, AttemptsAssumption DEF Poll
<1>6. CASE InitTransport
  <2>1. CASE hooker' = [at |-> "check", todo |-> CaptureImports] /\ transport' = TRUE
    BY <1>6, <2>1 DEF InitTransport
  <2>2. CASE hooker' = At("done") /\ UNCHANGED transport
    BY <1>6, <2>2 DEF InitTransport
  <2> QED
    BY <1>6, <2>1, <2>2 DEF InitTransport
<1> QED
  BY <1>2, <1>3, <1>4, <1>5, <1>6

\* The loader patches its two imports.
LEMMA LoaderKeeps ==
    ASSUME TypeOK, Injected, Patches, LoaderStep
    PROVE  TypeOK' /\ Injected' /\ Patches'
<1>1. loader.todo # <<>> => Head(loader.todo) \in {"get_child", "remove"} /\ Tail(loader.todo) \in CompatTodo
  BY CompatGoesOn DEF TypeOK
<1>2. CASE loader.at = "check" /\ loader' = At("failed") /\ UNCHANGED <<iat, saved>>
  BY <1>2 DEF LoaderStep, TypeOK, Injected, CompatBeforeMain, Patches, Patching, ImportsEndInOriginals,
              processVars, deviceVars, At, CompatTodo
<1>3. CASE Check(loader, loader', "loaded") \/ Swap(loader, loader', "loaded")
  <2>1. UNCHANGED <<processVars, hooker, attempt, streamer, transport, deviceVars>>
    BY DEF LoaderStep
  <2>2. /\ iat' \in [Imports -> {"own", "hook"}]
        /\ saved' \in [Functions -> {"null", "own", "hook"}]
        /\ ImportsEndInOriginals'
        /\ \A f \in Functions : saved[f] = "own" => saved'[f] = "own"
        /\ loader.todo # <<>>
        /\ \/ loader' = After(loader, "loaded")
           \/ /\ loader' = [loader EXCEPT !.at = "swap"]
              /\ Head(loader.todo) # "gvinput" => saved'[Function[Head(loader.todo)]] = "own"
    BY <1>1, <1>3, <2>1, PatchingKeeps, ImportsTyped DEF TypeOK, Patches
  <2>3. /\ loader' \in [at: {"none", "check", "swap", "loaded", "failed"}, todo: CompatTodo]
        /\ loader'.at \in {"check", "swap"} <=> loader'.todo # <<>>
        /\ loader'.at = "swap" => loader'.todo = loader.todo
        /\ loader.at # "loaded"
    <3>1. loader \in [at: {"none", "check", "swap", "loaded", "failed"}, todo: CompatTodo]
      BY DEF TypeOK
    <3>2. loader.at \in {"check", "swap"} /\ <<>> \in CompatTodo
      BY <2>2 DEF Patches, Patching, CompatTodo
    <3>3. CASE loader' = After(loader, "loaded") /\ Tail(loader.todo) = <<>>
      BY <3>2, <3>3 DEF After, At
    <3>4. CASE loader' = After(loader, "loaded") /\ Tail(loader.todo) # <<>>
      BY <1>1, <2>2, <3>2, <3>4 DEF After
    <3>5. CASE loader' = [loader EXCEPT !.at = "swap"]
      BY <2>2, <3>1, <3>2, <3>5
    <3> QED
      BY <2>2, <3>3, <3>4, <3>5
  <2>4. Patching(loader)'
    BY <2>2, <2>3, <1>1 DEF TypeOK, After, At, Patching
  <2>5. Patching(hooker)'
    BY <2>1, <2>2, CaptureGoesOn, ImportsTyped DEF TypeOK, Patches, Patching
  <2>6. TypeOK'
    BY <2>1, <2>2, <2>3 DEF TypeOK, processVars, deviceVars
  <2>7. Injected'
    BY <2>1, <2>3 DEF Injected, CompatBeforeMain, processVars
  <2> QED
    BY <2>1, <2>2, <2>4, <2>5, <2>6, <2>7 DEF Patches
<1> QED
  BY <1>2, <1>3 DEF LoaderStep

\* The hook thread patches its four.
LEMMA HookerKeeps ==
    ASSUME TypeOK, Injected, Patches, HookerStep
    PROVE  TypeOK' /\ Injected' /\ Patches'
<1>1. /\ hooker.todo # <<>> =>
           /\ Head(hooker.todo) \in {"streamer_input", "server_input", "gvinput", "bitblt"}
           /\ Tail(hooker.todo) \in CaptureTodo
      /\ hooker.todo # <<>> => transport
  BY CaptureGoesOn DEF TypeOK, Patches, Patching
<1>2. UNCHANGED <<processVars, loader, attempt, streamer, transport, deviceVars>>
  BY DEF HookerStep
<1>3. /\ iat' \in [Imports -> {"own", "hook"}]
      /\ saved' \in [Functions -> {"null", "own", "hook"}]
      /\ ImportsEndInOriginals'
      /\ \A f \in Functions : saved[f] = "own" => saved'[f] = "own"
      /\ hooker.todo # <<>>
      /\ \/ hooker' = After(hooker, "done")
         \/ /\ hooker' = [hooker EXCEPT !.at = "swap"]
            /\ Head(hooker.todo) # "gvinput" => saved'[Function[Head(hooker.todo)]] = "own"
  BY <1>1, <1>2, PatchingKeeps, ImportsTyped DEF TypeOK, Patches, HookerStep
<1>4. /\ hooker' \in [at: {"none", "poll", "init", "check", "swap", "done"}, todo: CaptureTodo]
      /\ hooker'.at \in {"check", "swap"} <=> hooker'.todo # <<>>
      /\ hooker'.at = "swap" => hooker'.todo = hooker.todo
  <2>1. hooker \in [at: {"none", "poll", "init", "check", "swap", "done"}, todo: CaptureTodo]
    BY DEF TypeOK
  <2>2. <<>> \in CaptureTodo
    BY DEF CaptureTodo
  <2>3. CASE hooker' = After(hooker, "done") /\ Tail(hooker.todo) = <<>>
    BY <2>2, <2>3 DEF After, At
  <2>4. CASE hooker' = After(hooker, "done") /\ Tail(hooker.todo) # <<>>
    BY <1>1, <1>3, <2>4 DEF After
  <2>5. CASE hooker' = [hooker EXCEPT !.at = "swap"]
    BY <1>3, <2>1, <2>5
  <2> QED
    BY <1>3, <2>3, <2>4, <2>5
<1>5. Patching(hooker)'
  BY <1>1, <1>3, <1>4 DEF TypeOK, After, At, Patching
<1>6. Patching(loader)'
  BY <1>2, <1>3, CompatGoesOn, ImportsTyped DEF TypeOK, Patches, Patching
<1>7. TypeOK'
  BY <1>2, <1>3, <1>4 DEF TypeOK, processVars, deviceVars
<1>8. Injected'
  BY <1>2 DEF Injected, CompatBeforeMain, processVars
<1> QED
  BY <1>1, <1>2, <1>3, <1>5, <1>6, <1>7, <1>8 DEF Patches

-----------------------------------------------------------------------------

\* The slots as a sequence.
LEMMA RuntimesTyped ==
    /\ TypeOK =>
         /\ Len(runtimes) \in 0..Slots /\ DOMAIN runtimes = 1..Len(runtimes)
         /\ runtimes \in [1..Len(runtimes) -> Devices \cup {None}]
    /\ \A n \in 0..Slots : \A f \in [1..n -> Devices \cup {None}] :
         /\ f \in UNION {[1..k -> Devices \cup {None}] : k \in 0..Slots}
         /\ Len(f) = n
<1>1. \A n \in 0..Slots : \A f \in [1..n -> Devices \cup {None}] :
         /\ f \in UNION {[1..k -> Devices \cup {None}] : k \in 0..Slots}
         /\ Len(f) = n
  BY SlotsAssumption
<1> QED
  BY <1>1, SlotsAssumption DEF TypeOK

\* A thread that goes from one place to the next, with its device and its slot.
LEMMA GotoTyped ==
    ASSUME TypeOK, NEW t \in Threads, NEW from,
           NEW to \in {"lock", "find", "fill", "publish", "patch", "leave"}, Goto(t, from, to)
    PROVE  /\ installing' \in [Threads -> [at: {"idle", "lock", "find", "fill", "publish", "patch", "leave"},
                                           device: Devices \cup {None}, slot: 0..Slots]]
           /\ \A u \in Threads :
                /\ installing'[u].device = installing[u].device
                /\ installing'[u].slot = installing[u].slot
                /\ installing'[u].at = IF u = t THEN to ELSE installing[u].at
           /\ installing[t].at = from
           /\ UNCHANGED <<processVars, importVars, video>>
BY DEF TypeOK, Goto

\* A table stays right when neither it nor its slot changes and no thread turns back.
LEMMA TableStays ==
    ASSUME NEW d \in Devices, TableOf(d), UNCHANGED video, returned \subseteq returned', vtbl'[d] = vtbl[d],
           \A k \in 1..Len(runtimes) : k \in 1..Len(runtimes') /\ (runtimes[k] = d => runtimes'[k] = d),
           \A t \in Threads : installing[t].device = d =>
             /\ installing[t].at = "patch" => installing'[t].device = d /\ installing'[t].at = "patch"
             /\ installing[t].at = "leave" =>
                  d \in returned' \/ (installing'[t].device = d /\ installing'[t].at = "leave")
    PROVE  TableOf(d)'
<1>1. vtbl'[d]["device"] # 0 =>
        vtbl'[d]["device"] \in 1..Len(runtimes') /\ runtimes'[vtbl'[d]["device"]] = d
  BY DEF TableOf
<1>2. vtbl'[d]["device"] # 0 \/ vtbl'[d]["video"] # 0 =>
        \/ d \in returned'
        \/ \E t \in Threads : installing'[t].device = d /\ installing'[t].at \in {"patch", "leave"}
  BY DEF TableOf
<1>3. \/ vtbl'[d]["video"] = IF d \in video' THEN vtbl'[d]["device"] ELSE 0
      \/ \E t \in Threads : installing'[t].device = d /\ installing'[t].at = "patch"
  BY DEF TableOf
<1> QED
  BY <1>1, <1>2, <1>3 DEF TableOf

LEMMA CreateKeeps ==
    ASSUME TypeOK, Tables, NEW t \in Threads, NEW d \in Devices, Create(t, d)
    PROVE  TypeOK' /\ Tables'
<1>1. /\ d \notin returned /\ \A u \in Threads : installing[u].device # d
      /\ installing[t].at = "idle"
      /\ UNCHANGED <<processVars, importVars, video, runtime_lock, runtimes, vtbl>>
  BY DEF Create, Creating
<1>2. CASE installing' = [installing EXCEPT ![t] = [at |-> "lock", device |-> d, slot |-> 0]] /\ UNCHANGED returned
  <2>1. TypeOK'
    BY <1>1, <1>2, SlotsAssumption DEF TypeOK, processVars, importVars
  <2>2. Exclusive'
    BY <1>1, <1>2 DEF TypeOK, Tables, Exclusive
  <2>3. \A u \in Threads : SlotOf(u)'
    BY <1>1, <1>2 DEF TypeOK, Tables, SlotOf
  <2>4. \A u \in Threads : u # t => installing'[u] = installing[u]
    BY <1>2 DEF TypeOK
  <2>5. \A e \in Devices : TableOf(e)'
    BY <1>1, <1>2, <2>4, TableStays DEF Tables
  <2> QED
    BY <2>1, <2>2, <2>3, <2>5 DEF Tables
<1>3. CASE returned' = returned \cup {d} /\ UNCHANGED installing
  <2>1. TypeOK'
    BY <1>1, <1>3 DEF TypeOK, processVars, importVars
  <2>2. Exclusive'
    BY <1>1, <1>3 DEF TypeOK, Tables, Exclusive
  <2>3. \A u \in Threads : SlotOf(u)'
    BY <1>1, <1>3 DEF TypeOK, Tables, SlotOf
  <2>5. \A e \in Devices : TableOf(e)'
    BY <1>1, <1>3, TableStays DEF Tables
  <2> QED
    BY <2>1, <2>2, <2>3, <2>5 DEF Tables
<1> QED
  BY <1>2, <1>3 DEF Create

LEMMA TakeLockKeeps ==
    ASSUME TypeOK, Tables, NEW t \in Threads, TakeLock(t)
    PROVE  TypeOK' /\ Tables'
<1>1. /\ Goto(t, "lock", "find") /\ runtime_lock = None /\ runtime_lock' = t
      /\ UNCHANGED <<returned, runtimes, vtbl>>
  BY DEF TakeLock
<1>2. /\ \A u \in Threads :
           /\ installing'[u].device = installing[u].device
           /\ installing'[u].slot = installing[u].slot
           /\ installing'[u].at = IF u = t THEN "find" ELSE installing[u].at
      /\ installing[t].at = "lock"
      /\ UNCHANGED <<processVars, importVars, video>>
  BY <1>1, GotoTyped
<1>3. TypeOK'
  BY <1>1, GotoTyped DEF TypeOK, processVars, importVars
<1>4. Exclusive'
  BY <1>1, <1>2, NoneAssumption DEF Tables, Exclusive
<1>5. \A u \in Threads : SlotOf(u)'
  BY <1>1, <1>2 DEF Tables, SlotOf
<1>6. \A d \in Devices : TableOf(d)'
  BY <1>1, <1>2, TableStays DEF Tables
<1> QED
  BY <1>3, <1>4, <1>5, <1>6 DEF Tables

LEMMA NoSlotKeeps ==
    ASSUME TypeOK, Tables, NEW t \in Threads, NoSlot(t)
    PROVE  TypeOK' /\ Tables'
<1>1. Goto(t, "find", "leave") /\ UNCHANGED <<returned, runtime_lock, runtimes, vtbl>>
  BY DEF NoSlot
<1>2. /\ \A u \in Threads :
           /\ installing'[u].device = installing[u].device
           /\ installing'[u].slot = installing[u].slot
           /\ installing'[u].at = IF u = t THEN "leave" ELSE installing[u].at
      /\ installing[t].at = "find"
      /\ UNCHANGED <<processVars, importVars, video>>
  BY <1>1, GotoTyped
<1>3. TypeOK'
  BY <1>1, GotoTyped DEF TypeOK, processVars, importVars
<1>4. Exclusive'
  BY <1>1, <1>2 DEF Tables, Exclusive
<1>5. \A u \in Threads : SlotOf(u)'
  BY <1>1, <1>2 DEF Tables, SlotOf
<1>6. \A d \in Devices : TableOf(d)'
  BY <1>1, <1>2, TableStays DEF Tables
<1> QED
  BY <1>3, <1>4, <1>5, <1>6 DEF Tables

LEMMA FindSlotKeeps ==
    ASSUME TypeOK, Tables, NEW t \in Threads, FindSlot(t)
    PROVE  TypeOK' /\ Tables'
<1>1. /\ installing[t].at = "find" /\ Len(runtimes) < Slots
      /\ installing' = [installing EXCEPT ![t].at = "fill", ![t].slot = Len(runtimes) + 1]
      /\ UNCHANGED <<processVars, importVars, returned, video, runtime_lock, runtimes, vtbl>>
  BY DEF FindSlot
<1>2. Len(runtimes) + 1 \in 0..Slots
  BY <1>1, RuntimesTyped, SlotsAssumption
<1>3. TypeOK'
  <2>1. installing' \in [Threads -> [at: {"idle", "lock", "find", "fill", "publish", "patch", "leave"},
                                     device: Devices \cup {None}, slot: 0..Slots]]
    <3> DEFINE new == [installing[t] EXCEPT !.at = "fill", !.slot = Len(runtimes) + 1]
    <3>1. new \in [at: {"idle", "lock", "find", "fill", "publish", "patch", "leave"},
                   device: Devices \cup {None}, slot: 0..Slots]
      BY <1>2 DEF TypeOK
    <3>2. installing' = [installing EXCEPT ![t] = new]
      BY <1>1
    <3> QED
      BY <3>1, <3>2 DEF TypeOK
  <2> QED
    BY <1>1, <2>1 DEF TypeOK, processVars, importVars
<1>4. \A u \in Threads :
        /\ installing'[u].device = installing[u].device
        /\ installing'[u].at = IF u = t THEN "fill" ELSE installing[u].at
        /\ installing'[u].slot = IF u = t THEN Len(runtimes) + 1 ELSE installing[u].slot
  BY <1>1 DEF TypeOK
<1>5. installing[t].at = "find" /\ UNCHANGED <<returned, video, runtime_lock, runtimes, vtbl>>
  BY <1>1
<1>6. Exclusive'
  BY <1>4, <1>5 DEF Tables, Exclusive
<1>7. \A u \in Threads : SlotOf(u)'
  BY <1>4, <1>5 DEF Tables, SlotOf
<1>8. \A d \in Devices : TableOf(d)'
  BY <1>4, <1>5, TableStays DEF Tables
<1> QED
  BY <1>3, <1>6, <1>7, <1>8 DEF Tables

\* The slot that is counted now is the next one: none that a device is in changes.
LEMMA CountSlotKeeps ==
    ASSUME TypeOK, Tables, NEW t \in Threads, CountSlot(t)
    PROVE  TypeOK' /\ Tables'
<1> DEFINE s == installing[t].slot
<1>1. /\ Goto(t, "fill", "publish") /\ UNCHANGED <<returned, runtime_lock, vtbl>>
      /\ runtimes' = [k \in 1..s |-> IF k = s THEN None ELSE runtimes[k]]
  BY DEF CountSlot
<1>2. s = Len(runtimes) + 1 /\ s \in 1..Slots
  BY <1>1, GotoTyped, RuntimesTyped, SlotsAssumption DEF TypeOK, Tables, SlotOf
<1>3. runtimes' \in [1..s -> Devices \cup {None}]
  BY <1>1, <1>2, RuntimesTyped
<1>4. /\ runtimes' \in UNION {[1..k -> Devices \cup {None}] : k \in 0..Slots}
      /\ Len(runtimes') = s
  BY <1>2, <1>3, RuntimesTyped, SlotsAssumption
<1>5. /\ runtimes'[s] = None
      /\ \A k \in 1..Len(runtimes) : k \in 1..Len(runtimes') /\ runtimes'[k] = runtimes[k]
  BY <1>1, <1>2, <1>4, RuntimesTyped, SlotsAssumption
<1>6. TypeOK'
  BY <1>1, <1>4, GotoTyped DEF TypeOK, processVars, importVars
<1>7. Exclusive'
  BY <1>1, GotoTyped DEF Tables, Exclusive
<1>8. \A u \in Threads \ {t} : installing[u].at \in {"idle", "lock"}
  BY <1>1, GotoTyped DEF Tables, Exclusive
<1>9. \A u \in Threads : SlotOf(u)'
  <2>1. SlotOf(t)'
    BY <1>1, <1>2, <1>4, <1>5, GotoTyped DEF SlotOf
  <2>2. \A u \in Threads \ {t} : SlotOf(u)'
    BY <1>1, <1>8, GotoTyped DEF SlotOf
  <2> QED
    BY <2>1, <2>2
<1>10. \A d \in Devices : TableOf(d)'
  <2>1. \A u \in Threads :
          /\ installing'[u].device = installing[u].device
          /\ installing[u].at \in {"patch", "leave"} => installing'[u].at = installing[u].at
    BY <1>1, GotoTyped
  <2> QED
    BY <1>1, <1>5, <2>1, GotoTyped, TableStays DEF Tables
<1> QED
  BY <1>6, <1>7, <1>9, <1>10 DEF Tables

LEMMA PublishKeeps ==
    ASSUME TypeOK, Tables, NEW t \in Threads, Publish(t)
    PROVE  TypeOK' /\ Tables'
<1> DEFINE s == installing[t].slot
           d == installing[t].device
<1>1. /\ Goto(t, "publish", "patch") /\ UNCHANGED <<returned, runtime_lock>>
      /\ runtimes' = [runtimes EXCEPT ![s] = d]
      /\ vtbl' = [vtbl EXCEPT ![d]["device"] = s]
  BY DEF Publish
<1>2. /\ s \in 1..Len(runtimes) /\ runtimes[s] = None
      /\ d \in Devices /\ d \notin returned
  BY <1>1, GotoTyped DEF Tables, SlotOf, Exclusive
<1>3. /\ runtimes' \in [1..Len(runtimes) -> Devices \cup {None}]
      /\ runtimes'[s] = d
      /\ \A k \in 1..Len(runtimes) \ {s} : runtimes'[k] = runtimes[k]
  BY <1>1, <1>2, RuntimesTyped
<1>4. /\ runtimes' \in UNION {[1..k -> Devices \cup {None}] : k \in 0..Slots}
      /\ Len(runtimes') = Len(runtimes)
  BY <1>3, RuntimesTyped
<1>5. /\ vtbl' \in [Devices -> [Interfaces -> 0..Slots]]
      /\ vtbl'[d]["device"] = s /\ vtbl'[d]["video"] = vtbl[d]["video"]
      /\ \A e \in Devices \ {d} : vtbl'[e] = vtbl[e]
  BY <1>1, <1>2 DEF TypeOK, Interfaces
<1>6. TypeOK'
  BY <1>1, <1>4, <1>5, GotoTyped DEF TypeOK, processVars, importVars
<1>7. Exclusive'
  BY <1>1, GotoTyped DEF Tables, Exclusive
<1>8. /\ \A u \in Threads \ {t} : installing[u].at \in {"idle", "lock"}
      /\ \A u \in Threads : installing[u].device = d /\ installing[u].at # "idle" => u = t
  BY <1>1, GotoTyped DEF Tables, Exclusive
<1>9. vtbl[d]["device"] = 0 /\ vtbl[d]["video"] = 0
  BY <1>1, <1>2, <1>8, GotoTyped DEF Tables, TableOf
<1>10. \A u \in Threads : SlotOf(u)'
  <2>1. SlotOf(t)'
    BY <1>1, <1>2, <1>5, <1>9, GotoTyped DEF SlotOf
  <2>2. \A u \in Threads \ {t} : SlotOf(u)'
    BY <1>1, <1>8, GotoTyped DEF SlotOf
  <2> QED
    BY <2>1, <2>2
<1>11. TableOf(d)'
  BY <1>1, <1>2, <1>3, <1>4, <1>5, GotoTyped DEF TableOf
<1>12. \A e \in Devices \ {d} : TableOf(e)'
  <2> SUFFICES ASSUME NEW e \in Devices \ {d}
               PROVE  TableOf(e)'
    OBVIOUS
  <2>1. TableOf(e) /\ vtbl'[e] = vtbl[e] /\ e # None
    BY <1>5, NoneAssumption DEF Tables
  <2>2. vtbl[e]["device"] # s
    BY <1>2, <2>1 DEF TableOf
  <2>3. \A u \in Threads : installing[u].device = e => u # t
    OBVIOUS
  <2> QED
    BY <1>1, <1>3, <1>4, <2>1, <2>2, <2>3, GotoTyped DEF TableOf
<1> QED
  BY <1>1, <1>6, <1>7, <1>10, <1>11, <1>12, GotoTyped DEF Tables

LEMMA PatchVideoKeeps ==
    ASSUME TypeOK, Tables, NEW t \in Threads, PatchVideo(t)
    PROVE  TypeOK' /\ Tables'
<1> DEFINE s == installing[t].slot
           d == installing[t].device
<1>1. /\ Goto(t, "patch", "leave") /\ UNCHANGED <<returned, runtime_lock, runtimes>>
      /\ vtbl' = IF d \in video THEN [vtbl EXCEPT ![d]["video"] = s] ELSE vtbl
  BY DEF PatchVideo
<1>2. /\ d \in Devices /\ s \in 0..Slots
      /\ vtbl[d]["device"] = s /\ vtbl[d]["video"] = 0
  BY <1>1, GotoTyped DEF TypeOK, Tables, SlotOf, Exclusive
<1>3. /\ vtbl' \in [Devices -> [Interfaces -> 0..Slots]]
      /\ \A e \in Devices : vtbl'[e]["device"] = vtbl[e]["device"]
      /\ vtbl'[d]["video"] = IF d \in video THEN s ELSE 0
      /\ \A e \in Devices \ {d} : vtbl'[e] = vtbl[e]
  BY <1>1, <1>2 DEF TypeOK, Interfaces
<1>4. TypeOK'
  BY <1>1, <1>3, GotoTyped DEF TypeOK, processVars, importVars
<1>5. Exclusive'
  BY <1>1, GotoTyped DEF Tables, Exclusive
<1>6. \A u \in Threads \ {t} : installing[u].at \in {"idle", "lock"}
  BY <1>1, GotoTyped DEF Tables, Exclusive
<1>7. \A u \in Threads : SlotOf(u)'
  BY <1>1, <1>6, GotoTyped DEF SlotOf
<1>8. TableOf(d)'
  BY <1>1, <1>2, <1>3, GotoTyped DEF Tables, TableOf
<1>9. \A e \in Devices \ {d} : TableOf(e)'
  BY <1>1, <1>3, GotoTyped, TableStays DEF Tables
<1> QED
  BY <1>1, <1>4, <1>5, <1>7, <1>8, <1>9, GotoTyped DEF Tables

LEMMA LeaveLockKeeps ==
    ASSUME TypeOK, Tables, NEW t \in Threads, LeaveLock(t)
    PROVE  TypeOK' /\ Tables'
<1> DEFINE d == installing[t].device
<1>1. /\ installing[t].at = "leave" /\ runtime_lock' = None
      /\ installing' = [installing EXCEPT ![t] = Idle]
      /\ returned' = returned \cup {d}
      /\ UNCHANGED <<processVars, importVars, video, runtimes, vtbl>>
  BY DEF LeaveLock
<1>2. d \in Devices /\ runtime_lock = t
  BY <1>1 DEF Tables, Exclusive
<1>3. /\ installing'[t] = Idle /\ installing'[t].at = "idle"
      /\ \A u \in Threads \ {t} : installing'[u] = installing[u]
  BY <1>1 DEF TypeOK, Idle
<1>4. TypeOK'
  BY <1>1, <1>2, SlotsAssumption DEF TypeOK, Idle, processVars, importVars
<1>5. \A u \in Threads \ {t} : installing[u].at \in {"idle", "lock"} /\ (installing[u].at # "idle" => installing[u].device # d)
  BY <1>1, <1>2 DEF Tables, Exclusive
<1>6. Exclusive'
  BY <1>1, <1>3, <1>5, NoneAssumption DEF Tables, Exclusive
<1>7. \A u \in Threads : SlotOf(u)'
  BY <1>1, <1>3 DEF Tables, SlotOf
<1>8. \A e \in Devices : TableOf(e)'
  BY <1>1, <1>2, <1>3 DEF Tables, TableOf
<1> QED
  BY <1>4, <1>6, <1>7, <1>8 DEF Tables

-----------------------------------------------------------------------------

LEMMA DevicesKeep ==
    ASSUME TypeOK, Tables, NEW t \in Threads,
           \/ \E d \in Devices : Create(t, d)
           \/ TakeLock(t) \/ NoSlot(t) \/ FindSlot(t) \/ CountSlot(t) \/ Publish(t)
           \/ PatchVideo(t) \/ LeaveLock(t)
    PROVE  TypeOK' /\ Tables' /\ UNCHANGED <<processVars, importVars>>
<1>1. TypeOK' /\ Tables'
  BY CreateKeeps, TakeLockKeeps, NoSlotKeeps, FindSlotKeeps, CountSlotKeeps, PublishKeeps,
     PatchVideoKeeps, LeaveLockKeeps
<1>2. UNCHANGED <<processVars, importVars>>
  BY DEF Create, TakeLock, NoSlot, FindSlot, CountSlot, Publish, PatchVideo, LeaveLock, Goto
<1> QED
  BY <1>1, <1>2

\* The inductive invariant: how far the launcher is, what each thread that patches
\* has kept, and which slot and table each device has at each step of its installation.
THEOREM Invariance == Spec => []IInv
<1>1. Init => IInv
  <2> SUFFICES ASSUME Init PROVE IInv
    OBVIOUS
  <2>1. TypeOK
    <3>1. <<>> \in [1..0 -> Devices \cup {None}]
      OBVIOUS
    <3>2. \A f \in {<<>>} : f \in UNION {[1..n -> Devices \cup {None}] : n \in 0..Slots}
      BY <3>1, SlotsAssumption
    <3>3. runtimes \in UNION {[1..n -> Devices \cup {None}] : n \in 0..Slots}
      BY <3>2 DEF Init
    <3>4. /\ loader \in [at: {"none", "check", "swap", "loaded", "failed"}, todo: CompatTodo]
          /\ hooker \in [at: {"none", "poll", "init", "check", "swap", "done"}, todo: CaptureTodo]
      BY DEF Init, At, CompatTodo, CaptureTodo
    <3>5. installing \in [Threads -> [at: {"idle", "lock", "find", "fill", "publish", "patch", "leave"},
                                     device: Devices \cup {None}, slot: 0..Slots]]
      BY SlotsAssumption DEF Init, Idle
    <3>6. vtbl \in [Devices -> [Interfaces -> 0..Slots]]
      BY SlotsAssumption DEF Init
    <3>7. /\ iat \in [Imports -> {"own", "hook"}]
          /\ saved \in [Functions -> {"null", "own", "hook"}]
      BY DEF Init
    <3>8. /\ attempt \in 0..Attempts
          /\ returned \subseteq Devices /\ video \subseteq Devices
      BY AttemptsAssumption DEF Init
    <3>9. /\ launcher \in {"start", "inject", "wait", "up", "failed", "done", "dead"}
          /\ server \in {"none", "suspended", "running", "ended"}
          /\ streamer \in BOOLEAN /\ transport \in BOOLEAN
          /\ runtime_lock \in Threads \cup {None}
      BY DEF Init
    <3> QED
      BY <3>3, <3>4, <3>5, <3>6, <3>7, <3>8, <3>9 DEF TypeOK
  <2>2. Injected
    BY DEF Init, Injected, CompatBeforeMain
  <2>3. Patches
    BY DEF Init, Patches, Patching, ImportsEndInOriginals, At
  <2>4. Tables
    BY NoneAssumption DEF Init, Tables, Exclusive, SlotOf, TableOf, Idle, Interfaces
  <2> QED
    BY <2>1, <2>2, <2>3, <2>4 DEF IInv
<1>2. IInv /\ [Next]_vars => IInv'
  <2> SUFFICES ASSUME IInv, [Next]_vars PROVE IInv'
    OBVIOUS
  <2>1. CASE Launch \/ WaitFails \/ Resume \/ Terminate \/ ServerEnds \/ LauncherKilled
    <3>1. UNCHANGED <<importVars, deviceVars>>
      BY <2>1 DEF Launch, WaitFails, Resume, Terminate, ServerEnds, LauncherKilled
    <3> QED
      BY <2>1, <3>1, ProcessesKeep, ImportsUntouched, DevicesUntouched DEF IInv
  <2>2. CASE Inject \/ HookThreadStarts \/ LoadStreamer \/ Poll \/ InitTransport
    <3>1. UNCHANGED deviceVars
      BY <2>2 DEF Inject, HookThreadStarts, LoadStreamer, Poll, InitTransport
    <3> QED
      BY <2>2, <3>1, ThreadsStart, DevicesUntouched DEF IInv
  <2>3. CASE LoaderStep
    <3>1. UNCHANGED deviceVars
      BY <2>3 DEF LoaderStep
    <3> QED
      BY <2>3, <3>1, LoaderKeeps, DevicesUntouched DEF IInv
  <2>4. CASE HookerStep
    <3>1. UNCHANGED deviceVars
      BY <2>4 DEF HookerStep
    <3> QED
      BY <2>4, <3>1, HookerKeeps, DevicesUntouched DEF IInv
  <2>5. ASSUME NEW t \in Threads,
               \/ \E d \in Devices : Create(t, d)
               \/ TakeLock(t) \/ NoSlot(t) \/ FindSlot(t) \/ CountSlot(t) \/ Publish(t)
               \/ PatchVideo(t) \/ LeaveLock(t)
        PROVE  IInv'
    <3>1. TypeOK' /\ Tables' /\ UNCHANGED <<processVars, importVars>>
      BY <2>5, DevicesKeep DEF IInv
    <3>2. Injected'
      BY <3>1 DEF IInv, Injected, CompatBeforeMain, processVars, importVars
    <3> QED
      BY <3>1, <3>2, ImportsUntouched DEF IInv
  <2>6. CASE UNCHANGED vars
    <3>1. TypeOK' /\ Injected'
      BY <2>6 DEF IInv, TypeOK, Injected, CompatBeforeMain, vars, processVars, importVars, deviceVars
    <3> QED
      BY <2>6, <3>1, ImportsUntouched, DevicesUntouched DEF IInv, vars
  <2> QED
    BY <2>1, <2>2, <2>3, <2>4, <2>5, <2>6 DEF Next
<1> QED
  BY <1>1, <1>2, PTL DEF Spec

\* Launcher, hook thread and installations keep their types, for any number of
\* threads, devices, slots and looks for streamer.dll (server_launcher.c:36-101,
\* wayland_capture_hook.c:390-422, dxva_bridge.c:843-916).
THEOREM TypeCorrect == Spec => []TypeOK
<1>1. IInv => TypeOK
  BY DEF IInv
<1> QED
  BY <1>1, Invariance, PTL

\* A hook that can be called finds what it replaced (server_launcher.c:72-94,
\* wayland_capture_hook.c:300-308, 394-408, dxva_bridge.c:77-91, 843-913).
THEOREM OriginalsFound == Spec => []HooksEndInOriginals
<1>1. IInv => HooksEndInOriginals
  <2> SUFFICES ASSUME IInv PROVE TablesEndInDxvk
    BY DEF IInv, HooksEndInOriginals, Injected, Patches
  <2> SUFFICES ASSUME NEW d \in returned, vtbl[d]["device"] # 0
               PROVE  /\ Runtime(d) = {d}
                      /\ vtbl[d]["video"] = IF d \in video THEN vtbl[d]["device"] ELSE 0
    BY DEF TablesEndInDxvk
  <2>1. d \in Devices /\ TableOf(d)
    BY DEF IInv, TypeOK, Tables
  <2>2. \A t \in Threads : ~(installing[t].device = d /\ installing[t].at = "patch")
    BY DEF IInv, Tables, Exclusive
  <2>3. vtbl[d]["device"] \in DOMAIN runtimes /\ runtimes[vtbl[d]["device"]] = d
    BY <2>1, RuntimesTyped DEF IInv, TableOf
  <2> QED
    BY <2>1, <2>2, <2>3 DEF TableOf, Runtime
<1> QED
  BY <1>1, Invariance, PTL

=============================================================================
