---------------------------- MODULE InputBridge ----------------------------
(***************************************************************************)
(* InputBridge of src/wayland_capture_helper.cpp: send applies a chunk of  *)
(* input events to the desktop, through the devices that KWin's EIS offers *)
(* at the moment or, when the three that every desktop needs are not all   *)
(* there, through a keyboard and a mouse of its own on /dev/uinput.        *)
(*                                                                         *)
(* Only one session is inside send at a time (mutex_; InputLink has the    *)
(* sessions), but the compositor adds, pauses and removes devices at any   *)
(* moment, and the bridge learns of it from a queue of events that it      *)
(* reads in dispatch_eis, before each chunk and before each event.         *)
(*                                                                         *)
(* An event is the sequence of what it injects, each part named after the  *)
(* capability it needs; a key that maps to no code is "unmapped".  Both    *)
(* uinput devices are opened or closed together (ensure_uinput), so one    *)
(* variable stands for the two descriptors.  An event of no known type     *)
(* never comes from the hook, and one of no parts does nothing.            *)
(***************************************************************************)
EXTENDS Naturals, Sequences, FiniteSets

CONSTANTS
    Devices,            \* devices the compositor may offer
    NoDevice,
    Offers,             \* the capabilities of a device
    Chunks,             \* chunks of events that sessions pass
    MaxPending          \* bound: events of the compositor on their way

Capabilities == {"pointer", "absolute", "button", "scroll", "keyboard"}

Needed == {"pointer", "button", "keyboard"}

ASSUME DevicesAssumption ==
    /\ NoDevice \notin Devices
    /\ Offers \in [Devices -> SUBSET Capabilities]
ASSUME ChunksAssumption ==
    Chunks \subseteq Seq(Seq(Capabilities \cup {"unmapped"}) \ {<<>>}) \ {<<>>}
ASSUME PendingAssumption == MaxPending \in Nat

VARIABLES
    pc,                 \* what send does next
    backend,            \* the backend of the chunk
    chunk,              \* the events of the chunk, also after send has returned
    accepted,
    eis,                \* eis_ is a context
    slots,              \* pointer_device_, absolute_device_, ..., keyboard_device_
    cooling,            \* the time is before eis_retry_after_
    uinput,             \* keyboard_fd_ and mouse_fd_ are open
    \* the compositor's end of the context
    device,             \* of a device: "absent", "resumed", "paused", "removed"
    connected,
    events,             \* what it has said and the bridge has not read
    \* history
    injected            \* the parts of the chunk's events that reached a device

send       == <<pc, backend, chunk, accepted>>
bridge     == <<eis, slots, cooling, uinput>>
compositor == <<device, connected, events>>
vars       == <<send, bridge, compositor, injected>>

-----------------------------------------------------------------------------

Events == [type : {"resumed", "paused", "removed"}, device : Devices] \cup
          [type : {"disconnect"}]

\* The devices a slot may hold: those with its capability.
TypeOK ==
    /\ pc \in {"idle", "ensure", "setup", "uinput", "event"}
    /\ backend \in {"none", "eis", "uinput"}
    /\ chunk \in Chunks \cup {<<>>}
    /\ accepted \in 0..Len(chunk)
    /\ eis \in BOOLEAN
    /\ slots \in [Capabilities -> Devices \cup {NoDevice}]
    /\ \A c \in Capabilities : slots[c] # NoDevice => c \in Offers[slots[c]]
    /\ cooling \in BOOLEAN
    /\ uinput \in BOOLEAN
    /\ device \in [Devices -> {"absent", "resumed", "paused", "removed"}]
    /\ connected \in BOOLEAN
    /\ events \in Seq(Events)
    /\ injected \in Seq([event : Nat, part : Nat])

NoSlots == [c \in Capabilities |-> NoDevice]
NoDevices == [d \in Devices |-> "absent"]

Init ==
    /\ pc = "idle"
    /\ backend = "none"
    /\ chunk = <<>>
    /\ accepted = 0
    /\ eis = FALSE
    /\ slots = NoSlots
    /\ cooling = FALSE
    /\ uinput = FALSE
    /\ device = NoDevices
    /\ connected = FALSE
    /\ events = <<>>
    /\ injected = <<>>

-----------------------------------------------------------------------------
(* Choosing the backend: ensure_eis and ensure_uinput *)

\* ensure_eis: a context is looked at again, without one KWin is asked every 5 s.
Send(new) ==
    /\ pc = "idle"
    /\ chunk' = new
    /\ accepted' = 0
    /\ injected' = <<>>
    /\ backend' = "none"
    /\ \/ /\ eis
          /\ pc' = "ensure"
          /\ UNCHANGED <<eis, cooling, device, connected, events>>
       \/ /\ ~eis /\ cooling
          /\ pc' = "uinput"
          /\ UNCHANGED <<eis, cooling, device, connected, events>>
       \/ /\ ~eis /\ ~cooling
          /\ cooling' = TRUE
          /\ \/ /\ pc' = "uinput"
                /\ UNCHANGED <<eis, device, connected, events>>
             \/ /\ pc' = "setup"
                /\ eis' = TRUE
                /\ device' = NoDevices
                /\ connected' = TRUE
                /\ events' = <<>>
    /\ UNCHANGED <<slots, uinput>>

\* reset_eis: the compositor forgets the context and all it said in it.
ResetEis ==
    /\ eis' = FALSE
    /\ slots' = NoSlots
    /\ device' = NoDevices
    /\ connected' = FALSE
    /\ events' = <<>>

Ready == \A c \in Needed : slots[c] # NoDevice

\* The context of an earlier chunk, after dispatch_eis: it may be gone, or not be enough.
Ensured ==
    /\ pc = "ensure"
    /\ \/ /\ Ready
          /\ backend' = "eis"
          /\ pc' = "event"
       \/ /\ ~Ready
          /\ pc' = "uinput"
          /\ UNCHANGED backend
    /\ UNCHANGED <<chunk, accepted, bridge, compositor, injected>>

SetupReady ==
    /\ pc = "setup"
    /\ Ready
    /\ cooling' = FALSE
    /\ backend' = "eis"
    /\ pc' = "event"
    /\ UNCHANGED <<chunk, accepted, eis, slots, uinput, compositor, injected>>

\* The context could not be set up, was disconnected, or 40 dispatches did not bring the devices.
SetupFails ==
    /\ pc = "setup"
    /\ ~Ready
    /\ ResetEis
    /\ pc' = "uinput"
    /\ UNCHANGED <<backend, chunk, accepted, cooling, uinput, injected>>

\* Without both devices send returns 0.
EnsureUinput ==
    /\ pc = "uinput"
    /\ \/ /\ uinput' = TRUE
          /\ backend' = "uinput"
          /\ pc' = "event"
       \/ /\ ~uinput
          /\ pc' = "idle"
          /\ UNCHANGED <<uinput, backend>>
    /\ UNCHANGED <<chunk, accepted, eis, slots, cooling, compositor, injected>>

\* 5 s have passed.
CoolDown ==
    /\ cooling
    /\ cooling' = FALSE
    /\ UNCHANGED <<send, eis, slots, uinput, compositor, injected>>

-----------------------------------------------------------------------------
(* dispatch_eis *)

\* Mutant: what a device can do is not asked.
BugFill(d) == slots' = [c \in Capabilities |-> IF slots[c] = NoDevice THEN d ELSE slots[c]]

\* set_eis_device: the first device with a capability fills its slot.
Fill(d) ==
    slots' = [c \in Capabilities |->
                 IF slots[c] = NoDevice /\ c \in Offers[d] THEN d ELSE slots[c]]

\* Mutant: only the slots that ensure_eis asks for are emptied.
BugClear(d) ==
    slots' = [c \in Capabilities |->
                 IF slots[c] = d /\ c \in Needed THEN NoDevice ELSE slots[c]]

\* clear_eis_device
Clear(d) == slots' = [c \in Capabilities |-> IF slots[c] = d THEN NoDevice ELSE slots[c]]

\* One event of the compositor; a disconnect also lets the next chunk try again at once.
Dispatch ==
    /\ \/ pc \in {"ensure", "setup"}
       \/ pc = "event" /\ backend = "eis"
    /\ eis
    /\ events # <<>>
    /\ LET event == Head(events)
       IN \/ /\ event.type = "resumed"
             /\ Fill(event.device)
             /\ events' = Tail(events)
             /\ UNCHANGED <<eis, cooling, device, connected>>
          \/ /\ event.type \in {"paused", "removed"}
             /\ Clear(event.device)
             /\ events' = Tail(events)
             /\ UNCHANGED <<eis, cooling, device, connected>>
          \/ /\ event.type = "disconnect"
             /\ ResetEis
             /\ cooling' = FALSE
    /\ UNCHANGED <<send, uinput, injected>>

-----------------------------------------------------------------------------
(* The events of the chunk *)

Parts == chunk[accepted + 1]

Inject(ps) ==
    injected' = injected \o [i \in DOMAIN ps |-> [event |-> accepted + 1, part |-> ps[i]]]

Accept ==
    /\ accepted' = accepted + 1
    /\ pc' = IF accepted + 1 = Len(chunk) THEN "idle" ELSE "event"

\* The loop breaks: send returns what was accepted before.
Stop ==
    /\ pc' = "idle"
    /\ UNCHANGED accepted

Injectable(part) == part \in Capabilities /\ slots[part] # NoDevice

FirstParts(n) == [i \in 1..n |-> i]

\* Mutant: an event of which something was injected is accepted.
BugSendEis ==
    /\ pc = "event"
    /\ backend = "eis"
    /\ \E n \in 0..Len(Parts) :
          /\ \A i \in 1..n : Injectable(Parts[i])
          /\ n < Len(Parts) => ~Injectable(Parts[n + 1]) \/ Parts[n + 1] = "absolute"
          /\ Inject(FirstParts(n))
          /\ IF n > 0 THEN Accept ELSE Stop
    /\ UNCHANGED <<backend, chunk, bridge, compositor>>

(***************************************************************************)
(* send_mouse_eis and send_keyboard_eis: the parts are injected one after  *)
(* the other up to the first whose slot is empty; an absolute device may   *)
(* also have no region.  What was injected before stays so.                *)
(***************************************************************************)
SendEis ==
    /\ pc = "event"
    /\ backend = "eis"
    /\ \E n \in 0..Len(Parts) :
          /\ \A i \in 1..n : Injectable(Parts[i])
          /\ n < Len(Parts) => ~Injectable(Parts[n + 1]) \/ Parts[n + 1] = "absolute"
          /\ Inject(FirstParts(n))
          /\ IF n = Len(Parts) THEN Accept ELSE Stop
    /\ UNCHANGED <<backend, chunk, bridge, compositor>>

\* The members of a set of numbers in ascending order.
Ascending(numbers) ==
    {ns \in [1..Cardinality(numbers) -> numbers] :
        /\ \A i, j \in DOMAIN ns : i < j => ns[i] < ns[j]
        /\ \A n \in numbers : \E i \in DOMAIN ns : ns[i] = n}

(***************************************************************************)
(* send_mouse_uinput and send_keyboard_uinput: every part is written, also *)
(* after a write that failed, and the report that ends them may fail too.  *)
(***************************************************************************)
SendUinput ==
    /\ pc = "event"
    /\ backend = "uinput"
    /\ \E written \in SUBSET {i \in DOMAIN Parts : Parts[i] # "unmapped"} :
          /\ \E ps \in Ascending(written) : Inject(ps)
          /\ (written = DOMAIN Parts /\ Accept) \/ Stop
    /\ UNCHANGED <<backend, chunk, bridge, compositor>>

-----------------------------------------------------------------------------
(* The compositor *)

Say(event) == events' = Append(events, event)

Resume(d) ==
    /\ connected
    /\ Len(events) < MaxPending
    /\ device[d] \in {"absent", "paused"}
    /\ device' = [device EXCEPT ![d] = "resumed"]
    /\ Say([type |-> "resumed", device |-> d])
    /\ UNCHANGED <<send, bridge, connected, injected>>

Withdraw(d) ==
    /\ connected
    /\ Len(events) < MaxPending
    /\ device[d] = "resumed"
    /\ \E how \in {"paused", "removed"} :
          /\ device' = [device EXCEPT ![d] = how]
          /\ Say([type |-> how, device |-> d])
    /\ UNCHANGED <<send, bridge, connected, injected>>

Hangup ==
    /\ connected
    /\ connected' = FALSE
    /\ Say([type |-> "disconnect"])
    /\ UNCHANGED <<send, bridge, device, injected>>

-----------------------------------------------------------------------------

Compositor ==
    \/ \E d \in Devices : Resume(d) \/ Withdraw(d)
    \/ Hangup

Next ==
    \/ \E new \in Chunks : Send(new)
    \/ Ensured \/ SetupReady \/ SetupFails \/ EnsureUinput
    \/ Dispatch \/ SendEis \/ SendUinput
    \/ CoolDown
    \/ Compositor

Spec == Init /\ [][Next]_vars

-----------------------------------------------------------------------------
(* Properties *)

Pending(types) == {events[i] : i \in {j \in DOMAIN events : events[j].type \in types}}

(***************************************************************************)
(* A slot never outlives its device: what it holds is there to be used, or *)
(* the news that it is not is still unread.  Without a context there is    *)
(* nothing in the slots at all.                                            *)
(***************************************************************************)
SlotsLive ==
    /\ \A c \in Capabilities :
          slots[c] # NoDevice =>
             \/ device[slots[c]] = "resumed"
             \/ \E event \in Pending({"paused", "removed"}) : event.device = slots[c]
    /\ ~eis => slots = NoSlots

(***************************************************************************)
(* What send reports is what the desktop got: the parts of the accepted    *)
(* events, all of them, each once and in order; after them at most a part  *)
(* of the one event at which the chunk stopped, and nothing of the rest.   *)
(***************************************************************************)
AcceptedInjected ==
    /\ \A i \in 1..accepted : \A p \in DOMAIN chunk[i] :
          \E k \in DOMAIN injected : injected[k] = [event |-> i, part |-> p]
    /\ \A k \in DOMAIN injected : injected[k].event <= accepted + 1
    /\ \A k, l \in DOMAIN injected :
          k < l => \/ injected[k].event < injected[l].event
                   \/ injected[k].event = injected[l].event /\ injected[k].part < injected[l].part

=============================================================================
