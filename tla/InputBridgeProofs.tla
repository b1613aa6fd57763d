------------------------- MODULE InputBridgeProofs -------------------------
(***************************************************************************)
(* That the slots of InputBridge hold live devices, and that what send     *)
(* reports is what it injected, for every compositor and every chunk: any  *)
(* set of devices, whatever each of them offers.  There are two            *)
(* invariants: IInv is about the context and its queue alone, Sending      *)
(* about the call of send, and neither needs the other.                    *)
(***************************************************************************)
EXTENDS InputBridge, FiniteSetTheorems, SequenceTheorems, TLAPS

context == <<eis, slots, device, connected, events>>

ContextTypes ==
    /\ eis \in BOOLEAN
    /\ slots \in [Capabilities -> Devices \cup {NoDevice}]
    /\ device \in [Devices -> {"absent", "resumed", "paused", "removed"}]
    /\ connected \in BOOLEAN
    /\ events \in Seq(Events)

Gone(event, d) == event.type \in {"paused", "removed"} /\ event.device = d

\* What is announced is there, or the news that it is not comes after it.
Announced ==
    \A i \in DOMAIN events :
        events[i].type = "resumed" =>
           \/ device[events[i].device] = "resumed"
           \/ \E j \in DOMAIN events : j > i /\ Gone(events[j], events[i].device)

\* SlotsLive, in terms of positions in the queue.
Live ==
    \A c \in Capabilities :
        slots[c] # NoDevice =>
           device[slots[c]] = "resumed" \/ \E j \in DOMAIN events : Gone(events[j], slots[c])

Bare == ~eis => slots = NoSlots

IInv == ContextTypes /\ Announced /\ Live /\ Bare

-----------------------------------------------------------------------------
(* Facts about the queue *)

LEMMA DomainOf ==
    ASSUME NEW s \in Seq(Events)
    PROVE  DOMAIN s = 1..Len(s) /\ Len(s) \in Nat
OBVIOUS

LEMMA Appended ==
    ASSUME NEW s \in Seq(Events), NEW event \in Events
    PROVE  /\ Append(s, event) \in Seq(Events)
           /\ DOMAIN Append(s, event) = 1..(Len(s) + 1)
           /\ \A i \in DOMAIN s : Append(s, event)[i] = s[i]
           /\ Append(s, event)[Len(s) + 1] = event
OBVIOUS

LEMMA Shortened ==
    ASSUME NEW s \in Seq(Events), s # <<>>
    PROVE  /\ Head(s) = s[1] /\ Head(s) \in Events
           /\ Tail(s) \in Seq(Events)
           /\ DOMAIN Tail(s) = 1..(Len(s) - 1)
           /\ \A i \in DOMAIN Tail(s) : i + 1 \in DOMAIN s /\ Tail(s)[i] = s[i + 1]
OBVIOUS

LEMMA NoSlotsTyped == NoSlots \in [Capabilities -> Devices \cup {NoDevice}]
BY DEF NoSlots

LEMMA Initial == Init => IInv
<1> SUFFICES ASSUME Init PROVE IInv
  OBVIOUS
<1>1. eis = FALSE /\ slots = NoSlots /\ device = NoDevices /\ connected = FALSE /\ events = <<>>
  BY DEF Init
<1>2. ContextTypes
  <2>1. eis \in BOOLEAN /\ connected \in BOOLEAN
    BY <1>1
  <2>2. slots \in [Capabilities -> Devices \cup {NoDevice}]
    BY <1>1, NoSlotsTyped
  <2>3. device \in [Devices -> {"absent", "resumed", "paused", "removed"}]
    BY <1>1 DEF NoDevices
  <2>4. events \in Seq(Events)
    BY <1>1
  <2> QED BY <2>1, <2>2, <2>3, <2>4 DEF ContextTypes
<1>3. Announced
  BY <1>1 DEF Announced
<1>4. Live
  BY <1>1 DEF Live, NoSlots
<1>5. Bare
  BY <1>1 DEF Bare
<1> QED BY <1>2, <1>3, <1>4, <1>5 DEF IInv

-----------------------------------------------------------------------------
(* The steps that change the context *)

LEMMA StutterKeeps ==
    ASSUME IInv, UNCHANGED context
    PROVE  IInv'
BY DEF IInv, ContextTypes, Announced, Live, Bare, Gone, context

\* A context that is new or gone has neither slots nor anything to say.
LEMMA EmptyKeeps ==
    ASSUME eis' \in BOOLEAN, slots' = NoSlots, device' = NoDevices, connected' \in BOOLEAN,
           events' = <<>>
    PROVE  IInv'
BY NoSlotsTyped DEF IInv, ContextTypes, Announced, Live, Bare, NoSlots, NoDevices

LEMMA SendKeeps ==
    ASSUME IInv, NEW new \in Chunks, Send(new)
    PROVE  IInv'
<1>1. CASE UNCHANGED <<eis, device, connected, events>>
  BY <1>1, StutterKeeps DEF Send, context
<1>2. CASE ~eis /\ eis' = TRUE /\ device' = NoDevices /\ connected' = TRUE /\ events' = <<>>
  <2>1. slots' = NoSlots
    BY <1>2 DEF Send, IInv, Bare
  <2> QED BY <1>2, <2>1, EmptyKeeps
<1> QED BY <1>1, <1>2 DEF Send

LEMMA ResetKeeps ==
    ASSUME ResetEis
    PROVE  IInv'
BY EmptyKeeps DEF ResetEis

LEMMA FillKeeps ==
    ASSUME IInv, eis, events # <<>>, Head(events).type = "resumed", Fill(Head(events).device),
           events' = Tail(events), UNCHANGED <<eis, device, connected>>
    PROVE  IInv'
<1> DEFINE d == Head(events).device
<1>1. events \in Seq(Events) /\ ContextTypes
  BY DEF IInv, ContextTypes
<1>2. /\ Head(events) = events[1] /\ Head(events) \in Events
      /\ DOMAIN events = 1..Len(events) /\ Len(events) \in Nat /\ 1 \in DOMAIN events
      /\ events' \in Seq(Events)
      /\ DOMAIN events' = 1..(Len(events) - 1)
      /\ \A i \in DOMAIN events' : i + 1 \in DOMAIN events /\ events'[i] = events[i + 1]
  BY <1>1, Shortened, DomainOf
<1>3. d \in Devices
  BY <1>2 DEF Events
<1>4. \A j \in DOMAIN events : j > 1 => j - 1 \in DOMAIN events' /\ events'[j - 1] = events[j]
  BY <1>2
<1>5. ContextTypes'
  BY <1>1, <1>2, <1>3 DEF ContextTypes, Fill
<1>6. Announced'
  <2> SUFFICES ASSUME NEW i \in DOMAIN events', events'[i].type = "resumed",
                      device[events'[i].device] # "resumed"
               PROVE  \E j \in DOMAIN events' : j > i /\ Gone(events'[j], events'[i].device)
    BY DEF Announced, Gone
  <2>1. i + 1 \in DOMAIN events /\ events'[i] = events[i + 1]
    BY <1>2
  <2>2. PICK j \in DOMAIN events : j > i + 1 /\ Gone(events[j], events'[i].device)
    BY <2>1 DEF IInv, Announced
  <2>3. j - 1 \in DOMAIN events' /\ j - 1 > i /\ events'[j - 1] = events[j]
    BY <2>2, <1>2, <1>4
  <2> QED BY <2>2, <2>3
<1>7. Live'
  <2> SUFFICES ASSUME NEW c \in Capabilities, slots'[c] # NoDevice, device[slots'[c]] # "resumed"
               PROVE  \E j \in DOMAIN events' : Gone(events'[j], slots'[c])
    BY DEF Live, Gone
  <2>1. CASE slots'[c] = slots[c]
    <3>1. PICK j \in DOMAIN events : Gone(events[j], slots[c])
      BY <2>1 DEF IInv, Live
    <3>2. j > 1
      BY <3>1, <1>2 DEF Gone
    <3> QED BY <3>1, <3>2, <1>4, <2>1
  <2>2. CASE slots'[c] = d
    <3>1. PICK j \in DOMAIN events : j > 1 /\ Gone(events[j], d)
      BY <2>2, <1>2 DEF IInv, Announced
    <3> QED BY <3>1, <1>4, <2>2
  <2> QED BY <2>1, <2>2, <1>1 DEF Fill, ContextTypes
<1>8. Bare'
  BY DEF Bare
<1> QED BY <1>5, <1>6, <1>7, <1>8 DEF IInv

LEMMA ClearKeeps ==
    ASSUME IInv, eis, events # <<>>, Head(events).type \in {"paused", "removed"},
           Clear(Head(events).device), events' = Tail(events), UNCHANGED <<eis, device, connected>>
    PROVE  IInv'
<1> DEFINE d == Head(events).device
<1>1. events \in Seq(Events) /\ ContextTypes
  BY DEF IInv, ContextTypes
<1>2. /\ Head(events) = events[1] /\ Head(events) \in Events
      /\ DOMAIN events = 1..Len(events) /\ Len(events) \in Nat /\ 1 \in DOMAIN events
      /\ events' \in Seq(Events)
      /\ DOMAIN events' = 1..(Len(events) - 1)
      /\ \A i \in DOMAIN events' : i + 1 \in DOMAIN events /\ events'[i] = events[i + 1]
  BY <1>1, Shortened, DomainOf
<1>3. \A j \in DOMAIN events : j > 1 => j - 1 \in DOMAIN events' /\ events'[j - 1] = events[j]
  BY <1>2
<1>4. ContextTypes'
  BY <1>1, <1>2 DEF ContextTypes, Clear
<1>5. Announced'
  <2> SUFFICES ASSUME NEW i \in DOMAIN events', events'[i].type = "resumed",
                      device[events'[i].device] # "resumed"
               PROVE  \E j \in DOMAIN events' : j > i /\ Gone(events'[j], events'[i].device)
    BY DEF Announced, Gone
  <2>1. i + 1 \in DOMAIN events /\ events'[i] = events[i + 1]
    BY <1>2
  <2>2. PICK j \in DOMAIN events : j > i + 1 /\ Gone(events[j], events'[i].device)
    BY <2>1 DEF IInv, Announced
  <2>3. j - 1 \in DOMAIN events' /\ j - 1 > i /\ events'[j - 1] = events[j]
    BY <2>2, <1>2, <1>3
  <2> QED BY <2>2, <2>3
<1>6. Live'
  <2> SUFFICES ASSUME NEW c \in Capabilities, slots'[c] # NoDevice, device[slots'[c]] # "resumed"
               PROVE  \E j \in DOMAIN events' : Gone(events'[j], slots'[c])
    BY DEF Live, Gone
  <2>1. slots'[c] = slots[c] /\ slots[c] # d
    BY <1>1 DEF Clear, ContextTypes
  <2>2. PICK j \in DOMAIN events : Gone(events[j], slots[c])
    BY <2>1 DEF IInv, Live
  <2>3. j > 1
    BY <2>1, <2>2, <1>2 DEF Gone
  <2> QED BY <2>1, <2>2, <2>3, <1>3
<1>7. Bare'
  BY DEF Bare
<1> QED BY <1>4, <1>5, <1>6, <1>7 DEF IInv

LEMMA DispatchKeeps ==
    ASSUME IInv, Dispatch
    PROVE  IInv'
<1>1. CASE Head(events).type = "resumed"
  BY <1>1, FillKeeps DEF Dispatch
<1>2. CASE Head(events).type \in {"paused", "removed"}
  BY <1>2, ClearKeeps DEF Dispatch
<1>3. CASE Head(events).type = "disconnect"
  BY <1>3, ResetKeeps DEF Dispatch
<1> QED BY <1>1, <1>2, <1>3 DEF Dispatch

\* More news changes nothing about what was said, except of the device it is about.
LEMMA ResumeKeeps ==
    ASSUME IInv, NEW d \in Devices, Resume(d)
    PROVE  IInv'
<1> DEFINE event == [type |-> "resumed", device |-> d]
<1>1. /\ events \in Seq(Events) /\ event \in Events
      /\ device' = [device EXCEPT ![d] = "resumed"] /\ events' = Append(events, event)
      /\ UNCHANGED <<eis, slots, connected>>
  BY DEF IInv, ContextTypes, Events, Resume, Say, bridge
<1>2. /\ DOMAIN events = 1..Len(events) /\ Len(events) \in Nat
      /\ events' \in Seq(Events)
      /\ DOMAIN events' = 1..(Len(events) + 1)
      /\ \A i \in DOMAIN events : events'[i] = events[i]
      /\ events'[Len(events) + 1] = event
  BY <1>1, Appended, DomainOf
<1>3. ContextTypes'
  BY <1>1, <1>2 DEF IInv, ContextTypes
<1>4. \A e \in Devices : device[e] = "resumed" => device'[e] = "resumed"
  BY <1>1 DEF IInv, ContextTypes
<1>5. device'[d] = "resumed"
  BY <1>1 DEF IInv, ContextTypes
<1>6. Announced'
  <2> SUFFICES ASSUME NEW i \in DOMAIN events', events'[i].type = "resumed",
                      device'[events'[i].device] # "resumed"
               PROVE  \E j \in DOMAIN events' : j > i /\ Gone(events'[j], events'[i].device)
    BY DEF Announced, Gone
  <2>1. i \in DOMAIN events /\ events'[i] = events[i]
    BY <1>2, <1>5
  <2>2. events[i].device \in Devices
    BY <2>1, <1>1 DEF Events
  <2>3. PICK j \in DOMAIN events : j > i /\ Gone(events[j], events[i].device)
    BY <2>1, <2>2, <1>4 DEF IInv, Announced
  <2> QED BY <2>1, <2>3, <1>2
<1>7. Live'
  <2> SUFFICES ASSUME NEW c \in Capabilities, slots[c] # NoDevice, device'[slots[c]] # "resumed"
               PROVE  \E j \in DOMAIN events' : Gone(events'[j], slots[c])
    BY <1>1 DEF Live, Gone
  <2>1. slots[c] \in Devices
    BY DEF IInv, ContextTypes
  <2>2. PICK j \in DOMAIN events : Gone(events[j], slots[c])
    BY <2>1, <1>4 DEF IInv, Live
  <2> QED BY <2>2, <1>2
<1>8. Bare'
  BY <1>1 DEF IInv, Bare
<1> QED BY <1>3, <1>6, <1>7, <1>8 DEF IInv

LEMMA WithdrawKeeps ==
    ASSUME IInv, NEW d \in Devices, Withdraw(d)
    PROVE  IInv'
<1>1. PICK how \in {"paused", "removed"} :
         /\ device' = [device EXCEPT ![d] = how]
         /\ events' = Append(events, [type |-> how, device |-> d])
  BY DEF Withdraw, Say
<1> DEFINE event == [type |-> how, device |-> d]
<1>2. /\ events \in Seq(Events) /\ event \in Events
      /\ UNCHANGED <<eis, slots, connected>>
  BY DEF IInv, ContextTypes, Events, Withdraw, bridge
<1>3. /\ DOMAIN events = 1..Len(events) /\ Len(events) \in Nat
      /\ events' \in Seq(Events)
      /\ DOMAIN events' = 1..(Len(events) + 1)
      /\ \A i \in DOMAIN events : events'[i] = events[i]
      /\ events'[Len(events) + 1] = event
  BY <1>1, <1>2, Appended, DomainOf
<1>4. ContextTypes'
  BY <1>1, <1>2, <1>3 DEF IInv, ContextTypes
<1>5. \A e \in Devices : e # d => device'[e] = device[e]
  BY <1>1 DEF IInv, ContextTypes
<1>6. Len(events) + 1 \in DOMAIN events' /\ Gone(events'[Len(events) + 1], d)
  BY <1>3 DEF Gone
<1>7. Announced'
  <2> SUFFICES ASSUME NEW i \in DOMAIN events', events'[i].type = "resumed",
                      device'[events'[i].device] # "resumed"
               PROVE  \E j \in DOMAIN events' : j > i /\ Gone(events'[j], events'[i].device)
    BY DEF Announced, Gone
  <2>1. i \in DOMAIN events /\ events'[i] = events[i] /\ Len(events) + 1 > i
    BY <1>3
  <2>2. CASE events[i].device = d
    BY <2>1, <2>2, <1>6
  <2>3. CASE events[i].device # d
    <3>1. events[i].device \in Devices
      BY <2>1, <1>2 DEF Events
    <3>2. PICK j \in DOMAIN events : j > i /\ Gone(events[j], events[i].device)
      BY <2>1, <2>3, <3>1, <1>5 DEF IInv, Announced
    <3> QED BY <2>1, <3>2, <1>3
  <2> QED BY <2>2, <2>3
<1>8. Live'
  <2> SUFFICES ASSUME NEW c \in Capabilities, slots[c] # NoDevice, device'[slots[c]] # "resumed"
               PROVE  \E j \in DOMAIN events' : Gone(events'[j], slots[c])
    BY <1>2 DEF Live, Gone
  <2>1. CASE slots[c] = d
    BY <2>1, <1>6
  <2>2. CASE slots[c] # d
    <3>1. slots[c] \in Devices
      BY DEF IInv, ContextTypes
    <3>2. PICK j \in DOMAIN events : Gone(events[j], slots[c])
      BY <2>2, <3>1, <1>5 DEF IInv, Live
    <3> QED BY <3>2, <1>3
  <2> QED BY <2>1, <2>2
<1>9. Bare'
  BY <1>2 DEF IInv, Bare
<1> QED BY <1>4, <1>7, <1>8, <1>9 DEF IInv

LEMMA HangupKeeps ==
    ASSUME IInv, Hangup
    PROVE  IInv'
<1> DEFINE event == [type |-> "disconnect"]
<1>1. /\ events \in Seq(Events) /\ event \in Events
      /\ events' = Append(events, event)
      /\ connected' = FALSE
      /\ UNCHANGED <<eis, slots, device>>
  BY DEF IInv, ContextTypes, Events, Hangup, Say, bridge
<1>2. /\ DOMAIN events = 1..Len(events) /\ Len(events) \in Nat
      /\ events' \in Seq(Events)
      /\ DOMAIN events' = 1..(Len(events) + 1)
      /\ \A i \in DOMAIN events : events'[i] = events[i]
      /\ events'[Len(events) + 1] = event
  BY <1>1, Appended, DomainOf
<1>3. ContextTypes'
  BY <1>1, <1>2 DEF IInv, ContextTypes
<1>4. Announced'
  <2> SUFFICES ASSUME NEW i \in DOMAIN events', events'[i].type = "resumed",
                      device[events'[i].device] # "resumed"
               PROVE  \E j \in DOMAIN events' : j > i /\ Gone(events'[j], events'[i].device)
    BY <1>1 DEF Announced, Gone
  <2>1. i \in DOMAIN events /\ events'[i] = events[i]
    BY <1>2
  <2>2. PICK j \in DOMAIN events : j > i /\ Gone(events[j], events[i].device)
    BY <2>1 DEF IInv, Announced
  <2> QED BY <2>1, <2>2, <1>2
<1>5. Live'
  <2> SUFFICES ASSUME NEW c \in Capabilities, slots[c] # NoDevice, device[slots[c]] # "resumed"
               PROVE  \E j \in DOMAIN events' : Gone(events'[j], slots[c])
    BY <1>1 DEF Live, Gone
  <2>1. PICK j \in DOMAIN events : Gone(events[j], slots[c])
    BY DEF IInv, Live
  <2> QED BY <2>1, <1>2
<1>6. Bare'
  BY <1>1 DEF IInv, Bare
<1> QED BY <1>3, <1>4, <1>5, <1>6 DEF IInv

-----------------------------------------------------------------------------

LEMMA Inductive == IInv /\ [Next]_vars => IInv'
<1> SUFFICES ASSUME IInv, [Next]_vars PROVE IInv'
  OBVIOUS
<1>1. CASE \E new \in Chunks : Send(new)
  BY <1>1, SendKeeps
<1>2. CASE Ensured \/ SetupReady \/ EnsureUinput \/ CoolDown \/ SendEis \/ SendUinput
  <2>1. UNCHANGED context
    BY <1>2 DEF Ensured, SetupReady, EnsureUinput, CoolDown, SendEis, SendUinput, context,
                bridge, compositor
  <2> QED BY <2>1, StutterKeeps
<1>3. CASE SetupFails
  BY <1>3, ResetKeeps DEF SetupFails
<1>4. CASE Dispatch
  BY <1>4, DispatchKeeps
<1>5. CASE Compositor
  BY <1>5, ResumeKeeps, WithdrawKeeps, HangupKeeps DEF Compositor
<1>6. CASE UNCHANGED vars
  <2>1. UNCHANGED context
    BY <1>6 DEF vars, bridge, compositor, context
  <2> QED BY <2>1, StutterKeeps
<1> QED BY <1>1, <1>2, <1>3, <1>4, <1>5, <1>6 DEF Next

\* The invariant: what the queue announces is there or withdrawn later in it.
THEOREM Invariance == Spec => []IInv
<1>1. Init => IInv
  BY Initial
<1>2. IInv /\ [Next]_vars => IInv'
  BY Inductive
<1> QED BY <1>1, <1>2, PTL DEF Spec

LEMMA IInvImplies == IInv => SlotsLive
<1> SUFFICES ASSUME IInv, NEW c \in Capabilities, slots[c] # NoDevice,
                    device[slots[c]] # "resumed"
             PROVE  \E event \in Pending({"paused", "removed"}) : event.device = slots[c]
  BY DEF SlotsLive, IInv, Bare
<1>1. PICK j \in DOMAIN events : Gone(events[j], slots[c])
  BY DEF IInv, Live
<1>2. events[j] \in Pending({"paused", "removed"})
  BY <1>1 DEF Pending, Gone
<1> QED BY <1>1, <1>2 DEF Gone

\* No slot of the bridge outlives its device, whatever the compositor does.
THEOREM SlotsStayLive == Spec => []SlotsLive
<1>1. IInv => SlotsLive
  BY IInvImplies
<1> QED BY <1>1, Invariance, PTL
-----------------------------------------------------------------------------
(* What is sent.  The second invariant is about one call of send: how far  *)
(* it is, what it reports as accepted and what reached a device.           *)

\* A part of an event, as the history has it.
Piece == [event : Nat, part : Nat]

SendTypes ==
    /\ pc \in {"idle", "ensure", "setup", "uinput", "event"}
    /\ backend \in {"none", "eis", "uinput"}
    /\ chunk \in Chunks \cup {<<>>}
    /\ accepted \in Nat
    /\ accepted <= Len(chunk)
    /\ cooling \in BOOLEAN
    /\ uinput \in BOOLEAN
    /\ injected \in Seq(Piece)

\* A slot holds a device that can do what the slot is for.
Capable == \A c \in Capabilities : slots[c] # NoDevice => c \in Offers[slots[c]]

\* While send runs there is an event left.
Underway == pc # "idle" => chunk \in Chunks /\ accepted < Len(chunk)

\* Nothing is injected before a backend is chosen.
Unsent == pc \in {"ensure", "setup", "uinput"} => accepted = 0 /\ injected = <<>>

\* Between two events nothing of an event that was not accepted is out.
Whole == pc = "event" => \A k \in DOMAIN injected : injected[k].event <= accepted

\* AcceptedInjected in its three parts.
Complete ==
    \A i \in 1..accepted : \A p \in DOMAIN chunk[i] :
        \E k \in DOMAIN injected : injected[k] = [event |-> i, part |-> p]

Bounded == \A k \in DOMAIN injected : injected[k].event <= accepted + 1

Before(one, other) ==
    \/ one.event < other.event
    \/ one.event = other.event /\ one.part < other.part

InOrder == \A k, l \in DOMAIN injected : k < l => Before(injected[k], injected[l])

Sending == SendTypes /\ Underway /\ Unsent /\ Whole /\ Complete /\ Bounded /\ InOrder

-----------------------------------------------------------------------------
(* Facts about chunks and what is injected *)

LEMMA ChunkTyped ==
    ASSUME SendTypes
    PROVE  /\ chunk \in Seq(Seq(Capabilities \cup {"unmapped"}))
           /\ Len(chunk) \in Nat
           /\ DOMAIN chunk = 1..Len(chunk)
<1> DEFINE E == Seq(Capabilities \cup {"unmapped"})
<1>1. E \ {<<>>} \subseteq E
  OBVIOUS
<1> HIDE DEF E
<1>2. Seq(E \ {<<>>}) \subseteq Seq(E)
  BY <1>1, SeqMonotonic
<1>3. Chunks \subseteq Seq(E)
  BY <1>2, ChunksAssumption DEF E
<1>4. <<>> \in Seq(E)
  OBVIOUS
<1>5. chunk \in Seq(E)
  BY <1>3, <1>4 DEF SendTypes
<1> QED BY <1>5 DEF E

LEMMA PartsTyped ==
    ASSUME SendTypes, Underway, pc = "event"
    PROVE  /\ Parts \in Seq(Capabilities \cup {"unmapped"})
           /\ Len(Parts) \in Nat
           /\ DOMAIN Parts = 1..Len(Parts)
<1>1. accepted + 1 \in DOMAIN chunk
  BY ChunkTyped DEF SendTypes, Underway
<1>2. Parts \in Seq(Capabilities \cup {"unmapped"})
  BY <1>1, ChunkTyped, ElementOfSeq DEF Parts
<1> QED BY <1>2

LEMMA Joined ==
    ASSUME NEW s \in Seq(Piece), NEW n \in Nat, NEW t \in [1..n -> Piece]
    PROVE  /\ s \o t \in Seq(Piece)
           /\ Len(s) \in Nat
           /\ DOMAIN s = 1..Len(s)
           /\ DOMAIN (s \o t) = 1..(Len(s) + n)
           /\ \A i \in DOMAIN s : (s \o t)[i] = s[i]
           /\ \A i \in DOMAIN (s \o t) : i \notin DOMAIN s =>
                 i - Len(s) \in 1..n /\ (s \o t)[i] = t[i - Len(s)]
           /\ \A j \in 1..n : Len(s) + j \in DOMAIN (s \o t) /\ (s \o t)[Len(s) + j] = t[j]
<1>1. t \in Seq(Piece) /\ Len(t) = n
  OBVIOUS
<1>2. /\ s \o t \in Seq(Piece)
      /\ Len(s \o t) = Len(s) + n
      /\ \A i \in 1..(Len(s) + n) :
            (s \o t)[i] = IF i <= Len(s) THEN s[i] ELSE t[i - Len(s)]
  BY <1>1, ConcatProperties
<1>3. Len(s) \in Nat /\ DOMAIN s = 1..Len(s) /\ DOMAIN (s \o t) = 1..(Len(s) + n)
  BY <1>2
<1> QED BY <1>2, <1>3

\* One event: parts of it in ascending order, and it counts only if these are all.
LEMMA InjectKeeps ==
    ASSUME Sending, pc = "event",
           NEW n \in Nat, NEW ps \in [1..n -> DOMAIN Parts],
           \A i, j \in 1..n : i < j => ps[i] < ps[j],
           Inject(ps),
           Stop \/ (Accept /\ \A p \in DOMAIN Parts : \E i \in 1..n : ps[i] = p),
           UNCHANGED <<backend, chunk, cooling, uinput>>
    PROVE  Sending'
<1> DEFINE piece == [i \in 1..n |-> [event |-> accepted + 1, part |-> ps[i]]]
<1>1. /\ SendTypes /\ Underway /\ Whole /\ Complete /\ InOrder
      /\ accepted \in Nat /\ accepted < Len(chunk) /\ Len(chunk) \in Nat
      /\ chunk \in Chunks
  BY ChunkTyped DEF Sending, SendTypes, Underway
<1>2. DOMAIN Parts = 1..Len(Parts) /\ Len(Parts) \in Nat
  BY <1>1, PartsTyped
<1>3. \A i \in 1..n : ps[i] \in Nat
  BY <1>2
<1>4. piece \in [1..n -> Piece] /\ injected' = injected \o piece
  <2>1. piece \in [1..n -> Piece]
    BY <1>1, <1>3 DEF Piece
  <2>2. DOMAIN ps = 1..n
    OBVIOUS
  <2> QED BY <2>1, <2>2 DEF Inject
<1>5. \A i \in 1..n : piece[i].event = accepted + 1 /\ piece[i].part = ps[i]
  OBVIOUS
<1> HIDE DEF piece
<1>6. injected \in Seq(Piece)
  BY <1>1 DEF SendTypes
<1>7. /\ injected' \in Seq(Piece)
      /\ Len(injected) \in Nat
      /\ DOMAIN injected = 1..Len(injected)
      /\ DOMAIN injected' = 1..(Len(injected) + n)
      /\ \A i \in DOMAIN injected : injected'[i] = injected[i]
      /\ \A i \in DOMAIN injected' : i \notin DOMAIN injected =>
            i - Len(injected) \in 1..n /\ injected'[i] = piece[i - Len(injected)]
      /\ \A j \in 1..n : Len(injected) + j \in DOMAIN injected'
                         /\ injected'[Len(injected) + j] = piece[j]
  BY <1>4, <1>6, Joined
<1>new. \A k \in DOMAIN injected' : k \notin DOMAIN injected =>
         /\ k - Len(injected) \in 1..n
         /\ injected'[k].event = accepted + 1
         /\ injected'[k].part = ps[k - Len(injected)]
  <2> SUFFICES ASSUME NEW k \in DOMAIN injected', k \notin DOMAIN injected
               PROVE  /\ k - Len(injected) \in 1..n
                      /\ injected'[k].event = accepted + 1
                      /\ injected'[k].part = ps[k - Len(injected)]
    OBVIOUS
  <2> DEFINE j == k - Len(injected)
  <2>1. j \in 1..n /\ injected'[k] = piece[j]
    BY <1>7
  <2> HIDE DEF j
  <2>2. injected'[k].event = accepted + 1 /\ injected'[k].part = ps[j]
    BY <2>1, <1>5
  <2> QED BY <2>1, <2>2 DEF j
<1>8. accepted' \in Nat /\ accepted <= accepted' /\ accepted' <= accepted + 1
      /\ accepted' <= Len(chunk)
  BY <1>1 DEF Stop, Accept
<1>9. SendTypes'
  <2>1. pc' \in {"idle", "event"}
    BY DEF Stop, Accept
  <2> QED BY <1>1, <1>7, <1>8, <2>1 DEF SendTypes
<1>10. Underway'
  BY <1>1 DEF Stop, Accept, Underway
<1>11. Unsent'
  BY DEF Stop, Accept, Unsent
<1>12. \A k \in DOMAIN injected : injected[k] \in Piece /\ injected[k].event <= accepted
  BY <1>1, <1>6 DEF Whole
<1>13. \A k \in DOMAIN injected' : injected'[k].event \in Nat /\ injected'[k].event <= accepted + 1
  <2> SUFFICES ASSUME NEW k \in DOMAIN injected'
               PROVE  injected'[k].event \in Nat /\ injected'[k].event <= accepted + 1
    OBVIOUS
  <2>1. CASE k \in DOMAIN injected
    BY <2>1, <1>1, <1>7, <1>12 DEF Piece
  <2>2. CASE k \notin DOMAIN injected
    BY <2>2, <1>1, <1>new
  <2> QED BY <2>1, <2>2
<1>14. Whole'
  BY <1>13 DEF Whole, Stop, Accept
<1>15. Bounded'
  <2> SUFFICES ASSUME NEW k \in DOMAIN injected'
               PROVE  injected'[k].event <= accepted' + 1
    BY DEF Bounded
  <2>1. injected'[k].event \in Nat /\ injected'[k].event <= accepted + 1
    BY <1>13
  <2> QED BY <2>1, <1>1, <1>8
<1>16. Complete'
  <2> SUFFICES ASSUME NEW i \in 1..accepted', NEW p \in DOMAIN chunk[i]
               PROVE  \E k \in DOMAIN injected' : injected'[k] = [event |-> i, part |-> p]
    BY DEF Complete
  <2>1. CASE i <= accepted
    <3>1. PICK k \in DOMAIN injected : injected[k] = [event |-> i, part |-> p]
      BY <2>1, <1>1 DEF Complete
    <3> QED BY <3>1, <1>7
  <2>2. CASE ~(i <= accepted)
    <3>1. i = accepted + 1 /\ Accept
      BY <2>2, <1>1, <1>8 DEF Stop
    <3>2. p \in DOMAIN Parts
      BY <3>1 DEF Parts
    <3>3. ~Stop
      BY <3>1, <1>1 DEF Stop, Accept
    <3>4. PICK j \in 1..n : ps[j] = p
      BY <3>2, <3>3
    <3>5. piece[j] = [event |-> i, part |-> p]
      BY <3>1, <3>4 DEF piece
    <3> QED BY <3>5, <1>7
  <2> QED BY <2>1, <2>2
<1>17. InOrder'
  <2> SUFFICES ASSUME NEW k \in DOMAIN injected', NEW l \in DOMAIN injected', k < l
               PROVE  Before(injected'[k], injected'[l])
    BY DEF InOrder, Before
  <2>1. CASE l \in DOMAIN injected
    <3>1. k \in DOMAIN injected
      BY <2>1, <1>7
    <3>2. Before(injected[k], injected[l])
      BY <2>1, <3>1, <1>1 DEF InOrder
    <3> QED BY <2>1, <3>1, <3>2, <1>7
  <2>2. CASE l \notin DOMAIN injected /\ k \in DOMAIN injected
    <3>1. injected'[l].event = accepted + 1
      BY <2>2, <1>new
    <3>2. injected'[k].event <= accepted /\ injected'[k].event \in Nat
      BY <2>2, <1>7, <1>12 DEF Piece
    <3> QED BY <3>1, <3>2, <1>1 DEF Before
  <2>3. CASE l \notin DOMAIN injected /\ k \notin DOMAIN injected
    <3> DEFINE i == k - Len(injected)
               j == l - Len(injected)
    <3>1. i < j
      BY <1>7
    <3>2. /\ i \in 1..n /\ injected'[k].event = accepted + 1 /\ injected'[k].part = ps[i]
          /\ j \in 1..n /\ injected'[l].event = accepted + 1 /\ injected'[l].part = ps[j]
      BY <2>3, <1>new
    <3> HIDE DEF i, j
    <3>3. ps[i] < ps[j]
      BY <3>1, <3>2
    <3>4. injected'[k].event = injected'[l].event /\ injected'[k].part < injected'[l].part
      BY <3>2, <3>3
    <3> QED BY <3>4 DEF Before
  <2> QED BY <2>1, <2>2, <2>3
<1> QED BY <1>9, <1>10, <1>11, <1>14, <1>15, <1>16, <1>17 DEF Sending
-----------------------------------------------------------------------------
(* The steps of send *)

LEMMA SendingInitial == Init => Sending
<1> SUFFICES ASSUME Init PROVE Sending
  OBVIOUS
<1>1. /\ pc = "idle" /\ backend = "none" /\ chunk = <<>> /\ accepted = 0
      /\ cooling = FALSE /\ uinput = FALSE /\ injected = <<>>
  BY DEF Init
<1>2. SendTypes
  <2>1. injected \in Seq(Piece)
    BY <1>1
  <2>2. chunk \in Chunks \cup {<<>>}
    BY <1>1
  <2>3. Len(chunk) = 0 /\ accepted \in Nat /\ accepted <= 0
    BY <1>1
  <2>4. cooling \in BOOLEAN /\ uinput \in BOOLEAN
    BY <1>1
  <2>5. pc \in {"idle", "ensure", "setup", "uinput", "event"} /\ backend \in {"none", "eis", "uinput"}
    BY <1>1
  <2> QED BY <2>1, <2>2, <2>3, <2>4, <2>5 DEF SendTypes
<1>3. Underway /\ Unsent /\ Whole
  BY <1>1 DEF Underway, Unsent, Whole
<1>4. Complete /\ Bounded /\ InOrder
  BY <1>1 DEF Complete, Bounded, InOrder
<1> QED BY <1>2, <1>3, <1>4 DEF Sending

\* Nothing of the chunk moves.
LEMMA SendingStutter ==
    ASSUME Sending, UNCHANGED <<send, injected>>, cooling' \in BOOLEAN, uinput' \in BOOLEAN
    PROVE  Sending'
BY DEF Sending, SendTypes, Underway, Unsent, Whole, Complete, Bounded, InOrder, Before, send

\* The chunk is still to be sent: only how it will be is decided.
LEMMA ChoosingKeeps ==
    ASSUME Sending, pc \in {"ensure", "setup", "uinput"},
           UNCHANGED <<chunk, accepted, injected>>,
           pc' \in {"idle", "uinput", "event"}, backend' \in {"none", "eis", "uinput"},
           cooling' \in BOOLEAN, uinput' \in BOOLEAN
    PROVE  Sending'
<1>1. accepted = 0 /\ injected = <<>> /\ chunk \in Chunks /\ accepted < Len(chunk)
  BY DEF Sending, Unsent, Underway
<1>2. SendTypes'
  BY DEF Sending, SendTypes
<1>3. Underway' /\ Unsent' /\ Whole'
  BY <1>1 DEF Underway, Unsent, Whole
<1>4. Complete' /\ Bounded' /\ InOrder'
  BY <1>1 DEF Complete, Bounded, InOrder
<1> QED BY <1>2, <1>3, <1>4 DEF Sending

LEMMA NewChunkKeeps ==
    ASSUME Sending, NEW new \in Chunks, Send(new)
    PROVE  Sending'
<1>1. /\ chunk' = new /\ accepted' = 0 /\ injected' = <<>> /\ backend' = "none"
      /\ pc' \in {"ensure", "setup", "uinput"} /\ cooling' \in BOOLEAN /\ uinput' = uinput
  BY DEF Send, Sending, SendTypes
<1>2. new \in Seq(Seq(Capabilities \cup {"unmapped"}) \ {<<>>}) /\ new # <<>>
  BY ChunksAssumption
<1>3. Len(new) \in Nat /\ Len(new) > 0
  BY <1>2
<1>4. SendTypes'
  <2>1. injected' \in Seq(Piece)
    BY <1>1
  <2> QED BY <1>1, <1>3, <2>1 DEF SendTypes, Sending
<1>5. Underway' /\ Unsent' /\ Whole'
  BY <1>1, <1>3 DEF Underway, Unsent, Whole
<1>6. Complete' /\ Bounded' /\ InOrder'
  BY <1>1 DEF Complete, Bounded, InOrder
<1> QED BY <1>4, <1>5, <1>6 DEF Sending

LEMMA SendEisKeeps ==
    ASSUME Sending, SendEis
    PROVE  Sending'
<1>1. DOMAIN Parts = 1..Len(Parts) /\ Len(Parts) \in Nat
  BY PartsTyped DEF Sending, SendEis
<1>2. PICK n \in 0..Len(Parts) :
         Inject(FirstParts(n)) /\ IF n = Len(Parts) THEN Accept ELSE Stop
  BY DEF SendEis
<1>3. n \in Nat /\ FirstParts(n) \in [1..n -> DOMAIN Parts]
  BY <1>1 DEF FirstParts
<1>4. \A i, j \in 1..n : i < j => FirstParts(n)[i] < FirstParts(n)[j]
  BY DEF FirstParts
<1>5. Stop \/ (Accept /\ \A p \in DOMAIN Parts : \E i \in 1..n : FirstParts(n)[i] = p)
  BY <1>1, <1>2 DEF FirstParts
<1>6. pc = "event" /\ UNCHANGED <<backend, chunk, cooling, uinput>>
  BY DEF SendEis, bridge
<1> QED BY <1>2, <1>3, <1>4, <1>5, <1>6, InjectKeeps

LEMMA SendUinputKeeps ==
    ASSUME Sending, SendUinput
    PROVE  Sending'
<1>1. DOMAIN Parts = 1..Len(Parts) /\ Len(Parts) \in Nat
  BY PartsTyped DEF Sending, SendUinput
<1>2. PICK written \in SUBSET {i \in DOMAIN Parts : Parts[i] # "unmapped"} :
         /\ \E ps \in Ascending(written) : Inject(ps)
         /\ (written = DOMAIN Parts /\ Accept) \/ Stop
  BY DEF SendUinput
<1>3. PICK ps \in Ascending(written) : Inject(ps)
  BY <1>2
<1> DEFINE n == Cardinality(written)
<1>4. n \in Nat
  <2>1. IsFiniteSet(DOMAIN Parts)
    BY <1>1, FS_Interval
  <2>2. IsFiniteSet(written)
    BY <2>1, FS_Subset
  <2> QED BY <2>2, FS_CardinalityType
<1>5. ps \in [1..n -> written]
  BY <1>3 DEF Ascending
<1>6. /\ \A i, j \in 1..n : i < j => ps[i] < ps[j]
      /\ \A p \in written : \E i \in 1..n : ps[i] = p
  BY <1>3, <1>5 DEF Ascending
<1> HIDE DEF n
<1>7. ps \in [1..n -> DOMAIN Parts]
  BY <1>5
<1>8. Stop \/ (Accept /\ \A p \in DOMAIN Parts : \E i \in 1..n : ps[i] = p)
  BY <1>2, <1>6
<1>9. pc = "event" /\ UNCHANGED <<backend, chunk, cooling, uinput>>
  BY DEF SendUinput, bridge
<1> QED BY <1>3, <1>4, <1>6, <1>7, <1>8, <1>9, InjectKeeps

LEMMA SendingInductive == Sending /\ [Next]_vars => Sending'
<1> SUFFICES ASSUME Sending, [Next]_vars PROVE Sending'
  OBVIOUS
<1> USE DEF SendTypes
<1>1. CASE \E new \in Chunks : Send(new)
  BY <1>1, NewChunkKeeps
<1>2. CASE Ensured \/ SetupReady \/ SetupFails \/ EnsureUinput
  <2>1. /\ pc \in {"ensure", "setup", "uinput"}
        /\ UNCHANGED <<chunk, accepted, injected>>
        /\ pc' \in {"idle", "uinput", "event"} /\ backend' \in {"none", "eis", "uinput"}
        /\ cooling' \in BOOLEAN /\ uinput' \in BOOLEAN
    BY <1>2 DEF Ensured, SetupReady, SetupFails, EnsureUinput, bridge, Sending
  <2> QED BY <2>1, ChoosingKeeps
<1>3. CASE Dispatch \/ CoolDown \/ Compositor
  <2>1. UNCHANGED <<send, injected>> /\ cooling' \in BOOLEAN /\ uinput' \in BOOLEAN
    BY <1>3 DEF Dispatch, CoolDown, Compositor, Resume, Withdraw, Hangup, bridge, Sending
  <2> QED BY <2>1, SendingStutter
<1>4. CASE SendEis
  BY <1>4, SendEisKeeps
<1>5. CASE SendUinput
  BY <1>5, SendUinputKeeps
<1>6. CASE UNCHANGED vars
  BY <1>6, SendingStutter DEF vars, bridge, Sending
<1> QED BY <1>1, <1>2, <1>3, <1>4, <1>5, <1>6 DEF Next

-----------------------------------------------------------------------------
(* The slots, by capability *)

LEMMA CapableInductive == Capable /\ [Next]_vars => Capable'
<1> SUFFICES ASSUME Capable, [Next]_vars PROVE Capable'
  OBVIOUS
<1>1. CASE UNCHANGED slots
  BY <1>1 DEF Capable
<1>2. CASE slots' = NoSlots
  BY <1>2 DEF Capable, NoSlots
<1>3. ASSUME NEW d, Fill(d)
      PROVE  Capable'
  BY <1>3 DEF Capable, Fill
<1>4. ASSUME NEW d, Clear(d)
      PROVE  Capable'
  BY <1>4 DEF Capable, Clear
<1>5. CASE Dispatch
  BY <1>2, <1>3, <1>4, <1>5 DEF Dispatch, ResetEis
<1>6. CASE SetupFails
  BY <1>2, <1>6 DEF SetupFails, ResetEis
<1>7. CASE \E new \in Chunks : Send(new)
  BY <1>1, <1>7 DEF Send
<1>8. CASE Ensured \/ SetupReady \/ EnsureUinput \/ CoolDown \/ SendEis \/ SendUinput \/ Compositor
  BY <1>1, <1>8 DEF Ensured, SetupReady, EnsureUinput, CoolDown, SendEis, SendUinput, Compositor,
                    Resume, Withdraw, Hangup, bridge
<1>9. CASE UNCHANGED vars
  BY <1>1, <1>9 DEF vars, bridge
<1> QED BY <1>5, <1>6, <1>7, <1>8, <1>9 DEF Next

-----------------------------------------------------------------------------

\* The invariant of a call of send, and what the slots can do.
THEOREM SendInvariance == Spec => [](Sending /\ Capable)
<1>1. Init => Sending /\ Capable
  BY SendingInitial DEF Init, Capable, NoSlots
<1>2. Sending /\ Capable /\ [Next]_vars => (Sending /\ Capable)'
  BY SendingInductive, CapableInductive
<1> QED BY <1>1, <1>2, PTL DEF Spec

\* Every state is well typed; in particular a slot holds a device of its capability.
THEOREM TypeCorrect == Spec => []TypeOK
<1>1. IInv /\ Sending /\ Capable => TypeOK
  <2> SUFFICES ASSUME IInv, Sending, Capable PROVE TypeOK
    OBVIOUS
  <2>1. accepted \in 0..Len(chunk)
    BY ChunkTyped DEF Sending, SendTypes
  <2> QED BY <2>1 DEF IInv, ContextTypes, Sending, SendTypes, Capable, TypeOK, Piece
<1> QED BY <1>1, Invariance, SendInvariance, PTL

\* What send reports as accepted is what was injected, whatever the devices do meanwhile.
THEOREM AcceptedIsInjected == Spec => []AcceptedInjected
<1>1. Sending => AcceptedInjected
  BY DEF Sending, Complete, Bounded, InOrder, Before, AcceptedInjected
<1> QED BY <1>1, SendInvariance, PTL
=============================================================================
