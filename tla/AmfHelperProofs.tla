-------------------------- MODULE AmfHelperProofs --------------------------
(***************************************************************************)
(* For any number of clients and any limit: the slots of uu-amf-helper are *)
(* counted exactly, and there are never more client threads than slots.    *)
(***************************************************************************)
EXTENDS AmfHelper, FiniteSetTheorems, TLAPS

(***************************************************************************)
(* Why the count is right: main holds a connection exactly while it is     *)
(* deciding about it, that connection is open and has no thread yet, a     *)
(* thread works on an open connection, and a slot was free when main       *)
(* decided to spawn.                                                       *)
(***************************************************************************)
Admission ==
    /\ acceptor.at = "accept" <=> acceptor.client = NoClient
    /\ acceptor.at # "accept" =>
          thread[acceptor.client] = "none" /\ link[acceptor.client] = "open"
    /\ acceptor.at = "spawn" => Cardinality(Registered) < MaxClients
    /\ \A c \in Clients :
          /\ thread[c] \in {"init", "loop", "done"} => link[c] = "open"
          /\ thread[c] = "exit" => link[c] = "shut"

IInv == TypeOK /\ Admission /\ CounterExact /\ SessionLimit /\ NothingLeaks

-----------------------------------------------------------------------------

\* The registered threads are finitely many, so they can be counted.
LEMMA RegisteredFinite ==
    IsFiniteSet(Registered) /\ Cardinality(Registered) \in Nat
<1>1. Registered \in SUBSET Clients
  BY DEF Registered
<1>2. IsFiniteSet(Registered)
  BY <1>1, ClientsAssumption, FS_Subset
<1>3. QED
  BY <1>2, FS_CardinalityType

LEMMA RegisteredFiniteNext ==
    IsFiniteSet(Registered') /\ Cardinality(Registered') \in Nat
<1>1. Registered' \in SUBSET Clients
  BY DEF Registered
<1>2. IsFiniteSet(Registered')
  BY <1>1, ClientsAssumption, FS_Subset
<1>3. QED
  BY <1>2, FS_CardinalityType

LEMMA InitInvariant == Init => IInv
<1> SUFFICES ASSUME Init PROVE IInv
  OBVIOUS
<1> USE ClientsAssumption, MaxClientsAssumption
<1>1. Registered = {}
  BY DEF Init, Registered
<1>2. Cardinality(Registered) = 0
  BY <1>1, FS_EmptySet
<1>3. TypeOK /\ Admission /\ NothingLeaks
  BY DEF Init, TypeOK, Waiting, Admission, NothingLeaks
<1>4. CounterExact /\ SessionLimit
  BY <1>2 DEF Init, Waiting, CounterExact, SessionLimit
<1>5. QED
  BY <1>3, <1>4 DEF IInv

(***************************************************************************)
(* The steps of one client thread before its last: they move it between    *)
(* the states in which it is registered and leave main's decision alone.   *)
(***************************************************************************)
LEMMA ThreadInvariant ==
    ASSUME IInv, NEW c \in Clients,
           ReadInit(c) \/ ReadFrame(c) \/ ReadFails(c) \/ Close(c)
    PROVE  IInv'
<1> USE ClientsAssumption, MaxClientsAssumption
<1>1. thread[c] # "none" /\ thread'[c] # "none" /\ \A d \in Clients \ {c} : thread'[d] = thread[d]
  BY DEF IInv, TypeOK, ReadInit, ReadFrame, ReadFails, Close
<1>2. Registered' = Registered
  BY <1>1 DEF Registered
<1>3. acceptor' = acceptor /\ active_clients' = active_clients
  BY DEF ReadInit, ReadFrame, ReadFails, Close
<1>4. TypeOK'
  <2>1. codec' \in [Clients -> BOOLEAN]
    <3>1. \/ codec' = codec
          \/ \E opened \in BOOLEAN : codec' = [codec EXCEPT ![c] = opened]
      BY DEF ReadInit, ReadFrame, ReadFails, Close
    <3>2. codec \in [Clients -> BOOLEAN]
      BY DEF IInv, TypeOK
    <3>3. QED
      BY <3>1, <3>2
  <2>2. thread' \in [Clients -> {"none", "init", "loop", "done", "exit"}]
    BY DEF IInv, TypeOK, ReadInit, ReadFrame, ReadFails, Close
  <2>3. inbox' \in [Clients -> Messages \cup {"none"}]
    BY DEF IInv, TypeOK, ReadInit, ReadFrame, ReadFails, Close
  <2>4. link' \in [Clients -> {"away", "backlog", "open", "shut"}]
    BY DEF IInv, TypeOK, ReadInit, ReadFrame, ReadFails, Close
  <2>5. UNCHANGED <<running, peer>>
    BY DEF ReadInit, ReadFrame, ReadFails, Close
  <2>6. QED
    BY <1>3, <2>1, <2>2, <2>3, <2>4, <2>5 DEF IInv, TypeOK
<1>5. CounterExact' /\ SessionLimit'
  BY <1>2, <1>3 DEF IInv, CounterExact, SessionLimit
<1>6. acceptor.client # c
  BY <1>1 DEF IInv, Admission, TypeOK
<1>7. Admission'
  BY <1>2, <1>3, <1>6 DEF IInv, Admission, TypeOK, ReadInit, ReadFrame, ReadFails, Close
<1>8. NothingLeaks'
  BY <1>3, <1>6 DEF IInv, NothingLeaks, Admission, TypeOK, ReadInit, ReadFrame, ReadFails, Close
<1>9. QED
  BY <1>4, <1>5, <1>7, <1>8 DEF IInv

\* The last step of a thread gives its slot back.
LEMMA LeaveInvariant ==
    ASSUME IInv, NEW c \in Clients, Leave(c)
    PROVE  IInv'
<1> USE ClientsAssumption, MaxClientsAssumption
<1>1. c \in Registered /\ Registered' = Registered \ {c}
  BY DEF IInv, TypeOK, Leave, Registered
<1>2. Cardinality(Registered') = Cardinality(Registered) - 1
  BY <1>1, RegisteredFinite, FS_RemoveElement
<1>3. acceptor' = acceptor /\ active_clients' = active_clients - 1
  BY DEF Leave
<1>4. CounterExact' /\ SessionLimit'
  BY <1>2, <1>3, RegisteredFinite DEF IInv, CounterExact, SessionLimit
<1>5. active_clients' \in Nat
  BY <1>4, RegisteredFiniteNext DEF CounterExact
<1>6. TypeOK'
  BY <1>5 DEF IInv, TypeOK, Leave
<1>7. Admission'
  BY <1>2, <1>3, RegisteredFinite DEF IInv, Admission, TypeOK, Leave
<1>8. NothingLeaks'
  BY DEF IInv, NothingLeaks, TypeOK, Leave
<1>9. QED
  BY <1>4, <1>6, <1>7, <1>8 DEF IInv

\* The other ends of the connections change nothing that is counted.
LEMMA PeerInvariant ==
    ASSUME IInv, NEW c \in Clients, Peer(c)
    PROVE  IInv'
<1> USE ClientsAssumption, MaxClientsAssumption
<1>1. thread' = thread /\ acceptor' = acceptor /\ active_clients' = active_clients /\ codec' = codec
  BY DEF Peer, Dial, Send, Falter, Forget
<1>2. Registered' = Registered
  BY <1>1 DEF Registered
<1>3. TypeOK'
  BY DEF IInv, TypeOK, Messages, Peer, Dial, Send, Falter, Forget
<1>4. CounterExact' /\ SessionLimit'
  BY <1>1, <1>2 DEF IInv, CounterExact, SessionLimit
<1>5. Admission' /\ NothingLeaks'
  BY <1>1, <1>2 DEF IInv, TypeOK, Admission, NothingLeaks, Peer, Dial, Send, Falter, Forget
<1>6. QED
  BY <1>3, <1>4, <1>5 DEF IInv

-----------------------------------------------------------------------------
(* The steps of main *)

LEMMA CountInvariant ==
    ASSUME IInv, Count
    PROVE  IInv'
<1> USE ClientsAssumption, MaxClientsAssumption
<1>1. Registered' = Registered
  BY DEF Count, Registered
<1>2. acceptor.at = "count" /\ acceptor'.client = acceptor.client
      /\ acceptor'.at = IF active_clients >= MaxClients THEN "uncount" ELSE "spawn"
  BY DEF IInv, TypeOK, Count
<1>3. active_clients = Cardinality(Registered) /\ active_clients' = active_clients + 1
  BY <1>2, RegisteredFinite DEF IInv, CounterExact, Count
<1>4. CounterExact' /\ SessionLimit'
  BY <1>1, <1>2, <1>3, RegisteredFinite DEF IInv, CounterExact, SessionLimit
<1>5. TypeOK'
  BY DEF IInv, TypeOK, Count
<1>6. Admission'
  BY <1>1, <1>2, <1>3, RegisteredFinite DEF IInv, TypeOK, Admission, Count
<1>7. NothingLeaks'
  BY <1>2 DEF IInv, NothingLeaks, Count
<1>8. QED
  BY <1>4, <1>5, <1>6, <1>7 DEF IInv

LEMMA SpawnInvariant ==
    ASSUME IInv, Spawn
    PROVE  IInv'
<1> USE ClientsAssumption, MaxClientsAssumption
<1>1. acceptor.at = "spawn" /\ acceptor.client \in Clients /\ thread[acceptor.client] = "none"
  BY DEF IInv, TypeOK, Admission, Spawn
<1>2. active_clients' = active_clients /\ active_clients = Cardinality(Registered) + 1
  BY <1>1 DEF IInv, CounterExact, Spawn
<1>3. CASE thread' = [thread EXCEPT ![acceptor.client] = "init"] /\ acceptor' = Waiting
  <2>1. acceptor.client \notin Registered /\ Registered' = Registered \cup {acceptor.client}
    BY <1>1, <1>3 DEF IInv, TypeOK, Registered
  <2>2. Cardinality(Registered') = Cardinality(Registered) + 1
    BY <2>1, RegisteredFinite, FS_AddElement
  <2>3. CounterExact' /\ SessionLimit'
    BY <1>1, <1>2, <1>3, <2>2, RegisteredFinite
       DEF IInv, Admission, CounterExact, SessionLimit, Waiting
  <2>4. TypeOK'
    BY <1>1, <1>3 DEF IInv, TypeOK, Spawn, Waiting
  <2>5. Admission' /\ NothingLeaks'
    BY <1>1, <1>3 DEF IInv, TypeOK, Admission, NothingLeaks, Spawn, Waiting
  <2>7. QED
    BY <2>3, <2>4, <2>5 DEF IInv
<1>4. CASE acceptor' = [acceptor EXCEPT !.at = "uncount"] /\ UNCHANGED thread
  <2>1. Registered' = Registered
    BY <1>4 DEF Registered
  <2>2. QED
    BY <1>1, <1>2, <1>4, <2>1
       DEF IInv, TypeOK, Admission, CounterExact, SessionLimit, NothingLeaks, Spawn
<1>5. QED
  BY <1>3, <1>4 DEF Spawn

\* The other steps of main and the life of the process.
LEMMA MainInvariant ==
    ASSUME IInv,
           \/ \E c \in Clients : Accept(c)
           \/ Uncount
           \/ CloseTurnedAway
           \/ Start
    PROVE  IInv'
<1> USE ClientsAssumption, MaxClientsAssumption
<1>1. thread' = thread /\ codec' = codec
  BY DEF Accept, Uncount, CloseTurnedAway, Start
<1>2. Registered' = Registered
  BY <1>1 DEF Registered
<1>3. CounterExact' /\ SessionLimit'
  BY <1>2, RegisteredFinite
     DEF IInv, TypeOK, CounterExact, SessionLimit, Accept, Uncount, CloseTurnedAway, Start, Waiting
<1>4. active_clients' \in Nat
  BY <1>3, RegisteredFiniteNext DEF CounterExact
<1>5. TypeOK'
  <2>1. ASSUME NEW c \in Clients, Accept(c) PROVE TypeOK'
    BY <2>1 DEF IInv, TypeOK, Accept
  <2>2. CASE Uncount
    BY <1>4, <2>2 DEF IInv, TypeOK, Uncount
  <2>3. CASE CloseTurnedAway
    BY <2>3 DEF IInv, TypeOK, CloseTurnedAway, Waiting
  <2>4. CASE Start
    BY <2>4 DEF IInv, TypeOK, Start
  <2>5. QED
    BY <2>1, <2>2, <2>3, <2>4
<1>6. Admission' /\ NothingLeaks'
  <2>1. ASSUME NEW c \in Clients, Accept(c) PROVE Admission' /\ NothingLeaks'
    <3>1. thread[c] = "none"
      BY <2>1 DEF IInv, TypeOK, Admission, Accept
    <3>2. acceptor' = [at |-> "count", client |-> c] /\ link' = [link EXCEPT ![c] = "open"]
      BY <2>1 DEF Accept
    <3>3. Admission'
      BY <1>1, <1>2, <3>1, <3>2 DEF IInv, TypeOK, Admission
    <3>4. acceptor.client = NoClient
      BY <2>1 DEF IInv, Admission, Accept
    <3>5. NothingLeaks'
      BY <1>1, <3>2, <3>4 DEF IInv, TypeOK, NothingLeaks
    <3>6. QED
      BY <3>3, <3>5
  <2>2. CASE Uncount \/ Start
    BY <1>1, <1>2, <2>2 DEF IInv, TypeOK, Admission, NothingLeaks, Uncount, Start
  <2>3. CASE CloseTurnedAway
    BY <1>1, <1>2, <2>3
       DEF IInv, TypeOK, Admission, NothingLeaks, CloseTurnedAway, Waiting
  <2>4. QED
    BY <2>1, <2>2, <2>3
<1>7. QED
  BY <1>3, <1>5, <1>6 DEF IInv

LEMMA ExitInvariant ==
    ASSUME IInv, Exit
    PROVE  IInv'
<1> USE ClientsAssumption, MaxClientsAssumption
<1>1. Registered' = {}
  BY DEF Exit, Registered
<1>2. Cardinality(Registered') = 0
  BY <1>1, FS_EmptySet
<1>3. CounterExact' /\ SessionLimit'
  BY <1>2 DEF CounterExact, SessionLimit, Exit, Waiting
<1>4. TypeOK'
  BY DEF IInv, TypeOK, Exit, Waiting
<1>5. Admission'
  BY DEF IInv, TypeOK, Admission, Exit, Waiting
<1>6. NothingLeaks'
  BY DEF IInv, TypeOK, NothingLeaks, Exit
<1>7. QED
  BY <1>3, <1>4, <1>5, <1>6 DEF IInv

LEMMA NextInvariant == IInv /\ [Next]_vars => IInv'
<1> SUFFICES ASSUME IInv, [Next]_vars PROVE IInv'
  OBVIOUS
<1>1. ASSUME NEW c \in Clients, ClientThread(c) PROVE IInv'
  BY <1>1, ThreadInvariant, LeaveInvariant DEF ClientThread
<1>2. ASSUME NEW c \in Clients, Peer(c) PROVE IInv'
  BY <1>2, PeerInvariant
<1>3. CASE Main
  BY <1>3, MainInvariant, CountInvariant, SpawnInvariant DEF Main
<1>4. CASE Exit
  BY <1>4, ExitInvariant
<1>5. CASE Start
  BY <1>5, MainInvariant
<1>6. CASE UNCHANGED vars
  <2>1. Registered' = Registered
    BY <1>6 DEF vars, Registered
  <2>2. QED
    BY <1>6, <2>1
       DEF vars, IInv, TypeOK, Admission, CounterExact, SessionLimit, NothingLeaks
<1>7. QED
  BY <1>1, <1>2, <1>3, <1>4, <1>5, <1>6 DEF Next

-----------------------------------------------------------------------------

LEMMA Invariance == Spec => []IInv
  BY InitInvariant, NextInvariant, PTL DEF Spec

\* Every variable keeps its type; the counter in particular never falls below zero.
THEOREM TypeCorrect == Spec => []TypeOK
<1>1. IInv => TypeOK
  BY DEF IInv
<1>2. QED
  BY <1>1, Invariance, PTL

\* No path through main or a client thread leaks or doubles a slot (amf_helper.c:341-392).
THEOREM CounterCorrect == Spec => []CounterExact
<1>1. IInv => CounterExact
  BY DEF IInv
<1>2. QED
  BY <1>1, Invariance, PTL

\* HELPER_MAX_CLIENTS bounds the client threads, whatever order they start and end in.
THEOREM LimitKept == Spec => []SessionLimit
<1>1. IInv => SessionLimit
  BY DEF IInv
<1>2. QED
  BY <1>1, Invariance, PTL

\* Every descriptor and codec has an owner that closes it (amf_helper.c:336-346, 381-389).
THEOREM ResourcesOwned == Spec => []NothingLeaks
<1>1. IInv => NothingLeaks
  BY DEF IInv
<1>2. QED
  BY <1>1, Invariance, PTL

\* main turns a client away at the count only while all slots are taken (amf_helper.c:381).
THEOREM TurnedAwayCorrect == Spec => TurnedAwayOnlyAtLimit
<1>1. ASSUME IInv, [Next]_vars, acceptor.at = "count", acceptor'.at = "uncount"
      PROVE  Cardinality(Registered) = MaxClients
  <2>1. Count
    BY <1>1, ClientsAssumption
       DEF Next, vars, Main, ClientThread, Peer, IInv, TypeOK, Accept, Spawn, Uncount,
           CloseTurnedAway, Exit, Start, Waiting, ReadInit, ReadFrame, ReadFails, Close,
           Leave, Dial, Send, Falter, Forget
  <2>2. active_clients >= MaxClients
    BY <1>1, <2>1 DEF Count, IInv, TypeOK
  <2>3. active_clients = Cardinality(Registered)
    BY <1>1, RegisteredFinite DEF IInv, CounterExact
  <2>4. QED
    BY <1>1, <2>2, <2>3, RegisteredFinite, MaxClientsAssumption DEF IInv, SessionLimit
<1>2. IInv /\ [Next]_vars =>
        [acceptor.at = "count" /\ acceptor'.at = "uncount"
            => Cardinality(Registered) = MaxClients]_vars
  BY <1>1
<1>3. QED
  BY <1>2, Invariance, PTL DEF Spec, TurnedAwayOnlyAtLimit
=============================================================================
