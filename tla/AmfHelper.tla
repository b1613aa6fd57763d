----------------------------- MODULE AmfHelper -----------------------------
(***************************************************************************)
(* The connections of uu-amf-helper (src/amf_helper.c): the accept     *)
(* loop of main, one detached thread per admitted client, and the atomic   *)
(* counter active_clients by which the loop admits at most                 *)
(* HELPER_MAX_CLIENTS of them.                                             *)
(*                                                                         *)
(* A message on a connection is only what the helper tells apart: an init  *)
(* or a frame (or packet).  One with a wrong magic, version or size ends   *)
(* the session like one that comes in the wrong phase.  One is in flight   *)
(* at a time per client: clients wait for the reply before they send on.   *)
(***************************************************************************)
EXTENDS Naturals, FiniteSets

CONSTANTS
    Clients,            \* the connections clients may open
    NoClient,
    MaxClients          \* HELPER_MAX_CLIENTS

ASSUME ClientsAssumption == IsFiniteSet(Clients) /\ NoClient \notin Clients
ASSUME MaxClientsAssumption == MaxClients \in Nat \ {0}

VARIABLES
    running,            \* the process lives and listens
    acceptor,           \* where main's loop is, and the connection it holds
    active_clients,
    thread,             \* client_thread of a connection, by the step it is at
    codec,              \* its encoder or decoder is open
    link,               \* "away", "backlog", "open", or "shut" by the helper
    peer,               \* "absent", "active", "frozen" (never sends again), "gone"
    inbox               \* what has arrived and was not read

vars == <<running, acceptor, active_clients, thread, codec, link, peer, inbox>>

Messages == {"init", "frame"}

TypeOK ==
    /\ running \in BOOLEAN
    /\ acceptor \in [at : {"accept", "count", "spawn", "uncount", "close"},
                     client : Clients \cup {NoClient}]
    /\ active_clients \in Nat
    /\ thread \in [Clients -> {"none", "init", "loop", "done", "exit"}]
    /\ codec \in [Clients -> BOOLEAN]
    /\ link \in [Clients -> {"away", "backlog", "open", "shut"}]
    /\ peer \in [Clients -> {"absent", "active", "frozen", "gone"}]
    /\ inbox \in [Clients -> Messages \cup {"none"}]

Waiting == [at |-> "accept", client |-> NoClient]

Init ==
    /\ running = FALSE
    /\ acceptor = Waiting
    /\ active_clients = 0
    /\ thread = [c \in Clients |-> "none"]
    /\ codec = [c \in Clients |-> FALSE]
    /\ link = [c \in Clients |-> "away"]
    /\ peer = [c \in Clients |-> "absent"]
    /\ inbox = [c \in Clients |-> "none"]

-----------------------------------------------------------------------------
(* main *)

Accept(c) ==
    /\ running
    /\ acceptor.at = "accept"
    /\ link[c] = "backlog"
    /\ acceptor' = [at |-> "count", client |-> c]
    /\ link' = [link EXCEPT ![c] = "open"]
    /\ UNCHANGED <<running, active_clients, thread, codec, peer, inbox>>

\* Mutant: one client too many.
BugCountAbove ==
    /\ acceptor.at = "count"
    /\ active_clients' = active_clients + 1
    /\ acceptor' = [acceptor EXCEPT !.at =
                       IF active_clients > MaxClients THEN "uncount" ELSE "spawn"]
    /\ UNCHANGED <<running, thread, codec, link, peer, inbox>>

\* __sync_fetch_and_add: the limit is compared with the value before.
Count ==
    /\ acceptor.at = "count"
    /\ active_clients' = active_clients + 1
    /\ acceptor' = [acceptor EXCEPT !.at =
                       IF active_clients >= MaxClients THEN "uncount" ELSE "spawn"]
    /\ UNCHANGED <<running, thread, codec, link, peer, inbox>>

\* pthread_create may fail: the slot is given back like that of a rejected client.
Spawn ==
    /\ acceptor.at = "spawn"
    /\ \/ /\ thread' = [thread EXCEPT ![acceptor.client] = "init"]
          /\ acceptor' = Waiting
       \/ /\ acceptor' = [acceptor EXCEPT !.at = "uncount"]
          /\ UNCHANGED thread
    /\ UNCHANGED <<running, active_clients, codec, link, peer, inbox>>

Uncount ==
    /\ acceptor.at = "uncount"
    /\ active_clients' = active_clients - 1
    /\ acceptor' = [acceptor EXCEPT !.at = "close"]
    /\ UNCHANGED <<running, thread, codec, link, peer, inbox>>

\* Mutant: the descriptor of a client that was not admitted stays open.
BugNoCloseTurnedAway ==
    /\ acceptor.at = "close"
    /\ acceptor' = Waiting
    /\ UNCHANGED <<running, active_clients, thread, codec, link, peer, inbox>>

CloseTurnedAway ==
    /\ acceptor.at = "close"
    /\ link' = [link EXCEPT ![acceptor.client] = "shut"]
    /\ acceptor' = Waiting
    /\ UNCHANGED <<running, active_clients, thread, codec, peer, inbox>>

(***************************************************************************)
(* The process ends: killed, crashed in a driver, or accept() failed and   *)
(* main returned.  Every thread ends with it and the kernel closes all.    *)
(***************************************************************************)
Exit ==
    /\ running
    /\ running' = FALSE
    /\ acceptor' = Waiting
    /\ active_clients' = 0
    /\ thread' = [c \in Clients |-> "none"]
    /\ codec' = [c \in Clients |-> FALSE]
    /\ link' = [c \in Clients |-> IF link[c] = "away" THEN "away" ELSE "shut"]
    /\ UNCHANGED <<peer, inbox>>

\* systemd restarts the service.
Start ==
    /\ ~running
    /\ running' = TRUE
    /\ UNCHANGED <<acceptor, active_clients, thread, codec, link, peer, inbox>>

-----------------------------------------------------------------------------
(* client_thread *)

(***************************************************************************)
(* handle_client reads the init message and opens an encoder or a decoder; *)
(* it goes on if that works and the reply can be sent.                     *)
(***************************************************************************)
ReadInit(c) ==
    /\ thread[c] = "init"
    /\ inbox[c] # "none"
    /\ inbox' = [inbox EXCEPT ![c] = "none"]
    /\ \/ /\ inbox[c] # "init"
          /\ thread' = [thread EXCEPT ![c] = "done"]
          /\ UNCHANGED codec
       \/ /\ inbox[c] = "init"
          /\ \E opened, sent \in BOOLEAN :
                /\ codec' = [codec EXCEPT ![c] = opened]
                /\ thread' = [thread EXCEPT ![c] = IF opened /\ sent THEN "loop" ELSE "done"]
    /\ UNCHANGED <<running, acceptor, active_clients, link, peer>>

\* A frame is coded and answered, whatever the codec says; another message ends the loop.
ReadFrame(c) ==
    /\ thread[c] = "loop"
    /\ inbox[c] # "none"
    /\ inbox' = [inbox EXCEPT ![c] = "none"]
    /\ \E sent \in BOOLEAN :
          thread' = [thread EXCEPT ![c] = IF inbox[c] = "frame" /\ sent THEN "loop" ELSE "done"]
    /\ UNCHANGED <<running, acceptor, active_clients, codec, link, peer>>

\* Mutant: no SO_RCVTIMEO.
BugReadFailsAtEofOnly(c) ==
    /\ thread[c] \in {"init", "loop"}
    /\ inbox[c] = "none"
    /\ peer[c] = "gone"
    /\ thread' = [thread EXCEPT ![c] = "done"]
    /\ UNCHANGED <<running, acceptor, active_clients, codec, link, peer, inbox>>

\* The end of the stream, or 5 s without a message: recv_all gives up.
ReadFails(c) ==
    /\ thread[c] \in {"init", "loop"}
    /\ inbox[c] = "none"
    /\ thread' = [thread EXCEPT ![c] = "done"]
    /\ UNCHANGED <<running, acceptor, active_clients, codec, link, peer, inbox>>

\* Mutant: the slot is given back here and once more by the thread.
BugCloseGivesSlotBack(c) ==
    /\ thread[c] = "done"
    /\ thread' = [thread EXCEPT ![c] = "exit"]
    /\ codec' = [codec EXCEPT ![c] = FALSE]
    /\ link' = [link EXCEPT ![c] = "shut"]
    /\ active_clients' = active_clients - 1
    /\ UNCHANGED <<running, acceptor, peer, inbox>>

\* The codecs are closed, handle_client returns, the descriptor is closed ...
Close(c) ==
    /\ thread[c] = "done"
    /\ thread' = [thread EXCEPT ![c] = "exit"]
    /\ codec' = [codec EXCEPT ![c] = FALSE]
    /\ link' = [link EXCEPT ![c] = "shut"]
    /\ UNCHANGED <<running, acceptor, active_clients, peer, inbox>>

\* Mutant: the slot is not given back.
BugLeaveKeepsSlot(c) ==
    /\ thread[c] = "exit"
    /\ thread' = [thread EXCEPT ![c] = "none"]
    /\ UNCHANGED <<running, acceptor, active_clients, codec, link, peer, inbox>>

\* ... and only then the slot is given back.
Leave(c) ==
    /\ thread[c] = "exit"
    /\ thread' = [thread EXCEPT ![c] = "none"]
    /\ active_clients' = active_clients - 1
    /\ UNCHANGED <<running, acceptor, codec, link, peer, inbox>>

-----------------------------------------------------------------------------
(* The other end of a connection *)

Dial(c) ==
    /\ running
    /\ link[c] = "away"
    /\ link' = [link EXCEPT ![c] = "backlog"]
    /\ peer' = [peer EXCEPT ![c] = "active"]
    /\ UNCHANGED <<running, acceptor, active_clients, thread, codec, inbox>>

Send(c) ==
    /\ peer[c] = "active"
    /\ link[c] \in {"backlog", "open"}
    /\ inbox[c] = "none"
    /\ \E m \in Messages : inbox' = [inbox EXCEPT ![c] = m]
    /\ UNCHANGED <<running, acceptor, active_clients, thread, codec, link, peer>>

\* A Wine process that stops without closing its sockets, or one that ends.
Falter(c) ==
    /\ peer[c] \in {"active", "frozen"}
    /\ \/ peer[c] = "active" /\ peer' = [peer EXCEPT ![c] = "frozen"]
       \/ peer' = [peer EXCEPT ![c] = "gone"]
    /\ UNCHANGED <<running, acceptor, active_clients, thread, codec, link, inbox>>

\* Both ends have closed and the helper's thread is through: the connection may be used anew.
Forget(c) ==
    /\ link[c] = "shut"
    /\ thread[c] = "none"
    /\ link' = [link EXCEPT ![c] = "away"]
    /\ peer' = [peer EXCEPT ![c] = "absent"]
    /\ inbox' = [inbox EXCEPT ![c] = "none"]
    /\ UNCHANGED <<running, acceptor, active_clients, thread, codec>>

-----------------------------------------------------------------------------

Main == (\E c \in Clients : Accept(c)) \/ Count \/ Spawn \/ Uncount \/ CloseTurnedAway

ClientThread(c) == ReadInit(c) \/ ReadFrame(c) \/ ReadFails(c) \/ Close(c) \/ Leave(c)

Peer(c) == Dial(c) \/ Send(c) \/ Falter(c) \/ Forget(c)

Next ==
    \/ Main
    \/ Exit
    \/ Start
    \/ \E c \in Clients : ClientThread(c) \/ Peer(c)

Spec == Init /\ [][Next]_vars

\* The kernel runs main and every thread; a receive returns after SO_RCVTIMEO.
FairSpec == Spec /\ WF_vars(Main) /\ \A c \in Clients : WF_vars(ClientThread(c))

-----------------------------------------------------------------------------
(* Properties *)

Registered == {c \in Clients : thread[c] # "none"}

(***************************************************************************)
(* active_clients counts the threads that have not given their slot back,  *)
(* and the connection main is just counting: no path leaks a slot          *)
(* (amf_helper.c:381-389 and 346).                                         *)
(***************************************************************************)
CounterExact ==
    active_clients = Cardinality(Registered)
                     + (IF acceptor.at \in {"spawn", "uncount"} THEN 1 ELSE 0)

\* There are never more than HELPER_MAX_CLIENTS client threads, codecs and GPU devices.
SessionLimit == Cardinality(Registered) <= MaxClients

(***************************************************************************)
(* Every descriptor and every codec has an owner that will close it: an    *)
(* open connection belongs to its thread or is the one main is holding,    *)
(* and a codec is open only in a thread that is still before its cleanup.  *)
(***************************************************************************)
NothingLeaks ==
    \A c \in Clients :
        /\ link[c] = "open" =>
              \/ thread[c] \in {"init", "loop", "done"}
              \/ acceptor.client = c
        /\ codec[c] => thread[c] \in {"loop", "done"}

(***************************************************************************)
(* A client is turned away at the count only while HELPER_MAX_CLIENTS      *)
(* threads are registered.  (They may include threads that have closed     *)
(* their connection: a client that reconnects at once can come too early.) *)
(***************************************************************************)
TurnedAwayOnlyAtLimit ==
    [][acceptor.at = "count" /\ acceptor'.at = "uncount"
           => Cardinality(Registered) = MaxClients]_vars

(***************************************************************************)
(* The slot of a client that died, or froze without closing its socket, is *)
(* given back: sixteen frozen Wine processes do not lock out the next one. *)
(***************************************************************************)
SlotReclaimed ==
    \A c \in Clients : peer[c] \in {"frozen", "gone"} ~> thread[c] = "none"

=============================================================================
