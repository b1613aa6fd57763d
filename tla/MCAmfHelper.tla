---------------------------- MODULE MCAmfHelper ----------------------------
(***************************************************************************)
(* AmfHelper with three clients and two slots: one client can be turned    *)
(* away while the others are in any phase of their sessions.               *)
(***************************************************************************)
EXTENDS AmfHelper
=============================================================================
