------------------------------ MODULE MCHooks -------------------------------
(***************************************************************************)
(* Two threads create three devices, and there are two slots for them; the *)
(* hook thread looks twice for streamer.dll.                               *)
(***************************************************************************)
EXTENDS Hooks, TLC

Symmetry == Permutations(Threads) \cup Permutations(Devices)

=============================================================================
