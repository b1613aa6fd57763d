---------------------------- MODULE MCInstaller ----------------------------
(***************************************************************************)
(* Installer with one of the four DLLs and one of the three values: each   *)
(* of them has its own places, which no other's steps touch.               *)
(***************************************************************************)
EXTENDS Installer

MCDlls   == <<"amfrt64.dll">>
MCValues == <<"Graphics">>
=============================================================================
