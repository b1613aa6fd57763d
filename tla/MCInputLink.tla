---------------------------- MODULE MCInputLink ----------------------------
(***************************************************************************)
(* InputLink with two threads of UU and two sessions of the helper.  Calls *)
(* pass less than a chunk, a chunk and a part of one, or an event in the   *)
(* second chunk that cannot be sent.                                       *)
(***************************************************************************)
EXTENDS InputLink

MCInputs == {<<"known">>, <<"known", "known", "known">>, <<"known", "known", "other">>}
=============================================================================
