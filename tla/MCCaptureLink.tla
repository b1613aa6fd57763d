--------------------------- MODULE MCCaptureLink ---------------------------
(***************************************************************************)
(* CaptureLink with two threads of UU, two sessions of the helper and a    *)
(* desktop that changes, size included, while requests are on their way.   *)
(***************************************************************************)
EXTENDS CaptureLink
=============================================================================
