--------------------------- MODULE MCEncoderLink ---------------------------
(***************************************************************************)
(* A small instance of EncoderLink: two picture sizes, a helper of the     *)
(* bridge's version and an older one, a ring of two packets.               *)
(***************************************************************************)
EXTENDS EncoderLink

MCVersions == {1, 2}
=============================================================================
