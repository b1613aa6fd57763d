--------------------------- MODULE MCDxvaDecoder ---------------------------
(***************************************************************************)
(* DxvaDecoder with two threads and two decoders: the threads meet in one  *)
(* decoder, or use one each and share the time of the last failure.  The   *)
(* second decoder is given one packet at a time, until it is created anew. *)
(***************************************************************************)
EXTENDS DxvaDecoder, TLC

CONSTANTS d1, d2

MCMaxPackets == d1 :> 2 @@ d2 :> 1

=============================================================================
