--------------------------- MODULE MCInputBridge ---------------------------
(***************************************************************************)
(* InputBridge with a relative and an absolute pointer, which both have    *)
(* buttons, and a keyboard.  Chunks hold a drag (a move and a button in    *)
(* one event), an absolute click, a wheel, keys and a key that cannot be   *)
(* mapped.                                                                 *)
(***************************************************************************)
EXTENDS InputBridge

CONSTANTS mouse, pad, keys

MCOffers ==
    [d \in Devices |-> CASE d = mouse -> {"pointer", "button", "scroll"}
                         [] d = pad   -> {"absolute", "button"}
                         [] d = keys  -> {"keyboard"}]

MCChunks ==
    {<< <<"pointer", "button">>, <<"keyboard">> >>,
     << <<"absolute", "button">>, <<"scroll">> >>,
     << <<"keyboard">>, <<"unmapped">> >>}
=============================================================================
