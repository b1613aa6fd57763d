----------------------------- MODULE AmfEncoder -----------------------------
(***************************************************************************)
(* What an AMF encoder component promises its caller, without the helper   *)
(* that does the work: frames go in, packets come out of a bounded queue.  *)
(*                                                                         *)
(* A packet is a record [pts, frames]: pts is the submission that produced *)
(* it, frames the set of submissions whose pictures it carries.  The codec *)
(* may hold a picture back and emit it with a later one, so frames need    *)
(* not be {pts}.  Every call is one step here; EncoderLink shows the calls *)
(* as the exchanges with uu-amf-helper that they are.                      *)
(***************************************************************************)
EXTENDS Naturals, Sequences

CONSTANT MaxOutputs     \* BRIDGE_MAX_OUTPUTS

VARIABLES
    ready,              \* between a successful Init and the next close
    draining,           \* Drain was called and no Flush since
    submitted,          \* how many frames SubmitInput has dealt with
    outputs,            \* packets waiting for QueryOutput
    delivered           \* the frames the caller has received so far

vars == <<ready, draining, submitted, outputs, delivered>>

Queued == UNION {outputs[i].frames : i \in 1..Len(outputs)}

Init ==
    /\ ready = FALSE
    /\ draining = FALSE
    /\ submitted = 0
    /\ outputs = <<>>
    /\ delivered = {}

Open ==
    /\ ~ready
    /\ ready' = TRUE
    /\ UNCHANGED <<draining, submitted, outputs, delivered>>

Close ==
    /\ ready
    /\ ready' = FALSE
    /\ UNCHANGED <<draining, submitted, outputs, delivered>>

SetDraining ==
    /\ ready
    /\ draining' \in BOOLEAN
    /\ UNCHANGED <<ready, submitted, outputs, delivered>>

(***************************************************************************)
(* A submission yields at most one packet.  It is tagged with this very    *)
(* submission, and its pictures are new: later than everything queued or   *)
(* delivered before.  A failed submission may also end the session.        *)
(***************************************************************************)
Submit ==
    /\ ready
    /\ submitted' = submitted + 1
    /\ \/ /\ ready' \in BOOLEAN
          /\ UNCHANGED outputs
       \/ /\ Len(outputs) < MaxOutputs
          /\ \E F \in (SUBSET (1..submitted')) \ {{}} :
                /\ \A old \in Queued \cup delivered : \A new \in F : old < new
                /\ outputs' = Append(outputs, [pts |-> submitted', frames |-> F])
          /\ UNCHANGED ready
    /\ UNCHANGED <<draining, delivered>>

Take ==
    /\ outputs # <<>>
    /\ outputs' = Tail(outputs)
    /\ delivered' = delivered \cup Head(outputs).frames
    /\ UNCHANGED <<ready, draining, submitted>>

Next == Open \/ Close \/ SetDraining \/ Submit \/ Take

Spec == Init /\ [][Next]_vars
=============================================================================
