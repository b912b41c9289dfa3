--------------------------- MODULE OrderedDelivery ---------------------------
(***************************************************************************)
(* What a connection promises its client: the frames the client receives   *)
(* are, in order and without a gap, the frames the daemon's producers      *)
(* handed over.  Delivery may stop at any point (the connection ends) but  *)
(* it never skips, repeats or reorders a frame.                            *)
(***************************************************************************)
EXTENDS Naturals, Sequences, SequencesExt

VARIABLES
    accepted,   \* the frames handed over by the producers
    delivered   \* the frames written to the client's socket

vars == <<accepted, delivered>>

Init == accepted = <<>> /\ delivered = <<>>

\* Producers hand over more frames.
Accept ==
    /\ IsPrefix(accepted, accepted')
    /\ UNCHANGED delivered

\* The next frames reach the client.
Deliver ==
    /\ IsPrefix(delivered, delivered')
    /\ IsPrefix(delivered', accepted)
    /\ UNCHANGED accepted

Spec == Init /\ [][Accept \/ Deliver]_vars

=============================================================================
