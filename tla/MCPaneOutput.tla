---------------------------- MODULE MCPaneOutput ----------------------------
(* PaneOutput for TLC: model values for the connections, and three parts, named by
   `part`. Two connections attach in "chunks" (two chunks, one change of visibility)
   and in "toggles" (one chunk, two changes). In "one" one of them is unused and the
   other also asks for a snapshot, and any snapshot may exceed the frame limit. *)
EXTENDS PaneOutput, TLC

CONSTANTS c1, c2
VARIABLE part

TwoConns == {c1, c2}
Symmetry == Permutations(Conn)

Toggles == INSTANCE PaneOutput WITH MaxChunk <- 1, MaxToggle <- 2
One == INSTANCE PaneOutput WITH MaxRequest <- 1, MaxToggle <- 1, Oversize <- TRUE
\* The unused connection waits, and leaves after the other one.
Alone(c) ==
    \A d \in Conn \ {c} :
       attaches[d] = 0 /\ visible[d] /\ conn[d] \in {"idle", "closing", "gone"}
       /\ (conn[d] = "idle" \/ conn[c] = "gone")

PaneInit == part \in {"chunks", "toggles", "one"} /\ Init
PaneNext ==
    /\ \/ part = "chunks" /\ Next
       \/ part = "toggles" /\ Toggles!Next
       \/ part = "one" /\ One!Next /\ (\E c \in Conn : Alone(c))'
    /\ UNCHANGED part
PaneSpec == PaneInit /\ [][PaneNext]_<<vars, part>>

=============================================================================
