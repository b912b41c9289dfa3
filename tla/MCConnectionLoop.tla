-------------------------- MODULE MCConnectionLoop --------------------------
(* ConnectionLoop for TLC: three parts, named by `part`. In "order" output, answers,
   the kick and the teardown share an outbound queue of one frame; in "merge" output,
   exits and snapshots of two panes are drained in batches, without a kick; in "notify" three
   notifications and a message that renames the window meet a broadcast channel of one;
   a kick meets two of them and no such message. *)
EXTENDS ConnectionLoop, TLC

CONSTANTS p0, p1, p2
VARIABLE part

OnePane == {p0}
TwoPanes == {p1, p2}
Symmetry == Permutations(TwoPanes)

Merging == INSTANCE ConnectionLoop WITH
    Pane <- TwoPanes, WriterBatch <- 1, BatchLimit <- 3, MaxOutput <- 3, MaxReply <- 0
Notifying == INSTANCE ConnectionLoop WITH
    WriterBatch <- 1, BatchLimit <- 1, ChanCap <- 1, MaxOutput <- 0, MaxReply <- 0, MaxNotice <- 3,
    MaxName <- 2

PartsInit ==
    \/ part = "order" /\ Init
    \/ part = "merge" /\ Merging!Init
    \/ part = "notify" /\ Notifying!Init
PartsNext ==
    /\ \/ part = "order" /\ Next
       \/ part = "merge" /\ Merging!Next /\ ~kick'
       \/ part = "notify" /\ Notifying!Next /\ (kick' => broadcasts' <= 2 /\ renamed' = {})
    /\ UNCHANGED part
PartsSpec == PartsInit /\ [][PartsNext]_<<vars, part>>

\* What the loop keeps while it drains, merges and holds back: every chunk in its order
\* and on its own pane, and no more in hand than one batch or one resync
\* (merge_consecutive_chunks, the gates of the drain and notify arms).
ChunksInOrder ==
    /\ OutputInOrder
    /\ part = "order" => TypeOK /\ HeldBounded
    /\ part = "merge" => Merging!TypeOK /\ Merging!HeldBounded
    /\ part = "notify" => Notifying!TypeOK /\ Notifying!HeldBounded
=============================================================================
