------------------------------ MODULE MCRecording ------------------------------
(* What the reader task records of a pane, for TLC: the scrollback ring, the filter in
   front of it and the trackers of the screen switches. They share no state here, so a
   behaviour runs the ring (part "ring", with the constants of the configuration), or
   the filter or the trackers with one record of Filters or Trackers, named by `part`.
   The others rest: the ring at a new pane, the rest at Idle. *)
EXTENDS ScrollbackRing

VARIABLES part, filter, segs, parser, replay, same, relaunch, overflow, attributedTo, origin,
    attributed, length, stream, pos, client, shadow, tracker, scanner, slot, kept, live,
    items, adopted, split

Filter(c) == INSTANCE WriteFilter WITH
    Alphabet <- c.Alphabet, MaxBytes <- c.MaxBytes, MaxRead <- c.MaxRead,
    PendingCap <- c.PendingCap, Dims <- c.Dims,
    client <- parser, ring <- replay, dims <- attributedTo
\* OSC and DCS strings with screen switches, in every split into reads.
Strings == [part |-> "strings", Alphabet |-> {"E", "]", "P", "m", "6", "B", "T"},
            MaxBytes |-> 6, MaxRead |-> 4, PendingCap |-> 20, Dims |-> {1}]
\* CSI, device queries, control bytes inside them and charset designations.
Queries == [Strings EXCEPT !.part = "queries", !.Alphabet = {"E", "[", "6", "n", "(", "B", "?"},
              !.MaxBytes = 7]
\* A cap of three bytes: the hold-back overflows in every place.
Overflow == [Strings EXCEPT !.part = "overflow", !.Alphabet = {"E", "]", "P", "m", "x", "B", "["},
               !.MaxRead = 3, !.PendingCap = 3]
\* Resizes between the reads.
Resizes == [Strings EXCEPT !.part = "resizes", !.Alphabet = {"E", "]", "x", "B"},
              !.MaxRead = 3, !.PendingCap = 4, !.Dims = {1, 2}]
Filters == {Strings, Queries, Overflow, Resizes}

Spans(c) == INSTANCE ScreenSpans WITH
    Tokens <- c.Tokens, MaxTokens <- 3, BodyCap <- 8, ring <- kept
\* What a program writes: a screen switch (?1049 or ?1047), a mark, a mark that an escape
\* cuts off, a designation, a reset, a broken switch.
Sw(digit, final) == <<"E", "[", "?", digit, final>>
Enter == Sw("4", "h")
Leave == Sw("4", "l")
Mark == <<"E", "]", "p", "B">>
Open == <<"E", "]", "p">>
Charset == <<"E", "(">>
Reset == <<"E", "c">>
Broken == <<"E", "[", "?", "4", "x">>
\* Switches, marks, designators and resets split over reads in every way.
Switches == [part |-> "switches",
             Tokens |-> {Enter, Leave, Mark, Open, Charset, Reset, Broken, <<"E">>, <<"x">>}]
\* ?1047, which the shadow parser does not follow.
TwoScreens == [part |-> "two", Tokens |-> {Enter, Sw("7", "h"), Sw("7", "l"), Mark, Charset, <<"x">>}]
\* What reaches the ring.
Recorded == [part |-> "recorded", Tokens |-> {Enter, Leave, Reset, Broken, Mark, Open, <<"x">>}]
Trackers == {Switches, TwoScreens, Recorded}

ASSUME FilterAssumption == \A c \in Filters : Filter(c)!FilterAssumption
ASSUME SpansAssumption == \A c \in Trackers : Spans(c)!SpansAssumption
-----------------------------------------------------------------------------
ringVars == <<ring, dims, size, pty, resizing, reader, log, had, resizes, upgrades>>
filterVars == <<filter, segs, parser, replay, same, relaunch, overflow, attributedTo, origin,
                attributed, length>>
spanVars == <<stream, pos, client, shadow, tracker, scanner, slot, kept, live, items, adopted,
              split>>

Idle == 0
AnySize == CHOOSE s \in Sizes : TRUE
RingRests == Init /\ size = AnySize
FilterIdle ==
    /\ filter = Idle /\ segs = Idle /\ parser = Idle /\ replay = Idle /\ same = Idle
    /\ relaunch = Idle /\ overflow = Idle /\ attributedTo = Idle /\ origin = Idle
    /\ attributed = Idle /\ length = Idle
SpansIdle ==
    /\ stream = Idle /\ pos = Idle /\ client = Idle /\ shadow = Idle /\ tracker = Idle
    /\ scanner = Idle /\ slot = Idle /\ kept = Idle /\ live = Idle /\ items = Idle
    /\ adopted = Idle /\ split = Idle

RecordingInit ==
    \/ part = "ring" /\ Init /\ FilterIdle /\ SpansIdle
    \/ \E c \in Filters : part = c.part /\ Filter(c)!Init /\ RingRests /\ SpansIdle
    \/ \E c \in Trackers : part = c.part /\ Spans(c)!Init /\ RingRests /\ FilterIdle

RecordingNext ==
    \/ part = "ring" /\ Next /\ UNCHANGED <<part, filterVars, spanVars>>
    \/ /\ \E c \in Filters : part = c.part /\ Filter(c)!Next
       /\ UNCHANGED <<part, ringVars, spanVars>>
    \/ /\ \E c \in Trackers : part = c.part /\ Spans(c)!Next
       /\ UNCHANGED <<part, ringVars, filterVars>>

RecordingSpec == RecordingInit /\ [][RecordingNext]_<<part, ringVars, filterVars, spanVars>>
-----------------------------------------------------------------------------
\* The segments of a snapshot carry the sizes their bytes were written at, also for the
\* bytes older than the oldest marker, as long as no hot upgrade restored bytes without
\* markers (mux/scrollback_buffer.rs).
SegmentsAreTrue == TypeOK /\ (upgrades = 0 => SegmentsTrue /\ HeadCovered)

\* A replay of what the filter lets into the ring does what the client did, without the
\* launches and queries, and what is held back is an open sequence
\* (pty_spawn/write_filter.rs).
FilterIsFaithful ==
    \A c \in Filters : part = c.part =>
       /\ c = Resizes => Filter(c)!DimsOfOldest
       /\ c # Resizes => Filter(c)!ReplayIsFaithful
       /\ c \in {Strings, Queries} => Filter(c)!NoRelaunch
       /\ c \in {Queries, Overflow} => Filter(c)!WrittenIsRing
       /\ c \in {Strings, Overflow} => Filter(c)!HeldIsOpen

\* The tracker and the scanner agree with the client byte by byte, wherever the reads
\* split the stream; the ring stays on the main screen as long as no read ends inside a
\* sequence (pty_spawn/write_filter.rs, pty_spawn/mod.rs).
SpansAreClients ==
    \A c \in Trackers : part = c.part =>
       IF c = Recorded THEN Spans(c)!UnsplitRingStaysOnMain
       ELSE Spans(c)!LiveIsMain /\ Spans(c)!ItemsAreClients /\ Spans(c)!ScreenKnown
=============================================================================
