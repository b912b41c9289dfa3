----------------------------- MODULE WriteFilter -----------------------------
(***************************************************************************)
(* The filter between a pane's reader and its scrollback ring:             *)
(* src/src-tauri/src/mux/ipc/pty_spawn/write_filter.rs with the strip pass *)
(* of src/src-tauri/src/mux/scrollback_filter.rs.  It removes viewer       *)
(* launches, images and device queries from the stream, holding an         *)
(* unfinished one back over the reads it is split over, and closes what is *)
(* open where the reader removed a screen switch (a cut).  The client      *)
(* parsed the stream as it came; a later replay of the ring must do what   *)
(* the client saw, less what was removed.                                  *)
(***************************************************************************)
EXTENDS ClientParser, SequencesExt

CONSTANTS
    Alphabet,     \* the byte classes of this instance
    MaxBytes,     \* bound: bytes of the stream
    MaxRead,      \* bound: bytes and cuts of one read
    PendingCap,   \* SCROLLBACK_FILTER_PENDING_CAP
    Dims          \* grid sizes a read may be attributed to

FilterAssumption ==
    /\ Alphabet \subseteq Bytes \ {"D", "C"}
    /\ MaxBytes \in Nat /\ MaxRead \in Nat /\ PendingCap \in Nat \ {0} /\ Dims # {}

VARIABLES
    filter,    \* ScrollbackWriteFilter
    segs,      \* the read being collected: the runs between the cuts
    client,    \* the client's parser
    ring,      \* a parser replaying the ring
    same,      \* history: the two did the same things so far
    relaunch,  \* history: a replay of the ring would launch or answer
    overflow,  \* history: the cap was passed
    dims,      \* the grid size of the next read
    origin,    \* history: the size under which each held byte was read
    attributed, \* history: every output went to the size of its oldest byte
    length

vars == <<filter, segs, client, ring, same, relaunch, overflow, dims, origin,
          attributed, length>>
-----------------------------------------------------------------------------
(* scrollback_filter.rs: the written stream and the strip pass.            *)

\* WrittenState: where a replay of what was written stands.
Written(state, params) == [at |-> state, params |-> params]
WGround == Written("ground", <<>>)

OpenCsi(params, b) ==
    CASE b = "E" -> Written("escape", <<>>)
      [] b \in C0 -> Written("csi", params)
      [] b = "6" \/ (b = "?" /\ params = <<>>) \/ (b = "(" /\ params # <<>>) ->
           Written("csi", Append(params, b))
      [] OTHER -> WGround

\* WrittenState::advance
Advance(w, b) ==
    CASE w.at = "ground" -> IF b = "E" THEN Written("escape", <<>>) ELSE w
      [] w.at = "escape" ->
           (CASE b = "[" -> Written("csi", <<>>)
              [] b = "(" -> Written("designator", <<>>)
              [] b = "]" -> Written("osc", <<>>)
              [] b = "P" -> Written("st", <<>>)
              [] b = "E" -> w
              [] OTHER -> WGround)
      [] w.at = "designator" -> WGround
      [] w.at = "osc" -> (CASE b = "B" -> WGround
                            [] b = "E" -> Written("escape", <<>>)
                            [] OTHER -> w)
      [] w.at = "st" -> IF b = "E" THEN Written("escape", <<>>) ELSE w
      [] w.at = "csi" -> OpenCsi(w.params, b)

\* Written::push: the final byte of a query begun in an earlier call is replaced.
Push(o, b) ==
    IF o.w.at = "csi" /\ IsQuery(o.w.params, b)
    THEN [bytes |-> Append(o.bytes, "D"), w |-> WGround]
    ELSE [bytes |-> Append(o.bytes, b), w |-> Advance(o.w, b)]

Extend(o, bytes) == FoldLeft(Push, o, bytes)

\* close_before_removal
CloseBeforeRemoval(o) ==
    CASE o.w.at \in {"csi", "escape"} -> Push(o, "D")
      [] o.w.at \in {"osc", "st"} -> Extend(o, <<"E", "C">>)
      [] OTHER -> o

From(bytes, i) == SubSeq(bytes, i, Len(bytes))

\* Where the body of a string that opens at bytes[1] ends: find_st, find_osc_end,
\* scan_body_end and find_osc_terminator agree.  how is "complete", "aborted" or
\* "open"; at: the first byte after the string; last: the last byte of its body.
BodyEnd(bytes) ==
    LET stops == {j \in 3 .. Len(bytes) :
                    bytes[j] = "E" \/ (bytes[j] = "B" /\ bytes[2] = "]")}
        j == Min(stops)
    IN  CASE stops = {} -> [how |-> "open", at |-> 0, last |-> 0]
          [] stops # {} /\ bytes[j] = "B" ->
               [how |-> "complete", at |-> j + 1, last |-> j - 1]
          [] stops # {} /\ bytes[j] = "E" /\ j = Len(bytes) ->
               [how |-> "open", at |-> 0, last |-> 0]
          [] stops # {} /\ bytes[j] = "E" /\ j < Len(bytes) ->
               IF bytes[j + 1] = "T"
               THEN [how |-> "complete", at |-> j + 2, last |-> j - 1]
               ELSE [how |-> "aborted", at |-> j, last |-> j - 1]

\* The string at the head of the bytes is removed: a complete one, and a DCS or
\* APC even when it is aborted.
Removed(bytes) ==
    LET end == BodyEnd(bytes)
    IN  /\ end.how = "complete" \/ (end.how = "aborted" /\ bytes[2] = "P")
        /\ IsTarget(bytes[2], SubSeq(bytes, 3, end.last))

\* scan_csi_device_query at the head of the bytes: the index past it, or 0.
QueryEnd(bytes) ==
    LET ends == {j \in 3 .. Len(bytes) :
                   /\ bytes[j] \in CsiFinals
                   /\ \A k \in 3 .. j - 1 : bytes[k] \in C0 \cup {"6", "?", "("}}
        j == Min(ends)
        params == SelectSeq(SubSeq(bytes, 3, j - 1), LAMBDA b : b \notin C0)
    IN  IF ends # {} /\ IsQuery(params, bytes[j]) THEN j + 1 ELSE 0

RECURSIVE StripPass(_, _, _)
\* strip_pass; `verbatim` bytes are copied unexamined.
StripPass(bytes, o, verbatim) ==
    IF bytes = <<>> THEN o
    ELSE LET b == bytes[1]
             next == IF Len(bytes) > 1 THEN bytes[2] ELSE ""
         IN  CASE verbatim > 0 -> StripPass(Tail(bytes), Push(o, b), verbatim - 1)
               [] verbatim = 0 /\ b = "E" /\ next \in {"]", "P"} /\ Removed(bytes) ->
                    StripPass(From(bytes, BodyEnd(bytes).at), CloseBeforeRemoval(o), 0)
               [] verbatim = 0 /\ b = "E" /\ next = "[" /\ QueryEnd(bytes) > 0 ->
                    StripPass(From(bytes, QueryEnd(bytes)),
                              Extend(CloseBeforeRemoval(o),
                                     SelectSeq(SubSeq(bytes, 3, QueryEnd(bytes) - 1),
                                               LAMBDA c : c \in C0)), 0)
               [] verbatim = 0 /\ b = "E" /\ next = "(" ->
                    StripPass(Tail(bytes), Push(o, b), 2)
               [] OTHER -> StripPass(Tail(bytes), Push(o, b), 0)

\* strip_pty_output_for_scrollback_write_with_written_state
Strip(bytes, designator, w) ==
    StripPass(bytes, [bytes |-> <<>>, w |-> w], IF designator THEN 1 ELSE 0)
-----------------------------------------------------------------------------
(* write_filter.rs.                                                        *)

\* The head of the chain a link belongs to.
ChainHead(head, i) == IF head = 0 THEN i ELSE head

RECURSIVE ScanFrom(_, _, _)
\* scan_boundary from index i, inside the chain headed at `head` (0: none).
ScanFrom(bytes, i, head) ==
    LET n == Len(bytes)
        next == IF i < n THEN bytes[i + 1] ELSE ""
        end == BodyEnd(From(bytes, i))
        hold == [boundary |-> ChainHead(head, i), construct |-> i, awaiting |-> FALSE]
        settled(await) == [boundary |-> n + 1, construct |-> n + 1, awaiting |-> await]
    IN  CASE i > n -> settled(FALSE)
          [] i <= n /\ bytes[i] # "E" -> ScanFrom(bytes, i + 1, 0)
          [] i = n /\ bytes[i] = "E" -> hold
          [] i < n /\ bytes[i] = "E" /\ next \in {"]", "P"} ->
               (CASE end.how = "complete" -> ScanFrom(bytes, i + end.at - 1, 0)
                  [] end.how = "aborted" ->
                       ScanFrom(bytes, i + end.at - 1, ChainHead(head, i))
                  [] end.how = "open" -> hold)
          [] i < n /\ bytes[i] = "E" /\ next = "E" ->
               ScanFrom(bytes, i + 1, ChainHead(head, i))
          [] i < n /\ bytes[i] = "E" /\ next = "(" ->
               IF i + 2 <= n THEN ScanFrom(bytes, i + 3, 0) ELSE settled(TRUE)
          [] OTHER -> ScanFrom(bytes, i + 2, 0)

\* The four states of a filter that are carried from call to call, and `out`.
NewFilter == [pending |-> <<>>, written |-> WGround, awaiting |-> FALSE, held |-> 0,
              started |-> 0]

\* A plausible slip: inside a string nothing is written.
ClosureSkipsStrings(w) ==
    CASE w.at = "csi" -> <<"D">>
      [] w.at = "escape" -> <<"C">>
      [] w.at = "designator" -> <<"E">>
      [] OTHER -> <<>>

\* closure_for
ClosureFor(w) ==
    CASE w.at = "csi" -> <<"D">>
      [] w.at = "escape" -> <<"C">>
      [] w.at = "designator" -> <<"E">>
      [] w.at \in {"osc", "st"} -> <<"E", "C">>
      [] w.at = "ground" -> <<>>

\* feed_with_cuts, one segment.  f: the filter with `out`, `full` (overflowed)
\* and `kept` (pending is what the call began with).
\* A run that does not fit is written; its last ESC is held if it opens an escape.
OverflownTo(f, o, esc, trailing, awaits, last) ==
    LET holds == trailing /\ esc.w.at = "escape"
        both == trailing /\ ~holds
        w == IF both THEN esc.w ELSE o.w
    IN  [f EXCEPT !.pending = IF holds THEN <<"E">> ELSE <<>>,
                  !.held = IF holds THEN 1 ELSE 0,
                  !.awaiting = last /\ awaits,
                  !.written = IF last THEN w ELSE WGround,
                  !.out = @ \o o.bytes \o (IF both THEN esc.bytes ELSE <<>>)
                            \o (IF last THEN <<>> ELSE ClosureFor(w)),
                  !.full = TRUE, !.kept = FALSE]
OverflownOf(f, o, trailing, awaits, last) ==
    OverflownTo(f, o, Strip(<<"E">>, FALSE, o.w), trailing, awaits, last)
Overflown(f, run, skip, start, carried, last) ==
    LET trailing == last /\ run[Len(run)] = "E"
    IN  OverflownOf(f, Strip(IF trailing THEN Front(run) ELSE run, skip, f.written), trailing,
                    ScanFrom(run, start, IF carried THEN 1 ELSE 0).awaiting, last)

AtCutOf(f, o) ==
    [f EXCEPT !.pending = <<>>, !.held = 0, !.awaiting = FALSE, !.written = WGround,
              !.out = @ \o o.bytes \o ClosureFor(o.w), !.kept = FALSE]
AtCut(f, run, skip, start, carried) ==
    LET boundary == ScanFrom(run, start, IF carried THEN 1 ELSE 0).boundary
    IN  AtCutOf(f, Strip(SubSeq(run, 1, boundary - 1), skip, f.written))

\* pending_construct_start: where the open construct stands in what is kept.
Rebased(scan) == scan.construct - scan.boundary + 1

AtEndOf(f, run, scan, o) ==
    LET rest == From(run, scan.boundary)
        drained == [f EXCEPT !.pending = rest, !.awaiting = scan.awaiting,
                             !.held = IF rest = <<>> THEN 0 ELSE Rebased(scan)]
    IN  IF scan.boundary = 1 THEN drained
        ELSE [drained EXCEPT !.written = o.w, !.out = @ \o o.bytes, !.kept = FALSE]
AtEndScanned(f, run, skip, scan) ==
    AtEndOf(f, run, scan, Strip(SubSeq(run, 1, scan.boundary - 1), skip, f.written))
AtEnd(f, run, skip, start, carried) ==
    AtEndScanned(f, run, skip, ScanFrom(run, start, IF carried THEN 1 ELSE 0))

FeedSegment(f, seg, last) ==
    LET run == f.pending \o seg
        carried == f.pending # <<>>
        skip == ~carried /\ f.awaiting
        start == IF carried THEN f.held ELSE IF skip THEN 2 ELSE 1
    IN  CASE run = <<>> /\ last -> f
          [] run = <<>> /\ ~last ->
               [f EXCEPT !.out = @ \o ClosureFor(f.written), !.written = WGround,
                         !.awaiting = FALSE]
          [] run # <<>> /\ Len(run) > PendingCap ->
               Overflown(f, run, skip, start, carried, last)
          [] run # <<>> /\ Len(run) <= PendingCap /\ last ->
               AtEnd(f, run, skip, start, carried)
          [] run # <<>> /\ Len(run) <= PendingCap /\ ~last ->
               AtCut(f, run, skip, start, carried)

RECURSIVE FeedSegments(_, _)
FeedSegments(f, ss) ==
    IF ss = <<>> THEN f ELSE FeedSegments(FeedSegment(f, ss[1], Len(ss) = 1), Tail(ss))

\* pending_started_dims after a call: of this read unless the held run is the old.
StartedAfter(f, g, d) ==
    IF g.pending = <<>> THEN 0 ELSE IF f.pending # <<>> /\ g.kept THEN f.started ELSE d

\* feed_with_cuts
Call(f, g, d) ==
    [filter |-> [pending |-> g.pending, written |-> g.written, awaiting |-> g.awaiting,
                 held |-> g.held, started |-> StartedAfter(f, g, d)],
     bytes |-> g.out, full |-> g.full, dims |-> IF f.pending # <<>> THEN f.started ELSE d]
FeedWithCuts(f, ss, d) ==
    Call(f, FeedSegments(f @@ [out |-> <<>>, full |-> FALSE, kept |-> TRUE], ss), d)
-----------------------------------------------------------------------------
Init ==
    /\ filter = NewFilter /\ segs = <<<<>>>> /\ client = Ground /\ ring = Ground
    /\ same = TRUE /\ relaunch = FALSE /\ overflow = FALSE
    /\ dims \in Dims /\ origin = <<>> /\ attributed = TRUE /\ length = 0

Size(ss) == Len(FlattenSeq(ss)) + Len(ss) - 1

\* The child writes; the bytes of one read are collected.
Arrives(b) ==
    /\ length < MaxBytes /\ Size(segs) < MaxRead
    /\ length' = length + 1
    /\ segs' = [segs EXCEPT ![Len(segs)] = Append(@, b)]
    /\ UNCHANGED <<filter, client, ring, same, relaunch, overflow, dims, origin,
                   attributed>>

\* The client's parser after the collected bytes; a screen switch leaves ground.
ClientAt == Parse(IF Len(segs) = 1 THEN client ELSE Ground, segs[Len(segs)], <<>>).to

\* A screen switch that extract_main_buffer removes; one whose ESC is taken as a
\* charset designator is text and stays.
Switch ==
    /\ length < MaxBytes /\ Size(segs) < MaxRead /\ ClientAt.at # "charset"
    /\ length' = length + 1
    /\ segs' = Append(segs, <<>>)
    /\ UNCHANGED <<filter, client, ring, same, relaunch, overflow, dims, origin,
                   attributed>>

\* All a client does for the segments of a read.
RECURSIVE ClientParses(_, _, _)
ClientParses(st, ss, did) ==
    LET r == Parse(st, ss[1], did)
    IN  IF Len(ss) = 1 THEN r ELSE ClientParses(Ground, Tail(ss), r.did)

Kept(did) == SelectSeq(did, LAMBDA e : e.do \notin {"launch", "answer"})

\* The reader hands a read to the filter and writes what comes out to the ring.
Writes(call, seen, replay, read) ==
    /\ filter' = call.filter
    /\ client' = seen.to /\ ring' = replay.to
    /\ same' = (same /\ Kept(seen.did) = Kept(replay.did))
    /\ relaunch' = (relaunch \/ \E i \in DOMAIN replay.did :
                                  replay.did[i].do \in {"launch", "answer"})
    /\ overflow' = (overflow \/ call.full)
    /\ origin' = From(read, Len(read) - Len(call.filter.pending) + 1)
    /\ attributed' = (attributed /\ (call.bytes = <<>> \/ read = <<>> \/ call.dims = read[1]))
WritesCall(call) ==
    Writes(call, ClientParses(client, segs, <<>>), Parse(ring, call.bytes, <<>>),
           origin \o [i \in 1 .. Len(FlattenSeq(segs)) |-> dims])
Read ==
    /\ segs # <<<<>>>>
    /\ WritesCall(FeedWithCuts(filter, segs, dims))
    /\ segs' = <<<<>>>>
    /\ UNCHANGED <<dims, length>>

Resize(d) ==
    /\ d # dims /\ segs = <<<<>>>> /\ dims' = d
    /\ UNCHANGED <<filter, segs, client, ring, same, relaunch, overflow, origin,
                   attributed, length>>

Next == (\E b \in Alphabet : Arrives(b)) \/ Switch \/ Read \/ (\E d \in Dims : Resize(d))

Spec == Init /\ [][Next]_vars
-----------------------------------------------------------------------------
\* A replay of the ring does exactly what the client did, in the same order, less
\* the removed launches and queries, wherever the stream was split into reads and
\* whatever a switch or the cap cut off.
ReplayIsFaithful == same

\* A replay launches no viewer and answers no query, unless the cap was passed.
NoRelaunch == relaunch => overflow

\* The state the filter carries is the state a replay of the ring is in.
WrittenIsRing ==
    LET w == filter.written
    IN  CASE ring.at = "string" -> w.at = (IF ring.kind = "]" THEN "osc" ELSE "st")
          [] ring.at \in {"escape", "stringEscape"} -> w.at = "escape"
          [] ring.at = "charset" -> w.at = "designator"
          [] ring.at = "csi" -> w.at = "csi" /\ w.params = ring.body
          [] ring.at = "ground" -> w.at = "ground"

\* Held bytes are one unfinished construct of the client's with the constructs it
\* closed, and no more than the cap.
HeldIsOpen ==
    filter.pending # <<>> =>
        /\ Len(filter.pending) <= PendingCap /\ filter.pending[1] = "E"
        /\ filter.held \in 1 .. Len(filter.pending) /\ filter.pending[filter.held] = "E"
        /\ client.at \in {"escape", "string", "stringEscape"}

\* Held bytes remember the size of the read their first byte came from, and output
\* is attributed to the size of its oldest byte.
DimsOfOldest ==
    attributed /\ (filter.pending # <<>> => filter.started = origin[1])
=============================================================================
