--------------------------- MODULE SnapshotReplay ---------------------------
(***************************************************************************)
(* The client rebuilds a terminal from the snapshot of a pane.  Off the    *)
(* main thread and without keeping history (terminal_core/replay.rs,       *)
(* replay_plan.rs: build_from_snapshot), then a second time with history,  *)
(* which is merged before what has scrolled since (tabs/replay.rs).  The   *)
(* reference is reset_and_replay_segments.  Characters carry the position  *)
(* of their output in the stream; resizing is that of Reflow.              *)
(***************************************************************************)
EXTENDS Integers, Sequences, SequencesExt

CONSTANTS
    Sizes, Target,            \* sizes the pane had; the size of the client
    Capacity,                 \* scrollback_lines
    SuffixMin, PrefixMax,     \* BYPASS_SUFFIX_MIN_BYTES, BYPASS_PREFIX_MAX_BYTES
    FoldedMax, UnfoldedMax,   \* BYPASS_PREFIX_MAX_SEGMENTS, .._UNFOLDED_HEAD
    Ops, LiveOps,             \* what programs write before and after the switch
    DeferSizes, LiveSizes,    \* sizes the client takes before and after the new core is shown
    Gap,                      \* the oldest bytes may have lost their segment
    MaxPayload, MaxSegments, MaxLive   \* bounds

SnapshotReplayAssumption ==
    /\ Ops \cup LiveOps \subseteq {"line", "text", "home", "mark", "clear"} /\ Gap \in BOOLEAN
    /\ {SuffixMin, PrefixMax, FoldedMax, UnfoldedMax, MaxPayload, MaxSegments, MaxLive} \subseteq Nat
    /\ Capacity \in Nat \ {0}

VARIABLES
    payload,    \* what the daemon kept of the pane's output
    segments,   \* from which offset which size
    stage,      \* "pane", "switching", "restoring", "done"
    queue,      \* live output while the worker builds
    resized,    \* size deferred into the switch, or none
    core,       \* the terminal shown
    base,       \* evictions counted when the second worker started
    rebuilt,    \* what the second worker builds
    whole,      \* history: the terminal that one thread would have parsed
    live        \* live operations so far
vars == <<payload, segments, stage, queue, resized, core, base, rebuilt, whole, live>>

R == INSTANCE Reflow WITH
        scr <- core, typed <- 0, started <- 0, resizes <- 0, Dims <- Sizes \cup DeferSizes \cup LiveSizes \cup {Target},
        FirstDim <- Target, Widths <- {1}, Capacities <- {Capacity}, Homes <- TRUE,
        MaxTyped <- 0, MaxLines <- 0, MaxResizes <- 0

NoSize == <<0, 0>>
-----------------------------------------------------------------------------
(* The core.                                                               *)
NewCore(d) == R!NewScreen(d) @@ [bypass |-> FALSE, virt |-> 0, evicted |-> 0, marks |-> <<>>]

\* get_scrollback_length
ScrollbackLength(s) == IF s.bypass THEN s.virt ELSE Len(s.sb)

\* ring_push_blank
Full(s) == ScrollbackLength(s) >= Capacity
Push(s) ==
    [s EXCEPT !.vp = Append(Tail(@), R!BlankLine(s.cols)),
              !.evicted = IF Full(s) THEN @ + 1 ELSE @,
              !.virt = IF s.bypass /\ ~Full(s) THEN @ + 1 ELSE @,
              !.sb = CASE s.bypass -> @
                       [] ~s.bypass /\ Full(s) -> Append(Tail(@), s.vp[1])
                       [] OTHER -> Append(@, s.vp[1])]

LineFeed(s) == IF s.row < s.rows - 1 THEN [s EXCEPT !.row = @ + 1] ELSE Push(s)
NewLine(s) == LineFeed([s EXCEPT !.col = 0, !.pending = FALSE])

\* write_grapheme_to_grid, of one column
Wrapped(s) == [s EXCEPT !.vp[s.row + 1].wrapped = TRUE]
Written(s, n) ==
    [s EXCEPT !.vp[s.row + 1].cells[s.col + 1] = R!Cell(n, 1),
              !.col = IF s.col + 1 < s.cols THEN @ + 1 ELSE @, !.pending = s.col + 1 >= s.cols]
Type(s, n) == Written(IF s.pending THEN Wrapped(NewLine(s)) ELSE s, n)

\* push_pending_prompt_mark
Mark(s) == [s EXCEPT !.marks = Append(@, [abs |-> ScrollbackLength(s) + s.row, evicted |-> s.evicted])]

Perform(s, o) ==
    CASE o.op = "line" -> NewLine(Type(s, o.n))
      [] o.op = "text" -> Type(s, o.n)
      [] o.op = "home" -> [s EXCEPT !.col = 0, !.row = 0, !.pending = FALSE]
      [] o.op = "mark" -> Mark(s)
      [] o.op = "clear" -> [s EXCEPT !.sb = <<>>]       \* clear_scrollback
Process(s, os) == FoldLeft(Perform, s, os)

\* A plausible slip: the rows that go are not counted.
FoldForgets(s) == [s EXCEPT !.sb = <<>>]
\* restore_bypass_invariant_after_reflow
Fold(s) ==
    LET total == s.virt + Len(s.sb) IN
    [s EXCEPT !.sb = <<>>, !.virt = R!Less(total, Capacity), !.evicted = @ + R!Monus(total, Capacity)]

\* TerminalCore::resize
Resize(s, d) ==
    CASE d = <<s.cols, s.rows>> -> s
      [] d # <<s.cols, s.rows>> /\ s.bypass -> Fold(R!ResizeTo(s, d))
      [] OTHER -> R!ResizeTo(s, d)

Enable(s) == [s EXCEPT !.bypass = TRUE]
Suspend(s) == [s EXCEPT !.bypass = FALSE]
Disable(s) == [s EXCEPT !.bypass = FALSE, !.virt = 0]
-----------------------------------------------------------------------------
(* The replay.                                                             *)
Bytes(os, from, to) == SubSeq(os, from + 1, to)

\* replay_segments; a list without segments leaves the size alone
ReplaySegments(s, os, segs, final) ==
    LET end(i) == IF i < Len(segs) THEN segs[i + 1].offset ELSE Len(os)
        Step(t, i) == IF end(i) > segs[i].offset
                      THEN Process(Resize(t, segs[i].dims), Bytes(os, segs[i].offset, end(i))) ELSE t
    IN  IF segs = <<>> THEN Process(s, os)
        ELSE Resize(FoldLeft(Step, Process(s, Bytes(os, 0, segs[1].offset)), [i \in DOMAIN segs |-> i]), final)

Reference(d) == ReplaySegments(NewCore(d), payload, segments, d)

\* stable_target_suffix_start: how many segments come before the stable tail
StableFrom(d) ==
    CHOOSE k \in 0 .. Len(segments) :
        /\ \A i \in k + 1 .. Len(segments) : segments[i].dims = d
        /\ k > 0 => segments[k].dims # d

\* leading_uniform_run_len, of the first k segments
UniformRun(d, k) ==
    IF k = 0 \/ segments[1].dims[1] # d[1] THEN 0
    ELSE CHOOSE h \in 1 .. k : /\ \A i \in 1 .. h : segments[i].dims = segments[1].dims
                               /\ h = k \/ segments[h + 1].dims # segments[1].dims

\* middle_is_row_bounded
RowBounded(d, h, k) ==
    \A i \in h + 1 .. k : segments[i].dims[1] = d[1] /\ segments[i].dims[2] <= segments[1].dims[2]

\* The segments of the head, 0 when it cannot be folded
HeadSegments(d, k) ==
    LET h == UniformRun(d, k) IN
    IF h > 0 /\ h < k /\ segments[1].dims[2] >= d[2] /\ RowBounded(d, h, k) THEN h ELSE 0

Start(i) == IF i < Len(segments) THEN segments[i + 1].offset ELSE Len(payload)

\* The three parts, with the fold between them
FoldedHead(d, from) ==
    IF from = 0 THEN NewCore(d)
    ELSE Suspend(Process(Enable(Fold(Resize(NewCore(d), segments[1].dims))), Bytes(payload, 0, from)))
Split(d, h, k, from) ==
    LET middle == [i \in 1 .. k - h |-> [segments[h + i] EXCEPT !.offset = @ - from]]
    IN  Process(Enable(Fold(ReplaySegments(FoldedHead(d, from), Bytes(payload, from, Start(k)), middle, d))),
                Bytes(payload, Start(k), Len(payload)))

\* The test of build_from_snapshot_inner for the three parts
Splits(h, k, suffix, middle) ==
    /\ k > 0 /\ k - h <= (IF h > 0 THEN FoldedMax ELSE UnfoldedMax)
    /\ suffix >= SuffixMin /\ middle <= PrefixMax /\ suffix >= middle
BuildParts(d, h, k, from) ==
    IF Splits(h, k, Len(payload) - Start(k), Start(k) - from) THEN Split(d, h, k, from)
    ELSE ReplaySegments(IF k = 0 THEN Enable(NewCore(d)) ELSE NewCore(d), payload, segments, d)
\* The core, its counted length, whether history is left out
Result(s) ==
    [core |-> IF s.bypass THEN Disable(s) ELSE s, len |-> ScrollbackLength(s), bypassed |-> s.bypass]

\* build_from_snapshot_inner
Build(d) ==
    LET k == StableFrom(d)
        h == HeadSegments(d, k)
    IN  Result(BuildParts(d, h, k, IF h > 0 THEN Start(h) ELSE 0))
-----------------------------------------------------------------------------
(* The pane and the client.                                                *)
Init ==
    /\ payload = <<>> /\ stage = "pane" /\ queue = <<>> /\ resized = NoSize /\ base = 0 /\ live = 0
    /\ \E d \in Sizes : segments \in {<<[offset |-> 0, dims |-> d]>>} \cup IF Gap THEN {<<>>} ELSE {}
    /\ core = NewCore(Target) /\ rebuilt = core /\ whole = core

Out(o) == [op |-> o, n |-> Len(payload) + live + 1]
Output(o) ==
    /\ stage = "pane" /\ Len(payload) < MaxPayload /\ payload' = Append(payload, Out(o))
    /\ UNCHANGED <<segments, stage, queue, resized, core, base, rebuilt, whole, live>>
ResizePane(d) ==
    /\ stage = "pane" /\ Len(segments) < MaxSegments /\ (segments # <<>> => d # Last(segments).dims)
    /\ segments' = Append(segments, [offset |-> Len(payload), dims |-> d])
    /\ UNCHANGED <<payload, stage, queue, resized, core, base, rebuilt, whole, live>>

\* dispatch_offthread_replay
Switch ==
    /\ stage = "pane" /\ payload # <<>> /\ stage' = "switching" /\ whole' = Reference(Target)
    /\ UNCHANGED <<payload, segments, queue, resized, core, base, rebuilt, live>>

LiveOutput(o) ==
    /\ stage \in {"switching", "restoring"} /\ live < MaxLive /\ live' = live + 1
    /\ whole' = Perform(whole, Out(o))
    /\ IF stage = "switching" THEN queue' = Append(queue, Out(o)) /\ UNCHANGED core
       ELSE core' = Perform(core, Out(o)) /\ UNCHANGED queue
    /\ UNCHANGED <<payload, segments, stage, resized, base, rebuilt>>
\* defer_resize_into_pending_switch
DeferResize(d) ==
    /\ stage = "switching" /\ live < MaxLive /\ live' = live + 1
    /\ d # <<whole.cols, whole.rows>> /\ whole' = Resize(whole, d)
    /\ resized' = IF d = Target THEN NoSize ELSE d
    /\ UNCHANGED <<payload, segments, stage, queue, core, base, rebuilt>>
\* Tab::resize of the terminal shown
LiveResize(d) ==
    /\ stage = "restoring" /\ live < MaxLive /\ live' = live + 1
    /\ d # <<whole.cols, whole.rows>> /\ whole' = Resize(whole, d) /\ core' = Resize(core, d)
    /\ UNCHANGED <<payload, segments, stage, queue, resized, base, rebuilt>>

Land(s) == IF resized = NoSize THEN s ELSE Resize(s, resized)
\* spawn_scrollback_restore
StartRestore(b) ==
    IF b.bypassed THEN stage' = "restoring" /\ rebuilt' = Reference(<<core'.cols, core'.rows>>)
    ELSE stage' = "done" /\ UNCHANGED rebuilt
Shows(b) ==
    /\ core' = Process(Land(b.core), queue) /\ base' = core'.evicted /\ StartRestore(b)
\* apply_offthread_swap, spawn_scrollback_restore
Swap ==
    /\ stage = "switching" /\ Shows(Build(Target))
    /\ queue' = <<>> /\ resized' = NoSize /\ UNCHANGED <<payload, segments, whole, live>>

\* merge_scrollback_from, prepend_scrollback_rows
Merged(s, other, trim) ==
    LET kept == SubSeq(other.sb, 1, R!Monus(Len(other.sb), trim))
        room == R!Monus(Capacity, Len(s.sb))
    IN  IF s.cols # other.cols THEN s
        ELSE [s EXCEPT !.sb = SubSeq(kept, R!Monus(Len(kept), room) + 1, Len(kept)) \o @]
\* apply_scrollback_restore
Restore ==
    /\ stage = "restoring" /\ stage' = "done"
    /\ core' = Merged(core, rebuilt, R!Monus(core.evicted, base))
    /\ UNCHANGED <<payload, segments, queue, resized, base, rebuilt, whole, live>>

Next ==
    \/ \E o \in Ops : Output(o)
    \/ \E d \in Sizes : ResizePane(d)
    \/ Switch
    \/ \E o \in LiveOps : LiveOutput(o)
    \/ \E d \in DeferSizes : DeferResize(d)
    \/ \E d \in LiveSizes : LiveResize(d)
    \/ Swap \/ Restore

Spec == Init /\ [][Next]_vars
-----------------------------------------------------------------------------
Switched == stage = "switching" /\ live = 0
SamePicture(s, t) == s.vp = t.vp /\ <<s.col, s.row, s.cols, s.rows>> = <<t.col, t.row, t.cols, t.rows>>

(* The off-thread build shows what the reference shows, cursor included, wherever the   *)
(* sizes of the pane let the head and the tail of the snapshot be replayed without      *)
(* keeping their rows.                                                                  *)
PictureSame == Switched => SamePicture(Build(Target).core, whole)

SameCounts(b) == b.core.evicted = whole.evicted /\ b.len = Len(whole.sb)

(* Rows that were only counted are counted as the reference counts them: the number of  *)
(* evictions, and the length of the history at the end.                                 *)
CountsSame == Switched => SameCounts(Build(Target))

(* Prompt and fold marks carry the row and the evictions that the reference gives them. *)
MarksSame == Switched => Build(Target).core.marks = whole.marks

(* After the second pass the client has every row that one thread would have, in order  *)
(* and once, with the output and the resizes that came while the workers ran.           *)
HistoryRestored == stage = "done" => R!Text(core) = R!Text(whole)

(* A resize that races the switch takes effect with it: no core of an old size stays on  *)
(* screen.                                                                              *)
ResizeLands == stage \in {"restoring", "done"} => <<core.cols, core.rows>> = <<whole.cols, whole.rows>>

(* The limit of the history holds in every core.                                        *)
WithinCapacity == Len(core.sb) <= Capacity
=============================================================================
