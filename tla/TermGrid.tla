------------------------------ MODULE TermGrid ------------------------------
(***************************************************************************)
(* The grid of the terminal core (src/crates/term_core): printing with     *)
(* grapheme clusters and wide pairs (print_handler.rs), erasing and        *)
(* editing (csi_screen.rs, csi_edit.rs), scrolling in the rotating ring    *)
(* (ring_buffer.rs, terminal_rows.rs), the cursor and its saved copy, and  *)
(* the side table of long contents, keyed by column and absolute row.      *)
(* A cell is its width and the length of its content in code points; a     *)
(* content longer than InlineMax lives in the table.                       *)
(***************************************************************************)
EXTENDS Integers, Sequences, FiniteSets

CONSTANTS
    Rows, Cols,
    Glyphs,       \* classes of code points the program prints
    Ops,          \* the control functions the program uses
    Counts,       \* parameters of control functions
    InlineMax,    \* code points a cell holds inline (16 bytes)
    MergedMax,    \* MAX_MERGED_CLUSTER_BYTES
    BufferMax,    \* the longest grapheme buffer
    Transcribes   \* scroll_region_scrollback_enabled, on the main screen

GridAssumption ==
    /\ Rows \in Nat \ {0} /\ Cols \in Nat \ {0, 1} /\ Counts \subseteq Nat \ {0}
    /\ InlineMax \in Nat \ {0} /\ MergedMax \in Nat /\ MergedMax > InlineMax
    /\ BufferMax \in Nat \ {0} /\ Transcribes \in BOOLEAN

VARIABLE term

Columns == 0 .. Cols - 1
Lines == 0 .. Rows - 1
Smaller(a, b) == IF a <= b THEN a ELSE b
Larger(a, b) == IF a >= b THEN a ELSE b

NoPos == <<>>
NotSaved == [some |-> FALSE]
Cell(w, n) == [w |-> w, n |-> n]
Blank == Cell(1, 1)
Spacer == Cell(0, 0)
BlankRow == [cells |-> [c \in Columns |-> Blank], wrapped |-> FALSE, big |-> {}, idx |-> {}]

\* TerminalCore::new
NewTerm ==
    [cells |-> [a \in Lines |-> [c \in Columns |-> Blank]],
     wrapped |-> [a \in Lines |-> FALSE], head |-> 0, table |-> {}, index |-> {},
     col |-> 0, row |-> 0, pending |-> FALSE, last |-> NoPos, top |-> 0,
     bottom |-> Rows - 1, auto |-> TRUE, origin |-> FALSE, saved |-> NotSaved,
     buffer |-> <<>>, kitty |-> FALSE]
-----------------------------------------------------------------------------
(* Cells, rows and the table.                                              *)

\* viewport_abs
Abs(t, r) == (t.head + r) % Rows
At(t, c, r) == t.cells[Abs(t, r)][c]
Put(t, c, r, cell) == [t EXCEPT !.cells[Abs(t, r)][c] = cell]

\* overflow.remove and overflow_ridx_remove
Forget(t, c, r) ==
    IF <<c, Abs(t, r)>> \notin t.table THEN t
    ELSE [t EXCEPT !.table = @ \ {<<c, Abs(t, r)>>}, !.index = @ \ {<<c, Abs(t, r)>>}]

\* Cell::set_char, with the entry of a content that does not fit
SetChar(t, c, r, n) ==
    LET u == Put(t, c, r, Cell(At(t, c, r).w, n))
    IN  IF n <= InlineMax THEN Forget(u, c, r)
        ELSE [u EXCEPT !.table = @ \cup {<<c, Abs(t, r)>>},
                       !.index = @ \cup {<<c, Abs(t, r)>>}]

SetWidth(t, c, r, w) == [t EXCEPT !.cells[Abs(t, r)][c].w = w]

RowAt(t, r) ==
    [cells |-> t.cells[Abs(t, r)], wrapped |-> t.wrapped[Abs(t, r)],
     big |-> {c \in Columns : <<c, Abs(t, r)>> \in t.table \cap t.index},
     idx |-> {c \in Columns : <<c, Abs(t, r)>> \in t.index}]

\* The rows of f take the given contents.
WithRows(t, f) ==
    LET at(a) == CHOOSE r \in DOMAIN f : Abs(t, r) = a
        set == {Abs(t, r) : r \in DOMAIN f}
        others(s) == {p \in s : p[2] \notin set}
    IN  [t EXCEPT
          !.cells = [a \in Lines |-> IF a \in set THEN f[at(a)].cells ELSE t.cells[a]],
          !.wrapped = [a \in Lines |-> IF a \in set THEN f[at(a)].wrapped ELSE t.wrapped[a]],
          !.table = others(@) \cup UNION {f[r].big \X {Abs(t, r)} : r \in DOMAIN f},
          !.index = others(@) \cup UNION {f[r].idx \X {Abs(t, r)} : r \in DOMAIN f}]

\* clear_line
ClearLines(t, rs) == WithRows(t, [r \in rs |-> BlankRow])

\* clear_line_range, the columns from .. to - 1
ClearRange(t, r, from, to) ==
    LET keeps(s) == {p \in s : p[2] # Abs(t, r) \/ p[1] < from \/ p[1] >= to}
    IN  [t EXCEPT !.cells[Abs(t, r)] =
            [c \in Columns |-> IF c >= from /\ c < to THEN Blank ELSE @[c]],
                  !.table = keeps(@), !.index = keeps(@)]

\* blank_wide_pair_half
BlankHalf(t, c, r) ==
    IF c \notin Columns \/ At(t, c, r).w = 1 THEN t
    ELSE Put(Forget(t, c, r), c, r, Blank)

\* A plausible slip: only the spacer of an overwritten base is looked after.
BlankSpacerOnly(t, c, r) ==
    IF At(t, c, r).w = 2 /\ c + 1 < Cols /\ At(t, c + 1, r).w = 0
    THEN BlankHalf(t, c + 1, r) ELSE t

\* blank_orphaned_neighbor_before_overwrite
BlankNeighbor(t, c, r) ==
    LET w == At(t, c, r).w
    IN  CASE w = 2 /\ c + 1 < Cols /\ At(t, c + 1, r).w = 0 -> BlankHalf(t, c + 1, r)
          [] w = 0 /\ c > 0 /\ At(t, c - 1, r).w = 2 -> BlankHalf(t, c - 1, r)
          [] OTHER -> t

\* blank_orphaned_base_before_placeholder
BlankChained(t, c, r) ==
    IF At(t, c, r).w = 2 /\ c + 1 < Cols /\ At(t, c + 1, r).w = 0
    THEN BlankHalf(t, c + 1, r) ELSE t

PutSpacer(t, c, r) == Forget(Put(BlankChained(t, c, r), c, r, Spacer), c, r)
-----------------------------------------------------------------------------
(* Scrolling.                                                              *)

\* ring_push_blank
PushBlank(t) ==
    [ClearLines(t, {0}) EXCEPT !.head = (t.head + 1) % Rows]

RECURSIVE PushBlanks(_, _)
PushBlanks(t, k) == IF k = 0 THEN t ELSE PushBlanks(PushBlank(t), k - 1)

\* shift_rows_up, shift_rows_down
ShiftUp(t, from, to, k) ==
    WithRows(t, [r \in from .. to |-> IF r + k <= to THEN RowAt(t, r + k) ELSE BlankRow])
ShiftDown(t, from, to, k) ==
    WithRows(t, [r \in from .. to |-> IF r - k >= from THEN RowAt(t, r - k) ELSE BlankRow])

\* A plausible slip: the rows below the margin follow the rotation of the ring.
TranscribeRotates(t, k) == PushBlanks(t, k)

\* scroll_up_region_transcribing
Transcribe(t, k) ==
    WithRows(PushBlanks(t, k),
             [r \in t.bottom + 1 - k .. Rows - 1 |->
                IF r > t.bottom THEN RowAt(t, r) ELSE BlankRow])

\* scroll_up_internal
ScrollUp(t, count) ==
    LET k == Smaller(count, t.bottom - t.top + 1)
    IN  CASE t.top = 0 /\ t.bottom = Rows - 1 -> PushBlanks(t, k)
          [] t.top = 0 /\ t.bottom # Rows - 1 /\ Transcribes -> Transcribe(t, k)
          [] OTHER -> ShiftUp(t, t.top, t.bottom, k)

\* scroll_down_internal
ScrollDown(t, count) ==
    ShiftDown(t, t.top, t.bottom, Smaller(count, t.bottom - t.top + 1))

\* esc_index
Index(t) ==
    IF t.row >= t.bottom THEN ScrollUp(t, 1) ELSE [t EXCEPT !.row = @ + 1]

\* line_feed
LineFeed(t) == Index([t EXCEPT !.last = NoPos])

\* carriage_return, line_feed and the mark of a continued line
Wrap(t) ==
    LET u == LineFeed([t EXCEPT !.col = 0])
    IN  [u EXCEPT !.wrapped[Abs(u, u.row)] = TRUE]
-----------------------------------------------------------------------------
(* Printing.                                                               *)

\* The cursor after a write of width w at column c.
Advance(t, c, w) ==
    CASE c + w < Cols -> [t EXCEPT !.col = c + w]
      [] c + w >= Cols /\ t.auto -> [t EXCEPT !.col = Cols - 1, !.pending = TRUE]
      [] OTHER -> t

\* The base at the cursor of a print, and its spacer unless it is in the last column.
SpacerFor(t, w) ==
    IF w = 2 /\ t.last[1] + 1 < Cols THEN PutSpacer(t, t.last[1] + 1, t.last[2]) ELSE t
PutBase(t, c, r, w, n) ==
    SpacerFor([SetWidth(SetChar(BlankNeighbor(t, c, r), c, r, n), c, r, w)
                 EXCEPT !.last = <<c, r>>], w)

\* write_grapheme_to_grid: a pending wrap, room for a wide base, the write
Unwrapped(t) == IF t.pending THEN Wrap([t EXCEPT !.pending = FALSE]) ELSE t
WithRoom(t, w) == IF w = 2 /\ t.col >= Cols - 1 /\ t.auto THEN Wrap(t) ELSE t
Place(t, w, n) == Advance(PutBase(t, t.col, t.row, w, n), t.col, w)
Write(t, w, n) == Place(WithRoom(Unwrapped(t), w), w, n)

\* handle_print_ascii, and the same step of the dispatch fast path
WriteAscii(t) ==
    LET c == t.col
        u == Put(Forget(BlankNeighbor(t, c, t.row), c, t.row), c, t.row, Blank)
    IN  Advance([u EXCEPT !.last = <<c, t.row>>], c, 1)

\* relocate_widened_base_via_wrap
AtStart(t, n) == PutBase(t, 0, t.row, 2, n)
Landed(t) ==
    CASE Cols > 2 -> [t EXCEPT !.col = 2, !.pending = FALSE]
      [] Cols <= 2 /\ t.auto -> [t EXCEPT !.col = Cols - 1, !.pending = TRUE]
      [] OTHER -> t
Relocate(t, c, r) ==
    Landed(AtStart(Wrap(Put(Forget(t, c, r), c, r, Blank)), At(t, c, r).n))

\* widen_after_merge
Widen(t, c, r) ==
    CASE c = Cols - 1 /\ t.auto -> Relocate(t, c, r)
      [] c = Cols - 1 /\ ~t.auto -> SetWidth(t, c, r, 2)
      [] OTHER -> [Advance(PutSpacer(SetWidth(t, c, r, 2), c + 1, r), c, 2)
                     EXCEPT !.last = <<c, r>>]

\* try_retroactive_merge
Grown(t, c, r) == [SetChar(t, c, r, At(t, c, r).n + 1) EXCEPT !.last = <<c, r>>]
MergeInto(t, g, c, r) ==
    CASE c < 0 \/ At(t, c, r).n >= MergedMax -> t
      [] g = "vs16" /\ c >= 0 /\ At(t, c, r).n < MergedMax /\ At(t, c, r).w = 1 ->
            Widen(Grown(t, c, r), c, r)
      [] OTHER -> Grown(t, c, r)
Merge(t, g) ==
    IF t.last = NoPos THEN t
    ELSE MergeInto(t, g, IF At(t, t.last[1], t.last[2]).w = 0 THEN t.last[1] - 1 ELSE t.last[1],
                   t.last[2])

Has(t, g) == \E i \in DOMAIN t.buffer : t.buffer[i] = g

\* flush_grapheme_buffer
Flush(t) ==
    IF t.buffer = <<>> THEN t
    ELSE LET w == CASE Has(t, "vs15") -> 1
                    [] ~Has(t, "vs15") /\ Has(t, "vs16") -> 2
                    [] OTHER -> IF t.buffer = <<"text">> THEN 1 ELSE 2
         IN  Write([t EXCEPT !.buffer = <<>>], w, Len(t.buffer))

Starts == {"pict", "text", "flag"}            \* EXT_PICTOGRAPHIC, REGIONAL_IND
Selectors == {"vs15", "vs16"}
ZeroWidth == {"joiner", "space0"}             \* is_zero_width, not combining

\* A cluster in the buffer takes the code point.
Extends(t, g) ==
    \/ g \in {"joiner", "comb"} \cup Selectors
    \/ g = "flag" /\ t.buffer = <<"flag">>
    \/ g \in {"pict", "text"} /\ t.buffer[Len(t.buffer)] = "joiner"

\* The end of handle_print: a code point that is no part of a cluster.
PrintAlone(t, g) ==
    IF g = "ascii" /\ ~t.pending /\ (t.col + 1 < Cols \/ t.auto) THEN WriteAscii(t)
    ELSE Write(t, CASE g \in ZeroWidth \cup Selectors \cup {"comb"} -> 0
                    [] g \in {"wide", "pict", "flag"} -> 2
                    [] OTHER -> 1, 1)

\* handle_print with an empty buffer
PrintFirst(t, g) ==
    CASE g \in Starts -> [t EXCEPT !.buffer = <<g>>]
      [] g \in Selectors \cup {"comb"} -> Merge(t, g)
      [] OTHER -> PrintAlone(t, g)

\* handle_print: the cap of the buffer, then a code point that joins the cluster or
\* ends it; a code point that ends one starts none and is not merged.
Joins(t, g) == t.buffer # <<>> /\ Len(t.buffer) < BufferMax /\ Extends(t, g)
Ends(t, g) == t.buffer # <<>> /\ Len(t.buffer) < BufferMax /\ ~Extends(t, g)
Added(t, g) == IF Joins(t, g) THEN [t EXCEPT !.buffer = Append(@, g)] ELSE t
FlushedFor(t, g) == IF Joins(t, g) /\ g # "flag" THEN Added(t, g) ELSE Flush(Added(t, g))
PrintAfter(t, g, joined, ended) ==
    IF joined THEN t ELSE IF ended THEN PrintAlone(t, g) ELSE PrintFirst(t, g)
PrintCluster(t, g) == PrintAfter(FlushedFor(t, g), g, Joins(t, g), Ends(t, g))

\* handle_print
HandlePrint(t, g) ==
    CASE g = "holder" -> [Flush(t) EXCEPT !.kitty = TRUE]
      [] g # "holder" /\ t.kitty /\ g = "comb" -> t
      [] OTHER -> PrintCluster([t EXCEPT !.kitty = FALSE], g)
-----------------------------------------------------------------------------
(* Control functions.                                                      *)

InRegion(t) == t.row >= t.top /\ t.row <= t.bottom
Moved(t, c, r) == [t EXCEPT !.col = c, !.row = r, !.pending = FALSE]

\* cursor_up, cursor_down: the region holds a cursor that is in it
Up(t, k) == Larger(t.row - k, IF InRegion(t) THEN t.top ELSE 0)
Down(t, k) == Smaller(t.row + k, IF InRegion(t) THEN t.bottom ELSE Rows - 1)

\* to_zero_indexed_row
ToRow(t, k) == IF t.origin THEN Smaller(t.top + k - 1, t.bottom) ELSE Smaller(k - 1, Rows - 1)
ToCol(k) == Smaller(k - 1, Cols - 1)

\* handle_decstbm
SetRegion(t, top, bottom) ==
    LET a == Smaller(top - 1, Rows - 1)
        b == Smaller(bottom - 1, Rows - 1)
        u == IF a < b THEN [t EXCEPT !.top = a, !.bottom = b]
             ELSE [t EXCEPT !.top = 0, !.bottom = Rows - 1]
    IN  Moved(u, 0, IF t.origin THEN u.top ELSE 0)

\* erase_range_with_edge_repair
EraseRange(t, from, to, left, right) ==
    LET r == t.row
        spacer == left /\ At(t, from, r).w = 0
        base == right /\ At(t, to - 1, r).w = 2
        u == ClearRange(t, r, from, to)
        v == IF spacer /\ from > 0 THEN BlankHalf(u, from - 1, r) ELSE u
    IN  IF base THEN BlankHalf(v, to, r) ELSE v

\* handle_erase_in_line, handle_erase_in_display
EraseLine(t, mode) ==
    CASE mode = 0 -> EraseRange(t, t.col, Cols, TRUE, FALSE)
      [] mode = 1 -> EraseRange(t, 0, t.col + 1, FALSE, TRUE)
      [] mode = 2 -> ClearLines(t, {t.row})
EraseDisplay(t, mode) ==
    CASE mode = 0 -> ClearLines(EraseLine(t, 0), t.row + 1 .. Rows - 1)
      [] mode = 1 -> EraseLine(ClearLines(t, 0 .. t.row - 1), 1)
      [] mode = 2 -> ClearLines(t, Lines)

ClearEntries(t, r, from) ==
    [t EXCEPT !.table = {p \in @ : p[2] # Abs(t, r) \/ p[1] < from},
              !.index = {p \in @ : p[2] # Abs(t, r) \/ p[1] < from}]

\* The half that an edit of the line of the cursor left at column c.
BlankIf(t, c, w) ==
    IF c \in Columns /\ At(t, c, t.row).w = w THEN BlankHalf(t, c, t.row) ELSE t

\* handle_insert_characters
Inserted(t, k) ==
    ClearEntries([t EXCEPT !.cells[Abs(t, t.row)] =
        [c \in Columns |-> CASE c < t.col -> @[c]
                             [] c >= t.col /\ c < t.col + k -> Blank
                             [] OTHER -> @[c - k]]], t.row, t.col)
InsertInPair(t, k) == BlankHalf(BlankHalf(Inserted(t, k), t.col - 1, t.row), t.col + k, t.row)
InsertChars(t, count) ==
    LET k == Smaller(count, Cols - t.col)
    IN  BlankIf(IF At(t, t.col, t.row).w = 0 THEN InsertInPair(t, k) ELSE Inserted(t, k), Cols - 1, 2)

\* handle_delete_characters
Deleted(t, k) ==
    ClearEntries([t EXCEPT !.cells[Abs(t, t.row)] =
        [c \in Columns |-> CASE c < t.col -> @[c]
                             [] c >= t.col /\ c < Cols - k -> @[c + k]
                             [] OTHER -> Blank]], t.row, t.col)
DeleteFromPair(t, k) ==
    IF At(t, t.col, t.row).w = 0 /\ t.col > 0 THEN BlankHalf(Deleted(t, k), t.col - 1, t.row)
    ELSE Deleted(t, k)

DeleteChars(t, count) ==
    LET k == Smaller(count, Cols - t.col)
    IN  BlankIf(BlankIf(DeleteFromPair(t, k), t.col, 0),
                IF Cols - k > t.col THEN Cols - k - 1 ELSE Cols, 2)

\* handle_insert_lines, handle_delete_lines
InsertLines(t, count) ==
    IF ~InRegion(t) THEN t
    ELSE ShiftDown(t, t.row, t.bottom, Smaller(count, t.bottom - t.row + 1))
DeleteLines(t, count) ==
    IF ~InRegion(t) THEN t
    ELSE ShiftUp(t, t.row, t.bottom, Smaller(count, t.bottom - t.row + 1))

\* save_cursor, restore_cursor
SaveCursor(t) ==
    [t EXCEPT !.saved = [some |-> TRUE, col |-> t.col, row |-> t.row,
                         origin |-> t.origin, pending |-> t.pending]]
RestoreCursor(t) ==
    IF t.saved.some
    THEN [t EXCEPT !.col = t.saved.col, !.row = t.saved.row, !.origin = t.saved.origin,
                   !.pending = t.saved.pending, !.saved = NotSaved]
    ELSE [t EXCEPT !.col = 0, !.row = 0, !.origin = FALSE, !.pending = FALSE]

\* esc_reverse_index, esc_next_line
ReverseIndex(t) ==
    IF t.row <= t.top THEN ScrollDown(t, 1) ELSE [t EXCEPT !.row = @ - 1]
NextLine(t) == Index([t EXCEPT !.col = 0])

\* handle_execute, handle_csi_internal, handle_esc_internal
Perform(t, op, k) ==
    CASE op = "BS" -> Moved(t, Larger(t.col - 1, 0), t.row)
      [] op = "CR" -> Moved(t, 0, t.row)
      [] op = "LF" -> [LineFeed(t) EXCEPT !.pending = FALSE]
      [] op = "HT" -> Moved(t, Cols - 1, t.row)
      [] op = "CUU" -> Moved(t, t.col, Up(t, k))
      [] op = "CUD" -> Moved(t, t.col, Down(t, k))
      [] op = "CUF" -> Moved(t, Smaller(t.col + k, Cols - 1), t.row)
      [] op = "CUB" -> Moved(t, Larger(t.col - k, 0), t.row)
      [] op = "CNL" -> Moved(t, 0, Down(t, k))
      [] op = "CPL" -> Moved(t, 0, Up(t, k))
      [] op = "CHA" -> Moved(t, ToCol(k), t.row)
      [] op = "VPA" -> [t EXCEPT !.row = ToRow(t, k), !.pending = FALSE]
      [] op = "EL" -> EraseLine(t, k - 1)
      [] op = "ED" -> EraseDisplay(t, k - 1)
      [] op = "ECH" -> EraseRange(t, t.col, Smaller(t.col + k, Cols), TRUE, TRUE)
      [] op = "ICH" -> InsertChars(t, k)
      [] op = "DCH" -> DeleteChars(t, k)
      [] op = "IL" -> InsertLines(t, k)
      [] op = "DL" -> DeleteLines(t, k)
      [] op = "SU" -> ScrollUp(t, k)
      [] op = "SD" -> ScrollDown(t, k)
      [] op = "STBM" -> SetRegion(t, k, k + 1)
      [] op = "AWM" -> [t EXCEPT !.auto = (k = 1)]
      [] op = "OM" -> [t EXCEPT !.origin = (k = 1)]
      [] op = "SC" -> SaveCursor(t)
      [] op = "RC" -> RestoreCursor(t)
      [] op = "IND" -> Index(t)
      [] op = "NEL" -> NextLine(t)
      [] op = "RI" -> ReverseIndex(t)
      [] op = "RIS" -> [NewTerm EXCEPT !.kitty = t.kitty]
-----------------------------------------------------------------------------
Init == term = NewTerm

PrintGlyph(g) == term' = HandlePrint(term, g)

\* dispatch_action: every other action first flushes the cluster
Control(op, k) ==
    term' = Perform([Flush(term) EXCEPT !.last = NoPos], op, k)

Next ==
    \/ \E g \in Glyphs : PrintGlyph(g)
    \/ \E op \in Ops, k \in Counts : Control(op, k)

Spec == Init /\ [][Next]_term
-----------------------------------------------------------------------------
TypeOK ==
    /\ term.cells \in [Lines -> [Columns -> [w : 0 .. 2, n : 0 .. Larger(MergedMax, BufferMax)]]]
    /\ term.head \in Lines /\ term.col \in Columns /\ term.row \in Lines
    /\ term.top \in Lines /\ term.bottom \in Lines

\* The wide-pair rule of blank_wide_pair_half (terminal_cells.rs): no spacer without
\* its base, no base without its spacer, but for a base in the last column, which the
\* print path leaves there when auto-wrap is off.
PairsWhole ==
    \A r \in Lines, c \in Columns :
       LET w == At(term, c, r).w
       IN  /\ w = 0 => c > 0 /\ At(term, c - 1, r).w = 2
           /\ w = 2 /\ c + 1 < Cols => At(term, c + 1, r).w = 0

\* The invariant the ASCII writers rely on (handle_print_ascii): a table entry exists
\* only while the cell at its key is marked as long, and the reverse index holds
\* the same keys.
EntriesOwned ==
    /\ term.index = term.table
    /\ \A p \in term.table : term.cells[p[2]][p[1]].n > InlineMax

\* A cell marked as long has its content in the table: no content is lost.
ContentKept ==
    \A a \in Lines, c \in Columns :
       term.cells[a][c].n > InlineMax => <<c, a>> \in term.table

\* A pending wrap belongs to a cursor in the last column: the next character
\* starts the next line and no line is skipped.
PendingAtEdge == term.pending => term.col = Cols - 1

\* The cluster target of a late combining mark is the base of a cell in the grid, and
\* the cursor stands after it in the same row.
LastIsBase ==
    term.last # NoPos =>
        LET c == term.last[1]
            r == term.last[2]
        IN  /\ term.row = r
            /\ At(term, c, r).w > 0
            /\ term.col \in {c, Smaller(c + At(term, c, r).w, Cols - 1)}

\* Lines outside the scroll region keep their content when the region scrolls, and
\* the lines the region keeps move in order.
RegionScrolls ==
    \A k \in Counts :
         (term.buffer = <<>> /\ term' = Perform([term EXCEPT !.last = NoPos], "SU", k)) =>
            \A r \in Lines :
               IF r < term.top \/ r > term.bottom THEN RowAt(term', r) = RowAt(term, r)
               ELSE r + k <= term.bottom => RowAt(term', r) = RowAt(term, r + k)

\* A line feed or an index scrolls only from the bottom line of the region
\* (line_feed, esc_index): from any other line the grid keeps its lines.
ScrollsAtBottom ==
    \A op \in {"LF", "IND"} \cap Ops :
         (term.buffer = <<>> /\ term.row # term.bottom
            /\ term' = Perform([term EXCEPT !.last = NoPos], op, 1)) =>
               \A r \in Lines : RowAt(term', r) = RowAt(term, r)
=============================================================================
