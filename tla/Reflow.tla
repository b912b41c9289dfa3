------------------------------- MODULE Reflow -------------------------------
(***************************************************************************)
(* Resizing the terminal core (src/crates/term_core/src/reflow.rs,         *)
(* ring_buffer.rs): the same-width fast path and the reference it must     *)
(* equal, and the reflow that joins wrapped lines, splits them at the new  *)
(* width and carries the cursor along.  A program prints characters, which *)
(* are numbered in the order it prints them, and starts lines; the user    *)
(* resizes at any point.  The ring is its viewport in order and the        *)
(* scrollback before it; a long content moves with its cell.               *)
(***************************************************************************)
EXTENDS Integers, Sequences, SequencesExt

CONSTANTS
    Dims,         \* sizes the window takes, pairs of columns and rows
    FirstDim,     \* the size at the start
    Widths,       \* widths of the characters printed
    Capacity,     \* scrollback_lines
    Capacities,   \* scrollback capacities the same-width paths are compared for
    Homes,        \* the program also moves the cursor to the top of the screen
    MaxTyped,     \* bound: characters printed
    MaxLines,     \* bound: lines started
    MaxResizes    \* bound: resizes

ReflowAssumption ==
    /\ Dims \subseteq (Nat \ {0}) \X (Nat \ {0}) /\ FirstDim \in Dims
    /\ Widths \subseteq {1, 2} /\ Capacity \in Nat /\ Capacities \subseteq Nat
    /\ Homes \in BOOLEAN /\ MaxTyped \in Nat /\ MaxLines \in Nat /\ MaxResizes \in Nat

VARIABLES scr, typed, started, resizes
vars == <<scr, typed, started, resizes>>

Less(a, b) == IF a <= b THEN a ELSE b
More(a, b) == IF a >= b THEN a ELSE b
Monus(a, b) == IF a <= b THEN 0 ELSE a - b      \* saturating_sub

Cell(ch, w) == [ch |-> ch, w |-> w]
Empty == Cell(0, 1)
Spacer == Cell(0, 0)
Fill(cells, n) == cells \o [i \in 1 .. n - Len(cells) |-> Empty]
Line(cells, wrapped) == [cells |-> cells, wrapped |-> wrapped]
BlankLine(n) == Line(Fill(<<>>, n), FALSE)
BlankLines(k, n) == [i \in 1 .. k |-> BlankLine(n)]

\* TerminalCore::new; columns, rows and cursor count from 0
NewScreen(d) ==
    [sb |-> <<>>, vp |-> BlankLines(d[2], d[1]), cols |-> d[1], rows |-> d[2],
     col |-> 0, row |-> 0, pending |-> FALSE, hung |-> FALSE]
-----------------------------------------------------------------------------
(* Printing (print_handler.rs, ring_push_blank).                           *)

\* line_feed and ring_push_blank
LineFeed(s) ==
    IF s.row < s.rows - 1 THEN [s EXCEPT !.row = @ + 1]
    ELSE LET sb == Append(s.sb, s.vp[1])
         IN  [s EXCEPT !.sb = SubSeq(sb, Monus(Len(sb), Capacity) + 1, Len(sb)),
                       !.vp = Append(Tail(@), BlankLine(s.cols))]

\* The wrap of write_grapheme_to_grid
Wrap(s) ==
    LET t == LineFeed([s EXCEPT !.col = 0, !.pending = FALSE])
    IN  [t EXCEPT !.vp[t.row + 1].wrapped = TRUE]

\* blank_orphaned_neighbor_before_overwrite, blank_orphaned_base_before_placeholder
Overwrite(cells, c, cell) ==
    LET other == CASE cells[c].w = 2 /\ c < Len(cells) -> c + 1
                   [] cells[c].w = 0 /\ c > 1 -> c - 1
                   [] OTHER -> 0
    IN  [i \in DOMAIN cells |->
            IF i = c THEN cell
            ELSE IF i = other /\ cells[i].w # 1 THEN Empty ELSE cells[i]]

\* write_grapheme_to_grid: a pending wrap, room for a wide character, the write
Written(cells, c, ch, w) ==
    IF w = 2 /\ c < Len(cells)
    THEN [Overwrite(Overwrite(cells, c, Cell(ch, w)), c + 1, Empty) EXCEPT ![c + 1] = Spacer, ![c] = Cell(ch, w)]
    ELSE Overwrite(cells, c, Cell(ch, w))
Advance(s, w) ==
    IF s.col + w < s.cols THEN [s EXCEPT !.col = @ + w]
    ELSE [s EXCEPT !.col = s.cols - 1, !.pending = TRUE]
WriteHere(s, ch, w) ==
    Advance([s EXCEPT !.vp[s.row + 1].cells = Written(@, s.col + 1, ch, w)], w)
WithRoom(s, w) == IF w = 2 /\ s.col >= s.cols - 1 THEN Wrap(s) ELSE s
Write(s, ch, w) == WriteHere(WithRoom(IF s.pending THEN Wrap(s) ELSE s, w), ch, w)
-----------------------------------------------------------------------------
(* The reflow for a change of width.                                       *)

\* reflow_drain
Buffer(s) == s.sb \o s.vp

Vacant(cell) == cell.w = 0 \/ (cell.w = 1 /\ cell.ch = 0)

\* A plausible slip: the trim takes one cell too many.
TrimmedShort(cells) ==
    LET held == {i \in DOMAIN cells : ~Vacant(cells[i])}
    IN  SubSeq(cells, 1, IF held = {} THEN 0 ELSE (CHOOSE i \in held : \A j \in held : j <= i) - 1)

\* The trim at the end of a logical line
Trimmed(cells) ==
    LET held == {i \in DOMAIN cells : ~Vacant(cells[i])}
    IN  SubSeq(cells, 1, IF held = {} THEN 0 ELSE CHOOSE i \in held : \A j \in held : j <= i)

\* reflow_join_wrapped: the groups of lines, their cells, the place of the cursor
RECURSIVE Join(_, _, _, _)
Join(lines, i, at, cur) ==
    IF i > Len(lines) THEN [out |-> <<>>, idx |-> 0, col |-> cur.col]
    ELSE LET last == CHOOSE j \in i .. Len(lines) :
                        /\ j = Len(lines) \/ ~lines[j + 1].wrapped
                        /\ \A k \in i + 1 .. j : lines[k].wrapped
             rest == Join(lines, last + 1, at + 1, cur)
             piece(k) == IF k < last THEN lines[k].cells ELSE Trimmed(lines[k].cells)
             before(k) == FlattenSeq([m \in 1 .. k - i |-> piece(i + m - 1)])
         IN  [out |-> <<before(last + 1)>> \o rest.out,
              idx |-> IF cur.abs \in i .. last THEN at ELSE rest.idx,
              col |-> IF cur.abs \in i .. last THEN Len(before(cur.abs)) + cur.col
                      ELSE rest.col]

\* The line in progress goes out.
Flushed(p, n) ==
    [p EXCEPT !.phys = Append(@, Line(Fill(p.line, n), Len(p.phys) > p.first)),
              !.line = <<>>]

\* One step of the loop over the cells of a logical line; mark is the cursor's cell or 0.
Place(p, cells, i, n, mark) ==
    LET wide == cells[i].w = 2
        pair == wide /\ i < Len(cells) /\ cells[i + 1].w = 0
        q == IF i = mark THEN [p EXCEPT !.row = Len(p.phys), !.col = Len(p.line)] ELSE p
    IN  IF wide /\ Len(p.line) = n - 1 THEN [Flushed(p, n) EXCEPT !.next = i]
        ELSE [q EXCEPT !.line = @ \o IF pair THEN <<cells[i], cells[i + 1]>> ELSE <<cells[i]>>,
                       !.next = IF pair THEN i + 2 ELSE i + 1]

\* The loop; a step that leaves no cell behind and starts where it started never ends.
RECURSIVE PlaceAll(_, _, _, _)
PlaceAll(p, cells, n, mark) ==
    IF p.next > Len(cells) THEN p
    ELSE LET q == Place(p, cells, p.next, n, mark)
         IN  IF q.next = p.next /\ q.line = p.line THEN [q EXCEPT !.hung = TRUE]
             ELSE PlaceAll(IF Len(q.line) >= n /\ q.next <= Len(cells) THEN Flushed(q, n) ELSE q,
                           cells, n, mark)

\* reflow_split_at_width for one logical line
SplitLine(p, cells, n, mark) ==
    IF cells = <<>>
    THEN [p EXCEPT !.phys = Append(@, BlankLine(n)),
                   !.row = IF mark > 0 THEN Len(p.phys) ELSE @,
                   !.col = IF mark > 0 THEN 0 ELSE @]
    ELSE LET q == PlaceAll([p EXCEPT !.first = Len(p.phys), !.next = 1], cells, n, mark)
             r == IF mark > Len(cells)
                  THEN [q EXCEPT !.row = Len(q.phys), !.col = Less(Len(q.line), n - 1)] ELSE q
         IN  IF q.hung THEN q ELSE Flushed(r, n)

\* reflow_split_at_width
RECURSIVE Split(_, _, _, _)
Split(p, logical, n, i) ==
    IF i > Len(logical.out) \/ p.hung THEN p
    ELSE Split(SplitLine(p, logical.out[i], n, IF logical.idx = i THEN logical.col + 1 ELSE 0),
               logical, n, i + 1)

NewSplit == [phys |-> <<>>, line |-> <<>>, first |-> 0, next |-> 1, row |-> 0, col |-> 0,
             hung |-> FALSE]

\* repopulate_ring_from_lines; lines count from 0
Repopulate(s, lines, skip, keep, rows, cols, capacity) ==
    LET start == Monus(keep, rows)
        fit(line) == Line(SubSeq(Fill(line.cells, cols), 1, cols), line.wrapped)
        held == Less(keep, Monus(Len(lines), skip))
        sbLen == Less(Less(start, capacity), held)
        from == Monus(start, Less(start, capacity))
    IN  [s EXCEPT
          !.sb = [i \in 1 .. Less(sbLen, Monus(held, from)) |-> fit(lines[skip + from + i])],
          !.vp = [r \in 1 .. rows |->
                    IF start + r <= held THEN fit(lines[skip + start + r]) ELSE BlankLine(cols)]]

\* The trim of empty lines at the bottom
RECURSIVE KeepCount(_, _, _)
KeepCount(phys, k, rows) ==
    IF k > rows /\ \A i \in DOMAIN phys[k].cells : Vacant(phys[k].cells[i])
    THEN KeepCount(phys, k - 1, rows) ELSE k

\* resize_full_reflow: the lines split at the new width, then the rows that are kept
Refilled(s, split, count, cols, rows) ==
    LET keep == Less(count, Capacity + rows)
        skip == Monus(count, Capacity + rows)
    IN  [Repopulate(s, split.phys, skip, keep, rows, cols, Capacity) EXCEPT
            !.col = split.col, !.row = Monus(Monus(split.row, skip), Monus(keep, rows))]
KeepSplit(s, split, cols, rows) ==
    IF split.hung THEN [s EXCEPT !.hung = TRUE]
    ELSE Refilled(s, split, More(KeepCount(split.phys, Len(split.phys), rows), rows), cols, rows)
FullReflow(s, cols, rows) ==
    LET cur == [abs |-> Len(s.sb) + s.row + 1, col |-> s.col]
    IN  KeepSplit(s, Split(NewSplit, Join(Buffer(s), 1, 1, cur), cols, 1), cols, rows)
-----------------------------------------------------------------------------
(* The same width.                                                         *)

\* The counts both same-width paths compute
Counts(s, rows, capacity) ==
    LET total == Len(s.sb) + s.rows
        keep == Less(total, capacity + rows)
        ideal == Monus(Monus(Len(s.sb) + s.row, Monus(keep, rows)), Less(s.row, rows - 1))
    IN  [total |-> total, keep |-> keep,
         skip |-> IF total <= capacity + rows THEN 0 ELSE Less(ideal, Monus(total, keep))]

CursorRow(s, n, rows) == Monus(Monus(Len(s.sb) + s.row, n.skip), Monus(n.keep, rows))

\* resize_same_width_reference
SameWidthReference(s, rows, capacity) ==
    LET n == Counts(s, rows, capacity)
    IN  [Repopulate(s, Buffer(s), n.skip, n.keep, rows, s.cols, capacity)
            EXCEPT !.row = CursorRow(s, n, rows)]

\* resize_same_width
SameWidth(s, rows, capacity) ==
    LET n == Counts(s, rows, capacity)
        dropped == Monus(Monus(n.total, capacity + rows), n.skip)
        eov == Monus(s.rows, dropped)
        sb == SubSeq(s.sb, n.skip + 1, Len(s.sb))
        shrink == eov - rows
        pulled == Less(rows - eov, Len(sb))
        grown == SubSeq(sb, Len(sb) - pulled + 1, Len(sb)) \o SubSeq(s.vp, 1, eov)
        moved == IF eov >= rows
                 THEN [s EXCEPT !.sb = sb \o SubSeq(s.vp, 1, shrink),
                                !.vp = SubSeq(s.vp, shrink + 1, eov)]
                 ELSE [s EXCEPT !.sb = SubSeq(sb, 1, Len(sb) - pulled),
                                !.vp = grown \o BlankLines(rows - Len(grown), s.cols)]
    IN  IF n.skip > Len(s.sb) THEN SameWidthReference(s, rows, capacity)
        ELSE [moved EXCEPT !.row = CursorRow(s, n, rows)]

Reflowed(s, d) ==
    IF d[1] = s.cols THEN SameWidth(s, d[2], Capacity) ELSE FullReflow(s, d[1], d[2])

\* resize_post_cleanup
Clamped(t, d) ==
    [t EXCEPT !.cols = d[1], !.rows = d[2], !.pending = FALSE,
              !.col = Less(@, d[1] - 1), !.row = Less(@, d[2] - 1)]
Settled(t, d) == IF t.hung THEN t ELSE Clamped(t, d)

\* resize_reflow and resize_post_cleanup
ResizeTo(s, d) == Settled(Reflowed(s, d), d)
-----------------------------------------------------------------------------
Init == scr = NewScreen(FirstDim) /\ typed = 0 /\ started = 0 /\ resizes = 0

Type(w) ==
    /\ typed < MaxTyped /\ ~scr.hung
    /\ typed' = typed + 1 /\ scr' = Write(scr, typed + 1, w)
    /\ UNCHANGED <<started, resizes>>

StartLine ==
    /\ started < MaxLines /\ ~scr.hung
    /\ started' = started + 1
    /\ scr' = LineFeed([scr EXCEPT !.col = 0, !.pending = FALSE])
    /\ UNCHANGED <<typed, resizes>>

Home ==
    /\ Homes /\ ~scr.hung
    /\ scr' = [scr EXCEPT !.col = 0, !.row = 0, !.pending = FALSE]
    /\ UNCHANGED <<typed, started, resizes>>

Resize(d) ==
    /\ resizes < MaxResizes /\ ~scr.hung /\ d # <<scr.cols, scr.rows>>
    /\ scr' = ResizeTo(scr, d) /\ resizes' = resizes + 1
    /\ UNCHANGED <<typed, started>>

Next ==
    \/ \E w \in Widths : Type(w)
    \/ StartLine
    \/ Home
    \/ \E d \in Dims : Resize(d)

Spec == Init /\ [][Next]_vars
-----------------------------------------------------------------------------
Chars(cells) == SelectSeq([i \in DOMAIN cells |-> cells[i].ch], LAMBDA c : c # 0)
Text(s) == FlattenSeq([i \in DOMAIN Buffer(s) |-> Chars(Buffer(s)[i].cells)])

\* The characters before the cursor.
Before(s) ==
    LET at == Len(s.sb) + s.row + 1
        lines == Buffer(s)
    IN  FlattenSeq([i \in 1 .. at - 1 |-> Chars(lines[i].cells)])
          \o Chars(SubSeq(lines[at].cells, 1, s.col))

TypeOK ==
    /\ Len(scr.vp) = scr.rows /\ Len(scr.sb) <= Capacity
    /\ \A i \in DOMAIN Buffer(scr) : Len(Buffer(scr)[i].cells) = scr.cols
    /\ scr.col \in 0 .. scr.cols - 1 /\ scr.row \in 0 .. scr.rows - 1

Resized == <<scr'.cols, scr'.rows>> # <<scr.cols, scr.rows>>

\* The fast path of a same-width resize (resize_same_width) gives what the reference
\* gives (resize_same_width_reference), whatever the new capacity.
FastIsReference ==
    \A d \in Dims, c \in Capacities :
       d[1] = scr.cols => SameWidth(scr, d[2], c) = SameWidthReference(scr, d[2], c)

\* A resize that finds room for every line keeps the text in its order (reflow_drain,
\* reflow_join_wrapped, reflow_split_at_width, repopulate_ring_from_lines).
TextKept == Resized => Text(scr') = Text(scr)

\* A resize that must evict lines keeps one piece of the text, without a gap.
TextHasNoGap ==
    Resized =>
         \E i \in 1 .. Len(Text(scr)) + 1, j \in 0 .. Len(Text(scr)) :
            SubSeq(Text(scr), i, j) = Text(scr')

\* The cursor stays between the same characters (reflow.rs: "preserving cursor position").
CursorFollows == Resized => Before(scr') = Before(scr)

\* The same for a cursor in an empty line.
CursorFollowsEmpty ==
    Resized /\ Chars(scr.vp[scr.row + 1].cells) = <<>> => Before(scr') = Before(scr)

\* A change of width keeps a cursor behind the text of its line there, or on the
\* last character when the line is full (reflow_split_at_width).
CursorNearText ==
    scr'.cols # scr.cols /\ Chars(scr.vp[scr.row + 1].cells) # <<>> =>
         LET b == Before(scr)
         IN  Before(scr') \in {b, SubSeq(b, 1, Len(b) - 1)}

\* What a program prints without moving the cursor stays on the screen or in the
\* scrollback, whenever the user resizes.
TypedKept == Text(scr) = [i \in 1 .. typed |-> i]

\* The wide-pair rule of terminal_cells.rs holds after a resize too.
PairsWhole ==
    \A i \in DOMAIN Buffer(scr) :
       LET cells == Buffer(scr)[i].cells
       IN  \A c \in DOMAIN cells :
             /\ cells[c].w = 0 => c > 1 /\ cells[c - 1].w = 2
             /\ cells[c].w = 2 /\ c < Len(cells) => cells[c + 1].w = 0

\* Every size clamp_resize_dims allows can be reflowed to.
ResizeEnds == ~scr.hung
=============================================================================
