---------------------------- MODULE WindowGroup ----------------------------
(***************************************************************************)
(* The window list that a tab attached to the mux keeps: MuxWindowGroup    *)
(* of src/src-tauri/src/mux/window_group.rs.  The three parallel vectors   *)
(* of the code (windows, pane_ids, pane_scrolls) are one sequence of       *)
(* records here: every mutator of the code touches all three at the same   *)
(* index.  Indices are those of the code, from 0.                          *)
(***************************************************************************)
EXTENDS Integers, Sequences, SequencesExt, FiniteSetsExt

\* ScrollPosition::Live, the default: pinned to the bottom.
Live == 0

NoIndex == -1

EmptyGroup == [wins |-> <<>>, active |-> 0, pending |-> 0]

Len0(g) == Len(g.wins)

WindowAt(g, i) == g.wins[i + 1]

PaneIdsOf(g) == {g.wins[i].pane : i \in DOMAIN g.wins}

\* The active window's pane; `none` stands for the code's None.
ActivePaneId(g, none) ==
    IF g.active < Len0(g) THEN WindowAt(g, g.active).pane ELSE none

ActivePaneScroll(g) ==
    IF g.active < Len0(g) THEN WindowAt(g, g.active).scroll ELSE Live

SetPaneScrollAt(g, i, s) ==
    IF i \in 0 .. Len0(g) - 1 THEN [g EXCEPT !.wins[i + 1].scroll = s] ELSE g

\* First index whose window passes Test, or NoIndex.
IndexWhere(g, Test(_)) ==
    LET hits == {i \in 0 .. Len0(g) - 1 : Test(WindowAt(g, i))}
    IN  IF hits = {} THEN NoIndex ELSE Min(hits)

IndexOfPane(g, p) == IndexWhere(g, LAMBDA w : w.pane = p)

IndexOfWindow(g, id) == IndexWhere(g, LAMBDA w : w.id = id)

\* One past the greatest window id of the list.
FreshWindowId(g) ==
    IF g.wins = <<>> THEN 0 ELSE 1 + Max({g.wins[i].id : i \in DOMAIN g.wins})

SetActiveClamped(g, i) ==
    [g EXCEPT !.active = IF Len0(g) = 0 THEN 0 ELSE Min({i, Len0(g) - 1})]

SeedGroup(g, wins, active) == SetActiveClamped([g EXCEPT !.wins = wins], active)

\* push: append the window and make it the active one.
PushWindow(g, id, p, name) ==
    [g EXCEPT !.wins = Append(@, [id |-> id, pane |-> p, name |-> name,
                                  scroll |-> Live]),
              !.active = Len0(g)]

\* remove_pane of a pane that is in the list: the active index is only clamped,
\* it does not follow a window that moves down by one.
RemovePane(g, p) ==
    LET i == IndexOfPane(g, p)
        n == Len0(g) - 1
    IN  [g EXCEPT !.wins = RemoveAt(@, i + 1),
                  !.active = IF @ >= n THEN Max({n - 1, 0}) ELSE @]

RenameWindowId(g, id, name) ==
    LET i == IndexOfWindow(g, id)
    IN  IF i = NoIndex THEN g ELSE [g EXCEPT !.wins[i + 1].name = name]

\* next_index, prev_index, digit_index: the target of a local switch.
NextIndex(g) == IF Len0(g) < 2 THEN NoIndex ELSE (g.active + 1) % Len0(g)

PrevIndex(g) ==
    IF Len0(g) < 2 THEN NoIndex ELSE (g.active + Len0(g) - 1) % Len0(g)

DigitIndex(g, d) == IF d < Len0(g) THEN d ELSE NoIndex

\* next_qualifying_index: the first qualifying window after the current one,
\* the current one last.
NextQualifyingIndex(g, Qualifies(_)) ==
    LET n == Len0(g)
        offsets == {k \in 1 .. n : Qualifies(WindowAt(g, (g.active + k) % n).pane)}
    IN  IF offsets = {} THEN NoIndex ELSE (g.active + Min(offsets)) % n

\* Remove the window at `from` and insert it at `to`.
MoveItem(wins, from, to) ==
    InsertAt(RemoveAt(wins, from + 1), to + 1, wins[from + 1])

\* A plausible slip of reorder: a window crossed upwards is not followed.
ReorderNoFollow(g, from, to) ==
    IF from >= Len0(g) \/ to >= Len0(g) \/ from = to THEN g
    ELSE [g EXCEPT !.wins = MoveItem(@, from, to),
                   !.active = IF @ = from THEN to ELSE @]

\* reorder: the active index follows its window.
Reorder(g, from, to) ==
    IF from >= Len0(g) \/ to >= Len0(g) \/ from = to THEN g
    ELSE [g EXCEPT !.wins = MoveItem(@, from, to),
                   !.active = CASE @ = from -> to
                                [] from < @ /\ @ <= to -> @ - 1
                                [] to <= @ /\ @ < from -> @ + 1
                                [] OTHER -> @]
=============================================================================
