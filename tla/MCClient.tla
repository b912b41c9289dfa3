------------------------------- MODULE MCClient -------------------------------
(* The client side of the mux for TLC: the window group, the replay that switches
   windows, the prefix keys and the mouse reports. They share no state here, so a
   behaviour runs one of them, with one choice of constants: a record of Groups,
   Replays or Mice, named by `part`. The others rest at Idle. *)
EXTENDS Integers, Sequences, FiniteSets

VARIABLES part,
    group, member, scroll, from, pumps, dialog, up, down, order, nextPane, nextWindow, initiatives,
    want, chosen, meant, hits, strayed,
    session, wins, active, gone, core, pending, redispatch, restore, grid, told, pumping, live,
    out, streaming, asked, chan, ops, lost,
    tab, attached, overlay, composing, latch, clock, focused, last, seen, dropped,
    tabs, front, mode, shift, region, cell, phys, held, owner, builtFor, cache, accum, hasFocus,
    dragging, anchor, selection, app, side, accumFrom, since, sent

Group(c) == INSTANCE MuxWindows WITH
    NumWindows <- c.NumWindows, MaxPane <- c.MaxPane, MaxOps <- c.MaxOps,
    Names <- {"Terminal", "vim"}, Scrolls <- {0, 5}, Ops <- c.Ops, Faults <- c.Faults,
    attached <- member, pumping <- pumps, ops <- initiatives
\* Switches from the keyboard and the command line, creations, exits.
Scrolled == [part |-> "scrolled", NumWindows |-> 3, MaxPane |-> 4, MaxOps |-> 4,
             Ops |-> {"scroll", "switch", "create", "exit", "remote", "rename"},
             Faults |-> {"spawn"}]
\* Creations, moves, switches and titles.
Ordered == [Scrolled EXCEPT !.part = "ordered", !.Ops = {"create", "move", "switch", "title"},
              !.Faults = {"pty"}]
\* Dialogs that are held over exits, titles and creations of either side.
Crossed == [Scrolled EXCEPT !.part = "crossed", !.MaxPane = 5, !.MaxOps = 4, !.Faults = {"pty"},
              !.Ops = {"create", "remoteCreate", "move", "rename", "title", "exit", "remote"}]
\* Windows whose id is not that of their pane.
Shifted == [Scrolled EXCEPT !.part = "shifted", !.NumWindows = 1, !.MaxPane = 3,
              !.Ops = {"create", "rename", "title", "exit"}]
Groups == {Scrolled, Ordered, Crossed, Shifted}

Screen(c) == INSTANCE ClientReplay WITH
    MaxPane <- c.MaxPane, NumWindows <- c.NumWindows, MaxOut <- c.MaxOut, MaxOps <- c.MaxOps,
    QueueCap <- 1, Dims <- c.Dims, Kinds <- c.Kinds, Ops <- c.Ops, Faults <- c.Faults
\* Rapid switches between two windows, workers that panic or cannot be started.
Switches == [part |-> "switches", MaxPane |-> 2, NumWindows |-> 2, MaxOut |-> 3, MaxOps |-> 2,
             Dims |-> {80}, Kinds |-> {"small", "big"}, Ops |-> {"connect", "switch"},
             Faults |-> {"panic", "spawn"}]
\* Resizes at any moment of a switch and of a creation.
Sizes == [Switches EXCEPT !.part = "sizes", !.NumWindows = 1, !.MaxOut = 2, !.MaxOps = 4,
            !.Dims = {80, 132}, !.Ops = {"connect", "switch", "resize", "create"},
            !.Faults = {"panic"}]
\* Attach, creation, exit, detach, reattach, remote switches, malformed snapshots.
Life == [Switches EXCEPT !.part = "life", !.NumWindows = 1, !.MaxPane = 3, !.MaxOut = 1,
           !.MaxOps = 4, !.Kinds = {"small", "big", "bad"}, !.Faults = {"dup"},
           !.Ops = {"connect", "switch", "create", "detach", "exit", "remote"}]
Replays == {Switches, Sizes, Life}

Keys == INSTANCE KeyRouting WITH
    Tabs <- {"t1", "t2"}, Timeout <- 2, MaxTime <- 3, active <- tab, lost <- dropped

Mouse(c) == INSTANCE MouseReport WITH
    Tabs <- c.Tabs, Buttons <- c.Buttons, Modes <- c.Modes, Encoding <- c.Encoding,
    Cells <- c.Cells, Far <- c.Far, Regions <- c.Regions, Lines <- c.Lines, MaxNotches <- 2,
    Ops <- c.Ops, active <- front, focused <- hasFocus, out <- sent
\* Two buttons over the grid and the chrome of one tab, modes, Shift and the focus change.
Gestures == [part |-> "gestures", Tabs |-> {"a"}, Buttons |-> {"left", "right"},
             Modes |-> {"off", "1002", "1003"}, Encoding |-> "sgr", Cells |-> {1, 2},
             Far |-> {}, Lines |-> {1},
             Regions |-> {"grid", "tabbar", "strip", "edge"}, Ops |-> {"shift", "focus", "clear"}]
\* Wheel deltas, in halves of a notch, below, above and past the cap.
Wheel == [Gestures EXCEPT !.part = "wheel", !.Tabs = {"a", "b"}, !.Buttons = {"left"},
            !.Modes = {"off", "1000", "1003"}, !.Cells = {1}, !.Lines = {-8, -3, -1, 1, 3, 8},
            !.Regions = {"grid", "sidebar"}, !.Ops = {"shift", "switch"}]
\* Two tabs switched and reordered while buttons are held, releases lost.
TabsMove == [Wheel EXCEPT !.part = "tabsMove", !.Buttons = {"left", "right"}, !.Modes = {"off", "1000"},
               !.Lines = {}, !.Regions = {"grid"},
               !.Ops = {"focus", "again", "lose", "switch", "reorder"}]
\* A cell that x10 does not reach.
Legacy == [TabsMove EXCEPT !.part = "legacy", !.Buttons = {"left"}, !.Modes = {"off", "1002"},
             !.Encoding = "x10", !.Cells = {1, 2}, !.Far = {2}, !.Ops = {"shift", "switch", "reorder"}]
Mice == {Gestures, Wheel, TabsMove, Legacy}

ASSUME GroupAssumption == \A c \in Groups : Group(c)!WindowsAssumption
ASSUME ScreenAssumption == \A c \in Replays : Screen(c)!ReplayAssumption
ASSUME KeysAssumption == Keys!KeyAssumption
ASSUME MiceAssumption == \A c \in Mice : Mouse(c)!MouseAssumption
-----------------------------------------------------------------------------
Idle == 0
groupVars == <<group, member, scroll, from, pumps, dialog, up, down, order, nextPane, nextWindow,
               initiatives, want, chosen, meant, hits,
               strayed>>
screenVars == <<session, wins, active, gone, core, pending, redispatch, restore, grid, told,
                pumping, live, out, streaming, asked, chan, ops, lost>>
keyVars == <<tab, attached, overlay, composing, latch, clock, focused, last, seen, dropped>>
mouseVars == <<tabs, front, mode, shift, region, cell, phys, held, owner, builtFor, cache, accum,
               hasFocus, dragging, anchor, selection, app, side, accumFrom,
               since, sent>>
vars == <<part, groupVars, screenVars, keyVars, mouseVars>>

GroupIdle ==
    /\ group = Idle /\ member = Idle /\ scroll = Idle /\ from = Idle /\ pumps = Idle
    /\ dialog = Idle /\ up = Idle /\ down = Idle /\ order = Idle /\ nextPane = Idle
    /\ nextWindow = Idle /\ initiatives = Idle /\ want = Idle /\ chosen = Idle /\ meant = Idle
    /\ hits = Idle /\ strayed = Idle
ScreenIdle ==
    /\ session = Idle /\ wins = Idle /\ active = Idle /\ gone = Idle /\ core = Idle
    /\ pending = Idle /\ redispatch = Idle /\ restore = Idle /\ grid = Idle /\ told = Idle
    /\ pumping = Idle /\ live = Idle /\ out = Idle /\ streaming = Idle /\ asked = Idle
    /\ chan = Idle /\ ops = Idle /\ lost = Idle
KeysIdle ==
    /\ tab = Idle /\ attached = Idle /\ overlay = Idle /\ composing = Idle /\ latch = Idle
    /\ clock = Idle /\ focused = Idle /\ last = Idle /\ seen = Idle /\ dropped = Idle
MouseIdle ==
    /\ tabs = Idle /\ front = Idle /\ mode = Idle /\ shift = Idle /\ region = Idle /\ cell = Idle
    /\ phys = Idle /\ held = Idle /\ owner = Idle /\ builtFor = Idle /\ cache = Idle
    /\ accum = Idle /\ hasFocus = Idle /\ dragging = Idle /\ anchor = Idle /\ selection = Idle
    /\ app = Idle /\ side = Idle /\ accumFrom = Idle /\ since = Idle
    /\ sent = Idle

Init ==
    \/ \E c \in Groups : part = c.part /\ Group(c)!Init /\ ScreenIdle /\ KeysIdle /\ MouseIdle
    \/ \E c \in Replays : part = c.part /\ Screen(c)!Init /\ GroupIdle /\ KeysIdle /\ MouseIdle
    \/ part = "keys" /\ Keys!Init /\ GroupIdle /\ ScreenIdle /\ MouseIdle
    \/ \E c \in Mice : part = c.part /\ Mouse(c)!Init /\ GroupIdle /\ ScreenIdle /\ KeysIdle

Next ==
    \/ /\ \E c \in Groups : part = c.part /\ Group(c)!Next
       /\ UNCHANGED <<part, screenVars, keyVars, mouseVars>>
    \/ /\ \E c \in Replays : part = c.part /\ Screen(c)!Next
       /\ UNCHANGED <<part, groupVars, keyVars, mouseVars>>
    \/ /\ part = "keys" /\ Keys!Next
       /\ UNCHANGED <<part, groupVars, screenVars, mouseVars>>
    \/ /\ \E c \in Mice : part = c.part /\ Mouse(c)!Next
       /\ UNCHANGED <<part, groupVars, screenVars, keyVars>>

Spec == Init /\ [][Next]_vars
-----------------------------------------------------------------------------
\* The list of windows stays well formed and keeps a scroll position per window.  Once
\* nothing is in flight client and daemon have the same windows, order and names, a command
\* of a dialog hits the window it was opened for, and the window shown is the one chosen:
\* each but for the crossings its definition names (a move, a title or a rename that met an
\* exit or each other on the way, ids that differ, a target that was closed, a window closed
\* above the shown one, creations from the command line), where the code does otherwise
\* (mux/window_group.rs, app/mux_ui.rs).
GroupAgrees ==
    \A c \in Groups : part = c.part =>
       /\ Group(c)!TypeOK /\ Group(c)!NoTwins
       /\ c = Scrolled => Group(c)!ScrollKept
       /\ Group(c)!OrderUnlessCrossed /\ Group(c)!NamesUnlessCrossed
       /\ Group(c)!DialogHitsListed /\ Group(c)!ShownUnlessClosedAbove

\* Once nothing is in flight the screen is that of the active window, at the size of the
\* window, whatever was switched, resized, created or ended meanwhile and whichever worker
\* panicked.  Three things excuse it until the next picture of the pane: a malformed
\* snapshot, a worker that could not be started, and a pane created while a replay was in
\* flight (tabs/mux_link.rs:689).  The queue of live output is bounded (tabs/replay.rs).
ScreenIsActive ==
    \A c \in Replays : part = c.part =>
       /\ Screen(c)!TypeOK /\ Screen(c)!SettledUnlessCovered
       /\ c # Sizes => Screen(c)!HistoryIsOwn /\ Screen(c)!RedispatchMatches
       /\ c = Switches => Screen(c)!QueueBounded
       /\ c = Sizes => Screen(c)!CoreAtGrid /\ Screen(c)!PanesToldGrid

\* A drag belongs to a held button; a wheel turn reports its own direction, and the
\* fraction kept of it belongs to one tab (window_host/mouse_report.rs).
WheelIsKept ==
    \A c \in Mice : part = c.part =>
       /\ Mouse(c)!TypeOK
       /\ c = Gestures => Mouse(c)!DragIsHeld
       /\ c = Wheel => Mouse(c)!WheelSign /\ Mouse(c)!FractionOfOneTab

\* A mux action follows its prefix within the timeout, and the prefix key reaches no
\* program (app/mux_ui.rs, mux/prefix.rs).
PrefixActs == [][part = "keys" => Keys!ActsOnlyAfterPrefix /\ Keys!PrefixNeverLeaks]_vars

\* A release is reported to a tab that was told the press, unless the tabs were reordered
\* since or x10 had no bytes for the press; a press that was reported has its release
\* reported, unless tabs were switched or reordered since or x10 has no bytes for it; a
\* release of a press that was taken locally is reported to nobody.  In one tab, motions too
\* stay on the side of the press and a release ends the drag (window_host/mouse_report.rs).
GesturesReported ==
    [][\A c \in Mice \ {Wheel} : part = c.part =>
         /\ Mouse(c)!ReleaseMatches /\ Mouse(c)!GestureCompletes /\ Mouse(c)!ReleaseOneSided
         /\ c = Gestures => Mouse(c)!GestureOneSided /\ Mouse(c)!ReleaseEndsDrag]_vars
=============================================================================
