---------------------------- MODULE MouseReport ----------------------------
(***************************************************************************)
(* Pointer events (window_host/mouse_report.rs, pointer_routing.rs): each  *)
(* press, release, motion and wheel notch is reported to the application   *)
(* of the active tab, or drives a local selection, or does nothing.  Which *)
(* side owns a button is recorded at its press, and the records are reset  *)
(* when an event observes another tab or no tracking mode.  Modes, tabs,   *)
(* Shift and focus change between any two events.                          *)
(***************************************************************************)
EXTENDS Integers, Sequences, SequencesExt, FiniteSets

CONSTANTS
    Tabs,        \* identities of the tabs
    Buttons,     \* subset of "left", "middle", "right"
    Modes,       \* tracking modes applications choose: "off", "1000", "1002", "1003"
    Encoding,    \* "sgr" or "x10"
    Cells, Far,  \* cells of the grid, those past the reach of x10
    Regions,     \* "grid" and kinds of chrome
    Lines,       \* deltas of the wheel, in halves of a notch
    MaxNotches,  \* MAX_WHEEL_REPORT_NOTCHES
    Ops          \* "switch", "reorder", "focus", "again", "lose", "shift", "clear"

MouseAssumption ==
    /\ Tabs # {} /\ Buttons \subseteq {"left", "middle", "right"} /\ Far \subseteq Cells
    /\ Modes \subseteq {"off", "1000", "1002", "1003"} /\ Encoding \in {"sgr", "x10"}
    /\ Regions \subseteq {"grid", "title", "tabbar", "strip", "sidebar", "edge", "selector"}
    /\ Lines \subseteq Int \ {0} /\ MaxNotches \in Nat \ {0}
    /\ Ops \subseteq {"switch", "reorder", "focus", "again", "lose", "shift", "clear"}

VARIABLES
    tabs, active,   \* the tab bar, as a sequence; the index of the tab shown
    mode,           \* tracking mode of each tab's core
    shift,
    region, cell,   \* where the pointer is
    phys,           \* buttons the user holds down
    held,           \* mouse_report_held
    owner,          \* mouse_report_gesture_owner
    builtFor,       \* mouse_report_last_active_tab: an index, 0 for none
    cache,          \* mouse_report_cell_cache, 0 for none
    accum,          \* mouse_report_accum
    focused,
    dragging, anchor, selection, \* the local selection drag
    app,            \* history: what each application knows of each button
    side,           \* history: who took the press of each button that is down
    since,          \* history: what the tab bar did since the press of each held button,
                    \* and whether x10 had no bytes for that press
    accumFrom,      \* history: tabs whose wheel deltas are in accum
    out             \* what the last step reported

fraction == <<accum, accumFrom>>
records == <<owner, builtFor, cache, fraction>>
drag == <<dragging, anchor, selection>>
world == <<tabs, active, mode, shift, focused>>
vars == <<world, region, cell, phys, held, records, drag, app, side, since, out>>

None == "none"
Nothing == [kind |-> "nothing", button |-> None, tab |-> None, n |-> 0]
Report(kind, b, t, n) == [kind |-> kind, button |-> b, tab |-> t, n |-> n]

Init ==
    /\ tabs = SetToSeq(Tabs) /\ active = 1 /\ mode \in [Tabs -> Modes] /\ shift = FALSE
    /\ region = "grid" /\ cell \in Cells /\ phys = {} /\ held = {}
    /\ owner = [b \in Buttons |-> None] /\ builtFor = 0 /\ cache = 0 /\ accum = 0
    /\ focused = TRUE /\ dragging = FALSE /\ anchor = FALSE /\ selection = FALSE
    /\ app = [t \in Tabs |-> [b \in Buttons |-> "up"]] /\ side = [b \in Buttons |-> None]
    /\ accumFrom = {} /\ since = [b \in Buttons |-> {}] /\ out = Nothing
-----------------------------------------------------------------------------
Here == tabs[active]
Tracking == mode[Here] # "off"
TabChanged == builtFor # active

\* encode_report: x10 has no bytes for a cell past its limit.
Encodable(c) == ~(Encoding = "x10" /\ c \in Far)

\* The application of tab t sees a report of button b.
Tells(t, b, state) == app' = [app EXCEPT ![t][b] = state]

\* The gesture slots an event leaves that carries the two observations: none after a
\* change of tab, those of the buttons that are held when nothing is tracked.
OwnersKept(h) ==
    IF TabChanged THEN [b \in Buttons |-> None]
    ELSE IF Tracking THEN owner
    ELSE [b \in Buttons |-> IF b \in h THEN owner[b] ELSE None]

ResetFraction(kept) == IF kept THEN UNCHANGED fraction ELSE accum' = 0 /\ accumFrom' = {}

\* apply_outcome_with_held: the fraction survives an event of its own tab and session.
FractionStays == Tracking /\ ~TabChanged

\* The cell a motion is compared with.
EffectiveCache == IF TabChanged \/ ~Tracking THEN 0 ELSE cache
-----------------------------------------------------------------------------
(* Presses. *)
\* begin_selection_drag: one click leaves an anchor, two or three select at once.
BeginSelectionDrag == dragging' = TRUE /\ anchor' \in BOOLEAN /\ selection' = ~anchor'

\* press_local_disposition: right and middle have no drag, Ctrl over a link opens it.
PressLocal(b) ==
    \/ b = "left" /\ BeginSelectionDrag /\ side' = [side EXCEPT ![b] = "drag"]
    \/ UNCHANGED drag /\ side' = [side EXCEPT ![b] = "local"]

\* The early returns of handle_pointer_button, and the positions decide_press rejects.
GuardTakes(b) ==
    \/ region \in {"title", "tabbar", "selector"}
    \/ b = "left" /\ region \in {"strip", "sidebar"}
    \/ region # "grid"

\* decide_press at a position of the grid
DecidePress(b) ==
    LET report == Tracking /\ ~shift IN
    /\ builtFor' = active /\ cache' = EffectiveCache /\ ResetFraction(FractionStays)
    /\ owner' = [OwnersKept(held') EXCEPT ![b] = IF report THEN "report" ELSE "local"]
    /\ IF report /\ Encodable(cell)
       THEN out' = Report("press", b, Here, 0) /\ Tells(Here, b, "down")
       ELSE out' = Nothing /\ UNCHANGED app
    /\ IF report THEN UNCHANGED drag /\ side' = [side EXCEPT ![b] = "report"] ELSE PressLocal(b)

Press(b) ==
    /\ focused /\ b \notin phys /\ phys' = phys \cup {b}
    /\ since' = [since EXCEPT ![b] = IF Encodable(cell) THEN {} ELSE {"far"}]
    /\ IF b = "left" /\ region = "edge" THEN \* drag_resize_window
          UNCHANGED <<held, records, drag, app, side>> /\ out' = Nothing
       ELSE /\ held' = held \cup {b}
            /\ IF GuardTakes(b) THEN UNCHANGED <<records, drag, app, side>> /\ out' = Nothing
                                ELSE DecidePress(b)
    /\ UNCHANGED <<world, region, cell>>
-----------------------------------------------------------------------------
(* Releases, wherever the pointer is. *)
\* consume_drag_termination
CompleteSelection == dragging' = FALSE /\ anchor' = FALSE /\ UNCHANGED selection

\* A plausible slip: Shift at the release decides on which side it is.
ReleaseReportsByShift(b) == owner[b] # None /\ ~shift /\ Tracking /\ Encodable(cell)

ReleaseReports(b) == owner[b] = "report" /\ Tracking /\ Encodable(cell)

\* A left release without an owner ends a drag in flight.
ReleaseCompletes(b) ==
    b = "left" /\ (owner[b] = "local" \/ (owner[b] = None /\ (dragging \/ anchor)))

\* decide_release: the owner decides, and the report goes to the tab of the records.
DecideRelease(b) ==
    /\ IF owner[b] # None
       THEN /\ owner' = [owner EXCEPT ![b] = None] /\ UNCHANGED cache
            /\ ResetFraction(Tracking)
       ELSE owner' = OwnersKept(held') /\ cache' = EffectiveCache /\ ResetFraction(FractionStays)
    /\ IF ReleaseReports(b)
       THEN LET t == IF builtFor = 0 THEN Here ELSE tabs[builtFor] IN
            out' = Report("release", b, t, 0) /\ Tells(t, b, "up")
       ELSE out' = Nothing /\ UNCHANGED app
    /\ IF ReleaseCompletes(b) THEN CompleteSelection ELSE UNCHANGED drag
    /\ UNCHANGED builtFor

Release(b) ==
    /\ b \in phys /\ phys' = phys \ {b} /\ held' = held \ {b}
    /\ side' = [side EXCEPT ![b] = None] /\ DecideRelease(b)
    /\ since' = [since EXCEPT ![b] = {}]
    /\ UNCHANGED <<world, region, cell>>
-----------------------------------------------------------------------------
(* Motion. *)
LowestHeld ==
    IF \E b \in held : TRUE
    THEN CHOOSE b \in held : (b = "left" \/ "left" \notin held) /\ (b # "right" \/ held = {"right"})
    ELSE None

\* motion_gate
Gate == mode[Here] = "1003" \/ (mode[Here] = "1002" /\ held # {})

\* report_motion, against the cell of the cache that is valid
ReportMotion(c, old) ==
    IF Gate /\ c # old
    THEN cache' = c /\ out' = IF Encodable(c) THEN Report("motion", LowestHeld, Here, 0) ELSE Nothing
    ELSE cache' = old /\ out' = Nothing

\* The first motion of a drag turns its anchor into a selection.
ExtendDrag ==
    IF dragging /\ anchor /\ ~selection THEN anchor' = FALSE /\ selection' = TRUE /\ UNCHANGED dragging
                                        ELSE UNCHANGED drag

MotionOwner == IF LowestHeld = None THEN None ELSE owner[LowestHeld]

\* decide_motion_event
DecideMotion(c) ==
    CASE MotionOwner = "local" ->
            ResetFraction(Tracking) /\ out' = Nothing /\ UNCHANGED <<owner, builtFor, cache>>
      [] MotionOwner = "report" ->
            ResetFraction(Tracking) /\ ReportMotion(c, cache) /\ UNCHANGED <<owner, builtFor>>
      [] OTHER ->
            /\ owner' = OwnersKept(held) /\ builtFor' = active /\ ResetFraction(FractionStays)
            /\ IF Tracking /\ ~shift THEN ReportMotion(c, EffectiveCache)
                                     ELSE cache' = EffectiveCache /\ out' = Nothing

Motion(r, c) ==
    /\ <<r, c>> # <<region, cell>> /\ region' = r /\ cell' = c /\ ExtendDrag
    /\ IF r = "grid" THEN DecideMotion(c) ELSE UNCHANGED records /\ out' = Nothing
    /\ UNCHANGED <<world, phys, held, app, side, since>>
-----------------------------------------------------------------------------
(* The wheel, in halves of a notch. *)
Abs(n) == IF n < 0 THEN -n ELSE n
Whole(total) == IF total < 0 THEN -(Abs(total) \div 2) ELSE total \div 2

\* accumulate_wheel_report_lines: whole notches towards zero, up to the cap.
Notches(total) ==
    IF Abs(Whole(total)) > MaxNotches THEN (IF total < 0 THEN -MaxNotches ELSE MaxNotches)
                                      ELSE Whole(total)
\* A plausible slip: notches past the cap are carried over.
RemainderKept(total) == total - 2 * Notches(total)
Remainder(total) == IF Abs(Whole(total)) > MaxNotches THEN 0 ELSE total - 2 * Whole(total)

\* decide_wheel_event and apply_wheel_report_step: only a report folds the delta in.
DecideWheel(l) ==
    /\ owner' = OwnersKept(held) /\ cache' = EffectiveCache /\ builtFor' = active
    /\ IF Tracking /\ ~shift /\ Encodable(cell)
       THEN LET total == (IF FractionStays THEN accum ELSE 0) + l
                from == (IF FractionStays THEN accumFrom ELSE {}) \cup {Here}
            IN /\ accum' = Remainder(total) /\ accumFrom' = IF accum' = 0 THEN {} ELSE from
               /\ out' = IF Notches(total) = 0 THEN Nothing
                         ELSE Report("wheel", IF l > 0 THEN "up" ELSE "down", Here, Notches(total))
       ELSE ResetFraction(FractionStays) /\ out' = Nothing

\* Chrome scrolls itself or the scrollback.
Wheel(l) ==
    /\ IF region = "grid" THEN DecideWheel(l) ELSE UNCHANGED records /\ out' = Nothing
    /\ UNCHANGED <<world, region, cell, phys, held, drag, app, side, since>>
-----------------------------------------------------------------------------
(* The rest of the world. *)
Quiet == out' = Nothing /\ UNCHANGED <<region, cell>>

\* What an application that stops tracking, or a window that loses the pointer, forgets.
Forgets(state) == [b \in Buttons |-> IF state[b] = "down" THEN "old" ELSE state[b]]

SetMode(t, m) ==
    /\ mode[t] # m /\ mode' = [mode EXCEPT ![t] = m] /\ Quiet
    /\ app' = IF m = "off" THEN [app EXCEPT ![t] = Forgets(@)] ELSE app
    /\ UNCHANGED <<tabs, active, shift, focused, phys, held, records, drag, side, since>>

ToggleShift ==
    /\ "shift" \in Ops /\ focused /\ shift' = ~shift /\ Quiet
    /\ UNCHANGED <<tabs, active, mode, focused, phys, held, records, drag, app, side, since>>

\* should_terminate_drag
FocusEndsDrag == (dragging \/ anchor) /\ "left" \notin held

\* The window loses its focus: the records of buttons are cleared.  Unless "again" is an
\* operation, that happens once in a drag.
FocusLost ==
    /\ "focus" \in Ops /\ focused /\ focused' = FALSE /\ shift' = FALSE /\ Quiet
    /\ "again" \in Ops \/ ~dragging \/ "left" \in held
    /\ IF FocusEndsDrag THEN CompleteSelection ELSE UNCHANGED drag
    /\ owner' = [b \in Buttons |-> None] /\ held' = {}
    /\ app' = [t \in Tabs |-> Forgets(app[t])]
    /\ since' = [b \in Buttons |-> {}]
    /\ UNCHANGED <<tabs, active, mode, phys, builtFor, cache, fraction, side>>

FocusGained ==
    /\ ~focused /\ focused' = TRUE /\ Quiet
    /\ UNCHANGED <<tabs, active, mode, shift, phys, held, records, drag, app, side, since>>

\* A release that is not delivered: the focus is elsewhere.
ReleaseLost(b) ==
    /\ "lose" \in Ops /\ ~focused /\ b \in phys /\ phys' = phys \ {b}
    /\ side' = [side EXCEPT ![b] = None] /\ Quiet
    /\ UNCHANGED <<world, held, records, drag, app, since>>

TabBar(what) ==
    since' = [b \in Buttons |-> IF b \in held THEN since[b] \cup {what} ELSE {}]

\* switch_to_tab: the selection belonged to the other tab.
SwitchTab(i) ==
    /\ "switch" \in Ops /\ i # active /\ active' = i /\ Quiet
    /\ anchor' = FALSE /\ selection' = FALSE /\ TabBar("switch")
    /\ UNCHANGED <<tabs, mode, shift, focused, phys, held, records, dragging, app, side>>

\* reorder_tab: the same tab stays shown, at its new index.
ReorderTab(i, j) ==
    /\ "reorder" \in Ops /\ i # j
    /\ tabs' = InsertAt(RemoveAt(tabs, i), j, tabs[i])
    /\ active' = CHOOSE k \in DOMAIN tabs : tabs'[k] = Here
    /\ TabBar("reorder")
    /\ Quiet /\ UNCHANGED <<mode, shift, focused, phys, held, records, drag, app, side>>

\* clear_selection, set_alt_screen, a resize: what was selected goes.
ClearSelection ==
    /\ "clear" \in Ops /\ (anchor \/ selection) /\ anchor' = FALSE /\ selection' = FALSE /\ Quiet
    /\ UNCHANGED <<world, phys, held, records, dragging, app, side, since>>

Next ==
    \/ \E b \in Buttons : Press(b) \/ Release(b) \/ ReleaseLost(b)
    \/ \E r \in Regions, c \in Cells : Motion(r, c)
    \/ \E l \in Lines : Wheel(l)
    \/ \E t \in Tabs, m \in Modes : SetMode(t, m)
    \/ ToggleShift \/ FocusLost \/ FocusGained \/ ClearSelection
    \/ \E i \in DOMAIN tabs : SwitchTab(i) \/ \E j \in DOMAIN tabs : ReorderTab(i, j)

Spec == Init /\ [][Next]_vars
-----------------------------------------------------------------------------
(* The state is well formed. *)
TypeOK ==
    /\ active \in DOMAIN tabs /\ builtFor \in 0 .. Len(tabs) /\ held \subseteq phys
    /\ owner \in [Buttons -> {None, "report", "local"}] /\ cache \in Cells \cup {0}
    /\ Abs(accum) <= 1 /\ (anchor => dragging)

(* Disposition::Report, "a release carries the tab its press recorded": a release is   *)
(* only told to an application that saw the press, unless the tabs were reordered in   *)
(* between, for the press records an index, or the press had no bytes in x10.          *)
ReleaseMatches ==
    (out'.kind = "release" /\ since[out'.button] \subseteq {"switch"})
       => app[out'.tab][out'.button] # "up"

(* GestureOwner::Report, "The press was reported; the matching release must report     *)
(* too": an application that tracks and saw a press is told of the release, wherever   *)
(* the pointer is that the encoding reaches and whatever Shift became, unless the tab  *)
(* bar was used in between.                                                            *)
GestureCompletes ==
    \A b \in phys \ phys' :
       (side[b] = "report" /\ app[Here][b] = "down" /\ since[b] = {} /\ Encodable(cell))
          => out' = Report("release", b, Here, 0)

(* A release is only reported for the press that was: whatever tabs, modes, focus and  *)
(* lost releases came between, one of a locally taken press tells nobody.              *)
ReleaseOneSided == out'.kind = "release" => side[out'.button] = "report"

(* A press that was taken locally stays local: neither its motion nor its release      *)
(* reaches an application, whatever modes and Shift become while it is held.           *)
GestureOneSided ==
    out'.kind \in {"motion", "release"} /\ out'.button \in Buttons
          => side[out'.button] \notin {"local", "drag"}

(* A selection drag lives as long as the button is held: it survives other buttons,    *)
(* the wheel, modes and a loss of focus, and it does not outlive the release.          *)
DragIsHeld == "left" \in Buttons => (dragging <=> side["left"] = "drag")

(* event_loop.rs: a preserved drag's "eventual termination is delegated to the release *)
(* path's existing no-owner fallback": no drag is in flight after a left release.      *)
ReleaseEndsDrag ==
    ("left" \in held /\ "left" \notin held' /\ focused') => ~dragging' /\ ~anchor'

(* handle_mouse_wheel: the sign of the notches "always agrees with the kind used to    *)
(* build bytes", and there are never more of them than the cap.                        *)
WheelSign ==
    out.kind = "wheel" =>
       Abs(out.n) \in 1 .. MaxNotches /\ (out.n > 0 <=> out.button = "up")

(* The carried fraction is of one tab, the one the records were built for.             *)
FractionOfOneTab == accum # 0 => builtFor # 0 /\ accumFrom = {tabs[builtFor]}

(* The three that follow are in no run: the code does otherwise after a switch or a    *)
(* reorder of tabs.  The release goes to a tab that saw the press.                     *)
ReleaseMatchesAlways == out'.kind = "release" => app[out'.tab][out'.button] # "up"

(* The release of a reported press is reported.                                        *)
GestureCompletesAlways ==
    \A b \in phys \ phys', t \in Tabs :
          app[t][b] = "down" => out' = Report("release", b, t, 0)

(* The gesture slots are "Reset on the same two observations", a change of tab is one: *)
(* the motion of a drag is not told to an application that did not see its press.      *)
DragStaysHome ==
    out'.kind = "motion" /\ out'.button \in Buttons /\ side[out'.button] = "report"
          => app[out'.tab][out'.button] # "up"
=============================================================================
