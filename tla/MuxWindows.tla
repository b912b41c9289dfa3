----------------------------- MODULE MuxWindows -----------------------------
(***************************************************************************)
(* One attached mux tab of the GUI and the daemon session it shows: the    *)
(* window list kept twice, the per-window scroll positions and the rename  *)
(* and move dialogs.  From src/src-tauri/src/app/mux_ui.rs, the daemon     *)
(* message handlers of src/src-tauri/src/tabs/mux_link.rs and the latch    *)
(* that App::pump_all (src/src-tauri/src/app/mod.rs) drains.  The event    *)
(* loop runs a pump (all messages that arrived, then the latch), an input  *)
(* event or a frame at a time; the daemon runs at any moment between.      *)
(***************************************************************************)
EXTENDS WindowGroup

CONSTANTS
    NumWindows,   \* windows of the session when the tab attaches
    MaxPane,      \* bound: pane ids the daemon hands out
    MaxOps,       \* bound: user and daemon initiatives in a behaviour
    Names,        \* window names
    Scrolls,      \* scroll positions, Live among them
    Ops,          \* the kinds of initiative this instance allows
    Faults        \* "spawn": a PTY spawn may fail; "pty": a send may fail

WindowsAssumption ==
    /\ NumWindows \in 1 .. MaxPane /\ MaxPane \in Nat /\ MaxOps \in Nat
    /\ Live \in Scrolls /\ "Terminal" \in Names

VARIABLES
    group,      \* Tab::mux_group
    attached,   \* whether mux_group is Some
    scroll,     \* App::scroll_position
    from,       \* Tab::pending_pane_switch_from
    pumping,    \* inside App::pump_all
    dialog,     \* App::mux_dialog
    up,         \* control frames on their way to the daemon
    down,       \* frames on their way to the tab
    order,      \* the daemon's windows in order: [id, pane, name]
    nextPane, nextWindow,   \* SessionManager and MuxSession id counters
    ops,        \* initiatives so far
    want,       \* history: where the user left each pane
    chosen,     \* history: the pane last made the active one on purpose
    meant,      \* history: the pane the open dialog was opened for
    hits,       \* history: of every confirmed dialog, the pane it was opened for, the
                \* pane it acted on and whether the first was still listed
    strayed     \* history: what set client and daemon apart, as the fields of Apart

vars == <<group, attached, scroll, from, pumping, dialog, up, down, order,
          nextPane, nextWindow, ops, want, chosen, meant, hits,
          strayed>>

client == <<group, attached, scroll, from, pumping, dialog>>
daemon == <<order, nextPane, nextWindow>>
history == <<want, chosen, meant, hits, strayed>>

\* order: a move was taken in another list than the one it was made in; names: the panes
\* whose last title and rename crossed, or whose title names another pane; shown: a window
\* above the shown one was closed; untold: the panes created from the command line.
Apart == [order |-> FALSE, names |-> {}, shown |-> FALSE, untold |-> {}]

None == 0
PaneIds == 1 .. MaxPane
Closed == [kind |-> "closed"]

Active == ActivePaneId(group, None)

Seeded == [i \in 1 .. NumWindows |->
             [id |-> i, pane |-> i, name |-> "Terminal", scroll |-> Live]]

Init ==
    /\ group = SeedGroup(EmptyGroup, Seeded, 0) /\ attached = TRUE
    /\ scroll = Live /\ from = None /\ pumping = FALSE /\ dialog = Closed
    /\ up = <<>> /\ down = <<>>
    /\ order = [i \in 1 .. NumWindows |->
                  [id |-> i, pane |-> i, name |-> "Terminal"]]
    /\ nextPane = NumWindows + 1 /\ nextWindow = NumWindows + 1
    /\ ops = 0
    /\ want = [p \in PaneIds |-> Live] /\ chosen = 1 /\ meant = None /\ hits = {}
    /\ strayed = Apart

Initiative(kind) == kind \in Ops /\ ops < MaxOps /\ ops' = ops + 1

\* An input event: the event loop is not pumping, and an open dialog takes keys.
Idle == attached /\ ~pumping /\ dialog = Closed

-----------------------------------------------------------------------------
(* The user: App::dispatch_mux_action and the dialogs.                     *)

UserScroll(s) ==
    /\ Initiative("scroll") /\ Idle /\ s # scroll
    /\ scroll' = s
    /\ want' = [want EXCEPT ![Active] = s]
    /\ UNCHANGED <<group, attached, from, pumping, dialog, up, down, daemon,
                   chosen, meant, hits, strayed>>

\* The window shown is chosen: a switch or a new window.
Choose(p) == chosen' = p /\ strayed' = [strayed EXCEPT !.shown = FALSE]

\* switch_to: send first, then park the outgoing scroll and move.
SwitchTo(i) ==
    /\ i # NoIndex
    /\ group' = SetActiveClamped(SetPaneScrollAt(group, group.active, scroll), i)
    /\ up' = Append(up, [kind |-> "switch", pane |-> ActivePaneId(group', None)])
    /\ scroll' = ActivePaneScroll(group')

\* The next, previous and digit bindings and the cycle over agent windows, any
\* of which may carry a status.
UserSwitch ==
    /\ Initiative("switch") /\ Idle
    /\ \/ SwitchTo(NextIndex(group))
       \/ SwitchTo(PrevIndex(group))
       \/ \E d \in 0 .. MaxPane : SwitchTo(DigitIndex(group, d))
       \/ \E agents \in SUBSET PaneIdsOf(group) :
             LET i == NextQualifyingIndex(group, LAMBDA p : p \in agents)
             IN  i # group.active /\ SwitchTo(i)
    /\ Choose(ActivePaneId(group', None))
    /\ UNCHANGED <<attached, from, pumping, dialog, down, daemon, want, meant, hits>>

NewWindow ==
    /\ Initiative("create") /\ Idle
    /\ group' = [group EXCEPT !.pending = @ + 1]
    /\ up' = Append(up, [kind |-> "create", pane |-> None])
    /\ UNCHANGED <<attached, scroll, from, pumping, dialog, down, daemon, history>>

\* The dialogs capture the active window's id, never its position.
OpenRename ==
    /\ Initiative("rename") /\ Idle
    /\ dialog' = [kind |-> "rename", id |-> WindowAt(group, group.active).id]
    /\ meant' = Active
    /\ UNCHANGED <<group, attached, scroll, from, pumping, up, down, daemon,
                   want, chosen, hits, strayed>>

OpenMove ==
    /\ Initiative("move") /\ Idle /\ Len0(group) > 1
    /\ dialog' = [kind |-> "move", id |-> WindowAt(group, group.active).id,
                  count |-> Len0(group), target |-> group.active + 1]
    /\ meant' = Active
    /\ UNCHANGED <<group, attached, scroll, from, pumping, up, down, daemon,
                   want, chosen, hits, strayed>>

\* refresh_mux_dialog: close the dialog of a window that is gone, clamp the
\* target of a move into the list.
Refreshed ==
    IF ~attached \/ dialog = Closed \/ IndexOfWindow(group, dialog.id) = NoIndex
    THEN Closed
    ELSE IF dialog.kind = "rename" THEN dialog
         ELSE [dialog EXCEPT !.count = Len0(group),
                             !.target = Min({@, Len0(group)})]

Hit(pane) == hits' = hits \cup {<<meant, pane, meant \in PaneIdsOf(group)>>}

\* A pane's name comes apart for one reason, and together when the other is done with.
NameApart(apart, panes) ==
    strayed' = [strayed EXCEPT !.names = IF apart THEN @ \cup panes ELSE @ \ panes]

\* confirm_mux_rename: relabel at once, tell the daemon by pane id; the send is not
\* looked at.  A title may be on its way to the pane.
ConfirmRename(id, name) ==
    LET pane == WindowAt(group, IndexOfWindow(group, id)).pane
        title == \E k \in DOMAIN down : down[k].kind = "rename" /\ down[k].id = pane
    IN  /\ group' = RenameWindowId(group, id, name)
        /\ Hit(pane)
        /\ \/ /\ up' = Append(up, [kind |-> "rename", pane |-> pane, name |-> name])
              /\ NameApart(title, {pane})
           \/ "pty" \in Faults /\ NameApart(TRUE, {pane}) /\ UNCHANGED up

\* confirm_mux_move: reorder at once, roll back when the send fails.  `among` is
\* history: the list the move was made in.
ConfirmMove(id, target) ==
    LET i == IndexOfWindow(group, id)
        pane == WindowAt(group, i).pane
        moved == Reorder(group, i, target - 1)
    IN  \/ /\ target - 1 = i
           /\ UNCHANGED <<group, up, hits>>
        \/ /\ target - 1 # i
           /\ group' = moved
           /\ up' = Append(up, [kind |-> "move", pane |-> pane, to |-> target - 1,
                               among |-> PaneIdsOf(group)])
           /\ Hit(pane)
        \/ /\ target - 1 # i /\ "pty" \in Faults
           /\ group' = Reorder(moved, target - 1, i)
           /\ UNCHANGED <<up, hits>>

\* drive_mux_dialogs, once per frame: reconcile, then the outcome of the draw.
DialogFrame ==
    /\ ~pumping /\ dialog # Closed
    /\ \/ /\ dialog' = Refreshed /\ dialog' # dialog
          /\ UNCHANGED <<group, up, hits, strayed>>
       \/ /\ Refreshed # Closed /\ Refreshed.kind = "move"
          /\ \E t \in 1 .. Refreshed.count : dialog' = [Refreshed EXCEPT !.target = t]
          /\ UNCHANGED <<group, up, hits, strayed>>
       \/ /\ Refreshed # Closed /\ Refreshed.kind = "rename" /\ dialog' = Closed
          /\ \E n \in Names : ConfirmRename(Refreshed.id, n)
       \/ /\ Refreshed # Closed /\ Refreshed.kind = "move" /\ dialog' = Closed
          /\ ConfirmMove(Refreshed.id, Refreshed.target) /\ UNCHANGED strayed
       \/ /\ dialog' = Closed
          /\ UNCHANGED <<group, up, hits, strayed>>
    /\ meant' = IF dialog' = Closed THEN None ELSE meant
    /\ UNCHANGED <<attached, scroll, from, pumping, down, daemon, ops, want, chosen>>
-----------------------------------------------------------------------------
(* The daemon: it takes the tab's frames in order and has its own events.  *)

Position(p) == {i \in DOMAIN order : order[i].pane = p}

PanesOf(wins) == {wins[i].pane : i \in DOMAIN wins}

Say(m) == down' = Append(down, m)

\* handle_create_window: the pane id is taken before the spawn, the window id
\* only after it succeeded; whoever asked is told, and nobody else.
CreateWindow(Told(_)) ==
    /\ nextPane <= MaxPane /\ nextPane' = nextPane + 1
    /\ \/ /\ order' = Append(order, [id |-> nextWindow, pane |-> nextPane,
                                     name |-> "Terminal"])
          /\ nextWindow' = nextWindow + 1
          /\ Told(nextPane)
       \/ /\ "spawn" \in Faults
          /\ UNCHANGED <<order, nextWindow, down, strayed>>

DaemonCreate ==
    CreateWindow(LAMBDA p : Say([kind |-> "created", id |-> p]) /\ UNCHANGED strayed)

\* MuxSession::move_window: clamp the target to the list without the window.
DaemonMove(m) ==
    /\ order' = IF Position(m.pane) = {} THEN order
                ELSE MoveItem(order, (CHOOSE i \in Position(m.pane) : TRUE) - 1,
                              Min({m.to, Len(order) - 1}))
    /\ strayed' = [strayed EXCEPT !.order =
          @ \/ ~(m.among \subseteq PanesOf(order)) \/ strayed.untold \cap PanesOf(order) # {}]
    /\ UNCHANGED <<nextPane, nextWindow, down>>

\* handle_rename_window: the id of a pane, or else of a window.  Nobody is told.
DaemonRename(id, name) ==
    LET named == IF Position(id) # {} THEN Position(id)
                 ELSE {i \in DOMAIN order : order[i].id = id}
    IN  /\ order' = [i \in DOMAIN order |->
                       IF i \in named THEN [order[i] EXCEPT !.name = name] ELSE order[i]]
        /\ IF Position(id) = {} THEN NameApart(TRUE, {order[i].pane : i \in named})
                                ELSE UNCHANGED strayed
        /\ UNCHANGED <<nextPane, nextWindow, down>>

DaemonTakes ==
    /\ up # <<>> /\ up' = Tail(up)
    /\ LET m == Head(up)
       IN  CASE m.kind = "create" -> DaemonCreate
             [] m.kind = "move" -> DaemonMove(m)
             [] m.kind = "rename" -> DaemonRename(m.pane, m.name)
             [] OTHER -> UNCHANGED <<daemon, down, strayed>>
    /\ UNCHANGED <<client, ops, want, chosen, meant, hits>>

\* apply_title_change: the broadcast carries the WINDOW id.  A rename of the pane may
\* be on its way.
TitleChange(p, name) ==
    /\ Initiative("title")
    /\ \E i \in Position(p) :
         /\ order[i].name # name
         /\ order' = [order EXCEPT ![i].name = name]
         /\ Say([kind |-> "rename", id |-> order[i].id, name |-> name])
         /\ NameApart(\/ order[i].id # p
                      \/ \E k \in DOMAIN up : up[k].kind = "rename" /\ up[k].pane = p,
                      {p, order[i].id})
    /\ UNCHANGED <<client, up, nextPane, nextWindow, want, chosen, meant, hits>>

PaneExits(p) ==
    /\ Initiative("exit") /\ Position(p) # {}
    /\ order' = SelectSeq(order, LAMBDA w : w.pane # p)
    /\ Say([kind |-> "exited", id |-> p])
    /\ UNCHANGED <<client, up, nextPane, nextWindow, history>>

\* A window selected from the command line.
RemoteSwitch(p) ==
    /\ Initiative("remote") /\ Position(p) # {}
    /\ Say([kind |-> "switch", id |-> p])
    /\ UNCHANGED <<client, up, daemon, history>>

\* A window created from the command line: the command is answered, the tab is not told.
RemoteCreate ==
    /\ Initiative("remoteCreate")
    /\ CreateWindow(LAMBDA p : /\ strayed' = [strayed EXCEPT !.untold = @ \cup {p}]
                               /\ UNCHANGED down)
    /\ UNCHANGED <<client, up, want, chosen, meant, hits>>
-----------------------------------------------------------------------------
(* Tab::apply_mux_message, message by message inside a pump.               *)

\* pending_pane_switch_from: the first move of a pump wins.
LatchFrom(p) == from' = IF from = None THEN p ELSE from

HandlePaneCreated(p) ==
    \/ /\ IndexOfPane(group, p) = NoIndex
       /\ group' = PushWindow([group EXCEPT !.pending = Max({@ - 1, 0})],
                              FreshWindowId(group), p, "Terminal")
       /\ IF Active = None THEN from' = from ELSE LatchFrom(Active)
       /\ Choose(p)
       /\ UNCHANGED attached
    \/ /\ IndexOfPane(group, p) # NoIndex
       /\ UNCHANGED <<group, from, chosen, strayed, attached>>

HandleSwitchWindow(p) ==
    LET i == IndexOfPane(group, p)
    IN  \/ /\ i # NoIndex
           /\ group' = [group EXCEPT !.active = i]
           /\ IF Active # p THEN LatchFrom(Active) ELSE from' = from
           /\ Choose(p)
           /\ UNCHANGED attached
        \/ /\ i = NoIndex
           /\ UNCHANGED <<group, from, chosen, strayed, attached>>

\* The handler takes the frame's id for a PANE id.
HandleRename(id, name) ==
    LET i == IndexOfPane(group, id)
    IN  /\ group' = IF i = NoIndex THEN group
                    ELSE RenameWindowId(group, WindowAt(group, i).id, name)
        /\ UNCHANGED <<from, chosen, strayed, attached>>

\* handle_pty_exited: the last window ends the tab; a changed active pane is
\* latched and its screen requested.
HandlePtyExited(p) ==
    \/ /\ IndexOfPane(group, p) # NoIndex
       /\ LET g == RemovePane(group, p)
          IN  /\ group' = g
              /\ attached' = (g.wins # <<>>)
              /\ IF g.wins # <<>> /\ ActivePaneId(g, None) # Active
                 THEN LatchFrom(Active) ELSE from' = from
              /\ chosen' = IF p = chosen THEN ActivePaneId(g, None) ELSE chosen
              /\ strayed' = [strayed EXCEPT !.shown =
                    p # chosen /\ (@ \/ IndexOfPane(group, p) < group.active)]
    \/ /\ IndexOfPane(group, p) = NoIndex
       /\ UNCHANGED <<group, from, chosen, strayed, attached>>

ApplyMuxMessage ==
    /\ attached /\ down # <<>> /\ down' = Tail(down) /\ pumping' = TRUE
    /\ LET m == Head(down)
       IN  CASE m.kind = "created" -> HandlePaneCreated(m.id)
             [] m.kind = "switch" -> HandleSwitchWindow(m.id)
             [] m.kind = "rename" -> HandleRename(m.id, m.name)
             [] m.kind = "exited" -> HandlePtyExited(m.id)
    /\ UNCHANGED <<scroll, dialog, up, daemon, ops, want, meant, hits>>

\* The end of pump_all: park the outgoing pane's scroll in its slot, if it still
\* has one, and load the slot of the pane that is active now.
PumpEnd ==
    /\ pumping /\ pumping' = FALSE /\ from' = None
    /\ LET g == SetPaneScrollAt(group, IndexOfPane(group, from), scroll)
           moved == from # None /\ attached
       IN  /\ group' = IF moved THEN g ELSE group
           /\ scroll' = IF moved THEN ActivePaneScroll(g) ELSE scroll

EndPump ==
    /\ PumpEnd
    /\ UNCHANGED <<attached, dialog, up, down, daemon, ops, history>>

Next ==
    \/ \E s \in Scrolls : UserScroll(s)
    \/ UserSwitch \/ NewWindow \/ OpenRename \/ OpenMove \/ DialogFrame
    \/ DaemonTakes \/ RemoteCreate
    \/ \E p \in PaneIds : \/ PaneExits(p) \/ RemoteSwitch(p)
                          \/ \E n \in Names : TitleChange(p, n)
    \/ ApplyMuxMessage \/ EndPump

Spec == Init /\ [][Next]_vars
-----------------------------------------------------------------------------
Settled == up = <<>> /\ down = <<>> /\ ~pumping /\ attached

TypeOK ==
    /\ group.active \in 0 .. MaxPane /\ group.pending \in 0 .. MaxOps
    /\ \A i \in DOMAIN group.wins : group.wins[i] \in
          [id : 0 .. 2 * MaxPane, pane : PaneIds, name : Names, scroll : Scrolls]
    /\ scroll \in Scrolls /\ from \in {None} \cup PaneIds
    /\ attached => group.active < Len0(group)

\* The list never shows a pane twice and never two windows of one id, whatever
\* mix of seeded and locally numbered windows it holds: the dialogs and the
\* message handlers find a window by the first match.
NoTwins ==
    \A i, j \in DOMAIN group.wins :
        i # j => /\ group.wins[i].pane # group.wins[j].pane
                 /\ group.wins[i].id # group.wins[j].id

\* Between two pumps the tab is scrolled to where the user left the pane it
\* shows, however many switches, creations and exits one pump carried.
ScrollKept == attached /\ ~pumping => scroll = want[Active]

Panes(wins) == [i \in DOMAIN wins |-> wins[i].pane]

SameNames(panes) ==
    \A i \in DOMAIN group.wins : \A k \in DOMAIN order :
       (group.wins[i].pane = order[k].pane /\ order[k].pane \in panes)
          => group.wins[i].name = order[k].name

\* With nothing in flight the tab lists the daemon's windows, but for those created from
\* the command line, and in the daemon's order, unless a move reached the daemon after a
\* window it was made among was closed, or with such a window in the list: the order is
\* never sent back.
OrderUnlessCrossed ==
    Settled => LET told == SelectSeq(Panes(order), LAMBDA p : p \notin strayed.untold) IN
               /\ PanesOf(group.wins) = {told[i] : i \in DOMAIN told}
               /\ ~strayed.order => Panes(group.wins) = told

\* With nothing in flight every window carries the name the daemon has for its pane,
\* unless its last title and its last rename crossed, its window and pane have different
\* ids and the title was applied by the wrong one, or the rename named a closed pane.
NamesUnlessCrossed == Settled => SameNames(PaneIds \ strayed.names)

\* A confirmed dialog acts on the window it was opened for, while that is listed.
DialogHitsListed == \A h \in hits : h[3] => h[1] = h[2]

\* The window shown changes only by a choice: a switch, a new window, or the close of
\* the shown window itself; or else one listed above it was closed.
ShownUnlessClosedAbove == (attached /\ ~strayed.shown) => Active = chosen

\* The four without their exceptions, in no run: the code keeps none of them.

\* The daemon announces every pane, "whether this client requested the create or another
\* client did" (tabs/mux_link.rs:603), and applies the moves the tab made.
OrderAgrees == Settled => Panes(group.wins) = Panes(order)

\* Titles and renames end with one name on both sides.
NamesAgree == Settled => SameNames(PaneIds)

\* A dialog never acts on another window than its own.
DialogHitsTarget == \A h \in hits : h[1] = h[2]

\* Closing another window leaves the shown one in place.
ActiveIsChosen == attached => Active = chosen
=============================================================================
