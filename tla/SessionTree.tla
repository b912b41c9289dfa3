---------------------------- MODULE SessionTree ----------------------------
(***************************************************************************)
(* The session tree of the mux daemon (SessionManager, MuxSession,         *)
(* MuxWindow), everything that changes it, and the daemon's life cycle:    *)
(* client handlers that create, switch, move and destroy windows and       *)
(* panes, programs that end, the reader threads' exit chunks and exit      *)
(* notices, the pane-exit task, and the run loop that stops the daemon.    *)
(*                                                                         *)
(* Every section under the session manager's lock is one action.  A pane   *)
(* carries its program and its reader; their output is PaneOutput's.       *)
(* Window names are left out.                                              *)
(***************************************************************************)
EXTENDS Naturals, Sequences, FiniteSets, SequencesExt

CONSTANTS
    Gui, Cli,      \* the clients of either type
    MaxSession,    \* bound: sessions created
    MaxPane,       \* bound: pane ids allocated
    NoticeCap,     \* PANE_EXIT_CHANNEL_CAPACITY
    MaxMove,       \* bound: MoveWindow messages
    Kill           \* may the daemon be told to stop (mux kill, SIGTERM)?

Client == Gui \cup Cli
SessionId == 1 .. MaxSession
PaneId == 1 .. MaxPane

SessionTreeAssumption ==
    /\ {MaxSession, MaxPane, NoticeCap, MaxMove} \subseteq Nat
    /\ MaxSession > 0
    /\ Gui \cap Cli = {}
    /\ Kill \in BOOLEAN

VARIABLES
    sessions,     \* keys of SessionManager.sessions
    nextSession,  \* SessionManager.next_session_id
    nextPane,     \* SessionManager.next_pane_id
    windows,      \* per session, keys of MuxSession.windows
    order,        \* per session, window_order
    active,       \* per session, active_window_id (0: None)
    nextWindow,   \* per session, next_window_id
    home,         \* the session and window whose panes map holds this pane
    program,      \* the pane's child: none, running, ended
    closed,       \* panes whose PTY the daemon has closed
    reader,       \* the pane's reader thread
    notices,      \* the pane-exit channel
    chunks,       \* per GUI connection, exit chunks in its pane_output channel
    shutdown,     \* the value of the shutdown watch channel
    daemon,       \* the run loop
    client,       \* per client: program counter, session, pane and window list
    moves         \* MoveWindow messages so far

treeVars == <<sessions, windows, order, active, home>>
idVars == <<nextSession, nextPane, nextWindow>>
paneVars == <<program, closed, reader>>
exitVars == <<notices, chunks>>
vars == <<treeVars, idVars, paneVars, exitVars, shutdown, daemon, client, moves>>

NoHome == [s |-> 0, w |-> 0]
Off == [pc |-> "off", s |-> 0, p |-> 0, list |-> {}]

Running == daemon # "stopped"

\* The keys of a window's panes map.
InWindow(s, w) == {p \in PaneId : home[p] = [s |-> s, w |-> w]}

-----------------------------------------------------------------------------
(* Connections: accept, Welcome, and the session a connection works on *)

At(c, pc) == Running /\ client[c].pc = pc
Step(c, pc) == client' = [client EXCEPT ![c].pc = pc]

\* A GUI connection returns to its loop; a CLI connection is over.
Done(c) == client' = [client EXCEPT ![c] = IF c \in Cli THEN Off
                                           ELSE [@ EXCEPT !.pc = "ready", !.p = 0]]

\* The run loop accepts a connection and spawns its task.
Accept(c) ==
    /\ daemon = "serving"
    /\ client[c].pc = "off"
    /\ Step(c, "hello")
    /\ UNCHANGED <<treeVars, idVars, paneVars, exitVars, shutdown, daemon, moves>>

create_session ==
    /\ nextSession <= MaxSession
    /\ sessions' = sessions \cup {nextSession}
    /\ nextSession' = nextSession + 1

\* The Welcome message: the default session is created when there is none.  The
\* list of windows in it is what a CLI client takes a window id from.
Welcome(c) ==
    /\ At(c, "hello")
    /\ IF sessions = {} THEN create_session
       ELSE UNCHANGED <<sessions, nextSession>>
    /\ \E s \in sessions' :
          client' = [client EXCEPT ![c].pc = "pick",
                                   ![c].list = IF c \in Cli THEN windows[s] ELSE {}]
    /\ UNCHANGED <<windows, order, active, home, nextPane, nextWindow, paneVars,
                   exitVars, shutdown, daemon, moves>>

\* A second lock section determines the active session: any, or 1.
PickSession(c) ==
    /\ At(c, "pick")
    /\ \E s \in IF sessions = {} THEN {1} ELSE sessions :
          client' = [client EXCEPT ![c].pc = "ready", ![c].s = s]
    /\ UNCHANGED <<treeVars, idVars, paneVars, exitVars, shutdown, daemon, moves>>

\* handle_attach: the connection moves to a session that exists.
Attach(c, s) ==
    /\ c \in Gui
    /\ At(c, "ready")
    /\ s \in sessions
    /\ client' = [client EXCEPT ![c].s = s]
    /\ UNCHANGED <<treeVars, idVars, paneVars, exitVars, shutdown, daemon, moves>>

\* The client disconnects, detaches, or is a CLI client without a message: its
\* channel is dropped with whatever it holds.
Leave(c) ==
    /\ At(c, "pick") \/ At(c, "ready")
    /\ client' = [client EXCEPT ![c] = Off]
    /\ chunks' = [chunks EXCEPT ![c] = {}]
    /\ UNCHANGED <<treeVars, idVars, paneVars, notices, shutdown, daemon, moves>>

-----------------------------------------------------------------------------
(* handle_create_window: three sections, a PTY is spawned between the locks *)

alloc_pane_id(c) ==
    /\ nextPane <= MaxPane
    /\ client' = [client EXCEPT ![c].pc = "spawn", ![c].p = nextPane]
    /\ nextPane' = nextPane + 1

CreateWindow(c) ==
    /\ At(c, "ready")
    /\ alloc_pane_id(c)
    /\ UNCHANGED <<treeVars, nextSession, nextWindow, paneVars, exitVars, shutdown,
                   daemon, moves>>

SpawnPty(c) ==
    /\ At(c, "spawn")
    /\ program' = [program EXCEPT ![client[c].p] = "running"]
    /\ Step(c, "register")
    /\ UNCHANGED <<treeVars, idVars, closed, reader, exitVars, shutdown, daemon, moves>>

\* The pane id is not used again.
SpawnFails(c) ==
    /\ At(c, "spawn")
    /\ Done(c)
    /\ UNCHANGED <<treeVars, idVars, paneVars, exitVars, shutdown, daemon, moves>>

add_window(s, w) ==
    /\ windows' = [windows EXCEPT ![s] = @ \cup {w}]
    /\ order' = [order EXCEPT ![s] = Append(@, w)]
    /\ active' = [active EXCEPT ![s] = IF @ = 0 THEN w ELSE @]

\* create_window and register_pane_and_start_reader, under one lock.
RegisterPane(c) ==
    LET s == client[c].s
        w == nextWindow[s]
        p == client[c].p
    IN  /\ At(c, "register")
        /\ s \in sessions
        /\ nextWindow' = [nextWindow EXCEPT ![s] = w + 1]
        /\ add_window(s, w)
        /\ home' = [home EXCEPT ![p] = [s |-> s, w |-> w]]
        /\ reader' = [reader EXCEPT ![p] = "reading"]
        /\ Done(c)
        /\ UNCHANGED <<sessions, nextSession, nextPane, program, closed, exitVars,
                       shutdown, daemon, moves>>

\* create_window finds no session: the spawned PTY is dropped, which closes it.
\* Nobody reads it and nobody will wait for its child.
RegisterFails(c) ==
    /\ At(c, "register")
    /\ client[c].s \notin sessions
    /\ closed' = closed \cup {client[c].p}
    /\ Done(c)
    /\ UNCHANGED <<treeVars, idVars, program, reader, exitVars, shutdown, daemon, moves>>

-----------------------------------------------------------------------------
(* Removal of panes, windows and sessions *)

remove_window(s, w) ==
    LET rest == Remove(order[s], w)
    IN  /\ windows' = [windows EXCEPT ![s] = @ \ {w}]
        /\ order' = [order EXCEPT ![s] = rest]
        /\ active' = [active EXCEPT ![s] = IF @ # w THEN @
                                           ELSE IF rest = <<>> THEN 0 ELSE Head(rest)]

\* Fault: the last session goes and nobody is told.
remove_empty_silently(s, w) ==
    /\ sessions' = IF windows[s] = {w} THEN sessions \ {s} ELSE sessions
    /\ UNCHANGED shutdown

\* A session left without a window is removed; without sessions the daemon is
\* told to stop.
remove_empty(s, w) ==
    /\ sessions' = IF windows[s] = {w} THEN sessions \ {s} ELSE sessions
    /\ shutdown' = (shutdown \/ sessions' = {})

\* handle_destroy_pane.  No effect on a pane that is no longer in the tree.
handle_destroy_pane(p) ==
    IF home[p] = NoHome THEN UNCHANGED <<treeVars, closed, shutdown>>
    ELSE LET s == home[p].s
             w == home[p].w
         IN  /\ home' = [home EXCEPT ![p] = NoHome]
             /\ closed' = closed \cup {p}
             /\ IF InWindow(s, w) = {p}
                THEN /\ remove_window(s, w)
                     /\ remove_empty(s, w)
                ELSE UNCHANGED <<sessions, windows, order, active, shutdown>>

\* handle_destroy_window: the id is looked up in all sessions, in any order.
handle_destroy_window(w) ==
    IF \A s \in sessions : w \notin windows[s]
    THEN UNCHANGED <<treeVars, closed, shutdown>>
    ELSE \E s \in sessions :
           /\ w \in windows[s]
           /\ home' = [p \in PaneId |-> IF p \in InWindow(s, w) THEN NoHome ELSE home[p]]
           /\ closed' = closed \cup InWindow(s, w)
           /\ remove_window(s, w)
           /\ remove_empty(s, w)

DestroyPane(c, p) ==
    /\ c \in Gui
    /\ At(c, "ready")
    /\ handle_destroy_pane(p)
    /\ UNCHANGED <<idVars, program, reader, exitVars, daemon, client, moves>>

DestroyWindow(c, w) ==
    /\ c \in Gui
    /\ At(c, "ready")
    /\ handle_destroy_window(w)
    /\ UNCHANGED <<idVars, program, reader, exitVars, daemon, client, moves>>

-----------------------------------------------------------------------------
(* handle_switch_window and handle_move_window *)

\* The windows an id may name: a pane's window, or else a window with that id.
Named(id) ==
    IF id \in PaneId /\ home[id] # NoHome THEN {home[id]}
    ELSE {h \in [s : sessions, w : {id}] : h.w \in windows[h.s]}

handle_switch_window(id) ==
    IF Named(id) = {} THEN UNCHANGED active
    ELSE \E h \in Named(id) : active' = [active EXCEPT ![h.s] = h.w]

\* A GUI client names a window by its pane.
SwitchWindow(c, id) ==
    /\ c \in Gui
    /\ At(c, "ready")
    /\ handle_switch_window(id)
    /\ UNCHANGED <<sessions, windows, order, home, idVars, paneVars, exitVars,
                   shutdown, daemon, client, moves>>

\* mux switch-window names it by a window id of the Welcome list.
CliSwitchWindow(c, id) ==
    /\ c \in Cli
    /\ At(c, "ready")
    /\ id \in client[c].list
    /\ handle_switch_window(id)
    /\ Done(c)
    /\ UNCHANGED <<sessions, windows, order, home, idVars, paneVars, exitVars,
                   shutdown, daemon, moves>>

\* move_window: remove, then insert at the index (from 0), clamped.
moved(q, w, i) ==
    LET rest == Remove(q, w)
        at == IF i <= Len(rest) THEN i ELSE Len(rest)
    IN  InsertAt(rest, at + 1, w)

MoveWindow(c, p, i) ==
    /\ c \in Gui
    /\ At(c, "ready")
    /\ moves < MaxMove
    /\ moves' = moves + 1
    /\ order' = IF home[p] = NoHome THEN order
                ELSE [order EXCEPT ![home[p].s] = moved(@, home[p].w, i)]
    /\ UNCHANGED <<sessions, windows, active, home, idVars, paneVars, exitVars,
                   shutdown, daemon, client>>

-----------------------------------------------------------------------------
(* The end of a program: reader thread, exit chunk, exit notice, reap task *)

ProgramEnds(p) ==
    /\ Running
    /\ program[p] = "running"
    /\ program' = [program EXCEPT ![p] = "ended"]
    /\ UNCHANGED <<treeVars, idVars, closed, reader, exitVars, shutdown, daemon,
                   client, moves>>

\* End of file, pane connected to c: an empty chunk to that connection.
ReaderEofConnected(p, c) ==
    /\ At(c, "ready")
    /\ c \in Gui
    /\ reader[p] = "reading"
    /\ program[p] = "ended"
    /\ chunks' = [chunks EXCEPT ![c] = @ \cup {p}]
    /\ reader' = [reader EXCEPT ![p] = "notify"]
    /\ UNCHANGED <<treeVars, idVars, program, closed, notices, shutdown, daemon,
                   client, moves>>

\* End of file, pane detached.
ReaderEofDetached(p) ==
    /\ Running
    /\ reader[p] = "reading"
    /\ program[p] = "ended"
    /\ reader' = [reader EXCEPT ![p] = "notify"]
    /\ UNCHANGED <<treeVars, idVars, program, closed, exitVars, shutdown, daemon,
                   client, moves>>

\* try_send: a full channel loses the notice.
ReaderNotify(p) ==
    /\ Running
    /\ reader[p] = "notify"
    /\ reader' = [reader EXCEPT ![p] = "done"]
    /\ notices' = IF Len(notices) < NoticeCap THEN Append(notices, p) ELSE notices
    /\ UNCHANGED <<treeVars, idVars, program, closed, chunks, shutdown, daemon,
                   client, moves>>

\* The connection's drain arm reaps the panes whose exit chunk it took.
ConnectionReaps(c, p) ==
    /\ At(c, "ready")
    /\ p \in chunks[c]
    /\ chunks' = [chunks EXCEPT ![c] = @ \ {p}]
    /\ handle_destroy_pane(p)
    /\ UNCHANGED <<idVars, program, reader, notices, daemon, client, moves>>

\* Fault: the task stops after the first notice of a pane it does not find.
run_pane_exit_task_once ==
    /\ Running
    /\ notices # <<>>
    /\ home[Head(notices)] # NoHome
    /\ notices' = Tail(notices)
    /\ handle_destroy_pane(Head(notices))
    /\ UNCHANGED <<idVars, program, reader, chunks, daemon, client, moves>>

run_pane_exit_task ==
    /\ Running
    /\ notices # <<>>
    /\ notices' = Tail(notices)
    /\ handle_destroy_pane(Head(notices))
    /\ UNCHANGED <<idVars, program, reader, chunks, daemon, client, moves>>

-----------------------------------------------------------------------------
(* The run loop ends *)

\* mux kill.
CliShutdown(c) ==
    /\ Kill
    /\ c \in Cli
    /\ At(c, "ready")
    /\ shutdown' = TRUE
    /\ Done(c)
    /\ UNCHANGED <<treeVars, idVars, paneVars, exitVars, daemon, moves>>

\* SIGTERM or SIGINT.
Signal ==
    /\ Kill
    /\ daemon = "serving"
    /\ daemon' = "closing"
    /\ UNCHANGED <<treeVars, idVars, paneVars, exitVars, shutdown, client, moves>>

\* shutdown_rx.changed(): the loop breaks.
ShutdownChanged ==
    /\ daemon = "serving"
    /\ shutdown
    /\ daemon' = "closing"
    /\ UNCHANGED <<treeVars, idVars, paneVars, exitVars, shutdown, client, moves>>

\* graceful_shutdown marks every pane of the tree exited.
graceful_shutdown ==
    /\ daemon = "closing"
    /\ daemon' = "closed"
    /\ closed' = closed \cup {p \in PaneId : home[p] # NoHome}
    /\ UNCHANGED <<treeVars, idVars, program, reader, exitVars, shutdown, client, moves>>

\* The process exits, and with it every task and thread.
Exit ==
    /\ daemon = "closed"
    /\ daemon' = "stopped"
    /\ UNCHANGED <<treeVars, idVars, paneVars, exitVars, shutdown, client, moves>>

Stopped == daemon = "stopped" /\ UNCHANGED vars

-----------------------------------------------------------------------------

Init ==
    /\ sessions = {}
    /\ nextSession = 1
    /\ nextPane = 1
    /\ windows = [s \in SessionId |-> {}]
    /\ order = [s \in SessionId |-> <<>>]
    /\ active = [s \in SessionId |-> 0]
    /\ nextWindow = [s \in SessionId |-> 1]
    /\ home = [p \in PaneId |-> NoHome]
    /\ program = [p \in PaneId |-> "none"]
    /\ closed = {}
    /\ reader = [p \in PaneId |-> "none"]
    /\ notices = <<>>
    /\ chunks = [c \in Client |-> {}]
    /\ shutdown = FALSE
    /\ daemon = "serving"
    /\ client = [c \in Client |-> Off]
    /\ moves = 0

ClientNext(c) ==
    \/ Accept(c) \/ Welcome(c) \/ PickSession(c) \/ Leave(c)
    \/ \E s \in SessionId : Attach(c, s)
    \/ CreateWindow(c) \/ SpawnPty(c) \/ SpawnFails(c)
    \/ RegisterPane(c) \/ RegisterFails(c)
    \/ \E p \in PaneId : DestroyPane(c, p) \/ ConnectionReaps(c, p)
    \/ \E w \in PaneId : DestroyWindow(c, w)
    \/ \E id \in PaneId : SwitchWindow(c, id) \/ CliSwitchWindow(c, id)
    \/ \E p \in PaneId, i \in 0 .. MaxPane : MoveWindow(c, p, i)
    \/ CliShutdown(c)

PaneNext(p) ==
    \/ ProgramEnds(p)
    \/ \E c \in Client : ReaderEofConnected(p, c)
    \/ ReaderEofDetached(p)
    \/ ReaderNotify(p)

DaemonNext == run_pane_exit_task \/ Signal \/ ShutdownChanged \/ graceful_shutdown \/ Exit

Next ==
    \/ \E c \in Client : ClientNext(c)
    \/ \E p \in PaneId : PaneNext(p)
    \/ DaemonNext
    \/ Stopped

Spec == Init /\ [][Next]_vars

\* Tasks and threads that can take a step take it: tokio and the operating
\* system schedule every runnable one, and the select of the run loop polls its
\* branches in random order.  Clients and programs do as they like, except that
\* a program whose terminal is closed ends.
Fairness ==
    /\ \A p \in PaneId : /\ WF_vars(ReaderEofDetached(p))
                         /\ WF_vars(ReaderNotify(p))
                         /\ WF_vars(p \in closed /\ ProgramEnds(p))
    /\ WF_vars(run_pane_exit_task)
    /\ WF_vars(ShutdownChanged)
    /\ WF_vars(graceful_shutdown)
    /\ WF_vars(Exit)

LiveSpec == Spec /\ Fairness

-----------------------------------------------------------------------------
(* Properties *)

\* Every variable has the type its Rust counterpart has, and the exit channel
\* keeps its capacity.
TypeOK ==
    /\ sessions \subseteq SessionId
    /\ nextSession \in Nat \ {0}
    /\ nextPane \in Nat \ {0}
    /\ windows \in [SessionId -> SUBSET Nat]
    /\ order \in [SessionId -> Seq(Nat)]
    /\ active \in [SessionId -> Nat]
    /\ nextWindow \in [SessionId -> Nat \ {0}]
    /\ home \in [PaneId -> [s : Nat, w : Nat]]
    /\ program \in [PaneId -> {"none", "running", "ended"}]
    /\ closed \subseteq PaneId
    /\ reader \in [PaneId -> {"none", "reading", "notify", "done"}]
    /\ notices \in Seq(PaneId)
    /\ Len(notices) <= NoticeCap
    /\ chunks \in [Client -> SUBSET PaneId]
    /\ shutdown \in BOOLEAN
    /\ daemon \in {"serving", "closing", "closed", "stopped"}
    /\ client \in [Client -> [pc : {"off", "hello", "pick", "ready", "spawn", "register"},
                              s : Nat, p : Nat, list : SUBSET Nat]]
    /\ moves \in Nat

\* What session_list reports is well defined: the display order of a session
\* lists each of its windows once, and its active window is one of them
\* (window_order and active_window_id are kept beside the windows map by
\* add_window, remove_window, move_window and handle_switch_window).
DisplayOrder ==
    \A s \in sessions :
       /\ ToSet(order[s]) = windows[s]
       /\ Len(order[s]) = Cardinality(windows[s])
       /\ active[s] \in windows[s] \cup {0}
       /\ active[s] = 0 => windows[s] = {}

\* The tree holds no husks: every pane's window and session exist, every window
\* has a pane, and a session that has ever had a window still has one
\* (handle_destroy_pane and handle_destroy_window clean up after themselves, and
\* handle_create_window registers the pane under the lock of create_window).
NoHusks ==
    /\ \A p \in PaneId : home[p] # NoHome =>
          home[p].s \in sessions /\ home[p].w \in windows[home[p].s]
    /\ \A s \in sessions :
          /\ \A w \in windows[s] : InWindow(s, w) # {}
          /\ nextWindow[s] > 1 => windows[s] # {}

\* There is never a second session, so that find_window_session, which looks a
\* session-local window id up in all sessions in hash order, has one answer.
OneSession == \A s, t \in sessions : s = t

\* Once the last session is gone, the run loop has been told (the shutdown send
\* of handle_destroy_pane and handle_destroy_window).
EmptyIsTold == sessions = {} /\ nextSession > 1 => shutdown

\* An exit notice or exit chunk under way names a pane whose program has ended,
\* however long ago and whatever has happened to the pane since: reaping by
\* pane id never takes a live pane (pane ids are not reused by alloc_pane_id).
ReapIsTrue ==
    \A p \in ToSet(notices) \cup UNION {chunks[c] : c \in Client} : program[p] = "ended"

\* A running program belongs to a pane of the tree, or is about to be
\* registered, or its terminal has been closed so that it will end: no handler
\* loses a shell (mark_exited in handle_destroy_pane, handle_destroy_window and
\* graceful_shutdown; the drop of a PTY that could not be registered).
NoOrphan ==
    \A p \in PaneId : program[p] = "running" =>
       \/ home[p] # NoHome
       \/ p \in closed
       \/ \E c \in Client : client[c].pc = "register" /\ client[c].p = p

\* A pane whose reader has ended is removed from the tree, attached or not, or
\* the daemon stops (run_pane_exit_task, the authority for pty death -> reap).
EndedIsReaped ==
    \A p \in PaneId : reader[p] = "done" ~> (home[p] = NoHome \/ daemon # "serving")

\* mux switch-window of a window that is still there makes that window the
\* active one (execute_switch_window sends the id of the window it names).
SwitchNamesWindow ==
    \A c \in Cli, w \in PaneId, s \in sessions :
          CliSwitchWindow(c, w) /\ w \in windows[s] => active'[s] = w

\* The run loop stops by itself only when all sessions are empty (the message of
\* its shutdown branch and the contract of run_daemon).
AutoStopIsEmpty == ShutdownChanged => sessions = {}

=============================================================================
