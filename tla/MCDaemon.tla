------------------------------- MODULE MCDaemon -------------------------------
(* The tasks and the life of the daemon for TLC: the reapers of closed panes, the
   session tree, the hot upgrade, the agent status, the queue of deferred snapshots and
   the commands that start, replace and stop a daemon. They share no state here, so a
   behaviour runs one of them, with one choice of constants: a record of Reapers, Trees,
   Upgrades, Statuses, Queues or Starts, named by `part`. The others rest at Idle. *)
EXTENDS Naturals, Sequences, FiniteSets, TLC

CONSTANTS p1, p2, p3

VARIABLES part,
    proc, owner, doomed, idsUsed, pane, ref, pid, reaped, reaper, lateFor, polls, cached, upgrades,
    sessions, nextSession, nextPane, windows, order, active, nextWindow, home, program, closed,
    reader, notices, chunks, shutdown, daemon, client, moves,
    phase, tree, next, spawned, shells, fdOf, cloexec, readers, file, todo, cand, valid,
    last_refused, subs, pending, expected, acked, slot, late, tries, wanted, kept, written,
    aborted, probed,
    printed, feed, log, status, latch, alive, eof, task, sync, waiter, notes, lost, inbox, entry,
    notified, changes,
    version, off, visible, items, used, fair, conn, asked, got, passed, evicted, msgs,
    disk, sock, identity, dpc, image, open, rec, stop, asks, pc, link, reply, request, said, failed

Panes == {p1, p2, p3}
Symmetry == Permutations(Panes)

Reaper(c) == INSTANCE ChildReaper WITH
    Pane <- c.Pane, Pid <- {"i1", "i2"}, Tries <- c.Tries, Reuse <- c.Reuse,
    MaxUpgrade <- c.MaxUpgrade, used <- idsUsed, late <- lateFor, tries <- polls
\* Three panes share two process ids with strangers.
Handle == [part |-> "handle", Pane |-> Panes, Tries |-> 1, Reuse |-> TRUE, MaxUpgrade |-> 0]
\* Panes restored by an upgrade, whose reapers hold bare ids; no id is given out twice.
Restored == [part |-> "restored", Pane |-> {"a", "b"}, Tries |-> 2, Reuse |-> FALSE, MaxUpgrade |-> 1]
\* Bare ids and reuse together.
Stolen == [Handle EXCEPT !.part = "stolen", !.MaxUpgrade = 1]
Reapers == {Handle, Restored, Stolen}

Tree(c) == INSTANCE SessionTree WITH
    Gui <- {"gui"}, Cli <- c.Cli, MaxSession <- c.MaxSession, MaxPane <- c.MaxPane,
    NoticeCap <- c.NoticeCap, MaxMove <- c.MaxMove, Kill <- c.Kill
\* Three panes of one session, created, switched, moved, destroyed and reaped.
Shape == [part |-> "shape", Cli |-> {}, MaxSession |-> 1, MaxPane |-> 3, NoticeCap |-> 1,
          MaxMove |-> 1, Kill |-> FALSE]
\* A CLI client besides, two sessions in succession, mux kill and signals.
Life == [Shape EXCEPT !.part = "life", !.Cli = {"cli"}, !.MaxSession = 2, !.MaxPane = 2,
           !.MaxMove = 0, !.Kill = TRUE]
Trees == {Shape, Life}

Upgrade(c) == INSTANCE HotUpgrade WITH
    Fd <- 1 .. c.Fds, Sub <- c.Sub, Cand <- c.Cand, BadSchema <- {"bad"} \cap c.Cand,
    Faults <- c.Faults, MaxPty <- c.MaxPty, MaxOpen <- 2, MaxRev <- c.MaxRev, MaxTry <- c.MaxTry,
    alive <- shells, disk <- file
\* Two panes with a changing status go through two upgrades.
Quiet == [part |-> "quiet", Fds |-> 5, Sub |-> {}, Cand |-> {"good"},
          Faults |-> {"rewrite", "snapshot"}, MaxPty |-> 2, MaxRev |-> 1, MaxTry |-> 2]
\* Panes come and go during the preparation, and execve may fail.
Busy == [Quiet EXCEPT !.part = "busy", !.Fds = 6, !.Faults = {"create", "close", "exec"},
           !.MaxPty = 3, !.MaxRev = 0, !.MaxTry = 1]
\* Two connections come, go and acknowledge.
Acks == [Quiet EXCEPT !.part = "acks", !.Fds = 4, !.Sub = {"s1", "s2"}, !.Faults = {},
           !.MaxPty = 0, !.MaxRev = 0]
\* Two binaries are installed, broken and repaired over five requests.
Admit == [Quiet EXCEPT !.part = "admit", !.Fds = 4, !.Cand = {"good", "bad"},
            !.Faults = {"probe", "snapshot"}, !.MaxPty = 0, !.MaxRev = 0, !.MaxTry = 5]
Upgrades == {Quiet, Busy, Acks, Admit}

Status(c) == INSTANCE AgentStatus WITH
    State777 <- c.State777, State7501 <- c.State7501, Ids <- c.Ids, Kinds <- c.Kinds,
    Waiter <- c.Waiter, Attached <- c.Attached, Faults <- c.Faults, MaxRecords <- 2,
    FeedCap <- 1, NoteCap <- c.NoteCap, MaxItems <- c.MaxItems, MaxOther <- c.MaxOther,
    MaxSync <- c.MaxSync
\* Every history of items of every kind, applied in receive order.
Records == [part |-> "records", State777 |-> {"working"}, State7501 |-> {"working", "done"},
            Ids |-> {<<>>, <<"a">>, <<"a", "b">>}, Attached |-> FALSE, Waiter |-> {},
            Kinds |-> {"set", "clear", "D", "A", "record", "remove", "reset", "bad"},
            Faults |-> {}, NoteCap |-> 4, MaxItems |-> 3, MaxOther |-> 0, MaxSync |-> 1]
\* Two waits, with and without a watermark, race the task and the end of the pane.
Waits == [Records EXCEPT !.part = "waits", !.State777 = {"working", "blocked"},
            !.State7501 = {"working"}, !.Ids = {<<>>}, !.Waiter = {"w1", "w2"},
            !.Kinds = {"set", "record", "A", "promptstart"}, !.Faults = {"exit"},
            !.MaxItems = 2, !.MaxSync = 0]
\* A GUI whose broadcast receiver may lag.
Lagging == [Waits EXCEPT !.part = "lagging", !.Waiter = {}, !.Attached = TRUE,
              !.Kinds = {"set", "clear", "record", "promptstart"}, !.Faults = {"noise"},
              !.NoteCap = 2, !.MaxItems = 4, !.MaxOther = 1]
Statuses == {Records, Waits, Lagging}

Queue(c) == INSTANCE DeferredQueue WITH
    Pane <- c.Pane, Cap <- c.Cap, MaxItems <- c.Cap, MaxVersion <- c.Cap, MaxMsgs <- c.MaxMsgs,
    lost <- evicted
\* Three panes against a limit of two chunks, readers that fill the channel at any moment.
Evicts == [part |-> "evicts", Pane |-> Panes, Cap |-> 2, MaxMsgs |-> 4]

Start(c) == INSTANCE DaemonStart WITH
    Clients <- DOMAIN c.Cmd, Cmd <- c.Cmd, Bins <- c.Bins, Previous <- c.Previous,
    CanUpgrade <- c.Bins, First <- c.First, MaxDaemon <- c.MaxDaemon, Faults <- c.Faults,
    conn <- link, asked <- request
\* Two starts where there is no daemon.
Pair == [part |-> "pair", Cmd |-> [one |-> "start", two |-> "start"], Bins |-> {1, 2},
         Previous |-> {}, First |-> "nothing", MaxDaemon |-> 2, Faults |-> {"late"}]
\* A start and an attach find a daemon of an older executable.
Update == [Pair EXCEPT !.part = "update", !.Cmd = [one |-> "start", two |-> "attach"],
             !.Bins = {1, 2, 3}, !.First = "serving", !.Faults = {"exec", "refuse", "late"}]
\* A start and an upgrade meet a daemon of the previous protocol.
Legacy == [Update EXCEPT !.part = "legacy", !.Cmd = [one |-> "start", two |-> "upgrade"],
             !.Bins = {1, 2}, !.Previous = {1}]
\* Daemons crash at any step.
Crash == [Update EXCEPT !.part = "crash", !.Bins = {1, 2}, !.MaxDaemon = 3,
            !.Faults = {"crash", "late"}]
\* A start and a kill.
Kill == [Update EXCEPT !.part = "kill", !.Cmd = [one |-> "start", two |-> "kill"],
           !.Bins = {1, 2}, !.Faults = {"late", "refuse"}]
Starts == {Pair, Update, Legacy, Crash, Kill}

ASSUME ReaperAssumption == \A c \in Reapers : Reaper(c)!ChildReaperAssumption
ASSUME TreeAssumption == \A c \in Trees : Tree(c)!SessionTreeAssumption
ASSUME UpgradeAssumption == \A c \in Upgrades : Upgrade(c)!HotUpgradeAssumption
ASSUME AgentAssumption == \A c \in Statuses : Status(c)!StatusAssumption
ASSUME DeferredAssumption == Queue(Evicts)!QueueAssumption
ASSUME StartAssumption == \A c \in Starts : Start(c)!DaemonStartAssumption
-----------------------------------------------------------------------------
Idle == 0
reaperVars == <<proc, owner, doomed, idsUsed, pane, ref, pid, reaped, reaper, lateFor, polls,
                cached, upgrades>>
treeVars == <<sessions, nextSession, nextPane, windows, order, active, nextWindow, home, program,
              closed, reader, notices, chunks, shutdown, daemon, client, moves>>
upgradeVars == <<phase, tree, next, spawned, shells, fdOf, cloexec, readers, file, todo, cand,
                 valid, last_refused, subs, pending, expected, acked, slot, late, tries, wanted,
                 kept, written, aborted, probed>>
statusVars == <<printed, feed, log, status, latch, alive, eof, task, sync, waiter, notes, lost,
                inbox, entry, notified, changes>>
queueVars == <<version, off, visible, items, used, fair, conn, asked, got, passed, evicted, msgs>>
startVars == <<disk, sock, identity, dpc, image, open, rec, stop, asks, pc, link, reply, request,
               said, failed>>
vars == <<part, reaperVars, treeVars, upgradeVars, statusVars, queueVars, startVars>>

ReaperIdle ==
    /\ proc = Idle /\ owner = Idle /\ doomed = Idle /\ idsUsed = Idle /\ pane = Idle /\ ref = Idle
    /\ pid = Idle /\ reaped = Idle /\ reaper = Idle /\ lateFor = Idle /\ polls = Idle
    /\ cached = Idle /\ upgrades = Idle
TreeIdle ==
    /\ sessions = Idle /\ nextSession = Idle /\ nextPane = Idle /\ windows = Idle /\ order = Idle
    /\ active = Idle /\ nextWindow = Idle /\ home = Idle /\ program = Idle /\ closed = Idle
    /\ reader = Idle /\ notices = Idle /\ chunks = Idle /\ shutdown = Idle /\ daemon = Idle
    /\ client = Idle /\ moves = Idle
UpgradeIdle ==
    /\ phase = Idle /\ tree = Idle /\ next = Idle /\ spawned = Idle /\ shells = Idle /\ fdOf = Idle
    /\ cloexec = Idle /\ readers = Idle /\ file = Idle /\ todo = Idle /\ cand = Idle
    /\ valid = Idle /\ last_refused = Idle /\ subs = Idle /\ pending = Idle /\ expected = Idle
    /\ acked = Idle /\ slot = Idle /\ late = Idle /\ tries = Idle /\ wanted = Idle /\ kept = Idle
    /\ written = Idle /\ aborted = Idle /\ probed = Idle
StatusIdle ==
    /\ printed = Idle /\ feed = Idle /\ log = Idle /\ status = Idle /\ latch = Idle
    /\ alive = Idle /\ eof = Idle /\ task = Idle /\ sync = Idle /\ waiter = Idle /\ notes = Idle
    /\ lost = Idle /\ inbox = Idle /\ entry = Idle /\ notified = Idle /\ changes = Idle
QueueIdle ==
    /\ version = Idle /\ off = Idle /\ visible = Idle /\ items = Idle /\ used = Idle /\ fair = Idle
    /\ conn = Idle /\ asked = Idle /\ got = Idle /\ passed = Idle /\ evicted = Idle /\ msgs = Idle
StartIdle ==
    /\ disk = Idle /\ sock = Idle /\ identity = Idle /\ dpc = Idle /\ image = Idle /\ open = Idle
    /\ rec = Idle /\ stop = Idle /\ asks = Idle /\ pc = Idle /\ link = Idle /\ reply = Idle
    /\ request = Idle /\ said = Idle /\ failed = Idle

Init ==
    \/ /\ \E c \in Reapers : part = c.part /\ Reaper(c)!Init
       /\ TreeIdle /\ UpgradeIdle /\ StatusIdle /\ QueueIdle /\ StartIdle
    \/ /\ \E c \in Trees : part = c.part /\ Tree(c)!Init
       /\ ReaperIdle /\ UpgradeIdle /\ StatusIdle /\ QueueIdle /\ StartIdle
    \/ /\ \E c \in Upgrades : part = c.part /\ Upgrade(c)!Init
       /\ ReaperIdle /\ TreeIdle /\ StatusIdle /\ QueueIdle /\ StartIdle
    \/ /\ \E c \in Statuses : part = c.part /\ Status(c)!Init
       /\ ReaperIdle /\ TreeIdle /\ UpgradeIdle /\ QueueIdle /\ StartIdle
    \/ /\ part = "evicts" /\ Queue(Evicts)!Init
       /\ ReaperIdle /\ TreeIdle /\ UpgradeIdle /\ StatusIdle /\ StartIdle
    \/ /\ \E c \in Starts : part = c.part /\ Start(c)!Init
       /\ ReaperIdle /\ TreeIdle /\ UpgradeIdle /\ StatusIdle /\ QueueIdle

\* The programs of these parts come to an end.
Ends == part \in {c.part : c \in Statuses \cup Starts} /\ UNCHANGED vars

Next ==
    \/ /\ \E c \in Reapers : part = c.part /\ Reaper(c)!Next
       /\ UNCHANGED <<part, treeVars, upgradeVars, statusVars, queueVars, startVars>>
    \/ /\ \E c \in Trees : part = c.part /\ Tree(c)!Next
       /\ UNCHANGED <<part, reaperVars, upgradeVars, statusVars, queueVars, startVars>>
    \/ /\ \E c \in Upgrades : part = c.part /\ Upgrade(c)!Next
       /\ UNCHANGED <<part, reaperVars, treeVars, statusVars, queueVars, startVars>>
    \/ /\ \E c \in Statuses : part = c.part /\ Status(c)!Next
       /\ UNCHANGED <<part, reaperVars, treeVars, upgradeVars, queueVars, startVars>>
    \/ /\ part = "evicts" /\ Queue(Evicts)!Next
       /\ UNCHANGED <<part, reaperVars, treeVars, upgradeVars, statusVars, startVars>>
    \/ /\ \E c \in Starts : part = c.part /\ Start(c)!Next
       /\ UNCHANGED <<part, reaperVars, treeVars, upgradeVars, statusVars, queueVars>>
    \/ Ends

Spec == Init /\ [][Next]_vars
-----------------------------------------------------------------------------
\* Reapers with a handle, and those with a bare id as long as no id is given out twice,
\* signal their own child only; none ends with its child uncollected, even when threads
\* take each other's children (mux/session/child_reaper.rs).
ReapersSafe ==
    \A c \in Reapers : part = c.part =>
       /\ Reaper(c)!TypeOK /\ Reaper(c)!DoneIsReaped
       /\ c # Stolen => Reaper(c)!SignalsOwn

\* The session tree keeps its shape, one session at a time; every pane that ended is
\* told or in the channel, and no shell runs outside the tree (mux/session/manager.rs,
\* mux/daemon/mod.rs).
TreeKept ==
    \A c \in Trees : part = c.part =>
       /\ Tree(c)!TypeOK /\ Tree(c)!DisplayOrder /\ Tree(c)!NoHusks
       /\ c = Life => /\ Tree(c)!OneSession /\ Tree(c)!EmptyIsTold
                      /\ Tree(c)!ReapIsTrue /\ Tree(c)!NoOrphan

\* An upgrade loses no shell and adopts each terminal for its own pane, with one reader,
\* and leaves no descriptor open to children and no file behind; every connection is told
\* before execve (mux/daemon/handoff.rs, mux/upgrade.rs).
PanesSurvive ==
    \A c \in Upgrades : part = c.part =>
       /\ Upgrade(c)!TypeOK
       /\ c = Quiet => /\ Upgrade(c)!NoShellLost /\ Upgrade(c)!AdoptsOwn
                       /\ Upgrade(c)!OneReader /\ Upgrade(c)!StatusIsKept
       /\ c = Busy => Upgrade(c)!KeptPanesSurvive
       /\ c \in {Quiet, Busy} => Upgrade(c)!FileIsConsumed /\ Upgrade(c)!CloexecIsBack
       /\ c = Acks => Upgrade(c)!AllTold

\* The task leaves the state and the table a definition over the history gives, a wait
\* misses no change and matches nothing older than its watermark, and the GUI ends on the
\* daemon's state (mux/daemon/tasks.rs, mux/ipc/handlers/agent_api.rs).
StatusAgrees ==
    \A c \in Statuses : part = c.part =>
       /\ Status(c)!TypeOK
       /\ c = Records => Status(c)!InferredState /\ Status(c)!RecordsAreRecent
       /\ c = Waits => Status(c)!WaiterNotMissed /\ Status(c)!MatchIsAfterWrite
       /\ c = Lagging => Status(c)!ClientConverges /\ Status(c)!OneNotification

\* One chunk and one resume per pane, the newest wins, and no resume is lost
\* (mux/session/pane/output_queue.rs).
QueueKept ==
    part = "evicts" =>
       /\ Queue(Evicts)!TypeOK /\ Queue(Evicts)!Coalesced /\ Queue(Evicts)!NewestDelivered
       /\ Queue(Evicts)!ResumeNotLost

\* What a step may never do: collect another pane's child, suppress a repaired candidate,
\* leave a wait to its timeout when the pane goes, take the GUI to an older revision or
\* a client to an older snapshot, evict a chunk while there is room.
StepsAreRight ==
    [][/\ part = "handle" => Reaper(Handle)!CollectsOwn
       /\ part = "admit" => Upgrade(Admit)!RepairedIsAdmitted
       /\ part = "waits" => Status(Waits)!GoneIsTold
       /\ part = "lagging" => Status(Lagging)!MonotonicRevision
       /\ part = "evicts" => Queue(Evicts)!NeverOlder /\ Queue(Evicts)!EvictionIsForced]_vars

\* Commands that start, replace and stop daemons: the file of a listening daemon stays,
\* the recorded identity is that of the daemon at the path, a daemon of the current
\* protocol keeps its panes, a notice of an upgrade is true and no failed upgrade is
\* asked for again (mux/daemon/connect.rs, mux/daemon/mod.rs).
StartKeepsOne ==
    [][\A c \in Starts : part = c.part =>
         /\ Start(c)!TypeOK
         /\ c \in {Pair, Update, Kill} => Start(c)!NoOrphan'
         /\ c = Pair => Start(c)!IdentityOfActive
         /\ c = Update => Start(c)!NoticeIsTrue /\ Start(c)!NoFireLoop
         /\ c = Legacy => Start(c)!RecoveryKeepsCurrent
         /\ c \in {Crash, Kill} => Start(c)!OnlyStaleRemoved]_vars
-----------------------------------------------------------------------------
(* The parts whose progress is checked. *)
\* Two panes whose process ids may be given out again.
Closes == [Handle EXCEPT !.part = "closes", !.Pane = {"a", "b"}]
\* Room for every notice of two panes.
Told == [Shape EXCEPT !.part = "told", !.MaxSession = 2, !.MaxPane = 2, !.NoticeCap = 2, !.MaxMove = 0]
\* A client that never acknowledges, descriptors running out, failed steps and a crash.
Fails == [Quiet EXCEPT !.part = "fails", !.Fds = 3, !.Sub = {"s1", "s2"}, !.Cand = {"good", "bad"},
            !.Faults = {"close", "exec", "read", "crash"}, !.MaxPty = 1, !.MaxRev = 0]
\* The end of the pane and of its window at any moment.
Reports == [Waits EXCEPT !.part = "reports", !.State777 = {"working"}, !.State7501 = {},
              !.Kinds = {"set", "clear"}, !.Waiter = {"w1"}, !.Attached = TRUE,
              !.Faults = {"exit", "window", "late"}, !.NoteCap = 1]
\* Readers that take every freed slot they can.
Crowded == [part |-> "crowded", Pane |-> {"a", "b"}, Cap |-> 1, MaxMsgs |-> 3]

LiveInit ==
    \/ /\ part = "closes" /\ Reaper(Closes)!Init
       /\ TreeIdle /\ UpgradeIdle /\ StatusIdle /\ QueueIdle /\ StartIdle
    \/ /\ part = "told" /\ Tree(Told)!Init
       /\ ReaperIdle /\ UpgradeIdle /\ StatusIdle /\ QueueIdle /\ StartIdle
    \/ /\ part = "fails" /\ Upgrade(Fails)!Init
       /\ ReaperIdle /\ TreeIdle /\ StatusIdle /\ QueueIdle /\ StartIdle
    \/ /\ part = "reports" /\ Status(Reports)!Init
       /\ ReaperIdle /\ TreeIdle /\ UpgradeIdle /\ QueueIdle /\ StartIdle
    \/ /\ part = "crowded" /\ Queue(Crowded)!Init
       /\ ReaperIdle /\ TreeIdle /\ UpgradeIdle /\ StatusIdle /\ StartIdle

LiveNext ==
    \/ /\ part = "closes" /\ Reaper(Closes)!Next
       /\ UNCHANGED <<part, treeVars, upgradeVars, statusVars, queueVars, startVars>>
    \/ /\ part = "told" /\ Tree(Told)!Next
       /\ UNCHANGED <<part, reaperVars, upgradeVars, statusVars, queueVars, startVars>>
    \/ /\ part = "fails" /\ Upgrade(Fails)!Next
       /\ UNCHANGED <<part, reaperVars, treeVars, statusVars, queueVars, startVars>>
    \/ /\ part = "reports" /\ Status(Reports)!Next
       /\ UNCHANGED <<part, reaperVars, treeVars, upgradeVars, queueVars, startVars>>
    \/ /\ part = "crowded" /\ Queue(Crowded)!Next
       /\ UNCHANGED <<part, reaperVars, treeVars, upgradeVars, statusVars, startVars>>

\* The fairness of each component, for the part it runs in.
LiveSpec ==
    /\ LiveInit /\ [][LiveNext]_vars
    /\ \A p \in {"a", "b"} :
          /\ WF_reaperVars(part = "closes" /\ Reaper(Closes)!Thread(p))
          /\ WF_reaperVars(part = "closes" /\ Reaper(Closes)!Deadline(p))
    /\ \A i \in {"i1", "i2"} : WF_reaperVars(part = "closes" /\ i \in doomed /\ Reaper(Closes)!Ends(i))
    /\ \A p \in 1 .. 2 :
          /\ WF_treeVars(part = "told" /\ Tree(Told)!ReaderEofDetached(p))
          /\ WF_treeVars(part = "told" /\ Tree(Told)!ReaderNotify(p))
          /\ WF_treeVars(part = "told" /\ p \in closed /\ Tree(Told)!ProgramEnds(p))
    /\ WF_treeVars(part = "told" /\ Tree(Told)!run_pane_exit_task)
    /\ WF_treeVars(part = "told" /\ Tree(Told)!ShutdownChanged)
    /\ WF_treeVars(part = "told" /\ Tree(Told)!graceful_shutdown)
    /\ WF_treeVars(part = "told" /\ Tree(Told)!Exit)
    /\ WF_upgradeVars(part = "fails" /\ Upgrade(Fails)!Prepare)
    /\ WF_upgradeVars(part = "fails" /\ Upgrade(Fails)!Replace)
    /\ WF_statusVars(part = "reports" /\ Status(Reports)!TaskApply)
    /\ WF_statusVars(part = "reports" /\ Status(Reports)!build_agent_status_update_message)
    /\ WF_statusVars(part = "reports" /\ Status(Reports)!TaskSend)
    /\ WF_statusVars(part = "reports" /\ Status(Reports)!handle_agent_status_update)
    /\ WF_statusVars(part = "reports" /\ Status(Reports)!apply_agent_status_batch)
    /\ WF_queueVars(part = "crowded" /\ (Queue(Crowded)!FlushChunk \/ Queue(Crowded)!FlushResume
                                     \/ Queue(Crowded)!FlushEnd))
    /\ WF_queueVars(part = "crowded" /\ Queue(Crowded)!FairArm)
    /\ SF_queueVars(part = "crowded" /\ (Queue(Crowded)!ReserveArm \/ Queue(Crowded)!GrantFair))
    /\ WF_queueVars(part = "crowded" /\ (Queue(Crowded)!HandleSnapshot \/ Queue(Crowded)!HandleHide
                                     \/ Queue(Crowded)!HandleShow \/ Queue(Crowded)!ShowEnd))
    /\ WF_queueVars(part = "crowded" /\ \E p \in {"a", "b"} : Queue(Crowded)!ShowPane(p))

\* What must happen in the end (each component's progress property, said of its part): a
\* closed pane's child is collected and no wait blocks for ever; a pane that ended leaves
\* the tree and a daemon told to stop stops; the daemon serves again after an upgrade; a
\* report reaches the GUI; the queue of deferred snapshots empties.
DaemonProgress ==
    /\ \A p \in {"a", "b"} :
          /\ (part = "closes" /\ pane[p] = "closed") ~> (part = "closes" /\ p \in reaped)
          /\ (part = "closes" /\ reaper[p] = "wait") ~> (part = "closes" /\ reaper[p] # "wait")
    /\ \A p \in 1 .. 2 :
          (part = "told" /\ reader[p] = "done") ~>
             (part = "told" /\ (home[p] = Tree(Told)!NoHome \/ daemon # "serving"))
    /\ (part = "told" /\ shutdown) ~> (part = "told" /\ daemon = "stopped")
    /\ (part = "fails" /\ ~Upgrade(Fails)!Idle) ~> (part = "fails" /\ Upgrade(Fails)!Idle)
    /\ \A r \in 1 .. Reports.MaxItems :
          (part = "reports" /\ status.rev = r) ~>
             (part = "reports" /\ (entry.rev >= r \/ ~alive))
    /\ (part = "crowded" /\ items # <<>>) ~> (part = "crowded" /\ items = <<>>)
=============================================================================
