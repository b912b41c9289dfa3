# A TLA+ verification of emterm

emterm is a GPU terminal emulator with a built-in multiplexer. A daemon owns the
PTYs, keeps them alive while no GUI is connected and streams their output to GUI
clients over a Unix socket; a bridge carries that connection through a terminal;
the GUI rebuilds screens from snapshots, uploads files and shows images. This
project models those parts in TLA+, model-checks them with TLC and proves the main
safety properties of eight of its components, for every value of the constants, with
TLAPS.

- [System](#system)
- [Modules](#modules)
- [Runs](#runs)
- [Bounds](#bounds)
- [Fairness](#fairness)
- [Proofs](#proofs)
- [Disagreements met while modelling](#disagreements-met-while-modelling)
- [What is not modelled](#what-is-not-modelled)
- [Plan](#plan)

Source paths are relative to `src/src-tauri/src/` unless they start with `src/`.

## System

| Part | State it keeps | Operations | Meets |
| --- | --- | --- | --- |
| Pane output path (`mux/ipc/pty_spawn/mod.rs`, `mux/session/pane/output_target.rs`, `output_capture.rs`) | output target (connected, or detached with a reason), number of the last captured chunk, boundary per sender, the reader's chunk in hand | read, capture, forward or withhold, wait for a slot, exit, read error; connect, detach, suspend, resume | connection tasks, through the pane_output channel and the pane's locks |
| Deferred output queue (`mux/session/pane/output_queue.rs`) | items that wait for a slot of a full channel | enqueue, coalesce, evict, flush, fair reservation | handlers and loop of one connection |
| Client handlers (`mux/ipc/handlers/`, `mux/ipc/reattach.rs`) | visibility of a connection, its sessions | attach, detach, set visibility, request snapshot, window commands | panes, session manager, admission |
| Connection loop, admission, writer (`mux/ipc/connection/`, `mux/ipc/outbound.rs`) | guards of the select, drain batch, remainder, reservation, outbound queue | select arms, teardown; try_admit, push_or_admit, admit_blocking; write, acknowledge | panes on one side, the socket on the other |
| Recording (`mux/scrollback_buffer.rs`, `mux/ipc/pty_spawn/write_filter.rs`) | ring with resize markers, hold-back of the filter, trackers of the screen | append, resize, segmented read; feed, cut; track, extract | reader thread, snapshots |
| Session tree (`mux/session/`, `mux/daemon/mod.rs`, `mux/daemon/tasks.rs`) | sessions, windows, panes, active window, ids, shutdown flag | create, switch, move, destroy, reap, stop | handlers, tasks, upgrade |
| Child reaper (`mux/session/child_reaper.rs`) | a thread per closed pane | poll, escalate, wait | the operating system's process ids |
| Hot upgrade (`mux/upgrade.rs`, `mux/daemon/handoff.rs`) | handoff document, acknowledgements, descriptors | probe, snapshot, announce, execve, restore, roll back | all connections and panes |
| Agent status (`mux/daemon/tasks.rs`, `mux/ipc/handlers/agent_api.rs`, `program_status.rs`) | status and revision per pane, record table, latch, waiters | feed, apply, wait, fail, broadcast | GUI entries |
| Daemon start (`mux/daemon/connect.rs`, `control_client.rs`, `mux/cli/`) | socket path, identity file, handshake | start, attach, upgrade, kill, recover | several processes over one path |
| Bridge (`mux/bridge/`) | captured Attach and capacity, stdin parser, writer pump | forward, quiesce, reconnect, exit; parse | daemon, GUI behind a terminal |
| Client of the mux (`mux/window_group.rs`, `tabs/mux_link.rs`, `tabs/replay.rs`, `app/mux_ui.rs`) | window list, dialogs, displayed core, pending switch and restore | apply messages, switch, build off the thread, merge | daemon, worker threads |
| Input (`window_host/`, `app/mux_ui.rs`, `mux/prefix.rs`) | prefix latch; owners of buttons, caches, wheel fraction | route a key; press, release, move, wheel | overlays, tabs, programs |
| Terminal core (`src/crates/term_core/src/`) | cell grid, table of long contents, scrollback, cursor | print, edit, scroll, reflow, build from a snapshot | parser, snapshots |
| Images (`src/crates/term_images/`, `tabs/images.rs`, `viewer/`) | uploads per tab, store of the router, viewers and payload files | upload, put, delete, evict, spawn, reap | viewer processes |
| SFTP (`sftp/`, `app/sftp.rs`) | pool, sessions, cancel marks; dialogs and checks | drop, check, confirm, dispatch, cancel, close | threads and child processes |

`PROJECT.json`, "components", lists all parts with what is left out of each, and
"hazards" what can go wrong in them, at its line, with the property that covers it.

What makes the system hard to get right:

- Snapshots race raw output. A client that attaches, shows a pane or asks for a
  snapshot gets one that holds everything captured so far, while chunks it holds may
  be in the channel or in the reader's hands. Chunks are numbered, and a snapshot
  leaves a boundary below which the reader withholds.
- The reader decides, then waits for a slot without a lock; a full channel defers
  work, and a missing reservation would leave it there; frames reach the outbound
  queue through four methods while a remainder is held.
- Ids and places are reused: process ids, descriptors over execve, window ids,
  indices of tabs, image ids, the path of a socket.
- What is recorded must replay as it was read, wherever reads, resizes, screen
  switches and the wrap of the ring cut the stream.
- Work done off the thread (snapshots, uploads, checks, viewers) comes back to a
  state that has moved on.

## Modules

One module per component; each has its state as VARIABLES, one action per
operation, a type invariant, its safety and action properties, and the assumption on
its constants.

| Module | Models |
| --- | --- |
| `PaneOutput` | one pane and all its connections: capture, boundaries, target, channel with waiters and permits, deferred items, visibility, attach, kick, exit |
| `ConnectionLoop` | one connection from the pane_output channel to the socket, in the order of the biased select; it implements `OrderedDelivery`: what is received is a prefix of what was handed over |
| `DeferredQueue` | the queue of deferred snapshots for several panes, with the limit and the eviction |
| `ScrollbackRing` | the ring, its resize markers, the attributed write and the segmented read |
| `WriteFilter` (over `ClientParser`) | the filter in front of the ring and its hold-back over reads |
| `ScreenSpans` | extraction of the main screen, the tracker of screen switches, the feed scanner |
| `SessionTree`, `ChildReaper`, `HotUpgrade`, `AgentStatus`, `DaemonStart` | the daemon, as in the table above |
| `Bridge`, `StdinParser` | the bridge and the parser of its input |
| `WindowGroup`, `MuxWindows` | operators of the window list; the list between daemon, user and dialogs |
| `ClientReplay` | switching windows with worker threads, live output queued behind them |
| `SnapshotReplay` | the build of a core from a snapshot in two passes, and its reference |
| `KeyRouting`, `MouseReport` | the route of a key; gestures and wheel |
| `TermGrid`, `Reflow` | cells, clusters, wide pairs and scrolling; resizing of text |
| `Images` | uploads, stores, eviction, viewers |
| `SftpService`, `SftpFlow` | uploads and their pool; drops, checks and dialogs |

How state and actions correspond to the code, for the core. In `PaneOutput` a chunk
is its number and a snapshot the number of the last chunk it holds; the ring and the
shadow parser hold exactly the chunks `1 .. captured`, because both are written in the
capture step. A critical section is one action unless another thread can see the
middle of it: the resume and the visible reattach read the capture state and commit
in two actions, the reader captures, decides, waits and sends in separate ones. The
tokio channel is external: a released slot goes to the first waiter and never to a
try_send. In `ConnectionLoop` the arms are polled in the order of the source: the
guard of each negates the readiness of those above it, and the arms' `if` guards are
computed at the top of the iteration, as in the code, and may be stale when the select
waits; admit_blocking is a loop of single sends, a batch takes one chunk at a time.
In `ScrollbackRing` a byte is the number of its write. In all modules a history
variable is marked so where it is declared, and names follow the source.

The MC modules give the constants their values. `MCPaneOutput`, `MCConnectionLoop` and
`MCRecording` extend the component whose properties they check directly; the others
hold several components of one side of the system as instances. The components of a
group share no state, so a behaviour runs one of them, with one choice of constants,
and the variable `part` says which; the others rest at `Idle`. `MCDaemon` also holds
the fair specification of its parts, `MCOutputLive` and `MCClientLive` those of the
output path and of the client.

Definitions marked "Fault", "mutant" or "A plausible slip" are not used by any
specification: each is a form of the definition below it that a slip in the code would
give, and breaks a property (`PROJECT.json`, "mutants").

## Runs

| Run | Module | Checks |
| --- | --- | --- |
| `pane` | `MCPaneOutput` | `TypeOK`; `NoDoubleApply`: no chunk follows a snapshot that holds it; `OutputArrives`: what a client has and will get covers every captured chunk, what is withheld is in a snapshot on its way, a replacement continues its snapshot, a live pane is connected to an open channel; `LastAttachedOwnsPane`; `NeverConnectHidden` |
| `connection` | `MCConnectionLoop` | `NothingLost`: accepted frames are on the wire, with the writer, queued, held or being admitted; `ConnectionKept`: what is held is armed, nothing follows Detached, an upgrade is acknowledged after its flush, the name a title gave a window is told also after a lag or a rename; `ChunksInOrder`: output keeps its order and pane; `InOrder`: refinement of `OrderedDelivery` |
| `recording` | `MCRecording` | `ReadIsSuffix`, `MarkersOrdered`, `PublishedIsReal`, `SegmentsAreTrue` of the ring; `FilterIsFaithful`: a replay of what was written does what the client did, without launches and queries; `SpansAreClients`: the trackers agree with the client byte by byte |
| `daemon` | `MCDaemon` | `ReapersSafe`, `TreeKept`, `PanesSurvive`, `StatusAgrees`, `QueueKept`; steps: `StepsAreRight`, `StartKeepsOne` |
| `client` | `MCClient` | `GroupAgrees`: order, names, dialogs and the window shown, but for the crossings named; `ScreenIsActive`: the active window's output, unless a pane was created over a replay in flight, a snapshot was malformed or a worker did not start; `WheelIsKept`; steps: `PrefixActs`; `GesturesReported`: press and release at one tab, but for the uses of the tab bar named |
| `terminal` | `MCTerminal` | `GridWhole`, `ImagesAgree`, `RebuiltIsReplayed`; steps: `RegionScrolls`, `ResizeKeepsText`, `UploadStored` |
| `streams` | `MCStreams` | `BridgeKeepsOrder`; `MessagesFound`: which bytes are passed on, decoded or dropped; `UploadsEnd`: uploads end once, a cancel that did not miss the child stops it, a tab closed with consent is quiet; `DropsGoHome` |
| `daemon_live` | `MCDaemon` | `DaemonProgress`: closed children are collected, ended panes leave the tree, a daemon told to stop stops, one that upgrades serves again, reports reach the GUI, deferred snapshots leave |
| `output_live` | `MCOutputLive` | `OutputProgress`: a waiting reader goes on, deferred items leave, a shown pane resumes, output flows although the client never pauses, input is taken although it does not read, a kicked client is told |
| `client_live` | `MCClientLive` | `ClientProgress`: a bridge without a daemon exits, a stopped terminal keeps no input, uploads end, checks are answered, the screen settles (creations included), payload files go |
| `pane_reattach` | `PaneOutput` | violation of `NoDoubleApply`, see below |
| `upgrade_create` | `HotUpgrade` | violation of `NoShellLost`, see below |

A property of a group module is a conjunction over the parts: for each part the
properties of its component that its constants make interesting. The comment before it
says what they mean and names the code. Where the code breaks a promise in some crossing
of steps, the run checks the promise with that crossing named as its exception, from a
history variable, and the crossing itself does happen in the run; the promise without it
is kept in the module, in no run (see the disagreements). Deadlock is checked in `pane`, `connection`
and `daemon`, where the ends of the programs are explicit actions; the other groups
have parts whose bounded inputs simply run out.

## Bounds

Capacities are the smallest that can be full and overrun: channels of 1 to 3 stand for
`PTY_CHANNEL_CAPACITY` = 256, an outbound queue of 1 for 2, writer batches of 1 or 2
for 32, drain batches of 1 to 3 for 64, a starvation quota of 1 for 8, a deferred queue
of 2 for 8, a ring of 4 bytes with 2 markers that is lapped nearly twice, a hold-back
of 3 bytes, an upload limit of 1. Every limit is reached within the run together with
the state beyond it; larger limits only lengthen the way there. Two chunks are enough
for one inside and one outside a snapshot, three for one on each side of a held one;
two visibility changes hide and show while the first resume is deferred. Process
ids are two for three panes, so that they are reused; descriptors are few, so that a
closed number is given out again; grids of 1 to 3 rows and 2 to 4 columns have an edge,
a margin and a wide pair at each place; reads cut the byte streams of the filter and of
the trackers at every byte. Timeouts are nondeterministic: they may fire at any moment
at which the code may wait. Every bound is a named constant (`Max...`, `...Cap`) and
appears in guards only. What the bounds of `PaneOutput`, `ConnectionLoop` and
`ScrollbackRing` might hide is covered by the theorems, which hold for all of them; so
it is for `ChildReaper`, `HotUpgrade`, `DeferredQueue`, `SessionTree` (but for its display
order) and `SftpFlow`. Two bounds of
`daemon` do hide something, which the proofs brought to light: five messages let an
eviction take the newer chunk (`OldestIsEvicted`), and a second upgrade lets a
pane that adopted a stranger's terminal cost a third its own (`KeptCorrect`
excludes the adoption).

In `ConnectionLoop` a RenameWindow, of the connection itself or of another client's, is
taken while its window has had fewer than `MaxName` = 2 names; titles have their own bound.
The window group runs four choices: `scrolled` (keyboard and command line, exits),
`ordered` (moves, switches, creations, titles, sends that fail), `crossed` (dialogs, moves, renames and titles
of five panes over exits and creations from either side, so that a window id given out
again meets an open dialog) and `shifted` (a creation fails, so window and pane ids
differ from then on). Panes are created at any moment of a replay in `sizes`, `life` and
in part `screen` of `client_live`. Gestures run in one tab with every mode, in two with
switches and reorders (`tabsMove`), and in x10 with a cell beyond its reach (`legacy`).

`MCPaneOutput` gives three choices (`part`): two chunks with one change of visibility
for two connections, one chunk with two changes, and one connection that also asks for
snapshots that may be too large. Connections and panes are symmetric where
`SYMMETRY` is given (no liveness property is checked under symmetry).

## Fairness

- Output (`MCOutputLive`): weak fairness of the reader thread, each connection task
  and the exit task: threads and tasks that can run do run. The output arms stand
  below the client's in a biased select; the code closes the client arm after
  `CLIENT_MSG_STARVATION_QUOTA` messages while output waits, which strong fairness of
  those arms states for `PaneOutput` and part `flow` checks in `ConnectionLoop`. Only
  part `flow` assumes that the client reads. `input` excludes the time inside
  admit_blocking, which the code documents as unbounded; its channel has two slots,
  because a reader may hold the permit of one.
- Daemon (`MCDaemon`): weak fairness of the reaper threads and deadlines, of children
  that were signalled to end, of the exit task, the shutdown branch, the upgrade's own
  steps and of the status task and pump. Strong fairness of the fair arm of the
  deferred queue: a semaphore serves its waiters in turn, readers cannot pass it for ever.
- Client (`MCClientLive`): weak fairness of the futures and pumps of the bridge, of the
  dispatcher and threads of uploads, of the frame loop (messages, polls) and of workers
  and viewers; the worker of the viewers wakes every five seconds. Strong fairness of a
  pump's write and of the exit message of the bridge: they complete if the terminal
  reads again and again.

Nothing assumes that output, messages, kicks, broadcasts, failures or crashes happen.

## Proofs

Every theorem holds for all values of the constants that the named assumptions of the
component's module allow (capacities and limits are positive, bounds are natural
numbers, `NoConn` is not a connection), with the further hypotheses given here.

| Theorem | States | Rests on |
| --- | --- | --- |
| `PaneOutput_proofs!TypeCorrect` | `Spec => []TypeOK` | one lemma per group of actions |
| `PaneOutput_proofs!OwnerCorrect` | `Spec => []LastAttachedOwnsPane` | `OwnerInv` |
| `PaneOutput_proofs!HiddenCorrect` | `Spec => NeverConnectHidden` | `OwnerInv` |
| `PaneOutput_proofs!StreamCorrect` | `Spec => []NoDoubleApply`, if `MaxAttach <= 1` | `StreamInv` |
| `PaneOutput_proofs!ArrivalCorrect` | `Spec => []OutputArrives`, if `MaxAttach <= 1` | `ArrivalInv`, `OpenInv`, `StreamInv`, `OwnerInv` |
| `ConnectionLoop_proofs!TypeCorrect` | `Spec => []TypeOK` | `DeliveryInv` |
| `ConnectionLoop_proofs!LossCorrect` | `Spec => []NothingLost` | `DeliveryInv` |
| `ConnectionLoop_proofs!OrderCorrect` | `Spec => InOrder`, the refinement of `OrderedDelivery` | `DeliveryInv` |
| `ConnectionLoop_proofs!KeptCorrect` | `Spec => []ConnectionKept` | `KeptInv` |
| `ConnectionLoop_proofs!BoundCorrect` | `Spec => []HeldBounded` | `KeptInv` |
| `ScrollbackRing_proofs!ReadAllIsTheNewestBytes` | `Spec => []ReadIsSuffix` | `RingInv` |
| `ScrollbackRing_proofs!MarkersStayOrdered` | `Spec => []MarkersOrdered` | `RingInv` |
| `ScrollbackRing_proofs!PublishedSizeIsReal` | `Spec => []PublishedIsReal` | `RingInv` |
| `ChildReaper_proofs!ReapedCorrect` | `Spec => [](TypeOK /\ DoneIsReaped)` | `ReapInv` |
| `ChildReaper_proofs!SignalsCorrect` | `Spec => []SignalsOwn`, if `~Reuse \/ MaxUpgrade = 0` | `ReapInv`, `OwnInv` |
| `ChildReaper_proofs!CollectsCorrect` | `Spec => [][CollectsOwn]_vars`, under the same hypothesis | `ReapInv`, `OwnInv` |
| `SftpFlow_proofs!FlowCorrect` | `Spec => [](TypeOK /\ UploadsGoWhereDropped /\ NoUnverifiedUpload /\ SettledOnce)` | `FlowInv` |
| `DeferredQueue_proofs!TypeCorrect` | `Spec => []TypeOK` | `IInv` |
| `DeferredQueue_proofs!CoalescedCorrect` | `Spec => []Coalesced` | `IInv` |
| `DeferredQueue_proofs!DeliveryCorrect` | `Spec => [](NewestDelivered /\ ResumeNotLost)` | `IInv` |
| `DeferredQueue_proofs!StepsCorrect` | `Spec => [][NeverOlder /\ EvictionIsForced]_vars` | `IInv` |
| `SessionTree_proofs!HusksCorrect` | `Spec => []NoHusks` | `IInv` |
| `SessionTree_proofs!SessionCorrect` | `Spec => [](OneSession /\ EmptyIsTold)` | `IInv` |
| `SessionTree_proofs!ReapCorrect` | `Spec => []ReapIsTrue` | `IInv` |
| `SessionTree_proofs!OrphanCorrect` | `Spec => []NoOrphan` | `IInv` |
| `HotUpgrade_proofs!TypeCorrect` | `Spec => []TypeOK` | `TypeInv` |
| `HotUpgrade_proofs!KeptCorrect` | `Spec /\ [](Free # {}) /\ [][~AdoptsStranger]_vars => []ShellsServed`, if no descriptor is unreadable | `ShellInv`, `ReaderInv` |
| `HotUpgrade_proofs!UnclosedKept` | `Spec /\ [](Free # {}) => []ShellsServed`, if moreover no pane closes during an upgrade | with `CloseInv` |
| `HotUpgrade_proofs!CloexecCorrect` | `Spec => []CloexecIsBack` | `CloexecInv` |
| `HotUpgrade_proofs!FileCorrect` | `Spec => []FileIsConsumed`, if the daemon is not killed | `FileInv` |
| `HotUpgrade_proofs!ToldCorrect` | `Spec => []AllTold`, if no client connects during the announcement | `AckInv` |
| `HotUpgrade_proofs!StatusCorrect` | `Spec => []StatusIsKept`, without unreadable descriptors and kills | `StatusInv` |
| `HotUpgrade_proofs!RepairedCorrect` | `Spec => [][RepairedIsAdmitted]_vars`, if the daemon is not killed | `RefusedInv` |

`ShellsServed` is `KeptPanesSurvive /\ AdoptsOwn`, with `NoShellLost` if no pane is created
and `OneReader` if execve does not fail. Each hypothesis names a fault, or a condition
under which TLC finds the property violated (see the disagreements).

Why the invariants are needed:

- `OwnerInv`. That the connection a session would kick is the one its pane belongs to
  is kept only if no other task is between reading and committing a resume, a resuming
  task still owns the pane, and whoever is about to be connected is visible: what the
  output_target lock, held over both steps, gives.
- `StreamInv`. What the reader withholds it takes from the boundary entry, so every
  snapshot in a client's stream must be at or below its entry. A connection that has
  not attached has nothing in its channel (`UnattachedEmpty`), which is why its Attach
  may send a snapshot past the channel. `MaxAttach` counts the Attach messages of one
  connection; a client that reconnects is another element of `Conn`. The GUI sends one
  per Welcome (`tabs/mux_link.rs`, handle_welcome), and `pane_reattach` shows that the
  hypothesis is needed.
- `ArrivalInv` says of each stream, from its last reset on: the raw chunks after it are
  all those the reader has settled (`Got`), and the boundary recorded for the client is
  that of a snapshot in the stream, no larger than what was captured when the reset took
  its place (`Recorded`). Induction needs the reader's decisions as well (`DecisionInv`):
  a chunk is decided upon before the next is captured, it is withheld only while the
  client's entry covers it, and nothing is decided between the read and the commit of a
  resume. `OpenInv` adds that a kicked or leaving client's pane is detached from the
  network, and that a resuming pane is hidden for visibility alone: this is where the
  order in detach_session_panes and the owner checks matter.
- `DeliveryInv`. What has gone to the writer is a prefix of what was accepted, and while
  nothing is cut off the rest is the remainder followed by the reply being admitted.
  This survives because a queue without a reader is empty, a writer that is gone while
  the loop runs has failed, a reservation exists only with a remainder, and the drain
  arm runs only when nothing is held. Types and delivery are proved together.
- `KeptInv`. Frames keep their kind on the way (`KindInv`), Detached is accepted last
  and only by a connection that ends (`EndInv`), the remainder and the batch are bounded
  together (`BoundInv`), and the newest name of a window that no RenameWindow has changed
  since (`renamed`) is with the title task, in the broadcast, or was accepted last, unless a
  lag was noticed (`NameInv`). A resync takes a window out of `renamed` if no older title
  follows it.
- `RingInv`. `ReadIsSuffix` says nothing about the write position; `Ages` gives the age
  of the byte at every index of the ring, also after the wrap.
- `ReapInv`, `OwnInv`. A child keeps its process id until somebody has collected it
  (`Placed`), so a thread that finds no child, or a remembered status, has seen its own
  collected. That nobody else collects it (`Kept`) needs either ids that are not given
  out again or handles that remember the status; with bare ids and reuse a thread may
  signal or collect a stranger, which is the disagreement at `WaitEnds`.
- `FlowInv`. A batch waits in one place at a time (`OnePlace`): a listing that answers
  late would otherwise change what is known of a batch already started. A request is
  listed or answered, never both (`Requests`), so a dialog is taken out of the map only
  when no listing for it runs, and the question is open only where files were found
  (`Asked`), which makes its answer a reason to start.

- `IInv` of the queue. A handler may send a snapshot at once without overtaking a queued
  one because the flush before it leaves nothing queued or nothing free, and no slot
  comes free before the handler ends (`FlushInv`). A queued chunk answers the newest
  request and is no older than what the client has (`ValueInv`): the chunk of a pane
  stands before its resume (`Ordered`), so no fresher snapshot leaves the queue ahead of
  it. The set of the queue's entries, which are all different, and their order within a
  pane are all the proof needs; the lemmas say what each operation does to both.
- `IInv` of the tree. The pane of a client between the sections of handle_create_window
  is its own, allocated and not yet in the tree (`FreshInv`): its program cannot have
  been reported ended, and registering it takes no pane from another window. Numbers
  only grow (`NumberInv`), so a new session or window inherits nothing. With one session
  at a time, the session of a removed window is the only one, and its end is the end of
  all (`OneSession`, `EmptyIsTold`).
- `ShellInv`. Every live pane owns the terminal at its descriptor (`TreeInv`), the
  handoff document names terminals of live shells and those stay open over execve
  (`DocInv`), and what is still to be adopted belongs to nobody else yet (`TodoInv`). A
  shell is lost only by a step that `Loses` names: an unread file, no free descriptor, a
  stranger's terminal. `CloseInv` says that without closes every number recorded for a live
  pane is still that pane's terminal, so nobody adopts a stranger's.
- `ReaderInv`: a terminal has the readers of one image only, unless execve came back.
  `AckInv` counts the connections not yet told against the acknowledgements outstanding.
  `StatusInv` follows a status from the pane to the document and back, including the
  rewrite after a change. `FileInv` and `RefusedInv` say in which phases the handoff file
  exists and for which candidate a refusal stands.

The invariants were checked with TLC before they were proved: `ArrivalInv` and `OpenInv`
on the constants of `pane`, `ReapInv` and `OwnInv` on two panes and two ids with and
without reuse, those of `HotUpgrade` on four choices of constants with different faults,
`IInv` of the queue on three panes, a limit of two chunks and five messages, `IInv` of the
tree on two panes with two GUI clients and with one of either type.

Only model-checked: liveness, which rests on fairness (`OutputProgress`,
`DaemonProgress`, `ClientProgress`); `ChunksInOrder` and `SegmentsAreTrue`, and
whatever else is stated with folds or recursive operators, as in `ClientParser`,
`WriteFilter`, `TermGrid`, `Reflow` and `SnapshotReplay`; `DisplayOrder` and the types of
`SessionTree`, because window_order is rebuilt by SelectSeq, whose result needs
induction; the remaining modules of the daemon (`AgentStatus`, `DaemonStart`), the
client and the streams.

## Disagreements met while modelling

Two runs check a statement of the repository and find a behaviour of the code that
contradicts it (`PROJECT.json`, "findings", quotes the lines).

- `pane_reattach`: a second Attach on one connection sends its snapshot straight to the
  admission while raw chunks it holds still wait in the channel. The GUI attaches once
  per Welcome, and for that `StreamCorrect` proves the property.
- `upgrade_create`: the manager is unlocked after the handoff document was captured; a
  pane created before execve is in no document, and its shell is hung up.

The others were found the same way; each can be reproduced by instantiating the module
with the interference named. Properties that exist only for this purpose are kept in
the modules. Where a run checks the promise with its exceptions, that form is:
`EveryNameFresh` as `NamesFresh`; `OrderAgrees`, `NamesAgree`, `DialogHitsTarget` and
`ActiveIsChosen` as `OrderUnlessCrossed`, `NamesUnlessCrossed`, `DialogHitsListed` and
`ShownUnlessClosedAbove`; `SettledIsFaithful` as `SettledUnlessCovered`; `CancelStops` and
`ClosedTabsAreQuiet` as `CancelReaches` and `GuardedTabsAreQuiet`; `ReleaseMatchesAlways`
and `GestureCompletesAlways` as `ReleaseMatches` and `GestureCompletes`.

| Property | Where | What the code does |
| --- | --- | --- |
| `PaneOutput!DeferredNotOvertaken` | `mux/session/pane/output_queue.rs:592` | try_send ignores the deferred queue: after a reader gives back a permit a newer snapshot passes an older deferred one |
| `PaneOutput!OnDemandLossless` | `mux/ipc/handlers/mod.rs:454` | a chunk forwarded between read and insertion of an on-demand snapshot stands before it and is overwritten |
| `DeferredQueue!OldestIsEvicted` | `mux/session/pane/output_queue.rs:428`, `:448` | a chunk inserted before its pane's waiting resume stands ahead of older ones, and the eviction takes the first in the queue; `EvictionIsForced` holds and is proved |
| `ChildReaper!ClosedIsReaped` | `mux/daemon/mod.rs:446` | the reaper of a pane closed just before execve dies with the image; nobody collects the child |
| `ChildReaper!WaitEnds` | `mux/session/child_reaper.rs:278` | waitpid on an id already collected blocks on the next child that gets it |
| `SessionTree!SwitchNamesWindow` | `mux/ipc/handlers/mod.rs:313` | a window id is looked up among the panes first and may name another window |
| `SessionTree!AutoStopIsEmpty` | `mux/daemon/mod.rs:402` | a client accepted after the last session went gets a session that the stop then destroys |
| `SessionTree!EndedIsReaped` | `mux/ipc/pty_spawn/mod.rs:427` | exit notices beyond the channel's capacity are dropped, and a detached pane stays |
| `HotUpgrade!OneReader` | `mux/cli/daemon_cmd.rs:107` | after a failed execve old and new reader threads share one terminal's output |
| `HotUpgrade!AdoptsOwn` | `mux/upgrade.rs:975` | the closed number of an ended pane may be a live pane's terminal when it is adopted |
| `HotUpgrade!KeptPanesSurvive` | `mux/upgrade.rs:975` | two upgrades later: two panes own one number, and closing both closes the terminal that has it since |
| `HotUpgrade!AllTold` | `mux/daemon/handoff.rs:277` | a connection that subscribes after the count acknowledges for one not yet told |
| `HotUpgrade!SuppressedByProbe` | `mux/daemon/mod.rs:377` | a failed snapshot suppresses a candidate that passed its probe |
| `HotUpgrade!FileIsConsumed` | `mux/upgrade.rs:307` | the handoff file of a daemon killed before execve refuses every later upgrade |
| `AgentStatus!MonotonicRevision` | `mux/daemon/tasks.rs:541` | a status copied before and sent after a newer report takes the GUI back |
| `AgentStatus!GoneIsTold` | `mux/ipc/handlers/agent_api.rs:383`, `mod.rs:361` | a wait registered after the destruction of its pane, or on a destroyed window, ends with its timeout |
| `AgentStatus!ClosedHasNoEntry` | `app/agent_status.rs:364` | an update that arrives after PtyExited creates the pane's entry again |
| `ScrollbackRing!SegmentsTrue` | `mux/scrollback_buffer.rs:495` | restored bytes before the first marker get the size of an evicted one |
| `ScrollbackRing!NoBogusDims` | `mux/session/pane/mod.rs:613` | a reader sees a size the PTY then refuses |
| `ScreenSpans!RingStaysOnMain` | `mux/ipc/pty_spawn/mod.rs:566`, `:554` | `?1047h` in one read, or a switch split over two reads before another, reaches the ring |
| `MuxWindows!ActiveIsChosen` | `mux/window_group.rs:235` | the exit of a window before the shown one makes the next one active |
| `MuxWindows!NamesAgree` | `mux/daemon/tasks.rs:50`, `mux/ipc/handlers/mod.rs:225`, `:253` | a title is sent with the window id and resolved as a pane id; a title and a rename that cross leave each side with the other's name; the rename of a closed pane is applied to the window with that id |
| `MuxWindows!DialogHitsTarget` | `mux/window_group.rs:162` | the id of a closed window is used again under an open dialog |
| `MuxWindows!OrderAgrees` | `app/mux_ui.rs:869`, `mux/ipc/handlers/mod.rs:154` | a move by index is applied to a list that has changed since; a window created from the command line is told to the command only, against `tabs/mux_link.rs:603` |
| `ClientReplay!SettledIsFaithful` | `tabs/mux_link.rs:682`, `:689` | a pane created while a replay is in flight supersedes nothing, and the replay overwrites its screen, until the next picture of it |
| `ConnectionLoop!EveryNameFresh` | `mux/ipc/handlers/mod.rs:225`, `mux/daemon/tasks.rs:46` | a RenameWindow is broadcast to nobody, and one between a title and its broadcast leaves the clients with the older name |
| `ClientReplay!NeverMixed` | `tabs/mux_link.rs:267` | output of the new window before its snapshot is fed into the old screen |
| `KeyRouting!ExpiredIsIdle` | `app/mux_ui.rs:715` | a key after the prefix's timeout is still consumed |
| `KeyRouting!ArmEndsWithFocus` | `mux/prefix.rs:543` | nothing cancels the prefix when the focus or the session goes |
| `TermGrid!PairsWhole` | `term_core/src/print_handler.rs:632` | a zero-width character writes a cell of width 0 without a base |
| `TermGrid!PendingAtEdge` | `term_core/src/esc_handler.rs:46` | next line keeps the pending wrap |
| `TermGrid!ScrollsAtBottom` | `term_core/src/terminal_core.rs:930` | a line feed below the region scrolls the region |
| `TermGrid!ContentKept` | `term_core/src/csi_edit.rs:129` | a long cluster loses its content when characters are inserted or deleted |
| `Reflow!CursorFollows`, `CursorFollowsEmpty` | `term_core/src/reflow.rs:128`, `:365` | a change of height, or the trim of empty lines, moves the cursor off its line |
| `Reflow!TypedKept` | `term_core/src/reflow.rs:739` | after a resize that fills the line the next character overwrites the last |
| `Reflow!PairsWhole` | `term_core/src/reflow.rs:589` | the trim removes the spacer of a wide character at the end |
| `Reflow!ResizeEnds` | `term_core/src/reflow.rs:695` | a wide character does not fit one column, and the loop never ends |
| `Bridge!Exits` | `mux/bridge/forward.rs:452` | a pump blocked in its write holds the lock the exit message needs |
| `Bridge!ScreenInOrder` | `mux/bridge/forward.rs:431` | an abandoned pump writes after its successor when the terminal reads again |
| `Bridge!AnnouncedNeverExits` | `mux/bridge/forward.rs:305` | a failed write ends the bridge while the announcement is unread |
| `Bridge!TypedSurvives` | `mux/bridge/forward.rs:408` | actions parsed but not yet written are dropped with the connection |
| `StdinParser!BodyBounded` | `mux/bridge/stdin_parser.rs:254` | ESC pairs inside a body are pushed without the limit |
| `StdinParser!OnlyMessages` | `mux/bridge/stdin_parser.rs:199` | the OSC number wraps and may become 9999 |
| `StdinParser!TextHidesNothing` | `mux/bridge/stdin_parser.rs:267` | the byte that breaks a prefix is not tried as the start of one |
| `SftpService!CancelStops` | `sftp/service.rs:294` | a cancel between the dispatcher's second look and the registration of the child misses it |
| `SftpService!ClosedTabsAreQuiet` | `app/mod.rs:702` | the Close Tab key leaves the tab's uploads running, and so does a cancel that missed |
| `SftpFlow!ChecksNotDropped` | `app/sftp.rs:48` | a second result with duplicates replaces the open overwrite dialog |
| `MouseReport!ReleaseMatchesAlways` | `window_host/mouse_report.rs:879`, `:826` | a release goes to the tab that now has the index of the press, or answers a press that x10 could not encode |
| `MouseReport!GestureCompletesAlways` | `window_host/mouse_report.rs:872` | a switch to a tab without tracking, or a cell that x10 does not reach, swallows the release |
| `MouseReport!DragStaysHome` | `window_host/mouse_report.rs:1013` | the motion of a drag is reported to the tab switched to |
| `MouseReport!ReleaseEndsDrag`, `DragIsHeld` | `window_host/event_loop.rs:261` | a drag goes on after a lost release, or ends at the second loss of focus |
| `DaemonStart!OnlyStaleRemoved` | `mux/daemon/connect.rs:101`, `control_client.rs:156` | the slower of two starts (or recoveries) removes the socket of the faster |
| `DaemonStart!IdentityOfActive` | `mux/daemon/mod.rs:228`, `handoff.rs:409` | a daemon that lost its path, or bound before it listened, records its identity last |
| `DaemonStart!ClaimIsTrue` | `mux/cli/admin.rs:204` | after a failed execve the upgrade is reported as done |
| `Images!ShownIsTransmitted` | `viewer/image.rs:301`, `term_images/.../sixel.rs:75` | ids of different tabs, or assigned and chosen ids, meet in one store |
| `Images!UploadStored` | `term_images/.../kitty.rs:230`, `:223` | abandoned chunks are put before the next upload; chunks without id take new ids |
| `Images!TransmitOnlyStores` | `term_images/src/ansi/apc.rs:284` | a last chunk without an action shows the image |
| `Images!OkIsShown` | `viewer/image.rs:115` | a put of an evicted image is answered OK |
| `Images!FilesOwned`, `FilesGo` | `viewer/image_payload.rs:88`, `image.rs:209` | a payload whose writing failed, or whose viewer outlives the worker, is left behind |
| `SnapshotReplay!HistoryRestored` | `tabs/replay.rs:594`, `:728` | a deferred resize or an ED 3 between the two builds loses or brings back history |
| `SnapshotReplay!MarksSame` | `ring_buffer.rs:820`, `terminal_core/replay.rs:744` | counted rows are missed by ED 3 and by marks in the middle part |
| `SnapshotReplay!PictureSame`, `CountsSame` | `terminal_core/replay.rs:567`, `:527` | a resize in the middle part finds an empty history; bytes before the first segment take the wrong size |

## What is not modelled

- Contents of chunks, snapshots and messages beyond what the properties tell apart;
  colours, attributes, fonts, drawing, layout; the codec of frames; Windows pipes.
- `PaneOutput` has one pane (several meet in `DeferredQueue` and `ConnectionLoop`); the
  handshake of a connection and CLI connections are in `DaemonStart` only.
- `WriteFilter` and `ScreenSpans` leave out `suppressed_output.rs`,
  `client_parity_scan.rs` and the copy of the vt100 screen for a replay; switches
  with several modes in one sequence, and an OSC that ends inside a designation, are
  excluded by name (`DesignatedOsc`).
- `TermGrid`: a joiner printed alone leaves a spacer without a base, so the part with
  joiners does not check pairs; after inserting or deleting characters the contents
  are not compared. `Reflow`: the padding of a wide character at the edge becomes text
  at the next resize, so widths and a small scrollback are not combined.
- `SnapshotReplay`: one byte is one output operation; the clamping of sizes, the
  alternate screen, a reset and cancellation are left out.
- `MouseReport`: alternate-scroll arrows, forwarding to the user interface, links,
  folds, the clipboard. `Images`: animations, and `placement.rs`, `store.rs` and
  `limiter.rs`, which the GUI does not use. `SftpFlow`: the remote directory.
  `DaemonStart`: permission checks of candidates and the suppression of refusals
  (which is in `HotUpgrade`).
- Settings, profiles, local PTYs, status bar, notifications, tmux import, search, folds,
  links, the data, Markdown and HTML viewers, the web views and fonts: sequential code,
  formatting or I/O. They are most of the repository's lines (the map of `PROJECT.json`
  covers about an eighth of them); what is modelled is the part in which steps of
  several actors meet or long sequences matter.

## Plan

Proofs: `AgentStatus` and `DaemonStart`. Models: the suppressed-output pipeline and the
clamping of replay sizes.
