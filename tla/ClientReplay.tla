---------------------------- MODULE ClientReplay ----------------------------
(***************************************************************************)
(* What a mux tab displays: one terminal core, fed by the output of the    *)
(* active pane and replaced by snapshots, small ones at once and large     *)
(* ones by a worker thread whose core is swapped in later.  From           *)
(* src/src-tauri/src/tabs/replay.rs, mux_link.rs, mod.rs (resize) and the  *)
(* polls of App::pump_all.  Output is numbered per pane, so a snapshot is  *)
(* the number of the last chunk it contains.  Which window follows a close *)
(* is left open here: MuxWindows has the window list.  The daemon sends    *)
(* each pane's output in order and answers requests in order               *)
(* (PaneOutput, ConnectionLoop).                                           *)
(***************************************************************************)
EXTENDS Integers, Sequences

CONSTANTS
    MaxPane,     \* bound: pane ids 1 .. MaxPane
    NumWindows,  \* panes the daemon has at the start
    MaxOut,      \* bound: output chunks of a pane
    MaxOps,      \* bound: user and daemon initiatives
    QueueCap,    \* OFFTHREAD_LIVE_QUEUE_CAP_BYTES, in chunks
    Dims,        \* grid sizes
    Kinds,       \* of snapshots: "small", "big", "bad" (malformed payload)
    Ops,         \* the kinds of initiative this instance allows
    Faults       \* "spawn", "panic": of the worker threads; "dup": Welcome twice

NoDim == 0

ReplayAssumption ==
    /\ MaxPane \in Nat /\ NumWindows \in 0 .. MaxPane /\ MaxOut \in Nat \ {0}
    /\ MaxOps \in Nat /\ QueueCap \in Nat
    /\ NoDim \notin Dims /\ Dims # {}

VARIABLES
    session,     \* mux_session_name is Some
    wins, active,   \* panes of mux_group and the active one
    gone,        \* Tab::exited
    core,        \* the displayed core
    pending,     \* pending_switch
    redispatch,  \* pending_redispatch
    restore,     \* pending_scrollback_restore
    grid,        \* the size the window last asked for
    told,        \* the size last sent to the daemon for each pane
    pumping,
    live, out, streaming,   \* daemon: panes, their output, attached or not
    asked,       \* requests on their way to the daemon
    chan,        \* frames on their way to the tab
    ops,
    lost         \* history: why the screen may be wrong until its next picture:
                 \* "refused", a snapshot or a live queue was given up; "covered",
                 \* a pane was created over a replay in flight

tab == <<session, wins, active, gone, grid, told>>
replay == <<core, pending, redispatch, restore, lost>>
daemon == <<live, out, streaming>>
vars == <<tab, replay, pumping, daemon, asked, chan, ops>>

PaneIds == 1 .. MaxPane
None == 0          \* no pane; as the pane of the core: the plain shell
NoSwitch == [pane |-> None]
NoRedispatch == [pane |-> None]
NoRestore == [pane |-> None]

\* pane: whose output the core shows; upto: the last chunk; ok: nothing missing,
\* repeated or foreign; hist: whose scrollback lies above; dim: grid size.
Shown(p, k, hist, d) == [pane |-> p, upto |-> k, ok |-> TRUE, hist |-> hist, dim |-> d]

Init ==
    /\ session = FALSE /\ wins = {} /\ active = None /\ gone = FALSE
    /\ grid \in Dims /\ core = Shown(None, 0, <<>>, grid)
    /\ pending = NoSwitch /\ redispatch = NoRedispatch /\ restore = NoRestore
    /\ told = [p \in PaneIds |-> NoDim] /\ pumping = FALSE
    /\ live = 1 .. NumWindows
    /\ out = [p \in PaneIds |-> IF p \in live THEN 1 ELSE 0]
    /\ streaming = FALSE /\ asked = <<>> /\ chan = <<>> /\ ops = 0 /\ lost = {}

Initiative(kind) == kind \in Ops /\ ops < MaxOps /\ ops' = ops + 1

\* apply_queued_live_output and apply_active_pane_output: feed chunks of p.
Fed(c, p, q) ==
    IF q = <<>> THEN c
    ELSE [c EXCEPT !.upto = q[Len(q)],
                   !.ok = c.ok /\ c.pane = p /\ \A i \in 1 .. Len(q) : q[i] = c.upto + i]

-----------------------------------------------------------------------------
(* The replay machinery of replay.rs.                                      *)

\* A plausible slip of supersede_pending_replay: the second pass survives.
SupersedeFirstPass ==
    pending' = NoSwitch /\ redispatch' = NoRedispatch /\ UNCHANGED restore

\* supersede_pending_replay: the three fields are dropped together.
SupersedePendingReplay ==
    pending' = NoSwitch /\ redispatch' = NoRedispatch /\ restore' = NoRestore

\* reset_frame_for_replay: the displayed core itself parses the snapshot; the
\* size of the core stays.  `extra` is fed afterwards.
ResetFrameForReplay(p, k, extra) ==
    core' = Fed(Shown(p, k, IF k = 0 THEN <<>> ELSE <<p>>, core.dim), p, extra)

\* What was given up is made good by the next picture of the active pane.
StillLost(p) == IF p = active THEN {} ELSE lost

\* dispatch_offthread_replay with no switch to the same pane in flight; the new
\* switch inherits `queue`, which has no place to go when the spawn fails.
DispatchFresh(p, k, queue) ==
    /\ redispatch' = NoRedispatch /\ restore' = NoRestore
    /\ \/ /\ pending' = [pane |-> p, upto |-> k, dim |-> core.dim, queue |-> queue,
                         worker |-> "running", resize |-> NoDim]
          /\ UNCHANGED <<core, lost>>
       \/ /\ "spawn" \in Faults
          /\ pending' = NoSwitch
          /\ core' = Shown(p, k, <<p>>, core.dim)
          /\ lost' = StillLost(p) \cup IF queue = <<>> THEN {} ELSE {"refused"}

\* dispatch_offthread_replay: a second snapshot of the pane in flight only
\* replaces the request, and empties the queue of output older than it.
DispatchOffthreadReplay(p, k) ==
    \/ /\ pending.pane = p
       /\ pending' = [pending EXCEPT !.queue = <<>>]
       /\ redispatch' = [pane |-> p, upto |-> k]
       /\ UNCHANGED <<core, restore, lost>>
    \/ pending.pane # p /\ DispatchFresh(p, k, <<>>)

\* The worker's core, resized if the grid changed while it was built.
SwappedCore(hist) ==
    Shown(pending.pane, pending.upto, hist,
          IF pending.resize = NoDim THEN pending.dim ELSE pending.resize)

\* apply_offthread_swap: the queue is fed, and a second pass is spawned unless
\* the first has already filled the scrollback.
ApplyOffthreadSwap ==
    /\ pending' = NoSwitch /\ lost' = StillLost(pending.pane) /\ UNCHANGED redispatch
    /\ \/ /\ core' = Fed(SwappedCore(<<pending.pane>>), pending.pane, pending.queue)
          /\ UNCHANGED restore
       \/ /\ core' = Fed(SwappedCore(<<>>), pending.pane, pending.queue)
          /\ \/ restore' = [pane |-> pending.pane, worker |-> "running"]
             \/ "spawn" \in Faults /\ restore' = NoRestore

\* poll_pending_scrollback_restore, with no change of the core in this pump.
PollRestore ==
    /\ UNCHANGED <<pending, redispatch, lost>>
    /\ \/ /\ restore = NoRestore
          /\ UNCHANGED <<core, restore>>
       \/ /\ restore # NoRestore /\ restore.worker = "running"
          /\ UNCHANGED <<core, restore>>
       \/ /\ restore # NoRestore /\ restore.worker = "sent"
          /\ core' = [core EXCEPT !.hist = Append(@, restore.pane)]
          /\ restore' = NoRestore
       \/ /\ restore # NoRestore /\ restore.worker = "dead"
          /\ restore' = NoRestore /\ UNCHANGED core

\* poll_pending_switch: a coalesced request first, then the worker's channel.
PollPendingSwitch ==
    \/ /\ redispatch # NoRedispatch
       /\ DispatchFresh(redispatch.pane, redispatch.upto,
                        IF pending = NoSwitch THEN <<>> ELSE pending.queue)
    \/ /\ redispatch = NoRedispatch /\ pending # NoSwitch
       /\ \/ pending.worker = "running" /\ PollRestore
          \/ pending.worker = "sent" /\ ApplyOffthreadSwap
          \/ /\ pending.worker = "dead"
             /\ ResetFrameForReplay(pending.pane, pending.upto, pending.queue)
             /\ pending' = NoSwitch /\ lost' = StillLost(pending.pane)
             /\ UNCHANGED <<redispatch, restore>>
    \/ /\ redispatch = NoRedispatch /\ pending = NoSwitch
       /\ PollRestore

\* The end of a tab's turn in pump_all; a pump without input polls too.
Poll ==
    /\ ~gone /\ pumping' = FALSE
    /\ PollPendingSwitch
    /\ UNCHANGED <<tab, daemon, asked, chan, ops>>

\* The worker threads.  A worker whose request was coalesced is cancelled and
\* ends without a result, unless it had finished before it looked.
SwitchWorker ==
    /\ pending # NoSwitch /\ pending.worker = "running"
    /\ \/ pending' = [pending EXCEPT !.worker = "sent"]
       \/ /\ "panic" \in Faults \/ redispatch # NoRedispatch
          /\ pending' = [pending EXCEPT !.worker = "dead"]
    /\ UNCHANGED <<tab, core, redispatch, restore, lost, pumping, daemon, asked,
                   chan, ops>>

RestoreWorker ==
    /\ restore # NoRestore /\ restore.worker = "running"
    /\ \/ restore' = [restore EXCEPT !.worker = "sent"]
       \/ "panic" \in Faults /\ restore' = [restore EXCEPT !.worker = "dead"]
    /\ UNCHANGED <<tab, core, pending, redispatch, lost, pumping, daemon, asked,
                   chan, ops>>
-----------------------------------------------------------------------------
(* Tab::apply_mux_message.                                                 *)

Ask(kind, p) == asked' = Append(asked, [kind |-> kind, pane |-> p])

\* handle_snapshot: of the active pane only; a malformed payload is skipped.
HandleSnapshot(m) ==
    /\ UNCHANGED <<tab, asked>>
    /\ \/ /\ active # None /\ m.pane # active
          /\ UNCHANGED replay
       \/ /\ active \in {None, m.pane} /\ m.size = "bad"
          /\ lost' = lost \cup {"refused"} /\ UNCHANGED <<core, pending, redispatch, restore>>
       \/ /\ active \in {None, m.pane} /\ m.size = "small"
          /\ SupersedePendingReplay
          /\ ResetFrameForReplay(m.pane, m.upto, <<>>) /\ lost' = {}
       \/ /\ active \in {None, m.pane} /\ m.size = "big"
          /\ DispatchOffthreadReplay(m.pane, m.upto)

\* The payload the overflow fallback reparses: the coalesced one if there is.
LatestPayload ==
    IF redispatch # NoRedispatch THEN redispatch
    ELSE [pane |-> pending.pane, upto |-> pending.upto]

\* queue_live_output reports that the cap is passed.
Overflows(queue) == Len(queue) > QueueCap

\* handle_pty_output: another pane's output is dropped; output of the pane in
\* flight waits in the queue, and past the cap the switch is completed at once.
HandlePtyOutput(m) ==
    /\ UNCHANGED <<tab, asked>>
    /\ \/ /\ active # None /\ m.pane # active
          /\ UNCHANGED replay
       \/ /\ active \in {None, m.pane} /\ pending = NoSwitch
          /\ core' = Fed(core, m.pane, <<m.upto>>)
          /\ UNCHANGED <<pending, redispatch, restore, lost>>
       \/ /\ active \in {None, m.pane} /\ pending # NoSwitch
          /\ pending.pane # m.pane
          /\ UNCHANGED replay
       \/ /\ pending.pane = m.pane /\ active \in {None, m.pane}
          /\ LET queue == Append(pending.queue, m.upto)
             IN  \/ /\ ~Overflows(queue)
                    /\ pending' = [pending EXCEPT !.queue = queue]
                    /\ UNCHANGED <<core, redispatch, restore, lost>>
                 \/ /\ Overflows(queue)
                    /\ SupersedePendingReplay
                    /\ ResetFrameForReplay(LatestPayload.pane, LatestPayload.upto,
                                           queue)
                    /\ lost' = {}

\* handle_welcome and Tab::resize send the size to every pane of the group.
SeedSizes(panes) ==
    [p \in PaneIds |-> IF p \in panes THEN core.dim ELSE told[p]]

\* handle_welcome, once per attach: attach, seed, request the active screen; a
\* session without panes gets its first window instead.
HandleWelcome(m) ==
    /\ UNCHANGED <<replay, gone, grid>>
    /\ session' = TRUE
    /\ \/ /\ session
          /\ UNCHANGED <<wins, active, told, asked>>
       \/ /\ ~session /\ m.panes # {}
          /\ wins' = m.panes /\ active' = m.pane
          /\ told' = SeedSizes(m.panes)
          /\ asked' = asked \o <<[kind |-> "attach", pane |-> None],
                                 [kind |-> "snapshot", pane |-> m.pane]>>
       \/ /\ ~session /\ m.panes = {}
          /\ Ask("create", None)
          /\ UNCHANGED <<wins, active, told>>

\* handle_pane_created: the new window is active on a blank screen; nothing that
\* is in flight is superseded.
HandlePaneCreated(m) ==
    /\ UNCHANGED <<session, gone, grid, asked>>
    /\ \/ /\ session /\ m.pane \notin wins
          /\ wins' = wins \cup {m.pane} /\ active' = m.pane
          /\ ResetFrameForReplay(m.pane, 0, <<>>)
          /\ lost' = IF pending = NoSwitch /\ restore = NoRestore THEN {} ELSE {"covered"}
          /\ told' = [told EXCEPT ![m.pane] = core.dim]
          /\ UNCHANGED <<pending, redispatch, restore>>
       \/ /\ ~session \/ m.pane \in wins
          /\ UNCHANGED <<wins, active, told, replay>>

HandleSwitchWindow(m) ==
    /\ UNCHANGED <<session, wins, gone, grid, told, replay>>
    /\ \/ m.pane \in wins /\ active' = m.pane /\ Ask("snapshot", m.pane)
       \/ m.pane \notin wins /\ UNCHANGED <<active, asked>>

\* handle_pty_exited: the list may settle on another window; its screen is
\* requested.  The last exit ends the tab.
HandlePtyExited(m) ==
    /\ UNCHANGED <<session, grid, told, replay>>
    /\ \/ /\ m.pane \notin wins
          /\ UNCHANGED <<wins, active, gone, asked>>
       \/ /\ wins = {m.pane}
          /\ wins' = {} /\ active' = None /\ gone' = TRUE /\ UNCHANGED asked
       \/ /\ m.pane \in wins /\ wins' = wins \ {m.pane} /\ UNCHANGED gone
          /\ active' \in wins'
          /\ IF active' = active THEN UNCHANGED asked ELSE Ask("snapshot", active')

\* handle_detached: back to a plain tab with a clear screen.  The connection is
\* closed: what was asked after the request to detach is not answered.
HandleDetached ==
    /\ session' = FALSE /\ wins' = {} /\ active' = None
    /\ SupersedePendingReplay
    /\ ResetFrameForReplay(None, 0, <<>>) /\ lost' = {}
    /\ asked' = <<>>
    /\ UNCHANGED <<gone, grid, told>>

ApplyMuxMessage ==
    /\ ~gone /\ chan # <<>> /\ chan' = Tail(chan) /\ pumping' = TRUE
    /\ LET m == Head(chan)
       IN  CASE m.kind = "snapshot" -> HandleSnapshot(m)
             [] m.kind = "output" -> HandlePtyOutput(m)
             [] m.kind = "welcome" -> HandleWelcome(m)
             [] m.kind = "created" -> HandlePaneCreated(m)
             [] m.kind = "switch" -> HandleSwitchWindow(m)
             [] m.kind = "exited" -> HandlePtyExited(m)
             [] m.kind = "detached" -> HandleDetached
    /\ UNCHANGED <<daemon, ops>>
-----------------------------------------------------------------------------
(* Input events: between two pumps.                                        *)

SwitchTo(p) ==
    /\ Initiative("switch") /\ ~gone /\ ~pumping /\ p \in wins
    /\ active' = p /\ Ask("snapshot", p)
    /\ UNCHANGED <<session, wins, gone, grid, told, replay, pumping, daemon, chan>>

UserAsks(kind) ==
    /\ Initiative(kind) /\ ~gone /\ ~pumping /\ session /\ wins # {}
    /\ \A i \in DOMAIN asked : asked[i].kind # "detach"
    /\ Ask(kind, None)
    /\ UNCHANGED <<tab, replay, pumping, daemon, chan>>

\* defer_resize_into_pending_switch: the worker keeps its size, the core is
\* resized after the swap; the last resize counts.
DeferResizeIntoPendingSwitch(d) ==
    IF pending = NoSwitch THEN pending
    ELSE [pending EXCEPT !.resize = IF d = pending.dim THEN NoDim ELSE d]

Resize(d) ==
    /\ Initiative("resize") /\ ~gone /\ ~pumping /\ d # grid
    /\ grid' = d /\ core' = [core EXCEPT !.dim = d]
    /\ restore' = NoRestore
    /\ pending' = DeferResizeIntoPendingSwitch(d)
    /\ told' = IF session THEN [p \in PaneIds |-> IF p \in wins THEN d ELSE told[p]]
               ELSE told
    /\ UNCHANGED <<session, wins, active, gone, redispatch, lost, pumping, daemon,
                   asked, chan>>
-----------------------------------------------------------------------------
(* The daemon and the bridge.                                              *)

Frame(kind, p, k) == [kind |-> kind, pane |-> p, upto |-> k]

Picture(p, size) == [kind |-> "snapshot", pane |-> p, upto |-> out[p], size |-> size]

\* One snapshot per pane of the session, in the order of the ids.
Pictures(size) ==
    SelectSeq([p \in PaneIds |-> Picture(p, size)], LAMBDA m : m.pane \in live)

\* `emterm mux attach`: a bridge connects and the daemon says Welcome, at times
\* twice.
Connect ==
    /\ Initiative("connect") /\ ~gone /\ ~session /\ chan = <<>> /\ asked = <<>>
    /\ \E p \in IF live = {} THEN {None} ELSE live :
         LET m == [kind |-> "welcome", pane |-> p, panes |-> live]
         IN  chan' = <<m>> \/ ("dup" \in Faults /\ chan' = <<m, m>>)
    /\ UNCHANGED <<tab, replay, pumping, daemon, asked>>

DaemonAnswers ==
    /\ asked # <<>> /\ asked' = Tail(asked)
    /\ \A i \in DOMAIN chan : chan[i].kind # "detached"
    /\ LET r == Head(asked)
       IN  \/ /\ r.kind = "attach"
              /\ streaming' = TRUE
              /\ \E size \in Kinds : chan' = chan \o Pictures(size)
              /\ UNCHANGED <<live, out>>
           \/ /\ r.kind = "snapshot" /\ r.pane \in live
              /\ \E size \in Kinds : chan' = Append(chan, Picture(r.pane, size))
              /\ UNCHANGED daemon
           \/ /\ r.kind = "snapshot" /\ r.pane \notin live
              /\ UNCHANGED <<daemon, chan>>
           \/ /\ r.kind = "create"
              /\ streaming' = TRUE
              /\ \E p \in PaneIds :
                   /\ out[p] = 0 /\ p \notin live
                   /\ \A q \in PaneIds : q < p => (q \in live \/ out[q] > 0)
                   /\ live' = live \cup {p}
                   /\ chan' = Append(chan, Frame("created", p, 0))
              /\ UNCHANGED out
           \/ /\ r.kind = "create" /\ \A p \in PaneIds : p \in live \/ out[p] > 0
              /\ UNCHANGED <<daemon, chan>>
           \/ /\ r.kind = "detach"
              /\ streaming' = FALSE
              /\ chan' = Append(chan, Frame("detached", None, 0))
              /\ UNCHANGED <<live, out>>
    /\ UNCHANGED <<tab, replay, pumping, ops>>

Streamed(m) == chan' = IF streaming THEN Append(chan, m) ELSE chan

DaemonOutput(p) ==
    /\ p \in live /\ out[p] < MaxOut
    /\ out' = [out EXCEPT ![p] = @ + 1]
    /\ Streamed(Frame("output", p, out'[p]))
    /\ UNCHANGED <<tab, replay, pumping, live, streaming, asked, ops>>

DaemonExit(p) ==
    /\ Initiative("exit") /\ p \in live /\ live' = live \ {p}
    /\ out' = [out EXCEPT ![p] = MaxOut]
    /\ Streamed(Frame("exited", p, 0))
    /\ UNCHANGED <<tab, replay, pumping, streaming, asked>>

DaemonSwitch(p) ==
    /\ Initiative("remote") /\ p \in live /\ streaming
    /\ Streamed(Frame("switch", p, 0))
    /\ UNCHANGED <<tab, replay, pumping, daemon, asked>>

Next ==
    \/ ApplyMuxMessage \/ Poll \/ SwitchWorker \/ RestoreWorker
    \/ Connect \/ DaemonAnswers
    \/ UserAsks("create") \/ UserAsks("detach")
    \/ \E d \in Dims : Resize(d)
    \/ \E p \in PaneIds :
         \/ SwitchTo(p) \/ DaemonOutput(p) \/ DaemonExit(p) \/ DaemonSwitch(p)

Spec == Init /\ [][Next]_vars

\* The event loop is woken by output, by a finished worker and by its timers;
\* the workers and the daemon run on.
FairSpec ==
    /\ Spec /\ WF_vars(ApplyMuxMessage) /\ WF_vars(Poll) /\ WF_vars(DaemonAnswers)
    /\ WF_vars(SwitchWorker) /\ WF_vars(RestoreWorker)
-----------------------------------------------------------------------------
\* Nothing is on its way between the active pane and the screen.  (A pane that
\* exits between Welcome and Attach is reported to nobody and stays in the list.)
Quiet ==
    /\ session /\ active \in live /\ ~pumping /\ chan = <<>> /\ asked = <<>>
    /\ pending = NoSwitch /\ redispatch = NoRedispatch /\ streaming

Faithful == core.pane = active /\ core.ok /\ core.upto = out[active]

Cores == [pane : {None} \cup PaneIds, upto : 0 .. MaxOut, ok : BOOLEAN,
          hist : Seq(PaneIds), dim : Dims]

Switches ==
    [pane : PaneIds, upto : 0 .. MaxOut, dim : Dims, queue : Seq(1 .. MaxOut),
     worker : {"running", "sent", "dead"}, resize : Dims \cup {NoDim}]

\* The types, and the active pane is one of the list whenever there is a list.
TypeOK ==
    /\ session \in BOOLEAN /\ wins \subseteq PaneIds /\ gone \in BOOLEAN
    /\ active \in wins \cup {None} /\ (wins # {} => active # None)
    /\ core \in Cores /\ pending \in Switches \cup {NoSwitch}
    /\ redispatch \in [pane : PaneIds, upto : 0 .. MaxOut] \cup {NoRedispatch}
    /\ grid \in Dims /\ told \in [PaneIds -> Dims \cup {NoDim}]
    /\ lost \subseteq {"refused", "covered"}

\* With nothing in flight the screen shows the whole output of the active pane,
\* nothing missing, repeated or foreign: unless a snapshot was malformed, a worker
\* could not be started, or a pane was created over a replay in flight, and only
\* until the next picture of the active pane.
SettledUnlessCovered == Quiet /\ lost = {} => Faithful

\* In no run, for the code does otherwise: the same of a pane created while a replay
\* is in flight, whose blank screen that replay overwrites (handle_pane_created
\* supersedes nothing).
SettledIsFaithful == Quiet /\ "refused" \notin lost => Faithful

\* The scrollback above the screen is that of the pane shown, and only once, but for
\* a pane created over a replay in flight.
HistoryIsOwn == "covered" \notin lost => core.hist \in {<<>>, <<core.pane>>}

\* A coalesced request belongs to the switch in flight (the debug_assert of
\* poll_pending_switch, and more: there is a switch in flight).
RedispatchMatches == redispatch # NoRedispatch => redispatch.pane = pending.pane

\* The core always has the size of the window, also right after a swap of a core
\* that was built for another size.
CoreAtGrid == core.dim = grid

\* Every pane of the group was told the size of the window.
PanesToldGrid == session => \A p \in wins : told[p] = grid

\* No more output waits for a swap than the cap.
QueueBounded == pending # NoSwitch => Len(pending.queue) <= QueueCap

\* The bytes of two panes are never mixed on the screen.
NeverMixed == core.ok
=============================================================================
