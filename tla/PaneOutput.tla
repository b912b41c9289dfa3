----------------------------- MODULE PaneOutput -----------------------------
(***************************************************************************)
(* One pane of the mux daemon and everything that moves its output: the    *)
(* PTY reader thread (pty_reader_loop), the pane's output target and       *)
(* suppression boundaries (PaneOutputTarget, OutputCapture), and one task  *)
(* per GUI connection (handle_connection with its client handlers), each   *)
(* with its bounded pane_output channel and its DeferredOutputQueue.       *)
(*                                                                         *)
(* Data: a chunk of PTY output is its sequence number; a snapshot is the   *)
(* number of the last chunk it contains.  Ring, shadow parser and byte     *)
(* encodings are abstracted away: the ring and shadow parser hold exactly  *)
(* the chunks 1..captured because both are written in the capture step.    *)
(*                                                                         *)
(* A Rust mutex section is one action, unless another thread can observe   *)
(* the middle of it: the visibility resume and the visible reattach read   *)
(* the capture state and commit in two actions.                            *)
(***************************************************************************)
EXTENDS Naturals, Sequences, FiniteSets

CONSTANTS
    Conn,          \* the GUI connections, named by their pane_output_tx
    Cap,           \* PTY_CHANNEL_CAPACITY
    MaxChunk,      \* bound: chunks the program in the pane prints before it ends
    MaxAttach,     \* bound: Attach messages one connection sends
    MaxRequest,    \* bound: RequestPaneSnapshot messages, all connections
    MaxToggle,     \* bound: SetVisibility messages, all connections
    Oversize       \* may a snapshot exceed MAX_SNAPSHOT_FRAME_PAYLOAD?

ASSUME PaneOutputAssumption ==
    /\ Cap \in Nat \ {0}
    /\ MaxChunk \in Nat
    /\ MaxAttach \in Nat
    /\ MaxRequest \in Nat
    /\ MaxToggle \in Nat
    /\ Oversize \in BOOLEAN

NoConn == "none"   \* Option::None of a connection's sender

ASSUME NoConnAssumption == NoConn \notin Conn

VARIABLES
    captured,   \* OutputCapture.last_captured
    entry,      \* OutputCapture.boundary, per sender; gen = 0: no entry
    nextGen,    \* OutputCapture.next_generation
    target,     \* PaneOutputTarget
    reader,     \* the reader thread: pc, current chunk, its destination
    queue,      \* pane_output channel of each connection
    wait,       \* tasks registered for a slot of that channel, FIFO
    held,       \* permits of that channel handed out and not yet used
    conn,       \* program counter of each connection task
    job,        \* boundary and continuation of the handler it is running
    visible,    \* visible_state
    deferred,   \* DeferredOutputQueue (this pane's items)
    reserve,    \* pending_deferred_reserve is Some
    wire,       \* frames admitted to the socket, in order
    kicker,     \* active_client_kick of the session
    kicked,     \* the kick oneshot has fired
    exited,     \* the pane has been destroyed
    exitNotice, \* pane_exit_sender: none, queued or lost
    attaches, requests, toggles   \* messages sent so far (bounds)

readerVars == <<captured, reader>>
captureVars == <<entry, nextGen>>
chanVars == <<queue, wait, held>>
taskVars == <<conn, job, visible, deferred, reserve>>
kickVars == <<kicker, kicked>>
exitVars == <<exited, exitNotice>>
boundVars == <<attaches, requests, toggles>>
vars == <<readerVars, captureVars, target, chanVars, taskVars, wire,
          kickVars, exitVars, boundVars>>

-----------------------------------------------------------------------------
(* Values *)

Chunk == 1 .. MaxChunk
Number == 0 .. MaxChunk
Kind == {"raw", "repl", "exit", "ondemand", "deferred", "resume", "reattach"}
SnapKind == {"ondemand", "deferred", "resume", "reattach"}

\* One frame: a PtyOutput chunk (raw), the replacement of a suppressed chunk,
\* the empty exit chunk, or a snapshot.  num is the chunk or the snapshot's
\* boundary; at is the number captured when the snapshot took its place in the
\* stream or, for a replacement, the boundary of the snapshot whose incomplete
\* trailing construct it continues (0: none); fits says that the snapshot was
\* small enough to be sent as a frame.
Frame == [kind : Kind, num : Number, at : Number, fits : BOOLEAN]

Output(k, n) == [kind |-> k, num |-> n, at |-> n, fits |-> TRUE]
Snapshot(k, b, a) == [kind |-> k, num |-> b, at |-> a, fits |-> TRUE]

\* DetachReason: the bits it carries.
NetworkDetach == {"network"}
HiddenByVisibility == {"hidden"}

Connected(c) == [state |-> "connected", tx |-> c, reason |-> {}]
Detached(r, o) == [state |-> "detached", tx |-> o, reason |-> r]

NoEntry == [b |-> 0, gen |-> 0]
NoJob == [b |-> 0, at |-> 0, fits |-> TRUE, back |-> "arm", then |-> "arm"]

\* The receiver of a connection's channel has not been dropped.
Open(c) == conn[c] # "gone"

-----------------------------------------------------------------------------
(* The pane_output channel: a tokio mpsc channel (external).  A slot that  *)
(* is released goes to the first registered waiter, never to a try_send.   *)

Free(c) == Len(queue[c]) + Cardinality(held[c]) < Cap

\* A slot of c is released while its permits are h and its waiters w.
Released(c, h, w) ==
    IF w = <<>> THEN /\ held' = [held EXCEPT ![c] = h]
                     /\ wait' = [wait EXCEPT ![c] = w]
    ELSE /\ held' = [held EXCEPT ![c] = h \cup {Head(w)}]
         /\ wait' = [wait EXCEPT ![c] = Tail(w)]

\* Dropping the permit p.
DropPermit(c, p) == Released(c, held[c] \ {p}, wait[c])

\* permit.send: nothing is delivered once the receiver is gone.
PermitSend(c, p, f) ==
    /\ held' = [held EXCEPT ![c] = @ \ {p}]
    /\ queue' = IF Open(c) THEN [queue EXCEPT ![c] = Append(@, f)] ELSE queue
    /\ UNCHANGED wait

\* First poll of reserve()/reserve_owned() by p: take a free slot or wait.
PollPermit(c, p) ==
    /\ p \notin held[c]
    /\ \A i \in 1 .. Len(wait[c]) : wait[c][i] # p
    /\ IF Free(c) THEN /\ held' = [held EXCEPT ![c] = @ \cup {p}]
                       /\ UNCHANGED wait
       ELSE /\ wait' = [wait EXCEPT ![c] = Append(@, p)]
            /\ UNCHANGED held
    /\ UNCHANGED queue

-----------------------------------------------------------------------------
(* OutputCapture *)

\* Faults: the chunk at the boundary is not covered; any client's entry counts.
CoveredBelow(c, n) == entry[c].gen > 0 /\ entry[c].b > n

\* BoundaryGuard::cover: the entry of this sender covers chunk n.
Covered(c, n) == entry[c].gen > 0 /\ entry[c].b >= n

\* record_with_construct: prune closed senders, then keep the larger boundary.
Record(c, b) ==
    LET pruned == [d \in Conn |-> IF Open(d) THEN entry[d] ELSE NoEntry]
    IN  IF pruned[c].gen = 0 \/ b >= pruned[c].b
        THEN /\ entry' = [pruned EXCEPT ![c] = [b |-> b, gen |-> nextGen + 1]]
             /\ nextGen' = nextGen + 1
        ELSE /\ entry' = pruned
             /\ UNCHANGED nextGen

-----------------------------------------------------------------------------
(* Locks held across actions *)

\* Fault: output_target is not kept from captured_read to the switch.
TargetUnlocked == TRUE

\* Nobody is inside resume_pane_with_permit, which holds output_target.
TargetFree == \A c \in Conn : conn[c] # "resumeCommit"

\* Nobody holds the session manager: collect_reattach_data keeps it from its
\* captured_read to the swap, resolve_pane_and_resume for the whole resume.
SessionFree == \A c \in Conn : conn[c] \notin {"attachSwap", "resumeCommit"}

-----------------------------------------------------------------------------
(* The reader thread: pty_reader_loop *)

ReaderAt(pc) == reader.pc = pc
NoChunk(pc) == [pc |-> pc, n |-> 0, tx |-> NoConn, gen |-> 0, tail |-> FALSE]
Goto(pc) == reader' = NoChunk(pc)   \* the reader is done with its chunk

\* Ok(n): the capture step.  Shadow parser and ring are updated and the chunk
\* gets its number in one critical section.
ReaderCapture ==
    /\ ReaderAt("read") /\ captured < MaxChunk
    /\ captured' = captured + 1
    /\ reader' = [reader EXCEPT !.pc = "captured", !.n = captured + 1]
    /\ UNCHANGED <<captureVars, target, chanVars, taskVars, wire, kickVars,
                   exitVars, boundVars>>

\* The forward decision, under output_target and the boundary exclusion.
ForwardDetached ==
    /\ ReaderAt("captured") /\ TargetFree
    /\ target.state = "detached"
    /\ Goto("read")
    /\ UNCHANGED <<captured, captureVars, target, chanVars, taskVars, wire,
                   kickVars, exitVars, boundVars>>

ForwardSuppressed(c) ==
    /\ ReaderAt("captured") /\ TargetFree
    /\ target = Connected(c) /\ Covered(c, reader.n)
    /\ reader' = [reader EXCEPT !.pc = "suppressed", !.tx = c,
                    !.gen = entry[c].gen, !.tail = (entry[c].b = reader.n)]
    /\ UNCHANGED <<captured, captureVars, target, chanVars, taskVars, wire,
                   kickVars, exitVars, boundVars>>

\* try_send finds a slot, or the receiver dropped (Closed), which detaches the
\* pane; ConnectedIsOpen shows that the second never happens.
ForwardSend(c) ==
    /\ ReaderAt("captured") /\ TargetFree
    /\ target = Connected(c) /\ ~Covered(c, reader.n)
    /\ Open(c) => Free(c)
    /\ IF Open(c)
       THEN /\ queue' = [queue EXCEPT ![c] = Append(@, Output("raw", reader.n))]
            /\ UNCHANGED target
       ELSE /\ target' = Detached(NetworkDetach, NoConn)
            /\ UNCHANGED queue
    /\ Goto("read")
    /\ UNCHANGED <<captured, captureVars, wait, held, taskVars, wire, kickVars,
                   exitVars, boundVars>>

ForwardFull(c) ==
    /\ ReaderAt("captured") /\ TargetFree
    /\ target = Connected(c) /\ ~Covered(c, reader.n)
    /\ Open(c) /\ ~Free(c)
    /\ reader' = [reader EXCEPT !.pc = "needSlot", !.tx = c]
    /\ UNCHANGED <<captured, captureVars, target, chanVars, taskVars, wire,
                   kickVars, exitVars, boundVars>>

\* NeedsSlot, a suppressed chunk's replacement and the exit chunk all wait for
\* a slot outside every lock.
ReaderPoll ==
    /\ reader.pc \in {"needSlot", "suppressed", "eofSend"}
    /\ Open(reader.tx)
    /\ PollPermit(reader.tx, "reader")
    /\ UNCHANGED <<readerVars, captureVars, target, taskVars, wire, kickVars,
                   exitVars, boundVars>>

ReaderGranted == "reader" \in held[reader.tx]

\* reserve_owned failed: the receiver was dropped before a slot was granted.
ReaderRefused == ~Open(reader.tx) /\ ~ReaderGranted

SlotSend ==
    /\ ReaderAt("needSlot") /\ ReaderGranted /\ TargetFree
    /\ ~Covered(reader.tx, reader.n)
    /\ PermitSend(reader.tx, "reader", Output("raw", reader.n))
    /\ Goto("read")
    /\ UNCHANGED <<captured, captureVars, target, taskVars, wire, kickVars,
                   exitVars, boundVars>>

\* A snapshot took its place in the channel while the chunk was waiting.
SlotCovered ==
    /\ ReaderAt("needSlot") /\ ReaderGranted /\ TargetFree
    /\ Covered(reader.tx, reader.n)
    /\ DropPermit(reader.tx, "reader")
    /\ reader' = [reader EXCEPT !.pc = "suppressed",
                    !.gen = entry[reader.tx].gen,
                    !.tail = (entry[reader.tx].b = reader.n)]
    /\ UNCHANGED <<captured, captureVars, target, queue, taskVars, wire,
                   kickVars, exitVars, boundVars>>

SlotClosed ==
    /\ ReaderAt("needSlot") /\ ReaderRefused /\ TargetFree
    /\ target' = IF target = Connected(reader.tx)
                 THEN Detached(NetworkDetach, NoConn) ELSE target
    /\ Goto("read")
    /\ UNCHANGED <<captured, captureVars, chanVars, taskVars, wire, kickVars,
                   exitVars, boundVars>>

\* run_suppressed_pipeline: nothing of the chunk has to reach the client
\* (prepared.is_empty()), or the destination is gone, which also removes the
\* reader from its waiters.
SuppressNothing ==
    /\ ReaderAt("suppressed")
    /\ ~ReaderGranted
    /\ \A i \in 1 .. Len(wait[reader.tx]) : wait[reader.tx][i] # "reader"
    /\ Goto("read")
    /\ UNCHANGED <<captured, captureVars, target, chanVars, taskVars, wire,
                   kickVars, exitVars, boundVars>>

\* The construct is re-read under the boundary exclusion: an entry re-recorded
\* while the reader waited for the slot supplies its own.
UsesTail ==
    LET e == entry[reader.tx]
    IN  /\ Covered(reader.tx, reader.n)
        /\ IF e.gen = reader.gen THEN reader.tail ELSE e.b = reader.n

SuppressSend ==
    /\ ReaderAt("suppressed") /\ ReaderGranted /\ TargetFree
    /\ PermitSend(reader.tx, "reader",
         [kind |-> "repl", num |-> reader.n, fits |-> TRUE,
          at |-> IF UsesTail THEN reader.n ELSE 0])
    /\ Goto("read")
    /\ UNCHANGED <<captured, captureVars, target, taskVars, wire, kickVars,
                   exitVars, boundVars>>

\* finalize_suppressed_replacement left nothing: the slot is given back.
SuppressEmpty ==
    /\ ReaderAt("suppressed") /\ ReaderGranted /\ TargetFree
    /\ DropPermit(reader.tx, "reader")
    /\ Goto("read")
    /\ UNCHANGED <<captured, captureVars, target, queue, taskVars, wire,
                   kickVars, exitVars, boundVars>>

\* Ok(0): the program has printed its last chunk and exited.  The destination is
\* read under output_target, the exit chunk is sent after the lock is released.
ReaderEof ==
    /\ ReaderAt("read") /\ captured = MaxChunk /\ TargetFree
    /\ IF target.state = "connected"
       THEN reader' = [reader EXCEPT !.pc = "eofSend", !.tx = target.tx]
       ELSE Goto("notify")
    /\ UNCHANGED <<captured, captureVars, target, chanVars, taskVars, wire,
                   kickVars, exitVars, boundVars>>

EofSend ==
    /\ ReaderAt("eofSend")
    /\ \/ ReaderGranted /\ PermitSend(reader.tx, "reader", Output("exit", 0))
       \/ ReaderRefused /\ UNCHANGED chanVars
    /\ Goto("notify")
    /\ UNCHANGED <<captured, captureVars, target, taskVars, wire, kickVars,
                   exitVars, boundVars>>

\* pane_exit_sender.try_send: the notice is dropped when the daemon-wide
\* channel is full.
EofNotify ==
    /\ ReaderAt("notify")
    /\ exitNotice' \in {"queued", "lost"}
    /\ Goto("done")
    /\ UNCHANGED <<captured, captureVars, target, chanVars, taskVars, wire,
                   kickVars, exited, boundVars>>

\* Err(e): the reader ends without telling anybody.
ReaderError ==
    /\ ReaderAt("read") /\ captured = MaxChunk
    /\ Goto("done")
    /\ UNCHANGED <<captured, captureVars, target, chanVars, taskVars, wire,
                   kickVars, exitVars, boundVars>>

Forward == \/ ForwardDetached
           \/ \E c \in Conn : \/ ForwardSuppressed(c) \/ ForwardSend(c)
                              \/ ForwardFull(c)

ReaderSlot == SlotSend \/ SlotCovered \/ SlotClosed
Suppress == SuppressNothing \/ SuppressSend \/ SuppressEmpty
Eof == EofSend \/ EofNotify

-----------------------------------------------------------------------------
(* The connection task: handle_connection and the client handlers *)

At(c, pc) == conn[c] = pc
Step(c, pc) == conn' = [conn EXCEPT ![c] = pc]

\* The client-message arm: route_message first flushes the deferred queue, then
\* dispatches the message.  The biased select puts this arm before the kick.
Receive(c) ==
    /\ At(c, "idle")
    /\ job' = [job EXCEPT ![c].then = "route"]
    /\ Step(c, "flush")
    /\ UNCHANGED <<readerVars, captureVars, target, chanVars, visible, deferred,
                   reserve, wire, kickVars, exitVars, boundVars>>

\* A message that changes nothing modelled here: input, resize, window commands.
RouteOther(c) ==
    /\ At(c, "route")
    /\ Step(c, "arm")
    /\ UNCHANGED <<readerVars, captureVars, target, chanVars, job, visible,
                   deferred, reserve, wire, kickVars, exitVars, boundVars>>

\* Fault: the pane keeps its state and only its reason changes.
HiddenReasonOnly(c) == [target EXCEPT !.reason = HiddenByVisibility]

\* evaluate_output_target(network_detach = false, visible = false): only the
\* owner's pane, or a detached pane nobody owns, becomes hidden.
Hidden(c) ==
    CASE target = Connected(c) -> Detached(HiddenByVisibility, c)
      [] target.state = "detached" /\ target.tx \in {c, NoConn} ->
           Detached(target.reason, c)
      [] OTHER -> target

\* SetVisibility(false).
Hide(c) ==
    /\ At(c, "route") /\ SessionFree /\ TargetFree
    /\ toggles < MaxToggle /\ visible[c]
    /\ toggles' = toggles + 1
    /\ visible' = [visible EXCEPT ![c] = FALSE]
    /\ target' = IF exited THEN target ELSE Hidden(c)
    /\ Step(c, "arm")
    /\ UNCHANGED <<readerVars, captureVars, chanVars, job, deferred, reserve,
                   wire, kickVars, exitVars, attaches, requests>>

\* Fault: a resume that finds the channel full is forgotten.
DeferNoResume(d) == d

\* defer_visibility_resume keeps one item per pane.
DeferResume(d) ==
    IF \E i \in 1 .. Len(d) : d[i].item = "resume" THEN d
    ELSE Append(d, [item |-> "resume", b |-> 0])

\* SetVisibility(true): try_reserve, then resume or defer the resume.
Show(c) ==
    /\ At(c, "route") /\ SessionFree
    /\ toggles < MaxToggle /\ ~visible[c]
    /\ toggles' = toggles + 1
    /\ visible' = [visible EXCEPT ![c] = TRUE]
    /\ \/ /\ exited
          /\ Step(c, "arm")
          /\ UNCHANGED <<held, job, deferred>>
       \/ /\ ~exited /\ Free(c)
          /\ held' = [held EXCEPT ![c] = @ \cup {"task"}]
          /\ job' = [job EXCEPT ![c].back = "arm"]
          /\ Step(c, "resume")
          /\ UNCHANGED deferred
       \/ /\ ~exited /\ ~Free(c)
          /\ deferred' = [deferred EXCEPT ![c] = DeferResume(@)]
          /\ Step(c, "arm")
          /\ UNCHANGED <<held, job>>
    /\ UNCHANGED <<readerVars, captureVars, target, queue, wait, reserve,
                   wire, kickVars, exitVars, attaches, requests>>

Owns(c) == target.state = "detached" /\ target.tx \in {c, NoConn}

\* resume_pane_with_permit, the early returns: the pane is gone, connected,
\* owned by another client, or still detached for the network.
ResumeNoChange(c) ==
    /\ At(c, "resume") /\ SessionFree /\ TargetFree
    /\ exited \/ ~Owns(c) \/ target.reason \ HiddenByVisibility # {}
    /\ target' = IF ~exited /\ Owns(c)
                 THEN Detached(target.reason \ HiddenByVisibility, c)
                 ELSE target
    /\ DropPermit(c, "task")
    /\ Step(c, job[c].back)
    /\ UNCHANGED <<readerVars, captureVars, queue, job, visible, deferred,
                   reserve, wire, kickVars, exitVars, boundVars>>

\* captured_read inside output_target; the lock is kept until ResumeCommit.
ResumeRead(c) ==
    /\ At(c, "resume") /\ SessionFree /\ TargetFree
    /\ ~exited /\ Owns(c) /\ target.reason \subseteq HiddenByVisibility
    /\ job' = [job EXCEPT ![c].b = captured]
    /\ Step(c, "resumeCommit")
    /\ UNCHANGED <<readerVars, captureVars, target, chanVars, visible,
                   deferred, reserve, wire, kickVars, exitVars, boundVars>>

\* Boundary record, snapshot insertion and the switch to Connected.
ResumeCommit(c) ==
    /\ At(c, "resumeCommit")
    /\ Record(c, job[c].b)
    /\ PermitSend(c, "task", Snapshot("resume", job[c].b, captured))
    /\ target' = Connected(c)
    /\ Step(c, job[c].back)
    /\ UNCHANGED <<readerVars, job, visible, deferred, reserve, wire, kickVars,
                   exitVars, boundVars>>

\* The snapshot would exceed one frame: the pane stays detached.
ResumeOversize(c) ==
    /\ At(c, "resumeCommit") /\ Oversize
    /\ DropPermit(c, "task")
    /\ Step(c, job[c].back)
    /\ UNCHANGED <<readerVars, captureVars, target, queue, job, visible,
                   deferred, reserve, wire, kickVars, exitVars, boundVars>>

\* RequestPaneSnapshot: captured_read, outside every lock the reader's forward
\* decision takes.  The GUI sends it only after its Attach (handle_welcome).
SnapshotRead(c) ==
    /\ At(c, "route") /\ SessionFree /\ ~exited
    /\ requests < MaxRequest /\ attaches[c] > 0
    /\ requests' = requests + 1
    /\ job' = [job EXCEPT ![c].b = captured]
    /\ Step(c, "snapshot")
    /\ UNCHANGED <<readerVars, captureVars, target, chanVars, visible,
                   deferred, reserve, wire, kickVars, exitVars, attaches,
                   toggles>>

\* DeferredOutputQueue::defer_chunk for this pane: newest wins in place, else
\* before a queued resume, else at the back.
DeferChunk(d, b) ==
    LET new == [item |-> "chunk", b |-> b]
        old == {i \in 1 .. Len(d) : d[i].item = "chunk"}
        res == {i \in 1 .. Len(d) : d[i].item = "resume"}
    IN  IF old # {} THEN [i \in 1 .. Len(d) |-> IF i \in old THEN new ELSE d[i]]
        ELSE IF res # {} THEN <<new>> \o d
        ELSE Append(d, new)

\* The channel is full: the snapshot waits, and no boundary is recorded yet.
Defer(c, b) ==
    /\ deferred' = [deferred EXCEPT ![c] = DeferChunk(@, b)]
    /\ UNCHANGED <<queue, captureVars>>

\* enqueue_pane_output_chunk: insertion and record are one boundary section.
SnapshotEnqueue(c) ==
    /\ At(c, "snapshot")
    /\ IF Free(c)
       THEN /\ queue' = [queue EXCEPT ![c] =
                           Append(@, Snapshot("ondemand", job[c].b, captured))]
            /\ Record(c, job[c].b)
            /\ UNCHANGED deferred
       ELSE Defer(c, job[c].b)
    /\ Step(c, "arm")
    /\ UNCHANGED <<readerVars, target, wait, held, job, visible, reserve, wire,
                   kickVars, exitVars, boundVars>>

\* The reply would exceed one frame: nothing is sent, nothing recorded.
SnapshotOversize(c) ==
    /\ At(c, "snapshot") /\ Oversize
    /\ Step(c, "arm")
    /\ UNCHANGED <<readerVars, captureVars, target, chanVars, job, visible,
                   deferred, reserve, wire, kickVars, exitVars, boundVars>>

\* Fault: whoever owns the pane, it is detached.
DetachAny(c) ==
    target' = IF ~exited THEN Detached(NetworkDetach, NoConn) ELSE target

\* detach_session_panes: only a pane connected to this very sender.
DetachOwn(c) ==
    target' = IF ~exited /\ target = Connected(c)
              THEN Detached(NetworkDetach, NoConn) ELSE target

\* Attach: first the panes of the old session are detached ...
AttachDetach(c) ==
    /\ At(c, "route") /\ SessionFree /\ TargetFree
    /\ attaches[c] < MaxAttach
    /\ attaches' = [attaches EXCEPT ![c] = @ + 1]
    /\ DetachOwn(c)
    /\ Step(c, "attach")
    /\ UNCHANGED <<readerVars, captureVars, chanVars, job, visible, deferred,
                   reserve, wire, kickVars, exitVars, requests, toggles>>

\* The kick of the connection replaced in active_client_kick fires; the
\* attaching connection gets a fresh receiver, which forgets an unheard kick.
KickOld(c) ==
    /\ kicked' = [d \in Conn |-> d # c /\ (kicked[d] \/ d = kicker)]
    /\ kicker' = c

\* Fault: the snapshot path is taken whether or not the client is hidden.
AttachAlwaysVisible(c) == TRUE

\* attach_visible, loaded from visible_state after the old panes are detached.
AttachVisible(c) == visible[c]

\* ... then collect_reattach_data: a hidden client adopts the pane without a
\* snapshot,
AttachHidden(c) ==
    /\ At(c, "attach") /\ SessionFree /\ TargetFree /\ ~AttachVisible(c)
    /\ target' = IF exited THEN target ELSE Detached(HiddenByVisibility, c)
    /\ KickOld(c)
    /\ Step(c, "arm")
    /\ UNCHANGED <<readerVars, captureVars, chanVars, job, visible, deferred,
                   reserve, wire, exitVars, boundVars>>

\* a visible one reads the capture state,
AttachRead(c) ==
    /\ At(c, "attach") /\ SessionFree /\ AttachVisible(c)
    /\ job' = [job EXCEPT ![c].b = captured]
    /\ Step(c, "attachSwap")
    /\ UNCHANGED <<readerVars, captureVars, target, chanVars, visible,
                   deferred, reserve, wire, kickVars, exitVars, boundVars>>

\* and after assembling the snapshot locks output_target, records the boundary
\* if the snapshot will be sent, and takes the pane.
AttachSwap(c) ==
    /\ At(c, "attachSwap") /\ TargetFree
    /\ KickOld(c)
    /\ IF exited
       THEN /\ Step(c, "arm")
            /\ UNCHANGED <<captureVars, target, job>>
       ELSE /\ \/ /\ Record(c, job[c].b)
                  /\ job' = [job EXCEPT ![c].fits = TRUE, ![c].at = captured]
               \/ /\ Oversize
                  /\ job' = [job EXCEPT ![c].fits = FALSE, ![c].at = captured]
                  /\ UNCHANGED captureVars
            /\ target' = Connected(c)
            /\ Step(c, "attachSend")
    /\ UNCHANGED <<readerVars, chanVars, visible, deferred, reserve, wire,
                   exitVars, boundVars>>

\* The frames of a visible reattach: PaneCreated, and SnapshotRestore if it
\* fits one frame.
ReattachFrame(c) == [kind |-> "reattach", num |-> job[c].b, at |-> job[c].at,
                     fits |-> job[c].fits]

\* send_reattach_data admits them before the task drains its channel again.
AttachSend(c) ==
    /\ At(c, "attachSend")
    /\ wire' = [wire EXCEPT ![c] = Append(@, ReattachFrame(c))]
    /\ Step(c, "arm")
    /\ UNCHANGED <<readerVars, captureVars, target, chanVars, job, visible,
                   deferred, reserve, kickVars, exitVars, boundVars>>

\* arm_pending_deferred_reserve: a reserve is pending while items wait.
ReserveWanted(c) == reserve[c] \/ deferred[c] # <<>>

\* arm_pending_deferred_reserve, the last thing every arm that can defer does.
Arm(c) ==
    /\ At(c, "arm")
    /\ reserve' = [reserve EXCEPT ![c] = ReserveWanted(c)]
    /\ job' = [job EXCEPT ![c] = NoJob]
    /\ Step(c, "idle")
    /\ UNCHANGED <<readerVars, captureVars, target, chanVars, visible,
                   deferred, wire, kickVars, exitVars, boundVars>>

\* The drain arm receives one chunk, then more with try_recv; the biased
\* select takes it only when the kick arm is not ready.  The batch may
\* stop at any length from 1: DRAIN_BATCH_LIMIT is abstracted to that choice.
\* The exit chunk destroys the pane (handle_destroy_pane).
Drain(c) ==
    /\ At(c, "drain") \/ (At(c, "idle") /\ ~kicked[c])
    /\ queue[c] # <<>>
    /\ Head(queue[c]).kind = "exit" => SessionFree
    /\ wire' = [wire EXCEPT ![c] = Append(@, Head(queue[c]))]
    /\ queue' = [queue EXCEPT ![c] = Tail(@)]
    /\ Released(c, held[c], wait[c])
    /\ exited' = (exited \/ Head(queue[c]).kind = "exit")
    /\ Step(c, "drain")
    /\ UNCHANGED <<readerVars, captureVars, target, job, visible, deferred,
                   reserve, kickVars, exitNotice, boundVars>>

DrainEnd(c) ==
    /\ At(c, "drain")
    /\ Step(c, "flush")
    /\ UNCHANGED <<readerVars, captureVars, target, chanVars, job, visible,
                   deferred, reserve, wire, kickVars, exitVars, boundVars>>

\* A queued resume is carried out only while the client is still visible.
ResumeWanted(c) == visible[c]

\* flush_deferred_output, one item per step: it ends when the queue is empty
\* or the channel is full, and the task goes on with the message that started
\* it, or with the end of the drain arm.
FlushEnd(c) ==
    /\ At(c, "flush")
    /\ \/ deferred[c] = <<>>
       \/ /\ deferred[c] # <<>> /\ ~Free(c)
          /\ Head(deferred[c]).item = "resume" => ResumeWanted(c)
    /\ Step(c, job[c].then)
    /\ UNCHANGED <<readerVars, captureVars, target, chanVars, job, visible,
                   deferred, reserve, wire, kickVars, exitVars, boundVars>>

FlushChunk(c) ==
    /\ At(c, "flush") /\ deferred[c] # <<>> /\ Free(c)
    /\ Head(deferred[c]).item = "chunk"
    /\ queue' = [queue EXCEPT ![c] =
                   Append(@, Snapshot("deferred", Head(deferred[c]).b, captured))]
    /\ Record(c, Head(deferred[c]).b)
    /\ deferred' = [deferred EXCEPT ![c] = Tail(@)]
    /\ UNCHANGED <<readerVars, target, wait, held, conn, job, visible, reserve,
                   wire, kickVars, exitVars, boundVars>>

\* A queued resume is dropped when the client has become hidden again.
FlushResume(c) ==
    /\ At(c, "flush") /\ deferred[c] # <<>>
    /\ Head(deferred[c]).item = "resume"
    /\ ResumeWanted(c) => Free(c)
    /\ deferred' = [deferred EXCEPT ![c] = Tail(@)]
    /\ IF ResumeWanted(c)
       THEN /\ held' = [held EXCEPT ![c] = @ \cup {"task"}]
            /\ job' = [job EXCEPT ![c].back = "flush"]
            /\ Step(c, "resume")
       ELSE UNCHANGED <<held, job, conn>>
    /\ UNCHANGED <<readerVars, captureVars, target, queue, wait, visible,
                   reserve, wire, kickVars, exitVars, boundVars>>

\* select! polls pending_deferred_reserve for the first time since it was
\* armed: only then does it take a slot or a place among the waiters.
PollReserve(c) ==
    /\ At(c, "idle") /\ reserve[c] /\ ~kicked[c]
    /\ PollPermit(c, "fair")
    /\ UNCHANGED <<readerVars, captureVars, target, taskVars, wire, kickVars,
                   exitVars, boundVars>>

\* The fair-reserve arm: apply_fair_permit_to_front_deferred_item.
FairReady(c) ==
    /\ At(c, "idle") /\ reserve[c] /\ ~kicked[c]
    /\ "fair" \in held[c]

FairChunk(c) ==
    /\ FairReady(c) /\ deferred[c] # <<>>
    /\ Head(deferred[c]).item = "chunk"
    /\ PermitSend(c, "fair", Snapshot("deferred", Head(deferred[c]).b, captured))
    /\ Record(c, Head(deferred[c]).b)
    /\ deferred' = [deferred EXCEPT ![c] = Tail(@)]
    /\ reserve' = [reserve EXCEPT ![c] = FALSE]
    /\ Step(c, "arm")
    /\ UNCHANGED <<readerVars, target, job, visible, wire, kickVars, exitVars,
                   boundVars>>

FairResume(c) ==
    /\ FairReady(c) /\ deferred[c] # <<>>
    /\ Head(deferred[c]).item = "resume" /\ ResumeWanted(c)
    /\ held' = [held EXCEPT ![c] = (@ \ {"fair"}) \cup {"task"}]
    /\ deferred' = [deferred EXCEPT ![c] = Tail(@)]
    /\ reserve' = [reserve EXCEPT ![c] = FALSE]
    /\ job' = [job EXCEPT ![c].back = "arm"]
    /\ Step(c, "resume")
    /\ UNCHANGED <<readerVars, captureVars, target, queue, wait, visible, wire,
                   kickVars, exitVars, boundVars>>

\* Nothing to send, or a resume that is no longer wanted.
FairNothing(c) ==
    /\ FairReady(c)
    /\ \/ deferred[c] = <<>>
       \/ deferred[c] # <<>> /\ Head(deferred[c]).item = "resume" /\ ~ResumeWanted(c)
    /\ DropPermit(c, "fair")
    /\ deferred' = [deferred EXCEPT ![c] =
                      IF @ = <<>> THEN @ ELSE Tail(@)]
    /\ reserve' = [reserve EXCEPT ![c] = FALSE]
    /\ Step(c, "arm")
    /\ UNCHANGED <<readerVars, captureVars, target, queue, job, visible, wire,
                   kickVars, exitVars, boundVars>>

\* The kick arm: the panes already belong to the new client.
KickedOut(c) ==
    /\ At(c, "idle") /\ kicked[c]
    /\ Step(c, "closing")
    /\ UNCHANGED <<readerVars, captureVars, target, chanVars, job, visible,
                   deferred, reserve, wire, kickVars, exitVars, boundVars>>

\* The client leaves, or writing to it fails (in particular while the
\* reattach frames are admitted): the task's own panes are detached.
Disconnect(c) ==
    /\ conn[c] \in {"idle", "attachSend"} /\ SessionFree /\ TargetFree
    /\ DetachOwn(c)
    /\ Step(c, "closing")
    /\ UNCHANGED <<readerVars, captureVars, chanVars, job, visible, deferred,
                   reserve, wire, kickVars, exitVars, boundVars>>

\* The task ends, its receiver is dropped and the client's stream is over.
Close(c) ==
    /\ At(c, "closing")
    /\ Step(c, "gone")
    /\ queue' = [queue EXCEPT ![c] = <<>>]
    /\ wait' = [wait EXCEPT ![c] = <<>>]
    /\ held' = [held EXCEPT ![c] = @ \cap {"reader"}]
    /\ deferred' = [deferred EXCEPT ![c] = <<>>]
    /\ reserve' = [reserve EXCEPT ![c] = FALSE]
    /\ job' = [job EXCEPT ![c] = NoJob]
    /\ wire' = [wire EXCEPT ![c] = <<>>]
    /\ UNCHANGED <<readerVars, captureVars, target, visible, kickVars,
                   exitVars, boundVars>>

\* run_pane_exit_task receives the notice and destroys the pane.
ExitTask ==
    /\ exitNotice = "queued" /\ SessionFree
    /\ exitNotice' = "none"
    /\ exited' = TRUE
    /\ UNCHANGED <<readerVars, captureVars, target, chanVars, taskVars, wire,
                   kickVars, boundVars>>

-----------------------------------------------------------------------------
(* The specification *)

\* A pane is created by a client (register_pane_and_start_reader), or waits
\* detached for the next one, as after a restart.
Init ==
    /\ captured = 0
    /\ entry = [c \in Conn |-> NoEntry]
    /\ nextGen = 0
    /\ target \in {Detached(NetworkDetach, NoConn)} \cup {Connected(c) : c \in Conn}
    /\ reader = NoChunk("read")
    /\ queue = [c \in Conn |-> <<>>]
    /\ wait = [c \in Conn |-> <<>>]
    /\ held = [c \in Conn |-> {}]
    /\ conn = [c \in Conn |-> "idle"]
    /\ job = [c \in Conn |-> NoJob]
    /\ visible = [c \in Conn |-> TRUE]
    /\ deferred = [c \in Conn |-> <<>>]
    /\ reserve = [c \in Conn |-> FALSE]
    /\ wire = [c \in Conn |-> <<>>]
    /\ kicker = target.tx
    /\ kicked = [c \in Conn |-> FALSE]
    /\ exited = FALSE
    /\ exitNotice = "none"
    /\ attaches = [c \in Conn |-> IF target = Connected(c) THEN 1 ELSE 0]
    /\ requests = 0
    /\ toggles = 0

Reader == ReaderCapture \/ Forward \/ ReaderPoll \/ ReaderSlot \/ Suppress
          \/ ReaderEof \/ Eof \/ ReaderError

Resume(c) == ResumeNoChange(c) \/ ResumeRead(c) \/ ResumeCommit(c) \/ ResumeOversize(c)
OnDemand(c) == SnapshotEnqueue(c) \/ SnapshotOversize(c)
Attach(c) == AttachHidden(c) \/ AttachRead(c) \/ AttachSwap(c) \/ AttachSend(c)
Flush(c) == FlushEnd(c) \/ FlushChunk(c) \/ FlushResume(c)
Fair(c) == FairChunk(c) \/ FairResume(c) \/ FairNothing(c)

\* A message from the client, or its end.
Client(c) == Receive(c) \/ Hide(c) \/ Show(c) \/ SnapshotRead(c) \/ AttachDetach(c)
             \/ Disconnect(c)

\* What the task does on its own.
Task(c) == RouteOther(c) \/ Resume(c) \/ OnDemand(c) \/ Attach(c) \/ Arm(c)
           \/ Drain(c) \/ DrainEnd(c) \/ Flush(c) \/ PollReserve(c) \/ Fair(c)
           \/ KickedOut(c) \/ Close(c)

\* Every connection has closed and the reader has ended.
Terminated ==
    /\ ReaderAt("done") /\ exitNotice # "queued"
    /\ \A c \in Conn : ~Open(c)
    /\ UNCHANGED vars

Next == \/ Reader
        \/ \E c \in Conn : Client(c) \/ Task(c)
        \/ ExitTask
        \/ Terminated

Spec == Init /\ [][Next]_vars

\* The reader thread and the connection tasks keep running, and a client that
\* stays keeps reading what it is sent.  Nothing obliges the program in the
\* pane to print or to end, or a client to send a message.
ReaderProgress == Forward \/ ReaderPoll \/ ReaderSlot \/ Suppress \/ Eof

\* The arms below the client-message arm.  A client whose messages never pause
\* does not keep the task from them while output waits: after
\* CLIENT_MSG_STARVATION_QUOTA messages they are polled (ConnectionLoop).
OutputArms(c) == KickedOut(c) \/ PollReserve(c) \/ Fair(c) \/ Drain(c)

FairSpec ==
    /\ Spec
    /\ WF_vars(ReaderProgress)
    /\ \A c \in Conn : WF_vars(Task(c)) /\ SF_vars(OutputArms(c))
    /\ WF_vars(ExitTask)

-----------------------------------------------------------------------------
(* Types *)

ReaderPc == {"read", "captured", "needSlot", "suppressed", "eofSend", "notify", "done"}
TaskPc == {"idle", "route", "arm", "resume", "resumeCommit", "snapshot", "attach",
           "attachSwap", "attachSend", "drain", "flush", "closing", "gone"}
Waiter == {"reader", "fair", "task"}
Item == [item : {"chunk", "resume"}, b : Number]

ReaderType ==
    /\ captured \in Number
    /\ reader \in [pc : ReaderPc, n : Number, tx : Conn \cup {NoConn},
                   gen : Nat, tail : BOOLEAN]
    /\ reader.pc \in {"needSlot", "suppressed", "eofSend"} => reader.tx \in Conn

CaptureType == entry \in [Conn -> [b : Number, gen : Nat]] /\ nextGen \in Nat

TargetType ==
    target \in [state : {"connected"}, tx : Conn, reason : {{}}]
         \cup [state : {"detached"}, tx : Conn \cup {NoConn},
               reason : SUBSET {"network", "hidden"}]

ChanType ==
    /\ queue \in [Conn -> Seq(Frame)]
    /\ wait \in [Conn -> Seq(Waiter)]
    /\ held \in [Conn -> SUBSET Waiter]

TaskType ==
    /\ conn \in [Conn -> TaskPc]
    /\ job \in [Conn -> [b : Number, at : Number, fits : BOOLEAN,
                         back : {"arm", "flush"}, then : {"arm", "route"}]]
    /\ visible \in [Conn -> BOOLEAN]
    /\ deferred \in [Conn -> Seq(Item)]
    /\ reserve \in [Conn -> BOOLEAN]

WireType == wire \in [Conn -> Seq(Frame)]

KickType == kicker \in Conn \cup {NoConn} /\ kicked \in [Conn -> BOOLEAN]

ExitType == exited \in BOOLEAN /\ exitNotice \in {"none", "queued", "lost"}

BoundType == attaches \in [Conn -> Nat] /\ requests \in Nat /\ toggles \in Nat

\* Every variable has its type.
TypeOK == /\ ReaderType /\ CaptureType /\ TargetType /\ ChanType
          /\ TaskType /\ WireType /\ KickType /\ ExitType /\ BoundType

-----------------------------------------------------------------------------
(* Properties *)

Leaving(c) == conn[c] \in {"closing", "gone"}

\* What the client of c receives, in order: what is on the wire and, unless the
\* task is ending, the reattach frames about to be sent and what waits in the
\* channel behind them.
Stream(c) ==
    IF Leaving(c) THEN wire[c]
    ELSE IF conn[c] = "attachSend" THEN Append(wire[c], ReattachFrame(c)) \o queue[c]
    ELSE wire[c] \o queue[c]

IsSnapshot(f) == f.kind \in SnapKind /\ f.fits

\* No raw chunk of s repeats what a snapshot before it contains.
Ordered(s) ==
    \A i, j \in 1 .. Len(s) :
        i < j /\ IsSnapshot(s[i]) /\ s[j].kind = "raw" => s[j].num > s[i].num

\* A chunk that a snapshot already contains never follows that snapshot to the
\* same client as raw output, on any of the snapshot paths and also when the
\* chunk was waiting for a slot (pty_reader_loop, OutputCapture).
NoDoubleApply == \A c \in Conn : Ordered(Stream(c))

\* What keeps NoDoubleApply true step by step: every snapshot on its way to a
\* client is at or below the boundary recorded for that client, and a client
\* that attaches finds its channel empty, because the pane was never its own.
Below(s, e) ==
    \A i \in 1 .. Len(s) : IsSnapshot(s[i]) => e.gen > 0 /\ s[i].num <= e.b
SnapshotsRecorded == \A c \in Conn : ~Leaving(c) => Below(Stream(c), entry[c])
NobodysIsNetwork ==
    target.state = "detached" /\ target.tx = NoConn => "network" \in target.reason
Unattached(c) == attaches[c] = 0 \/ conn[c] \in {"attach", "attachSwap"}
AttachingCounted ==
    \A c \in Conn : conn[c] \in {"attach", "attachSwap"} => attaches[c] > 0
UnattachedEmpty ==
    \A c \in Conn : Unattached(c) =>
        /\ queue[c] = <<>> /\ reader.tx # c
        /\ target.tx = c => target.state = "detached" /\ "network" \in target.reason
        /\ \A i \in 1 .. Len(deferred[c]) : deferred[c][i].item # "chunk"
        /\ conn[c] \notin {"snapshot", "resumeCommit", "attachSend"}
StreamInv == /\ NoDoubleApply /\ SnapshotsRecorded
             /\ NobodysIsNetwork /\ AttachingCounted /\ UnattachedEmpty

\* The reader withholds a chunk from a client only when a snapshot containing
\* it is already on its way to that client, and what replaces the chunk comes
\* after that snapshot (run_suppressed_pipeline, enqueue_pane_output_chunk).
SuppressedIsInSnapshot ==
    /\ reader.pc = "suppressed" /\ ~Leaving(reader.tx) =>
         \E i \in 1 .. Len(Stream(reader.tx)) :
            /\ IsSnapshot(Stream(reader.tx)[i])
            /\ Stream(reader.tx)[i].num >= reader.n
    /\ \A c \in Conn : \A j \in 1 .. Len(Stream(c)) :
         Stream(c)[j].kind = "repl" =>
           \E i \in 1 .. j - 1 : /\ IsSnapshot(Stream(c)[i])
                                 /\ Stream(c)[i].num >= Stream(c)[j].num

\* The last frame that replaced the client's screen, 0 if there was none.
LastReset(c) ==
    LET resets == {i \in 1 .. Len(Stream(c)) : Stream(c)[i].kind \in SnapKind}
    IN  IF resets = {} THEN 0
        ELSE CHOOSE i \in resets : \A j \in resets : j <= i

\* The reader has decided what happens to the chunks up to here.
Settled == IF reader.pc \in {"captured", "needSlot"} THEN captured - 1 ELSE captured

\* Every chunk after lo and up to Settled follows c's last reset as raw output.
DeliveredAfter(c, lo) ==
    \A n \in lo + 1 .. Settled :
        \E j \in LastReset(c) + 1 .. Len(Stream(c)) :
            Stream(c)[j].kind = "raw" /\ Stream(c)[j].num = n

Receives(c) == target = Connected(c) /\ ~Leaving(c)

\* A client the pane is connected to receives every chunk captured since its
\* last snapshot took its place in the stream; after a visibility resume it
\* receives every chunk that snapshot does not contain, because the resume
\* keeps output_target from captured_read to the switch.
Complete ==
    \A c \in Conn : Receives(c) =>
        DeliveredAfter(c,
            LET k == LastReset(c)
            IN  IF k = 0 THEN 0
                ELSE IF Stream(c)[k].kind = "resume" THEN Stream(c)[k].num
                ELSE Stream(c)[k].at)

\* After an on-demand snapshot that found room in the channel the client
\* receives every chunk the snapshot does not contain.
OnDemandLossless ==
    \A c \in Conn :
        /\ Receives(c) /\ LastReset(c) # 0
        /\ Stream(c)[LastReset(c)].kind = "ondemand"
        => DeliveredAfter(c, Stream(c)[LastReset(c)].num)

\* A replacement continues the incomplete trailing construct of the snapshot
\* that contains its chunk, also when that snapshot's entry was recorded again
\* while the reader waited for a slot (CoveredBoundary, the re-check of the
\* generation at the send).
ReplacementContinuesSnapshot ==
    \A c \in Conn : \A j \in 1 .. Len(Stream(c)) :
        Stream(c)[j].kind = "repl" =>
          /\ Stream(c)[j].at = Stream(c)[j].num
          /\ \E i \in 1 .. j - 1 : /\ IsSnapshot(Stream(c)[i])
                                   /\ Stream(c)[i].num = Stream(c)[j].num

\* Snapshots reach a client in the order in which they were read, so that an
\* older one never replaces a newer one: "a deferred item is never overtaken by
\* [...] a later RequestPaneSnapshot on the same connection"
\* (DeferredOutputQueue).
DeferredNotOvertaken ==
    \A c \in Conn : \A i, j \in 1 .. Len(Stream(c)) :
        /\ i < j
        /\ Stream(c)[i].kind = "ondemand"
        /\ Stream(c)[j].kind = "deferred"
        => Stream(c)[i].num <= Stream(c)[j].num

\* The client that attached last keeps the pane: no late message of the one it
\* evicted hides, resumes or takes it (owner checks of evaluate_output_target,
\* resume_pane_with_permit and detach_session_panes).
LastAttachedOwnsPane ==
    kicker # NoConn /\ ~exited =>
        \/ Leaving(kicker) \/ conn[kicker] \in {"attach", "attachSwap"}
        \/ target.tx = kicker

\* A live pane is never left connected to a client whose receiver was dropped,
\* however takeovers, kicks and disconnects interleave: detach_session_panes
\* runs before the receiver goes, and a kick fires only after its cause has
\* taken the pane.  handle_connection: this "prevents pty_reader_loop from
\* racing with the next connection's collect_reattach_data when the
\* output_target is still Connected(dead_tx)".
ConnectedIsOpen ==
    \A c \in Conn : target = Connected(c) /\ ~exited => Open(c)

\* What keeps LastAttachedOwnsPane true step by step: one task at a time is
\* inside resume_pane_with_permit, the pane is still its own there, and a task
\* that is about to connect the pane serves a client that can be seen.
ResumeExclusive ==
    \A c, d \in Conn : conn[c] = "resumeCommit" /\ conn[d] = "resumeCommit" => c = d
ResumeOwns == \A c \in Conn : conn[c] = "resumeCommit" => Owns(c)
ConnectingVisible ==
    \A c \in Conn : conn[c] \in {"resume", "resumeCommit", "attachSwap"} => visible[c]
OwnerInv == /\ ResumeExclusive /\ ResumeOwns /\ ConnectingVisible
            /\ LastAttachedOwnsPane

\* No step connects the pane to a client that is hidden (the visible_state
\* checks of handle_attach, flush_deferred_output and the fair-reserve arm).
NeverConnectHidden ==
    [][\A c \in Conn : target' = Connected(c) /\ target # Connected(c)
                        => visible[c]]_vars

\* Every chunk reaches the client or is withheld for a reason: what is suppressed is in
\* the snapshot, what replaces it continues it, and the pane is connected to an open
\* channel only (session/pane/output_target.rs, pty_spawn/mod.rs).
OutputArrives ==
    Complete /\ SuppressedIsInSnapshot /\ ReplacementContinuesSnapshot /\ ConnectedIsOpen

=============================================================================
