--------------------------- MODULE ConnectionLoop ---------------------------
(***************************************************************************)
(* The message loop of one GUI connection of the mux daemon                *)
(* (handle_connection), its OutboundAdmission and its outbound writer      *)
(* task.  The loop is a biased select over seven arms; every frame for the *)
(* client goes through the admission's bounded queue to the writer, and    *)
(* what does not fit is held in the remainder.                             *)
(*                                                                         *)
(* A lower arm of the select is taken only when no arm above it is ready.  *)
(* An event that arrives while the arms are being polled one by one counts *)
(* as arriving after the arm that was taken.                               *)
(*                                                                         *)
(* The panes, the deferred queue and the reader threads are reduced to the *)
(* chunks they put into the pane_output channel (PaneOutput has the rest). *)
(***************************************************************************)
EXTENDS Naturals, Sequences, FiniteSets, SequencesExt

CONSTANTS
    Pane,           \* the panes of the session
    Windows,        \* the number of its windows
    Cap,            \* OUTBOUND_QUEUE_CAPACITY
    WriterBatch,    \* WRITER_BATCH_LIMIT
    BatchLimit,     \* DRAIN_BATCH_LIMIT
    Quota,          \* CLIENT_MSG_STARVATION_QUOTA
    ChanCap,        \* PTY_CHANNEL_CAPACITY
    NotifyCap,      \* capacity of the notify broadcast channel
    MaxOutput,      \* bound: chunks put into the pane_output channel
    MaxReply,       \* bound: client messages that are answered
    MaxNotice,      \* bound: notifications broadcast
    MaxName         \* bound: a message renames only windows below this version

ASSUME ConnectionLoopAssumption ==
    /\ {Cap, WriterBatch, BatchLimit, Quota, ChanCap, NotifyCap} \subseteq Nat \ {0}
    /\ {Windows, MaxOutput, MaxReply, MaxNotice, MaxName} \subseteq Nat

Window == 1 .. Windows

VARIABLES
    pending,    \* pane_output_rx
    granted,    \* permits of its channel that reader threads hold
    deferred,   \* DeferredOutputQueue: the panes with a deferred snapshot
    origin,     \* history: the chunks put into the channel so far
    pane,       \* running, exited, or reaped by handle_destroy_pane
    name,       \* the windows' names, as versions
    renamed,    \* history: the windows whose last name RenameWindow set untold
    title,      \* what the title task has yet to broadcast
    notices,    \* notify_rx: the notifications retained for this receiver
    lagged,     \* notify_rx has lost notifications since the last recv
    broadcasts, \* notifications broadcast so far
    inbox,      \* the client's messages: none waiting, some, or end of stream
    served,     \* parity of the messages taken from the client
    answers,    \* messages answered so far
    kick,       \* kick_rx has fired
    loop,       \* program counter of the loop
    guard,      \* has_pending_output and allow_client_arm of this iteration
    count,      \* consecutive_client_msgs_while_deferred
    batch,      \* chunks drained in this batch, and the frames they merge to
    todo,       \* admit_blocking: the caller's frames not yet admitted
    then,       \* where the handler continues after success and after failure
    remainder,  \* OutboundAdmission.remainder
    reserve,    \* OutboundAdmission.pending_reserve is Some
    queue,      \* the outbound queue
    closed,     \* every sender of the outbound queue has been dropped
    writer,     \* the writer task: recv, batch or gone
    wbatch,     \* frames it has taken from the queue and not yet flushed
    acked,      \* Upgrading acknowledgements it has sent
    wire,       \* frames the client receives
    wasKicked,  \* was_kicked
    cut,        \* the writer failed or the teardown timed out
    accepted    \* history: every frame handed to the admission

sourceVars == <<pending, granted, deferred, origin, pane>>
noticeVars == <<name, renamed, title, notices, lagged, broadcasts>>
clientVars == <<inbox, served, answers>>
loopVars == <<loop, guard, count, batch, todo, then, wasKicked>>
admitVars == <<remainder, reserve, closed>>
writerVars == <<writer, wbatch, acked, wire>>
vars == <<sourceVars, noticeVars, clientVars, kick, loopVars, admitVars, queue,
          writerVars, cut, accepted>>

-----------------------------------------------------------------------------
(* Frames *)

\* A MuxMessage for the client.  id is the pane or window; data are the
\* numbers of the chunks it carries, or the version of a name.
Msg(t, i, d) == [type |-> t, id |-> i, data |-> d]

Control(t) == Msg(t, 0, <<>>)
Rename(w) == Msg("rename", w, <<name[w]>>)

\* A rename of window w among the frames of s, and the version the last one gives it.
RenameAt(s, w, i) == s[i].type = "rename" /\ s[i].id = w
Named(s, w) == \E i \in 1 .. Len(s) : RenameAt(s, w, i)
Says(s, w, v) == \E i \in 1 .. Len(s) :
                    /\ RenameAt(s, w, i) /\ s[i].data = <<v>>
                    /\ \A j \in 1 .. Len(s) : RenameAt(s, w, j) => j <= i

\* Fault: output of different panes is joined.
MergeAnyPane(frames, c) ==
    IF frames # <<>> /\ Last(frames).type = "output" /\ c.type = "output"
    THEN [frames EXCEPT ![Len(frames)].data = @ \o c.data]
    ELSE Append(frames, c)

\* merge_consecutive_chunks, one chunk: only raw output of the same pane is
\* joined; snapshots and the empty exit chunk stand alone.
Merge(frames, c) ==
    IF /\ frames # <<>> /\ Last(frames).type = "output" /\ c.type = "output"
       /\ Last(frames).id = c.id
    THEN [frames EXCEPT ![Len(frames)].data = @ \o c.data]
    ELSE Append(frames, c)

-----------------------------------------------------------------------------
(* OutboundAdmission *)

Gone == writer = "gone"
Room == Len(queue) < Cap
Holding == remainder # <<>> \/ reserve

\* Fault: the frames that do not fit are dropped.
AdmitAndDrop(fs) ==
    LET k == IF Len(fs) <= Cap - Len(queue) THEN Len(fs) ELSE Cap - Len(queue)
    IN  /\ queue' = queue \o SubSeq(fs, 1, k)
        /\ remainder' = <<>>
        /\ reserve' = FALSE

\* try_admit: what fits goes to the queue, the rest is held and a reservation
\* is armed; a closed queue swallows everything.
TryAdmit(fs) ==
    IF Gone THEN UNCHANGED <<queue, remainder, reserve>>
    ELSE LET k == IF Len(fs) <= Cap - Len(queue) THEN Len(fs) ELSE Cap - Len(queue)
         IN  /\ queue' = queue \o SubSeq(fs, 1, k)
             /\ remainder' = SubSeq(fs, k + 1, Len(fs))
             /\ reserve' = (k < Len(fs))

\* push_or_admit, for one frame after the other.
PushOrAdmit(fs) ==
    IF Holding THEN /\ remainder' = remainder \o fs
                    /\ UNCHANGED <<queue, reserve>>
    ELSE TryAdmit(fs)

Accepted(fs) == accepted' = accepted \o fs

-----------------------------------------------------------------------------
(* What happens around the loop *)

Running == loop \in {"top", "select", "drain", "blocking"}

\* A PtyOutputChunk.  The n-th chunk put into the channel is frame n there.
Chunk(t, p) == [type |-> t, id |-> p]
Enqueue(cs) ==
    /\ origin' = origin \o cs
    /\ pending' = pending \o
         [i \in 1 .. Len(cs) |-> Msg(cs[i].type, cs[i].id, <<Len(origin) + i>>)]

\* The slots of the channel that are not promised to a reader.
Avail == ChanCap - granted

\* A reader thread gets a slot for its chunk: reserve_owned on a full channel;
\* the try_send of the common case is this step with Produce right behind it.
ReaderReserve ==
    /\ Running /\ Len(pending) < Avail /\ Len(origin) + granted < MaxOutput
    /\ granted < Cardinality({p \in Pane : pane[p] = "running"})
    /\ granted' = granted + 1
    /\ UNCHANGED <<pending, deferred, origin, pane, noticeVars, clientVars, kick,
                   loopVars, admitVars, queue, writerVars, cut, accepted>>

\* It gives the slot back: a snapshot that entered the channel meanwhile
\* contains the chunk, or nothing of its replacement is left to send.
ReaderRelease ==
    /\ Running /\ granted > 0
    /\ granted' = granted - 1
    /\ UNCHANGED <<pending, deferred, origin, pane, noticeVars, clientVars, kick,
                   loopVars, admitVars, queue, writerVars, cut, accepted>>

\* It forwards a chunk of its pane, or the exit chunk.
Produce(p, t) ==
    /\ Running /\ granted > 0 /\ Len(origin) < MaxOutput
    /\ pane[p] = "running"
    /\ granted' = granted - 1
    /\ Enqueue(<<Chunk(t, p)>>)
    /\ pane' = IF t = "exited" THEN [pane EXCEPT ![p] = "exited"] ELSE pane
    /\ UNCHANGED <<deferred, noticeVars, clientVars, kick, loopVars, admitVars,
                   queue, writerVars, cut, accepted>>

\* broadcast::Sender::send: the oldest notification is lost when the receiver
\* is NotifyCap behind (external).
Broadcast(m) ==
    /\ broadcasts' = broadcasts + 1
    /\ IF Len(notices) < NotifyCap
       THEN notices' = Append(notices, m) /\ UNCHANGED lagged
       ELSE notices' = Append(Tail(notices), m) /\ lagged' = TRUE

\* apply_title_change: the name changes under the session lock and is
\* broadcast after the lock is released; the title task takes one at a time.
TitleSet(w) ==
    /\ Running /\ title = <<>> /\ broadcasts < MaxNotice
    /\ name' = [name EXCEPT ![w] = @ + 1]
    /\ renamed' = renamed \ {w}
    /\ title' = <<Msg("rename", w, <<name[w] + 1>>)>>
    /\ UNCHANGED <<sourceVars, notices, lagged, broadcasts, clientVars, kick,
                   loopVars, admitVars, queue, writerVars, cut, accepted>>

TitleSend ==
    /\ title # <<>>
    /\ Broadcast(Head(title))
    /\ title' = <<>>
    /\ UNCHANGED <<sourceVars, name, renamed, clientVars, kick, loopVars, admitVars, queue,
                   writerVars, cut, accepted>>

\* Another task broadcasts: prepare_upgrade's Upgrading, or a notification
\* that carries no state of its own.
OtherBroadcast(t) ==
    /\ Running /\ broadcasts < MaxNotice
    /\ Broadcast(Control(t))
    /\ UNCHANGED <<sourceVars, name, renamed, title, clientVars, kick, loopVars, admitVars,
                   queue, writerVars, cut, accepted>>

\* handle_rename_window: the name changes under the session lock, and nobody is
\* told.
RenameSilently(w) ==
    /\ name[w] < MaxName
    /\ name' = [name EXCEPT ![w] = @ + 1]
    /\ renamed' = renamed \cup {w}
    /\ UNCHANGED <<title, notices, lagged, broadcasts>>

\* The RenameWindow comes from another connection, a second client: the CLI has none.
OtherRename(w) ==
    /\ Running
    /\ RenameSilently(w)
    /\ UNCHANGED <<sourceVars, clientVars, kick, loopVars, admitVars, queue,
                   writerVars, cut, accepted>>

\* The client writes a message or closes its side.
ClientSends(s) ==
    /\ Running /\ inbox = "none"
    /\ inbox' = s
    /\ UNCHANGED <<sourceVars, noticeVars, served, answers, kick, loopVars,
                   admitVars, queue, writerVars, cut, accepted>>

\* Another client attaches to the session, or the session is destroyed.
Kick ==
    /\ Running /\ ~kick
    /\ kick' = TRUE
    /\ UNCHANGED <<sourceVars, noticeVars, clientVars, loopVars, admitVars, queue,
                   writerVars, cut, accepted>>

-----------------------------------------------------------------------------
(* The loop *)

Unforwarded == deferred # <<>> \/ pending # <<>>
Excludable == Unforwarded /\ ~Holding
PendingOutput == Unforwarded \/ Holding

\* The guards are computed before the select and stay as they are while it waits.
Top ==
    /\ loop = "top"
    /\ guard' = [output |-> PendingOutput, allow |-> ~Excludable \/ count < Quota]
    /\ loop' = "select"
    /\ UNCHANGED <<sourceVars, noticeVars, clientVars, kick, count, batch, todo,
                   then, wasKicked, admitVars, queue, writerVars, cut, accepted>>

PermitReady == reserve /\ (Room \/ Gone)
ClientReady == guard.allow /\ inbox # "none"
FairReady == deferred # <<>> /\ Len(pending) < Avail
DrainReady == pending # <<>> /\ ~Holding
NotifyReady == (notices # <<>> \/ lagged) /\ ~Holding

\* next_client_msg_starvation_count; counts from Quota on are not told apart.
Counted(client) ==
    count' = IF ~client \/ ~guard.output THEN 0
             ELSE IF count < Quota THEN count + 1 ELSE count

\* Fault: the reservation is not armed again.
PermitArmOnce ==
    /\ loop = "select" /\ PermitReady
    /\ IF Gone THEN remainder' = <<>> /\ UNCHANGED queue
       ELSE /\ queue' = Append(queue, Head(remainder))
            /\ remainder' = Tail(remainder)
    /\ reserve' = FALSE
    /\ Counted(FALSE)
    /\ loop' = "top"
    /\ UNCHANGED <<sourceVars, noticeVars, clientVars, kick, guard, batch, todo,
                   then, wasKicked, closed, writerVars, cut, accepted>>

\* Arm 1.  apply_reserve_result: one frame of the remainder goes out and the
\* next reservation is armed.
PermitArm ==
    /\ loop = "select" /\ PermitReady
    /\ IF Gone THEN remainder' = <<>> /\ reserve' = FALSE /\ UNCHANGED queue
       ELSE /\ queue' = Append(queue, Head(remainder))
            /\ remainder' = Tail(remainder)
            /\ reserve' = (Len(remainder) > 1)
    /\ Counted(FALSE)
    /\ loop' = "top"
    /\ UNCHANGED <<sourceVars, noticeVars, clientVars, kick, guard, batch, todo,
                   then, wasKicked, closed, writerVars, cut, accepted>>

\* flush_deferred_output: deferred snapshots move to the channel, oldest first,
\* while it has room.
Flushable ==
    IF Len(deferred) <= Avail - Len(pending) THEN Len(deferred)
    ELSE Avail - Len(pending)
Flushed == [i \in 1 .. Flushable |-> Chunk("snapshot", deferred[i])]
Kept == SubSeq(deferred, Flushable + 1, Len(deferred))

FlushDeferred == Enqueue(Flushed) /\ deferred' = Kept

\* Arm 2, what every message does: route_message flushes the deferred queue;
\* more messages may already be waiting behind this one.
TakeMessage ==
    /\ loop = "select" /\ ~PermitReady /\ ClientReady /\ inbox = "some"
    /\ inbox' \in {"none", "some"}
    /\ served' = 1 - served
    /\ Counted(TRUE)

\* A message that is not answered and changes nothing modelled here: input,
\* resize, the window commands other than RenameWindow.
MessageQuiet ==
    /\ TakeMessage
    /\ FlushDeferred
    /\ loop' = "top"
    /\ UNCHANGED <<granted, pane, noticeVars, answers, kick, guard, batch, todo, then,
                   wasKicked, admitVars, queue, writerVars, cut, accepted>>

\* RenameWindow from this client, which is not answered either.
MessageRename(w) ==
    /\ TakeMessage
    /\ RenameSilently(w)
    /\ FlushDeferred
    /\ loop' = "top"
    /\ UNCHANGED <<granted, pane, answers, kick, guard, batch, todo, then,
                   wasKicked, admitVars, queue, writerVars, cut, accepted>>

\* RequestPaneSnapshot: the snapshot enters the channel or is deferred, which
\* replaces an item of the same pane.
MessageSnapshot(p) ==
    /\ TakeMessage
    /\ Len(origin) < MaxOutput
    /\ IF Len(pending) + Flushable < Avail
       THEN /\ Enqueue(Append(Flushed, Chunk("snapshot", p)))
            /\ deferred' = Kept
       ELSE /\ Enqueue(Flushed)
            /\ deferred' = IF Contains(Kept, p) THEN Kept ELSE Append(Kept, p)
    /\ loop' = "top"
    /\ UNCHANGED <<granted, pane, noticeVars, answers, kick, guard, batch, todo, then,
                   wasKicked, admitVars, queue, writerVars, cut, accepted>>

\* Replies and reattach frames are admitted by admit_blocking.  ok and err say
\* where the handler goes when that succeeds or fails.
Answer(fs, ok, err) ==
    /\ TakeMessage
    /\ answers < MaxReply
    /\ answers' = answers + 1
    /\ FlushDeferred
    /\ todo' = fs
    /\ then' = [ok |-> ok, err |-> err]
    /\ reserve' = FALSE
    /\ Accepted(fs)
    /\ loop' = "blocking"
    /\ UNCHANGED <<granted, pane, noticeVars, guard, batch, wasKicked, remainder,
                   closed, queue, writerVars, cut>>

\* An Error reply; Attach, which also replaces kick_rx; and Detach.
MessageError == Answer(<<Control("reply")>>, "top", "top") /\ UNCHANGED kick
MessageAttach ==
    /\ Answer(<<Control("created"), Control("restore")>>, "top", "break")
    /\ kick' = FALSE
MessageDetach == Answer(<<Control("detached")>>, "break", "break") /\ UNCHANGED kick

ClientEnd ==
    /\ loop = "select" /\ ~PermitReady /\ ClientReady /\ inbox = "eof"
    /\ loop' = "break"
    /\ UNCHANGED <<sourceVars, noticeVars, clientVars, kick, guard, count, batch,
                   todo, then, wasKicked, admitVars, queue, writerVars, cut, accepted>>

\* Fault: the caller's frames are sent before the remainder.
BlockingSendFirst ==
    /\ loop = "blocking" /\ ~Gone /\ Room
    /\ remainder \o todo # <<>>
    /\ queue' = Append(queue, Head(todo \o remainder))
    /\ IF todo = <<>> THEN remainder' = Tail(remainder) /\ UNCHANGED todo
       ELSE todo' = Tail(todo) /\ UNCHANGED remainder
    /\ UNCHANGED <<sourceVars, noticeVars, clientVars, kick, loop, guard, count,
                   batch, then, wasKicked, reserve, closed, writerVars, cut, accepted>>

\* admit_blocking: the remainder first, then the caller's frames.
BlockingSend ==
    /\ loop = "blocking" /\ ~Gone /\ Room
    /\ remainder \o todo # <<>>
    /\ queue' = Append(queue, Head(remainder \o todo))
    /\ IF remainder # <<>> THEN remainder' = Tail(remainder) /\ UNCHANGED todo
       ELSE todo' = Tail(todo) /\ UNCHANGED remainder
    /\ UNCHANGED <<sourceVars, noticeVars, clientVars, kick, loop, guard, count,
                   batch, then, wasKicked, reserve, closed, writerVars, cut, accepted>>

BlockingDone ==
    /\ loop = "blocking" /\ remainder = <<>> /\ todo = <<>>
    /\ loop' = then.ok
    /\ UNCHANGED <<sourceVars, noticeVars, clientVars, kick, guard, count, batch,
                   todo, then, wasKicked, admitVars, queue, writerVars, cut, accepted>>

\* The writer is gone: the frame in hand is lost and the call fails.
BlockingFails ==
    /\ loop = "blocking" /\ Gone /\ remainder \o todo # <<>>
    /\ remainder' = IF remainder = <<>> THEN <<>> ELSE Tail(remainder)
    /\ todo' = <<>>
    /\ loop' = then.err
    /\ UNCHANGED <<sourceVars, noticeVars, clientVars, kick, guard, count, batch,
                   then, wasKicked, reserve, closed, queue, writerVars, cut, accepted>>

\* Arm 3.  The kick: Detached goes behind whatever is held, and the loop ends.
KickArm ==
    /\ loop = "select" /\ ~PermitReady /\ ~ClientReady /\ kick
    /\ PushOrAdmit(<<Control("detached")>>)
    /\ Accepted(<<Control("detached")>>)
    /\ wasKicked' = TRUE
    /\ loop' = "break"
    /\ UNCHANGED <<sourceVars, noticeVars, clientVars, kick, guard, count, batch,
                   todo, then, closed, writerVars, cut>>

\* Arm 4.  The writer has exited while the loop runs.
WriterArm ==
    /\ loop = "select" /\ ~PermitReady /\ ~ClientReady /\ ~kick /\ Gone
    /\ loop' = "ended"
    /\ closed' = TRUE
    /\ remainder' = <<>> /\ reserve' = FALSE
    /\ UNCHANGED <<sourceVars, noticeVars, clientVars, kick, guard, count, batch,
                   todo, then, wasKicked, queue, writerVars, cut, accepted>>

AboveFair == PermitReady \/ ClientReady \/ kick \/ Gone

\* Arm 5.  The fair reservation of the deferred queue is granted.
FairArm ==
    /\ loop = "select" /\ ~AboveFair /\ FairReady
    /\ Enqueue(<<Chunk("snapshot", Head(deferred))>>)
    /\ deferred' = Tail(deferred)
    /\ Counted(FALSE)
    /\ loop' = "top"
    /\ UNCHANGED <<granted, pane, noticeVars, clientVars, kick, guard, batch, todo,
                   then, wasKicked, admitVars, queue, writerVars, cut, accepted>>

\* Arm 6.  The drain arm: recv, then try_recv up to the batch limit.
DrainArm ==
    /\ loop = "select" /\ ~AboveFair /\ ~FairReady /\ DrainReady
    /\ batch' = [n |-> 1, frames |-> Merge(<<>>, Head(pending))]
    /\ pending' = Tail(pending)
    /\ loop' = "drain"
    /\ UNCHANGED <<granted, deferred, origin, pane, noticeVars, clientVars, kick,
                   guard, count, todo, then, wasKicked, admitVars, queue, writerVars,
                   cut, accepted>>

DrainMore ==
    /\ loop = "drain" /\ batch.n < BatchLimit /\ pending # <<>>
    /\ batch' = [n |-> batch.n + 1, frames |-> Merge(batch.frames, Head(pending))]
    /\ pending' = Tail(pending)
    /\ UNCHANGED <<granted, deferred, origin, pane, noticeVars, clientVars, kick,
                   loop, guard, count, todo, then, wasKicked, admitVars, queue,
                   writerVars, cut, accepted>>

\* The exited panes are reaped before the frames are admitted, then the
\* deferred queue is flushed.
DrainDone ==
    /\ loop = "drain" /\ (batch.n = BatchLimit \/ pending = <<>>)
    /\ pane' = [p \in Pane |->
                 IF \E i \in 1 .. Len(batch.frames) :
                      batch.frames[i].type = "exited" /\ batch.frames[i].id = p
                 THEN "reaped" ELSE pane[p]]
    /\ TryAdmit(batch.frames)
    /\ Accepted(batch.frames)
    /\ FlushDeferred
    /\ batch' = [n |-> 0, frames |-> <<>>]
    /\ Counted(FALSE)
    /\ loop' = "top"
    /\ UNCHANGED <<granted, noticeVars, clientVars, kick, guard, todo, then,
                   wasKicked, closed, writerVars, cut>>

AboveNotify == AboveFair \/ FairReady \/ DrainReady

\* Arm 7.  A notification is forwarded as it is.
NotifyArm ==
    /\ loop = "select" /\ ~AboveNotify /\ NotifyReady /\ ~lagged
    /\ PushOrAdmit(<<Head(notices)>>)
    /\ Accepted(<<Head(notices)>>)
    /\ notices' = Tail(notices)
    /\ Counted(FALSE)
    /\ loop' = "top"
    /\ UNCHANGED <<sourceVars, name, renamed, title, lagged, broadcasts, clientVars, kick,
                   guard, batch, todo, then, wasKicked, closed, writerVars, cut>>

\* Fault: nothing is sent again.
ResyncNothing == <<>>

\* Lagged: the names of all windows are sent again; an older one that is still on
\* its way behind them is told last.
Resync == [w \in Window |-> Rename(w)]

LaggedArm ==
    /\ loop = "select" /\ ~AboveNotify /\ NotifyReady /\ lagged
    /\ lagged' = FALSE
    /\ PushOrAdmit(Resync)
    /\ Accepted(Resync)
    /\ renamed' = {w \in renamed : Named(notices, w) \/ Named(title, w)}
    /\ Counted(FALSE)
    /\ loop' = "top"
    /\ UNCHANGED <<sourceVars, name, title, notices, broadcasts, clientVars, kick,
                   guard, batch, todo, then, wasKicked, closed, writerVars, cut>>

\* The loop has been left: the panes are detached, and teardown_flush admits
\* what is held.
Break ==
    /\ loop = "break"
    /\ reserve' = FALSE
    /\ loop' = "teardown"
    /\ UNCHANGED <<sourceVars, noticeVars, clientVars, kick, guard, count, batch,
                   todo, then, wasKicked, remainder, closed, queue, writerVars,
                   cut, accepted>>

TeardownSend ==
    /\ loop = "teardown" /\ remainder # <<>> /\ ~Gone /\ Room
    /\ queue' = Append(queue, Head(remainder))
    /\ remainder' = Tail(remainder)
    /\ UNCHANGED <<sourceVars, noticeVars, clientVars, kick, loopVars, reserve,
                   closed, writerVars, cut, accepted>>

\* Everything is admitted, or the queue is closed: the sender is dropped.
TeardownDone ==
    /\ loop = "teardown" /\ (remainder = <<>> \/ Gone)
    /\ closed' = TRUE
    /\ remainder' = <<>>
    /\ loop' = "join"
    /\ UNCHANGED <<sourceVars, noticeVars, clientVars, kick, guard, count, batch,
                   todo, then, wasKicked, reserve, queue, writerVars, cut, accepted>>

Join ==
    /\ loop = "join" /\ Gone
    /\ loop' = "ended"
    /\ UNCHANGED <<sourceVars, noticeVars, clientVars, kick, guard, count, batch,
                   todo, then, wasKicked, admitVars, queue, writerVars, cut, accepted>>

\* OUTBOUND_TEARDOWN_FLUSH_TIMEOUT: the admission is dropped, the writer task
\* goes on with what it was given.
Timeout ==
    /\ loop \in {"teardown", "join"}
    /\ loop' = "ended"
    /\ closed' = TRUE
    /\ remainder' = <<>>
    /\ cut' = TRUE
    /\ UNCHANGED <<sourceVars, noticeVars, clientVars, kick, guard, count, batch,
                   todo, then, wasKicked, reserve, queue, writerVars, accepted>>

-----------------------------------------------------------------------------
(* The writer task: run_outbound_writer *)

WriterRecv ==
    /\ writer = "recv" /\ queue # <<>>
    /\ wbatch' = <<Head(queue)>>
    /\ queue' = Tail(queue)
    /\ writer' = "batch"
    /\ UNCHANGED <<sourceVars, noticeVars, clientVars, kick, loopVars, admitVars,
                   acked, wire, cut, accepted>>

WriterMore ==
    /\ writer = "batch" /\ Len(wbatch) < WriterBatch /\ queue # <<>>
    /\ wbatch' = Append(wbatch, Head(queue))
    /\ queue' = Tail(queue)
    /\ UNCHANGED <<sourceVars, noticeVars, clientVars, kick, loopVars, admitVars,
                   writer, acked, wire, cut, accepted>>

Upgradings(s) == Cardinality({i \in 1 .. Len(s) : s[i].type = "upgrading"})

\* The batch is complete: it is written and flushed, and one acknowledgement is
\* sent if it held an Upgrading frame.
WriterWrite ==
    /\ writer = "batch" /\ (Len(wbatch) = WriterBatch \/ queue = <<>>)
    /\ wire' = wire \o wbatch
    /\ wbatch' = <<>>
    /\ acked' = IF Upgradings(wbatch) > 0 THEN acked + 1 ELSE acked
    /\ writer' = "recv"
    /\ UNCHANGED <<sourceVars, noticeVars, clientVars, kick, loopVars, admitVars,
                   queue, cut, accepted>>

\* The write fails; a part of the batch may have reached the client.
WriterFails ==
    /\ writer = "batch" /\ (Len(wbatch) = WriterBatch \/ queue = <<>>)
    /\ \E k \in 0 .. Len(wbatch) : wire' = wire \o SubSeq(wbatch, 1, k)
    /\ wbatch' = <<>> /\ queue' = <<>>
    /\ writer' = "gone"
    /\ cut' = TRUE
    /\ UNCHANGED <<sourceVars, noticeVars, clientVars, kick, loopVars, admitVars,
                   acked, accepted>>

WriterExit ==
    /\ writer = "recv" /\ queue = <<>> /\ closed
    /\ writer' = "gone"
    /\ UNCHANGED <<sourceVars, noticeVars, clientVars, kick, loopVars, admitVars,
                   queue, wbatch, acked, wire, cut, accepted>>

-----------------------------------------------------------------------------
(* The specification *)

Init ==
    /\ pending = <<>> /\ granted = 0 /\ deferred = <<>> /\ origin = <<>>
    /\ pane = [p \in Pane |-> "running"]
    /\ name = [w \in Window |-> 0] /\ renamed = {}
    /\ title = <<>> /\ notices = <<>> /\ lagged = FALSE /\ broadcasts = 0
    /\ inbox = "none" /\ served = 0 /\ answers = 0
    /\ kick = FALSE
    /\ loop = "top" /\ guard = [output |-> FALSE, allow |-> TRUE] /\ count = 0
    /\ batch = [n |-> 0, frames |-> <<>>]
    /\ todo = <<>> /\ then = [ok |-> "top", err |-> "top"]
    /\ wasKicked = FALSE
    /\ remainder = <<>> /\ reserve = FALSE /\ closed = FALSE
    /\ queue = <<>>
    /\ writer = "recv" /\ wbatch = <<>> /\ acked = 0 /\ wire = <<>>
    /\ cut = FALSE /\ accepted = <<>>

Outside ==
    \/ ReaderReserve
    \/ ReaderRelease
    \/ \E p \in Pane, t \in {"output", "exited"} : Produce(p, t)
    \/ \E w \in Window : TitleSet(w)
    \/ TitleSend
    \/ \E w \in Window : OtherRename(w)
    \/ \E t \in {"upgrading", "notify"} : OtherBroadcast(t)
    \/ \E s \in {"some", "eof"} : ClientSends(s)
    \/ Kick

ClientArm == \/ MessageQuiet \/ (\E w \in Window : MessageRename(w))
             \/ (\E p \in Pane : MessageSnapshot(p))
             \/ MessageError \/ MessageAttach \/ MessageDetach \/ ClientEnd
Blocking == BlockingSend \/ BlockingDone \/ BlockingFails
Drain == DrainArm \/ DrainMore \/ DrainDone
Notify == NotifyArm \/ LaggedArm
Teardown == Break \/ TeardownSend \/ TeardownDone \/ Join

Loop == \/ Top \/ PermitArm \/ ClientArm \/ Blocking \/ KickArm \/ WriterArm
        \/ FairArm \/ Drain \/ Notify \/ Teardown

Writer == WriterRecv \/ WriterMore \/ WriterWrite \/ WriterExit

Terminated == loop = "ended" /\ Gone /\ UNCHANGED vars

Next == Outside \/ Loop \/ Timeout \/ Writer \/ WriterFails \/ Terminated

Spec == Init /\ [][Next]_vars

-----------------------------------------------------------------------------
(* Types *)

FrameKind == {"output", "snapshot", "exited", "rename", "upgrading", "notify",
              "reply", "created", "restore", "detached"}
Frame == [type : FrameKind, id : Pane \cup Window \cup {0}, data : Seq(Nat)]

SourceType ==
    /\ granted \in 0 .. ChanCap
    /\ pending \in Seq(Frame) /\ Len(pending) <= Avail
    /\ deferred \in Seq(Pane)
    /\ origin \in Seq([type : FrameKind, id : Pane])
    /\ pane \in [Pane -> {"running", "exited", "reaped"}]

NoticeType ==
    /\ name \in [Window -> Nat] /\ renamed \subseteq Window
    /\ title \in Seq(Frame)
    /\ notices \in Seq(Frame) /\ Len(notices) <= NotifyCap
    /\ lagged \in BOOLEAN /\ broadcasts \in Nat

ClientType ==
    /\ inbox \in {"none", "some", "eof"} /\ served \in 0 .. 1 /\ answers \in Nat
    /\ kick \in BOOLEAN

LoopType ==
    /\ loop \in {"top", "select", "drain", "blocking", "break", "teardown", "join",
                "ended"}
    /\ guard \in [output : BOOLEAN, allow : BOOLEAN] /\ count \in 0 .. Quota
    /\ batch \in [n : 0 .. BatchLimit, frames : Seq(Frame)]
    /\ todo \in Seq(Frame)
    /\ then \in [ok : {"top", "break"}, err : {"top", "break"}]
    /\ wasKicked \in BOOLEAN

AdmitType ==
    /\ remainder \in Seq(Frame) /\ reserve \in BOOLEAN /\ closed \in BOOLEAN
    /\ queue \in Seq(Frame) /\ Len(queue) <= Cap

WriterType ==
    /\ writer \in {"recv", "batch", "gone"} /\ acked \in Nat
    /\ wbatch \in Seq(Frame) /\ wire \in Seq(Frame)
    /\ cut \in BOOLEAN

AcceptedType == accepted \in Seq(Frame)

\* Every variable has its type, and no channel holds more than its capacity.
TypeOK == /\ SourceType /\ NoticeType /\ ClientType /\ LoopType
          /\ AdmitType /\ WriterType /\ AcceptedType

-----------------------------------------------------------------------------
(* Properties *)

\* Frames leave in the order in which the producers handed them over, whichever
\* arm admits them and whatever is held, blocked or cut short: none overtakes a
\* held one, is sent twice or is skipped (OutboundAdmission, FR3).
Delivery == INSTANCE OrderedDelivery WITH delivered <- wire
InOrder == Delivery!Spec

\* As long as the writer works and the teardown has not timed out, no frame is
\* lost between the producers and the client.
NothingLost == ~cut => accepted = wire \o wbatch \o queue \o remainder \o todo

\* What keeps InOrder and NothingLost true step by step.  What has gone to the
\* writer is a prefix of what was accepted; while nothing is cut, the rest of it
\* is held, first the remainder and then the frames of the blocked reply; and a
\* queue that nobody reads any more stays empty.
Sent == wire \o wbatch \o queue
SentIsPrefix == IsPrefix(Sent, accepted)
RestIsHeld == ~cut => accepted = Sent \o remainder \o todo
WriterIdle == /\ writer = "recv" => wbatch = <<>>
              /\ Gone => wbatch = <<>> /\ queue = <<>>
CutOnlyAtTheEnd == /\ cut => Gone \/ loop = "ended"
                   /\ Gone /\ ~cut => closed
                   /\ closed => loop \in {"join", "ended"}
HeldWhere == /\ todo # <<>> => loop = "blocking"
             /\ loop = "drain" => ~Holding
             /\ reserve => remainder # <<>> /\ loop \in {"top", "select", "break"}
DeliveryInv == /\ SentIsPrefix /\ RestIsHeld /\ WriterIdle /\ CutOnlyAtTheEnd
               /\ HeldWhere

\* A client that does not read makes the daemon hold at most one batch of
\* output or one resync, and its Detached (gates of the drain and notify arms).
HeldBounded ==
    Len(remainder) <= (IF BatchLimit > Windows THEN BatchLimit ELSE Windows)
                        + (IF wasKicked THEN 1 ELSE 0)

\* Whenever the select waits with a remainder in hand, a reservation is armed
\* that will drain it, and there is none without a remainder
\* (OutboundAdmission: is_holding tracks both fields in lockstep).
HeldIsArmed ==
    loop \in {"top", "select"} /\ ~Gone => (reserve <=> remainder # <<>>)

\* The frames that carry chunks, and the numbers of these chunks in order.
Carrying(s) == SelectSeq(s, LAMBDA f : f.type \in {"output", "snapshot", "exited"})
Carried(s) == FlattenSeq([i \in 1 .. Len(Carrying(s)) |-> Carrying(s)[i].data])

\* Draining and merging keep every chunk, in the order of the channel, and a
\* frame carries output of one pane, one snapshot or one exit, never a mixture
\* (merge_consecutive_chunks).
OutputInOrder ==
    LET sent == Carrying(accepted \o batch.frames \o pending)
    IN  /\ Carried(sent) = [i \in 1 .. Len(origin) |-> i]
        /\ \A i \in 1 .. Len(sent) :
             /\ \A n \in Range(sent[i].data) : origin[n] = Chunk(sent[i].type, sent[i].id)
             /\ sent[i].type # "output" => Len(sent[i].data) = 1

\* The last name of w is the one the client has been told, or is about to be.
NameIsTold(w) ==
    LET told == accepted \o notices \o title
    IN  IF Named(told, w) THEN Says(told, w, name[w]) ELSE name[w] = 0

\* A client whose connection lasts is told the last name of every window that a
\* title named, also when notifications were lost because it lagged behind, when
\* the title falls between the name change and its broadcast, and when a message
\* had renamed the window before; and what a message named is told with the next
\* resync, unless an older title is on its way behind it (Lagged resync,
\* apply_title_change, handle_rename_window).
NamesFresh == Running /\ ~lagged => \A w \in Window \ renamed : NameIsTold(w)

\* The same of every window.  The code does not keep it: RenameWindow is not
\* broadcast, and one that comes between a title and its broadcast even leaves the
\* clients with the older name (handle_rename_window, apply_title_change).
EveryNameFresh == Running /\ ~lagged => \A w \in Window : NameIsTold(w)

\* An Upgrading acknowledgement is sent only for a frame the client has been
\* sent (run_outbound_writer: written and flushed, NFR4).
AckAfterFlush == acked <= Upgradings(wire)

\* Nothing reaches the client after Detached.
DetachedLast ==
    \A i \in 1 .. Len(wire) : wire[i].type = "detached" => i = Len(wire)

\* What the loop keeps on the way to the client: a reservation for what is held, nothing
\* after Detached, no acknowledgement ahead of its frame, and no title lost with a
\* notification (handle_connection, OutboundAdmission, run_outbound_writer).
ConnectionKept == HeldIsArmed /\ DetachedLast /\ AckAfterFlush /\ NamesFresh

=============================================================================
