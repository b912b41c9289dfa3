-------------------------- MODULE PaneOutput_proofs --------------------------
(***************************************************************************)
(* Proofs about PaneOutput for every value of its constants: types, who    *)
(* owns the pane, and what the streams of the clients hold.                *)
(*                                                                         *)
(* A client that attaches once, as the GUI does, never receives a chunk    *)
(* again after a snapshot that contains it, and misses nothing as long as  *)
(* the pane is connected to it: NoDoubleApply and OutputArrives, with      *)
(* MaxAttach <= 1.  For the second, each stream is described from its last *)
(* reset on: the raw chunks after it, and the snapshot that stands for the *)
(* boundary recorded for the client.                                       *)
(***************************************************************************)
EXTENDS PaneOutput, Integers, TLAPS

-----------------------------------------------------------------------------
(* Types *)

\* A frame has the type of the channel's and the wire's elements.
LEMMA FrameType ==
    ASSUME NEW k \in Kind, NEW n \in Number, NEW a \in Number
    PROVE  /\ Output(k, n) \in Frame
           /\ Snapshot(k, n, a) \in Frame
    BY DEF Output, Snapshot, Frame

\* Releasing a slot of a channel keeps the types of its permits and waiters.
LEMMA ReleasedType ==
    ASSUME ChanType, NEW c \in Conn, NEW h \in SUBSET Waiter, NEW w \in Seq(Waiter),
           Released(c, h, w)
    PROVE  /\ held' \in [Conn -> SUBSET Waiter]
           /\ wait' \in [Conn -> Seq(Waiter)]
    <1>1. CASE w = <<>>
        <2>1. held' = [held EXCEPT ![c] = h] /\ wait' = [wait EXCEPT ![c] = w]
            BY <1>1 DEF Released
        <2> QED BY <2>1 DEF ChanType
    <1>2. CASE w # <<>>
        <2>1. Head(w) \in Waiter /\ Tail(w) \in Seq(Waiter)
            BY <1>2
        <2>2. h \cup {Head(w)} \in SUBSET Waiter
            BY <2>1
        <2>3. /\ held' = [held EXCEPT ![c] = h \cup {Head(w)}]
              /\ wait' = [wait EXCEPT ![c] = Tail(w)]
            BY <1>2 DEF Released
        <2> QED BY <2>1, <2>2, <2>3 DEF ChanType
    <1> QED BY <1>1, <1>2

\* So does dropping a permit,
LEMMA DropPermitType ==
    ASSUME ChanType, NEW c \in Conn, NEW p, DropPermit(c, p)
    PROVE  /\ held' \in [Conn -> SUBSET Waiter]
           /\ wait' \in [Conn -> Seq(Waiter)]
    <1>1. held[c] \ {p} \in SUBSET Waiter /\ wait[c] \in Seq(Waiter)
        BY DEF ChanType
    <1> QED BY <1>1, ReleasedType DEF DropPermit

\* sending with one,
LEMMA PermitSendType ==
    ASSUME ChanType, NEW c \in Conn, NEW p, NEW f \in Frame, PermitSend(c, p, f)
    PROVE  /\ held' \in [Conn -> SUBSET Waiter]
           /\ wait' \in [Conn -> Seq(Waiter)]
           /\ queue' \in [Conn -> Seq(Frame)]
    BY DEF ChanType, PermitSend

\* and asking for one.
LEMMA PollPermitType ==
    ASSUME ChanType, NEW c \in Conn, NEW p \in Waiter, PollPermit(c, p)
    PROVE  /\ held' \in [Conn -> SUBSET Waiter]
           /\ wait' \in [Conn -> Seq(Waiter)]
           /\ queue' \in [Conn -> Seq(Frame)]
    <1>1. /\ held[c] \cup {p} \in SUBSET Waiter
          /\ Append(wait[c], p) \in Seq(Waiter)
        BY DEF ChanType
    <1>2. CASE Free(c)
        <2>1. held' = [held EXCEPT ![c] = @ \cup {p}] /\ UNCHANGED <<wait, queue>>
            BY <1>2 DEF PollPermit
        <2> QED BY <1>1, <2>1 DEF ChanType
    <1>3. CASE ~Free(c)
        <2>1. wait' = [wait EXCEPT ![c] = Append(@, p)] /\ UNCHANGED <<held, queue>>
            BY <1>3 DEF PollPermit
        <2> QED BY <1>1, <2>1 DEF ChanType
    <1> QED BY <1>2, <1>3

\* Recording a boundary keeps the type of the boundary entries.
LEMMA RecordType ==
    ASSUME CaptureType, NEW c \in Conn, NEW b \in Number, Record(c, b)
    PROVE  CaptureType'
    <1> DEFINE pruned == [d \in Conn |-> IF Open(d) THEN entry[d] ELSE NoEntry]
    <1>1. pruned \in [Conn -> [b : Number, gen : Nat]]
        BY PaneOutputAssumption DEF CaptureType, NoEntry, Number
    <1>2. CASE pruned[c].gen = 0 \/ b >= pruned[c].b
        <2>1. /\ entry' = [pruned EXCEPT ![c] = [b |-> b, gen |-> nextGen + 1]]
              /\ nextGen' = nextGen + 1
            BY <1>2 DEF Record
        <2>2. nextGen + 1 \in Nat
            BY DEF CaptureType
        <2> HIDE DEF pruned
        <2> QED BY <1>1, <2>1, <2>2 DEF CaptureType
    <1>3. CASE ~(pruned[c].gen = 0 \/ b >= pruned[c].b)
        <2>1. entry' = pruned /\ nextGen' = nextGen
            BY <1>3 DEF Record
        <2> QED BY <1>1, <2>1 DEF CaptureType
    <1> QED BY <1>2, <1>3

\* The initial state is well typed.
LEMMA InitType == Init => TypeOK
    <1> SUFFICES ASSUME Init PROVE TypeOK
        OBVIOUS
    <1>1. 0 \in Number
        BY PaneOutputAssumption DEF Number
    <1>2. ReaderType
        BY <1>1 DEF Init, ReaderType, NoChunk, ReaderPc
    <1>3. CaptureType
        BY <1>1 DEF Init, CaptureType, NoEntry
    <1>4. TargetType
        BY DEF Init, TargetType, Connected, Detached, NetworkDetach
    <1>5. ChanType
        BY DEF Init, ChanType
    <1>6. TaskType
        BY <1>1 DEF Init, TaskType, NoJob, TaskPc
    <1>7. KickType
        <2>1. target.tx \in Conn \cup {NoConn}
            BY <1>4 DEF TargetType
        <2> QED BY <2>1 DEF Init, KickType
    <1>8. WireType
        BY DEF Init, WireType
    <1>9. ExitType
        BY DEF Init, ExitType
    <1>10. BoundType
        BY DEF Init, BoundType, Connected
    <1> QED BY <1>2, <1>3, <1>4, <1>5, <1>6, <1>7, <1>8, <1>9, <1>10 DEF TypeOK

\* A group of variables that does not change keeps its type.
LEMMA UnchangedTypes ==
    /\ ReaderType /\ UNCHANGED readerVars => ReaderType'
    /\ CaptureType /\ UNCHANGED captureVars => CaptureType'
    /\ TargetType /\ UNCHANGED target => TargetType'
    /\ ChanType /\ UNCHANGED chanVars => ChanType'
    /\ TaskType /\ UNCHANGED taskVars => TaskType'
    /\ WireType /\ UNCHANGED wire => WireType'
    /\ KickType /\ UNCHANGED kickVars => KickType'
    /\ ExitType /\ UNCHANGED exitVars => ExitType'
    /\ BoundType /\ UNCHANGED boundVars => BoundType'
    BY DEF ReaderType, CaptureType, TargetType, ChanType, TaskType, WireType,
           KickType, ExitType, BoundType, readerVars, captureVars, chanVars,
           taskVars, kickVars, exitVars, boundVars

\* The reader drops its chunk.
LEMMA GotoType ==
    ASSUME ReaderType, NEW pc \in {"read", "notify", "done"}, Goto(pc),
           captured' = captured
    PROVE  ReaderType'
    <1>1. 0 \in Number
        BY PaneOutputAssumption DEF Number
    <1> QED BY <1>1 DEF ReaderType, Goto, NoChunk, ReaderPc

\* The pane is detached from the network, connected to a client or hidden by it.
LEMMA TargetTypes ==
    ASSUME NEW c \in Conn, NEW r \in SUBSET {"network", "hidden"}
    PROVE  /\ target' = Connected(c) => TargetType'
           /\ target' = Detached(r, c) => TargetType'
           /\ target' = Detached(r, NoConn) => TargetType'
    BY DEF TargetType, Connected, Detached

\* Newest wins in place, before a queued resume, or at the back.
LEMMA DeferChunkType ==
    ASSUME NEW d \in Seq(Item), NEW b \in Number
    PROVE  DeferChunk(d, b) \in Seq(Item)
    <1> DEFINE new == [item |-> "chunk", b |-> b]
               old == {i \in 1 .. Len(d) : d[i].item = "chunk"}
               res == {i \in 1 .. Len(d) : d[i].item = "resume"}
    <1>1. new \in Item
        BY DEF Item
    <1>2. CASE old # {}
        <2>1. DeferChunk(d, b) = [i \in 1 .. Len(d) |-> IF i \in old THEN new ELSE d[i]]
            BY <1>2 DEF DeferChunk
        <2>2. \A i \in 1 .. Len(d) : (IF i \in old THEN new ELSE d[i]) \in Item
            BY <1>1
        <2>3. Len(d) \in Nat
            OBVIOUS
        <2> HIDE DEF new, old
        <2> QED BY <2>1, <2>2, <2>3
    <1>3. CASE old = {}
        BY <1>1, <1>3 DEF DeferChunk
    <1> QED BY <1>2, <1>3

\* Every step of the reader thread keeps the types.
LEMMA ForwardType ==
    ASSUME TypeOK, NEW c \in Conn,
           ForwardSuppressed(c) \/ ForwardSend(c) \/ ForwardFull(c)
    PROVE  TypeOK'
    <1> USE DEF TypeOK
    <1>1. CASE ForwardSuppressed(c)
        <2> USE <1>1
        <2>1. ReaderType'
            BY DEF ForwardSuppressed, ReaderType, CaptureType, ReaderPc, ReaderAt
        <2> QED BY <2>1, UnchangedTypes DEF ForwardSuppressed
    <1>2. CASE ForwardSend(c)
        <2> USE <1>2
        <2>1. ReaderType'
            BY GotoType DEF ForwardSend
        <2>2. ChanType'
            <3>1. Output("raw", reader.n) \in Frame
                BY FrameType DEF ReaderType, Kind
            <3>2. queue' \in [Conn -> Seq(Frame)]
                <4>1. CASE Open(c)
                    <5>1. queue' = [queue EXCEPT ![c] = Append(@, Output("raw", reader.n))]
                        BY <4>1 DEF ForwardSend
                    <5>2. Append(queue[c], Output("raw", reader.n)) \in Seq(Frame)
                        BY <3>1 DEF ChanType
                    <5> QED BY <5>1, <5>2 DEF ChanType
                <4>2. CASE ~Open(c)
                    BY <4>2 DEF ForwardSend, ChanType
                <4> QED BY <4>1, <4>2
            <3> QED BY <3>2 DEF ForwardSend, ChanType
        <2>3. TargetType'
            BY TargetTypes DEF ForwardSend, NetworkDetach
        <2> QED BY <2>1, <2>2, <2>3, UnchangedTypes DEF ForwardSend
    <1>3. CASE ForwardFull(c)
        <2> USE <1>3
        <2>1. ReaderType'
            BY DEF ForwardFull, ReaderType, ReaderPc, ReaderAt
        <2> QED BY <2>1, UnchangedTypes DEF ForwardFull
    <1> QED BY <1>1, <1>2, <1>3

\* Types after any step of the reader thread.
LEMMA ReaderStepType ==
    ASSUME TypeOK, Reader
    PROVE  TypeOK'
    <1> USE DEF TypeOK
    <1>1. CASE ReaderCapture
        <2> USE <1>1
        <2>1. ReaderType'
            <3>1. captured + 1 \in Number
                BY PaneOutputAssumption DEF ReaderCapture, ReaderType, Number
            <3> QED BY <3>1 DEF ReaderCapture, ReaderType, ReaderPc, ReaderAt
        <2> QED BY <2>1, UnchangedTypes DEF ReaderCapture
    <1>2. CASE ForwardDetached
        <2> USE <1>2
        <2>1. ReaderType'
            BY GotoType DEF ForwardDetached
        <2> QED BY <2>1, UnchangedTypes DEF ForwardDetached
    <1>3. CASE SlotSend
        <2> USE <1>3
        <2>1. ReaderType'
            BY GotoType DEF SlotSend
        <2>2. ChanType'
            BY FrameType, PermitSendType DEF SlotSend, ChanType, ReaderType, ReaderAt, Kind
        <2> QED BY <2>1, <2>2, UnchangedTypes DEF SlotSend
    <1>4. CASE SlotCovered
        <2> USE <1>4
        <2>1. ReaderType'
            BY DEF SlotCovered, ReaderType, CaptureType, ReaderPc, ReaderAt
        <2>2. ChanType'
            BY DropPermitType DEF SlotCovered, ChanType, ReaderType, ReaderAt
        <2> QED BY <2>1, <2>2, UnchangedTypes DEF SlotCovered
    <1>5. CASE SlotClosed
        <2> USE <1>5
        <2>1. ReaderType'
            BY GotoType DEF SlotClosed
        <2>2. TargetType'
            BY TargetTypes DEF SlotClosed, NetworkDetach, TargetType, Detached
        <2> QED BY <2>1, <2>2, UnchangedTypes DEF SlotClosed
    <1>6. CASE SuppressNothing
        <2> USE <1>6
        <2>1. ReaderType'
            BY GotoType DEF SuppressNothing
        <2> QED BY <2>1, UnchangedTypes DEF SuppressNothing
    <1>7. CASE SuppressSend
        <2> USE <1>7
        <2>1. ReaderType'
            BY GotoType DEF SuppressSend
        <2>2. ChanType'
            <3>1. [kind |-> "repl", num |-> reader.n, fits |-> TRUE,
                   at |-> IF UsesTail THEN reader.n ELSE 0] \in Frame
                BY PaneOutputAssumption DEF ReaderType, Frame, Kind, Number
            <3>2. reader.tx \in Conn
                BY DEF SuppressSend, ReaderType, ReaderAt
            <3> QED BY <3>1, <3>2, PermitSendType DEF SuppressSend, ChanType
        <2> QED BY <2>1, <2>2, UnchangedTypes DEF SuppressSend
    <1>8. CASE SuppressEmpty
        <2> USE <1>8
        <2>1. ReaderType'
            BY GotoType DEF SuppressEmpty
        <2>2. ChanType'
            BY DropPermitType DEF SuppressEmpty, ChanType, ReaderType, ReaderAt
        <2> QED BY <2>1, <2>2, UnchangedTypes DEF SuppressEmpty
    <1>9. CASE ReaderEof
        <2> USE <1>9
        <2>1. ReaderType'
            BY GotoType DEF ReaderEof, ReaderType, TargetType, ReaderPc, ReaderAt
        <2> QED BY <2>1, UnchangedTypes DEF ReaderEof
    <1>10. CASE EofSend
        <2> USE <1>10
        <2>1. ReaderType'
            BY GotoType DEF EofSend
        <2>2. ChanType'
            <3>1. Output("exit", 0) \in Frame
                BY PaneOutputAssumption, FrameType DEF Kind, Number
            <3>2. reader.tx \in Conn
                BY DEF EofSend, ReaderType, ReaderAt
            <3> QED BY <3>1, <3>2, PermitSendType DEF EofSend, ChanType, chanVars
        <2> QED BY <2>1, <2>2, UnchangedTypes DEF EofSend
    <1>11. CASE EofNotify
        <2> USE <1>11
        <2>1. ReaderType'
            BY GotoType DEF EofNotify
        <2>2. ExitType'
            BY DEF EofNotify, ExitType
        <2> QED BY <2>1, <2>2, UnchangedTypes DEF EofNotify
    <1>12. CASE ReaderError
        <2> USE <1>12
        <2>1. ReaderType'
            BY GotoType DEF ReaderError
        <2> QED BY <2>1, UnchangedTypes DEF ReaderError
    <1>13. CASE ReaderPoll
        <2> USE <1>13
        <2>1. ChanType'
            BY PollPermitType DEF ReaderPoll, ChanType, ReaderType, Waiter
        <2> QED BY <2>1, UnchangedTypes DEF ReaderPoll
    <1> QED BY <1>1, <1>2, <1>3, <1>4, <1>5, <1>6, <1>7, <1>8, <1>9, <1>10, <1>11, <1>12, <1>13, ForwardType DEF Reader, Forward, ReaderSlot, Suppress, Eof

\* Every step a connection's task takes keeps the types.
LEMMA TaskStepType ==
    ASSUME TypeOK, NEW c \in Conn, Task(c)
    PROVE  TypeOK'
    <1> USE DEF TypeOK
    <1>1. CASE ResumeNoChange(c)
        <2> USE <1>1
        <2>1. TargetType'
            <3>1. CASE ~exited /\ Owns(c)
                <4>1. target.reason \ HiddenByVisibility \in SUBSET {"network", "hidden"}
                    BY <3>1 DEF TargetType, Owns
                <4> QED BY <3>1, <4>1, TargetTypes DEF ResumeNoChange
            <3> QED BY <3>1 DEF ResumeNoChange, TargetType
        <2>2. ChanType'
            BY DropPermitType DEF ResumeNoChange, ChanType
        <2>3. TaskType'
            BY DEF ResumeNoChange, TaskType, Step, TaskPc, At
        <2> QED BY <2>1, <2>2, <2>3, UnchangedTypes DEF ResumeNoChange
    <1>2. CASE ResumeRead(c)
        <2> USE <1>2
        <2>1. TaskType'
            BY DEF ResumeRead, TaskType, Step, TaskPc, ReaderType
        <2> QED BY <2>1, UnchangedTypes DEF ResumeRead
    <1>3. CASE ResumeCommit(c)
        <2> USE <1>3
        <2>1. CaptureType'
            BY RecordType DEF ResumeCommit, TaskType
        <2>2. TargetType'
            BY TargetTypes DEF ResumeCommit
        <2>3. ChanType'
            <3>1. Snapshot("resume", job[c].b, captured) \in Frame
                BY FrameType DEF TaskType, ReaderType, Kind
            <3> QED BY <3>1, PermitSendType DEF ResumeCommit, ChanType
        <2>4. TaskType'
            BY DEF ResumeCommit, TaskType, Step, TaskPc
        <2> QED BY <2>1, <2>2, <2>3, <2>4, UnchangedTypes DEF ResumeCommit
    <1>4. CASE ResumeOversize(c)
        <2> USE <1>4
        <2>1. ChanType'
            BY DropPermitType DEF ResumeOversize, ChanType
        <2>2. TaskType'
            BY DEF ResumeOversize, TaskType, Step, TaskPc
        <2> QED BY <2>1, <2>2, UnchangedTypes DEF ResumeOversize
    <1>5. CASE SnapshotEnqueue(c)
        <2> USE <1>5
        <2>1. CaptureType'
            BY RecordType DEF SnapshotEnqueue, TaskType, Defer, captureVars, CaptureType
        <2>2. ChanType'
            <3>1. Snapshot("ondemand", job[c].b, captured) \in Frame
                BY FrameType DEF TaskType, ReaderType, Kind
            <3>2. CASE Free(c)
                <4>1. /\ queue' = [queue EXCEPT ![c] =
                                     Append(@, Snapshot("ondemand", job[c].b, captured))]
                      /\ UNCHANGED <<wait, held>>
                    BY <3>2 DEF SnapshotEnqueue
                <4> QED BY <3>1, <4>1 DEF ChanType
            <3>3. CASE ~Free(c)
                BY <3>3 DEF SnapshotEnqueue, Defer, ChanType
            <3> QED BY <3>2, <3>3
        <2>3. TaskType'
            <3>1. DeferChunk(deferred[c], job[c].b) \in Seq(Item)
                BY DeferChunkType DEF TaskType
            <3> QED BY <3>1 DEF SnapshotEnqueue, Defer, TaskType, Step, TaskPc
        <2> QED BY <2>1, <2>2, <2>3, UnchangedTypes DEF SnapshotEnqueue
    <1>6. CASE SnapshotOversize(c)
        <2> USE <1>6
        <2>1. TaskType'
            BY DEF SnapshotOversize, TaskType, Step, TaskPc
        <2> QED BY <2>1, UnchangedTypes DEF SnapshotOversize
    <1>7. CASE AttachHidden(c)
        <2> USE <1>7
        <2>1. TargetType'
            <3>1. CASE exited
                BY <3>1 DEF AttachHidden, TargetType
            <3>2. CASE ~exited
                BY <3>2, TargetTypes DEF AttachHidden, HiddenByVisibility
            <3> QED BY <3>1, <3>2
        <2>2. TaskType'
            BY DEF AttachHidden, TaskType, Step, TaskPc
        <2>3. KickType'
            BY DEF AttachHidden, KickType, KickOld
        <2> QED BY <2>1, <2>2, <2>3, UnchangedTypes DEF AttachHidden
    <1>8. CASE AttachRead(c)
        <2> USE <1>8
        <2>1. TaskType'
            BY DEF AttachRead, TaskType, Step, TaskPc, ReaderType
        <2> QED BY <2>1, UnchangedTypes DEF AttachRead
    <1>9. CASE AttachSwap(c)
        <2> USE <1>9
        <2>1. CaptureType'
            BY RecordType DEF AttachSwap, TaskType, captureVars, CaptureType
        <2>2. TargetType'
            <3>1. CASE exited
                BY <3>1 DEF AttachSwap, TargetType
            <3>2. CASE ~exited
                BY <3>2, TargetTypes DEF AttachSwap
            <3> QED BY <3>1, <3>2
        <2>3. TaskType'
            <3>1. /\ UNCHANGED <<visible, deferred, reserve>>
                  /\ \E pc \in TaskPc : conn' = [conn EXCEPT ![c] = pc]
                BY DEF AttachSwap, Step, TaskPc
            <3>2. \/ job' = job
                  \/ job' = [job EXCEPT ![c] = [@ EXCEPT !.fits = TRUE, !.at = captured]]
                  \/ job' = [job EXCEPT ![c] = [@ EXCEPT !.fits = FALSE, !.at = captured]]
                BY DEF AttachSwap, TaskType
            <3>3. job' \in [Conn -> [b : Number, at : Number, fits : BOOLEAN,
                            back : {"arm", "flush"}, then : {"arm", "route"}]]
                <4> DEFINE J == [b : Number, at : Number, fits : BOOLEAN,
                            back : {"arm", "flush"}, then : {"arm", "route"}]
                <4>1. job \in [Conn -> J] /\ captured \in Number
                    BY DEF TaskType, ReaderType
                <4>2. /\ [job[c] EXCEPT !.fits = TRUE, !.at = captured] \in J
                      /\ [job[c] EXCEPT !.fits = FALSE, !.at = captured] \in J
                    BY <4>1
                <4> HIDE DEF J
                <4>3. job' \in [Conn -> J]
                    BY <3>2, <4>1, <4>2
                <4> QED BY <4>3 DEF J
            <3>4. conn' \in [Conn -> TaskPc]
                BY <3>1 DEF TaskType
            <3> QED BY <3>1, <3>3, <3>4 DEF TaskType
        <2>4. KickType'
            BY DEF AttachSwap, KickType, KickOld
        <2> QED BY <2>1, <2>2, <2>3, <2>4, UnchangedTypes DEF AttachSwap
    <1>10. CASE AttachSend(c)
        <2> USE <1>10
        <2>1. TaskType'
            BY DEF AttachSend, TaskType, Step, TaskPc
        <2>2. WireType'
            <3>1. ReattachFrame(c) \in Frame
                BY DEF ReattachFrame, TaskType, Frame, Kind
            <3> QED BY <3>1 DEF AttachSend, WireType
        <2> QED BY <2>1, <2>2, UnchangedTypes DEF AttachSend
    <1>11. CASE Arm(c)
        <2> USE <1>11
        <2>1. TaskType'
            <3>1. ReserveWanted(c) \in BOOLEAN /\ NoJob \in [b : Number, at : Number,
                        fits : BOOLEAN, back : {"arm", "flush"}, then : {"arm", "route"}]
                BY PaneOutputAssumption DEF ReserveWanted, NoJob, TaskType, Number
            <3> QED BY <3>1 DEF Arm, TaskType, Step, TaskPc
        <2> QED BY <2>1, UnchangedTypes DEF Arm
    <1>12. CASE Drain(c)
        <2> USE <1>12
        <2>1. ChanType'
            <3>1. held[c] \in SUBSET Waiter /\ wait[c] \in Seq(Waiter)
                BY DEF ChanType
            <3>2. queue' \in [Conn -> Seq(Frame)]
                BY DEF Drain, ChanType
            <3> QED BY <3>1, <3>2, ReleasedType DEF Drain, ChanType
        <2>2. TaskType'
            BY DEF Drain, TaskType, Step, TaskPc
        <2>3. WireType'
            BY DEF Drain, WireType, ChanType
        <2>4. ExitType'
            BY DEF Drain, ExitType
        <2> QED BY <2>1, <2>2, <2>3, <2>4, UnchangedTypes DEF Drain
    <1>13. CASE DrainEnd(c)
        <2> USE <1>13
        <2>1. TaskType'
            BY DEF DrainEnd, TaskType, Step, TaskPc
        <2> QED BY <2>1, UnchangedTypes DEF DrainEnd
    <1>14. CASE FlushEnd(c)
        <2> USE <1>14
        <2>1. TaskType'
            BY DEF FlushEnd, TaskType, Step, TaskPc
        <2> QED BY <2>1, UnchangedTypes DEF FlushEnd
    <1>15. CASE FlushChunk(c)
        <2> USE <1>15
        <2>1. Head(deferred[c]).b \in Number /\ Tail(deferred[c]) \in Seq(Item)
            <3>1. deferred[c] \in Seq(Item) /\ deferred[c] # <<>>
                BY DEF FlushChunk, TaskType
            <3>2. Head(deferred[c]) \in Item /\ Tail(deferred[c]) \in Seq(Item)
                BY <3>1
            <3> QED BY <3>2 DEF Item
        <2>2. CaptureType'
            BY <2>1, RecordType DEF FlushChunk
        <2>3. ChanType'
            <3>1. Snapshot("deferred", Head(deferred[c]).b, captured) \in Frame
                BY <2>1, FrameType DEF ReaderType, Kind
            <3> QED BY <3>1 DEF FlushChunk, ChanType
        <2>4. TaskType'
            BY <2>1 DEF FlushChunk, TaskType
        <2> QED BY <2>2, <2>3, <2>4, UnchangedTypes DEF FlushChunk
    <1>16. CASE FlushResume(c)
        <2> USE <1>16
        <2>1. ChanType'
            <3>1. held[c] \cup {"task"} \in SUBSET Waiter
                BY DEF ChanType, Waiter
            <3>2. CASE ResumeWanted(c)
                BY <3>1, <3>2 DEF FlushResume, ChanType
            <3>3. CASE ~ResumeWanted(c)
                BY <3>3 DEF FlushResume, ChanType
            <3> QED BY <3>2, <3>3
        <2>2. TaskType'
            <3>1. Tail(deferred[c]) \in Seq(Item)
                BY DEF FlushResume, TaskType
            <3>2. CASE ResumeWanted(c)
                <4>1. /\ job' = [job EXCEPT ![c].back = "flush"]
                      /\ conn' = [conn EXCEPT ![c] = "resume"]
                      /\ deferred' = [deferred EXCEPT ![c] = Tail(@)]
                      /\ UNCHANGED <<visible, reserve>>
                    BY <3>2 DEF FlushResume, Step
                <4> QED BY <3>1, <4>1 DEF TaskType, TaskPc
            <3>3. CASE ~ResumeWanted(c)
                BY <3>1, <3>3 DEF FlushResume, TaskType
            <3> QED BY <3>2, <3>3
        <2> QED BY <2>1, <2>2, UnchangedTypes DEF FlushResume
    <1>17. CASE PollReserve(c)
        <2> USE <1>17
        <2>1. ChanType'
            BY PollPermitType DEF PollReserve, ChanType, Waiter
        <2> QED BY <2>1, UnchangedTypes DEF PollReserve
    <1>18. CASE FairChunk(c)
        <2> USE <1>18
        <2>1. Head(deferred[c]).b \in Number /\ Tail(deferred[c]) \in Seq(Item)
            <3>1. deferred[c] \in Seq(Item) /\ deferred[c] # <<>>
                BY DEF FairChunk, TaskType
            <3>2. Head(deferred[c]) \in Item /\ Tail(deferred[c]) \in Seq(Item)
                BY <3>1
            <3> QED BY <3>2 DEF Item
        <2>2. CaptureType'
            BY <2>1, RecordType DEF FairChunk
        <2>3. ChanType'
            <3>1. Snapshot("deferred", Head(deferred[c]).b, captured) \in Frame
                BY <2>1, FrameType DEF ReaderType, Kind
            <3> QED BY <3>1, PermitSendType DEF FairChunk, ChanType
        <2>4. TaskType'
            BY <2>1 DEF FairChunk, TaskType, Step, TaskPc
        <2> QED BY <2>2, <2>3, <2>4, UnchangedTypes DEF FairChunk
    <1>19. CASE FairResume(c)
        <2> USE <1>19
        <2>1. ChanType'
            <3>1. (held[c] \ {"fair"}) \cup {"task"} \in SUBSET Waiter
                BY DEF ChanType, Waiter
            <3> QED BY <3>1 DEF FairResume, ChanType
        <2>2. TaskType'
            <3>1. Tail(deferred[c]) \in Seq(Item)
                BY DEF FairResume, TaskType
            <3> QED BY <3>1 DEF FairResume, TaskType, Step, TaskPc
        <2> QED BY <2>1, <2>2, UnchangedTypes DEF FairResume
    <1>20. CASE FairNothing(c)
        <2> USE <1>20
        <2>1. ChanType'
            BY DropPermitType DEF FairNothing, ChanType
        <2>2. TaskType'
            BY DEF FairNothing, TaskType, Step, TaskPc
        <2> QED BY <2>1, <2>2, UnchangedTypes DEF FairNothing
    <1>21. CASE KickedOut(c)
        <2> USE <1>21
        <2>1. TaskType'
            BY DEF KickedOut, TaskType, Step, TaskPc
        <2> QED BY <2>1, UnchangedTypes DEF KickedOut
    <1>22. CASE Close(c)
        <2> USE <1>22
        <2>1. ChanType'
            BY DEF Close, ChanType
        <2>2. TaskType'
            BY PaneOutputAssumption DEF Close, TaskType, Step, TaskPc, NoJob, Number
        <2>3. WireType'
            BY DEF Close, WireType
        <2> QED BY <2>1, <2>2, <2>3, UnchangedTypes DEF Close
    <1>23. CASE RouteOther(c)
        <2> USE <1>23
        <2>1. TaskType'
            BY DEF RouteOther, TaskType, Step, TaskPc
        <2> QED BY <2>1, UnchangedTypes DEF RouteOther
    <1> QED BY <1>1, <1>2, <1>3, <1>4, <1>5, <1>6, <1>7, <1>8, <1>9, <1>10, <1>11,
               <1>12, <1>13, <1>14, <1>15, <1>16, <1>17, <1>18, <1>19, <1>20, <1>21,
               <1>22, <1>23
        DEF Task, Resume, OnDemand, Attach, Flush, Fair

\* Every message of a client keeps the types.
LEMMA ClientStepType ==
    ASSUME TypeOK, NEW c \in Conn, Client(c)
    PROVE  TypeOK'
    <1> USE DEF TypeOK
    <1>1. CASE Hide(c)
        <2> USE <1>1
        <2>1. TargetType'
            <3>1. target' \in {target, Detached(HiddenByVisibility, c), Detached(target.reason, c)}
                BY DEF Hide, Hidden
            <3>2. target.reason \in SUBSET {"network", "hidden"}
                BY DEF TargetType
            <3> QED BY <3>1, <3>2, TargetTypes DEF TargetType, HiddenByVisibility
        <2>2. TaskType'
            BY DEF Hide, TaskType, Step, TaskPc
        <2>3. BoundType'
            BY DEF Hide, BoundType
        <2> QED BY <2>1, <2>2, <2>3, UnchangedTypes DEF Hide
    <1>2. CASE Show(c)
        <2> USE <1>2
        <2>1. ChanType'
            BY DEF Show, ChanType, Waiter
        <2>2. TaskType'
            <3>1. DeferResume(deferred[c]) \in Seq(Item)
                <4>1. [item |-> "resume", b |-> 0] \in Item
                    BY PaneOutputAssumption DEF Item, Number
                <4>2. deferred[c] \in Seq(Item)
                    BY DEF TaskType
                <4> QED BY <4>1, <4>2 DEF DeferResume
            <3>2. CASE ~exited /\ ~Free(c)
                BY <3>1, <3>2 DEF Show, TaskType, Step, TaskPc
            <3>3. CASE exited
                BY <3>3 DEF Show, TaskType, Step, TaskPc
            <3>4. CASE ~exited /\ Free(c)
                <4>1. /\ job' = [job EXCEPT ![c].back = "arm"]
                      /\ conn' = [conn EXCEPT ![c] = "resume"]
                      /\ visible' = [visible EXCEPT ![c] = TRUE]
                      /\ UNCHANGED <<deferred, reserve>>
                    BY <3>4 DEF Show, Step
                <4> QED BY <4>1 DEF TaskType, TaskPc
            <3> QED BY <3>2, <3>3, <3>4
        <2>3. BoundType'
            BY DEF Show, BoundType
        <2> QED BY <2>1, <2>2, <2>3, UnchangedTypes DEF Show
    <1>3. CASE SnapshotRead(c)
        <2> USE <1>3
        <2>1. TaskType'
            BY DEF SnapshotRead, TaskType, Step, TaskPc, ReaderType
        <2>2. BoundType'
            BY DEF SnapshotRead, BoundType
        <2> QED BY <2>1, <2>2, UnchangedTypes DEF SnapshotRead
    <1>4. CASE AttachDetach(c)
        <2> USE <1>4
        <2>1. TargetType'
            BY TargetTypes DEF AttachDetach, DetachOwn, NetworkDetach, TargetType
        <2>2. TaskType'
            BY DEF AttachDetach, TaskType, Step, TaskPc
        <2>3. BoundType'
            BY DEF AttachDetach, BoundType
        <2> QED BY <2>1, <2>2, <2>3, UnchangedTypes DEF AttachDetach
    <1>5. CASE Disconnect(c)
        <2> USE <1>5
        <2>1. TargetType'
            BY TargetTypes DEF Disconnect, DetachOwn, NetworkDetach, TargetType
        <2>2. TaskType'
            BY DEF Disconnect, TaskType, Step, TaskPc
        <2> QED BY <2>1, <2>2, UnchangedTypes DEF Disconnect
    <1>6. CASE Receive(c)
        <2> USE <1>6
        <2>1. TaskType'
            <3>1. /\ job' = [job EXCEPT ![c].then = "route"]
                  /\ conn' = [conn EXCEPT ![c] = "flush"]
                  /\ UNCHANGED <<visible, deferred, reserve>>
                BY DEF Receive, Step
            <3> QED BY <3>1 DEF TaskType, TaskPc
        <2> QED BY <2>1, UnchangedTypes DEF Receive
    <1> QED BY <1>1, <1>2, <1>3, <1>4, <1>5, <1>6 DEF Client

\* Every step of the system keeps the types.
LEMMA StepType == TypeOK /\ [Next]_vars => TypeOK'
    <1> SUFFICES ASSUME TypeOK, [Next]_vars PROVE TypeOK'
        OBVIOUS
    <1>1. CASE Reader
        BY <1>1, ReaderStepType
    <1>2. ASSUME NEW c \in Conn, Client(c) \/ Task(c) PROVE TypeOK'
        BY <1>2, ClientStepType, TaskStepType
    <1>3. CASE ExitTask
        <2>1. ExitType'
            BY <1>3 DEF ExitTask, ExitType
        <2> QED BY <1>3, <2>1, UnchangedTypes DEF ExitTask, TypeOK
    <1>4. CASE UNCHANGED vars
        BY <1>4, UnchangedTypes DEF vars, TypeOK
    <1> QED BY <1>1, <1>2, <1>3, <1>4 DEF Next, Terminated

\* In every reachable state, for any number of connections, any channel
\* capacity and any amount of output, every variable has its type.
THEOREM TypeCorrect == Spec => []TypeOK
    BY InitType, StepType, PTL DEF Spec

-----------------------------------------------------------------------------
(* The client that attached last owns the pane *)

\* A step of the reader, or any step that leaves the tasks and the owner alone.
LEMMA OwnerStays ==
    ASSUME TypeOK, OwnerInv, UNCHANGED <<conn, visible, kicker, target>>,
           exited => exited'
    PROVE  OwnerInv'
    BY DEF OwnerInv, ResumeExclusive, ResumeOwns, ConnectingVisible,
           LastAttachedOwnsPane, Leaving, Owns

\* A step of one task that changes neither the owner nor the pane's target and
\* takes the task to a place where it does not hold the output_target lock.
LEMMA OwnerMove ==
    ASSUME TypeOK, OwnerInv, NEW c \in Conn,
           NEW pc \in TaskPc, conn' = [conn EXCEPT ![c] = pc],
           conn[c] \in {"attachSwap", "attach"} => exited \/ pc = "attachSwap",
           Leaving(c) => pc \in {"closing", "gone"},
           pc # "resumeCommit",
           pc \in {"resume", "attachSwap"} => visible[c],
           UNCHANGED <<visible, kicker, target>>, exited => exited'
    PROVE  OwnerInv'
    <1>1. /\ \A d \in Conn : d # c => conn'[d] = conn[d]
          /\ conn'[c] = pc
        BY DEF TypeOK, TaskType
    <1>2. ResumeExclusive' /\ ResumeOwns' /\ ConnectingVisible'
        BY <1>1 DEF OwnerInv, ResumeExclusive, ResumeOwns, ConnectingVisible, Owns
    <1>3. LastAttachedOwnsPane'
        BY <1>1 DEF OwnerInv, LastAttachedOwnsPane, Leaving, TypeOK, KickType
    <1> QED BY <1>2, <1>3 DEF OwnerInv

\* A step of one task, taken while no other task is inside a resume, that may
\* change the owner, the target and its own client's visibility.
LEMMA OwnerTake ==
    ASSUME TypeOK, OwnerInv, NEW c \in Conn,
           NEW pc \in TaskPc, conn' = [conn EXCEPT ![c] = pc],
           conn[c] = "resumeCommit" \/ TargetFree,
           pc # "resumeCommit",
           pc \in {"resume", "attachSwap"} => visible'[c],
           \A d \in Conn : d # c => visible'[d] = visible[d],
           LastAttachedOwnsPane'
    PROVE  OwnerInv'
    <1>1. /\ \A d \in Conn : d # c => conn'[d] = conn[d]
          /\ conn'[c] = pc
        BY DEF TypeOK, TaskType
    <1>2. \A d \in Conn : conn'[d] # "resumeCommit"
        BY <1>1 DEF OwnerInv, ResumeExclusive, TargetFree
    <1>3. ResumeExclusive' /\ ResumeOwns' /\ ConnectingVisible'
        BY <1>1, <1>2 DEF OwnerInv, ResumeExclusive, ResumeOwns, ConnectingVisible
    <1> QED BY <1>3 DEF OwnerInv

\* The reader changes the target only when the connection it points at is gone.
LEMMA ReaderStepOwner ==
    ASSUME TypeOK, OwnerInv, Reader
    PROVE  OwnerInv'
    <1>1. UNCHANGED <<conn, visible, kicker, exited>>
        BY DEF Reader, ReaderCapture, Forward, ForwardDetached, ForwardSuppressed,
               ForwardSend, ForwardFull, ReaderPoll, ReaderSlot,
               SlotSend, SlotCovered, SlotClosed, Suppress, SuppressNothing,
               SuppressSend, SuppressEmpty, ReaderEof, Eof, EofSend, EofNotify,
               ReaderError, taskVars, kickVars, exitVars
    <1>2. CASE UNCHANGED target
        BY <1>1, <1>2, OwnerStays
    <1>3. CASE target' # target
        <2>1. PICK c \in Conn : target = Connected(c) /\ ~Open(c) /\ TargetFree
            <3>1. SlotClosed \/ \E c \in Conn : ForwardSend(c)
                BY <1>3 DEF Reader, ReaderCapture, Forward, ForwardDetached,
                   ForwardSuppressed, ForwardFull, ReaderPoll,
                   ReaderSlot, SlotSend, SlotCovered, Suppress, SuppressNothing,
                   SuppressSend, SuppressEmpty, ReaderEof, Eof, EofSend, EofNotify,
                   ReaderError
            <3>2. CASE SlotClosed
                BY <1>3, <3>2 DEF SlotClosed, ReaderRefused, ReaderAt, TypeOK, ReaderType
            <3> QED BY <1>3, <3>1, <3>2 DEF ForwardSend
        <2>2. ResumeExclusive' /\ ResumeOwns' /\ ConnectingVisible'
            BY <1>1, <2>1 DEF OwnerInv, ResumeExclusive, ResumeOwns,
               ConnectingVisible, TargetFree
        <2>3. LastAttachedOwnsPane'
            BY <1>1, <2>1 DEF OwnerInv, LastAttachedOwnsPane, Leaving, Open, Connected
        <2> QED BY <2>2, <2>3 DEF OwnerInv
    <1> QED BY <1>2, <1>3

\* A task takes the pane only for the client that attached last.
LEMMA TaskStepOwner ==
    ASSUME TypeOK, OwnerInv, NEW c \in Conn, Task(c)
    PROVE  OwnerInv'
    <1> USE DEF TypeOK, TaskType, TaskPc
    <1>1. CASE ResumeNoChange(c)
        <2>1. job[c].back \in {"arm", "flush"} /\ conn[c] = "resume"
            BY <1>1 DEF ResumeNoChange, At
        <2>2. LastAttachedOwnsPane'
            BY <1>1, <2>1 DEF ResumeNoChange, OwnerInv, LastAttachedOwnsPane, Leaving,
               Owns, Detached, Step, kickVars, exitVars
        <2> QED BY <1>1, <2>1, <2>2, OwnerTake DEF ResumeNoChange, Step
    <1>2. CASE ResumeRead(c)
        <2>1. /\ conn' = [conn EXCEPT ![c] = "resumeCommit"] /\ TargetFree /\ Owns(c)
              /\ conn[c] = "resume" /\ UNCHANGED <<target, visible, kicker, exited>>
            BY <1>2 DEF ResumeRead, At, Step, kickVars, exitVars
        <2>2. \A d \in Conn : conn'[d] = "resumeCommit" => d = c
            BY <2>1 DEF TargetFree
        <2>3. ResumeExclusive' /\ ResumeOwns' /\ ConnectingVisible'
            BY <2>1, <2>2 DEF OwnerInv, ResumeExclusive, ResumeOwns,
               ConnectingVisible, Owns
        <2>4. LastAttachedOwnsPane'
            BY <2>1 DEF OwnerInv, LastAttachedOwnsPane, Leaving, KickType
        <2> QED BY <2>3, <2>4 DEF OwnerInv
    <1>3. CASE ResumeCommit(c)
        <2>1. /\ job[c].back \in {"arm", "flush"} /\ conn[c] = "resumeCommit"
              /\ Owns(c)
            BY <1>3 DEF ResumeCommit, At, OwnerInv, ResumeOwns
        <2>2. LastAttachedOwnsPane'
            BY <1>3, <2>1 DEF ResumeCommit, OwnerInv, LastAttachedOwnsPane, Leaving,
               Owns, Connected, Step, kickVars, exitVars
        <2> QED BY <1>3, <2>1, <2>2, OwnerTake DEF ResumeCommit, Step
    <1>4. CASE ResumeOversize(c)
        <2>1. job[c].back \in {"arm", "flush"} /\ conn[c] = "resumeCommit"
            BY <1>4 DEF ResumeOversize, At
        <2> QED BY <1>4, <2>1, OwnerMove DEF ResumeOversize, Step, Leaving, kickVars, exitVars
    <1>5. CASE AttachHidden(c)
        <2>1. LastAttachedOwnsPane'
            BY <1>5 DEF AttachHidden, KickOld, LastAttachedOwnsPane, Detached, exitVars
        <2> QED BY <1>5, <2>1, OwnerTake DEF AttachHidden, Step
    <1>6. CASE AttachSwap(c)
        <2>1. LastAttachedOwnsPane'
            BY <1>6 DEF AttachSwap, KickOld, LastAttachedOwnsPane, Connected, exitVars
        <2>2. /\ TargetFree /\ UNCHANGED visible
              /\ \E pc \in {"arm", "attachSend"} : conn' = [conn EXCEPT ![c] = pc]
            BY <1>6 DEF AttachSwap, Step
        <2> QED BY <2>1, <2>2, OwnerTake
    <1>7. CASE FlushResume(c)
        <2>1. CASE ResumeWanted(c)
            BY <1>7, <2>1, OwnerMove DEF FlushResume, ResumeWanted, At, Step, Leaving,
               kickVars, exitVars
        <2>2. CASE ~ResumeWanted(c)
            BY <1>7, <2>2, OwnerStays DEF FlushResume, kickVars, exitVars
        <2> QED BY <2>1, <2>2
    <1>8. CASE FlushChunk(c)
        BY <1>8, OwnerStays DEF FlushChunk, kickVars, exitVars
    <1>9. CASE PollReserve(c)
        BY <1>9, OwnerStays DEF PollReserve, taskVars, kickVars, exitVars
    <1>10. CASE SnapshotEnqueue(c)
        BY <1>10, OwnerMove
        DEF SnapshotEnqueue, At, Step, Leaving, kickVars, exitVars
    <1>11. CASE SnapshotOversize(c)
        BY <1>11, OwnerMove
        DEF SnapshotOversize, At, Step, Leaving, kickVars, exitVars
    <1>12. CASE AttachRead(c)
        BY <1>12, OwnerMove
        DEF AttachRead, AttachVisible, At, Step, Leaving, kickVars, exitVars
    <1>13. CASE AttachSend(c)
        BY <1>13, OwnerMove
        DEF AttachSend, At, Step, Leaving, kickVars, exitVars
    <1>14. CASE Arm(c)
        BY <1>14, OwnerMove
        DEF Arm, At, Step, Leaving, kickVars, exitVars
    <1>15. CASE Drain(c)
        BY <1>15, OwnerMove
        DEF Drain, At, Step, Leaving, kickVars, exitVars
    <1>16. CASE DrainEnd(c)
        BY <1>16, OwnerMove
        DEF DrainEnd, At, Step, Leaving, kickVars, exitVars
    <1>17. CASE FlushEnd(c)
        <2>1. job[c].then \in {"arm", "route"} /\ conn[c] = "flush"
            BY <1>17 DEF FlushEnd, At
        <2> QED BY <1>17, <2>1, OwnerMove
        DEF FlushEnd, At, Step, Leaving, kickVars, exitVars
    <1>18. CASE FairChunk(c)
        BY <1>18, OwnerMove
        DEF FairChunk, FairReady, At, Step, Leaving, kickVars, exitVars
    <1>19. CASE FairResume(c)
        BY <1>19, OwnerMove
        DEF FairResume, ResumeWanted, FairReady, At, Step, Leaving, kickVars, exitVars
    <1>20. CASE FairNothing(c)
        BY <1>20, OwnerMove
        DEF FairNothing, FairReady, At, Step, Leaving, kickVars, exitVars
    <1>21. CASE KickedOut(c)
        BY <1>21, OwnerMove
        DEF KickedOut, At, Step, Leaving, kickVars, exitVars
    <1>22. CASE Close(c)
        BY <1>22, OwnerMove
        DEF Close, At, Step, Leaving, kickVars, exitVars
    <1>23. CASE RouteOther(c)
        BY <1>23, OwnerMove
        DEF RouteOther, At, Step, Leaving, kickVars, exitVars
    <1> QED BY <1>1, <1>2, <1>3, <1>4, <1>5, <1>6, <1>7, <1>8, <1>9, <1>10, <1>11,
               <1>12, <1>13, <1>14, <1>15, <1>16, <1>17, <1>18, <1>19, <1>20, <1>21,
               <1>22, <1>23
        DEF Task, Resume, OnDemand, Attach, Flush, Fair

\* A message of a client that was evicted takes the pane from nobody.
LEMMA ClientStepOwner ==
    ASSUME TypeOK, OwnerInv, NEW c \in Conn, Client(c)
    PROVE  OwnerInv'
    <1> USE DEF TypeOK, TaskType, TaskPc
    <1>1. CASE Hide(c)
        <2>1. LastAttachedOwnsPane'
            BY <1>1 DEF Hide, Hidden, At, Step, OwnerInv, LastAttachedOwnsPane, Leaving,
               Connected, Detached, kickVars, exitVars
        <2> QED BY <1>1, <2>1, OwnerTake DEF Hide, Step
    <1>2. CASE Show(c)
        <2>1. /\ UNCHANGED <<target, kicker, exited>> /\ conn[c] = "route"
              /\ visible' = [visible EXCEPT ![c] = TRUE]
            BY <1>2 DEF Show, At, kickVars, exitVars
        <2>2. PICK pc \in {"arm", "resume"} : conn' = [conn EXCEPT ![c] = pc]
            BY <1>2 DEF Show, Step
        <2>3. /\ \A d \in Conn : d # c => conn'[d] = conn[d] /\ visible'[d] = visible[d]
              /\ conn'[c] = pc /\ visible'[c]
            BY <2>1, <2>2
        <2>4. ResumeExclusive' /\ ResumeOwns' /\ ConnectingVisible'
            BY <2>1, <2>3 DEF OwnerInv, ResumeExclusive, ResumeOwns,
               ConnectingVisible, Owns
        <2>5. LastAttachedOwnsPane'
            BY <2>1, <2>3 DEF OwnerInv, LastAttachedOwnsPane, Leaving, KickType
        <2> QED BY <2>4, <2>5 DEF OwnerInv
    <1>3. CASE SnapshotRead(c)
        BY <1>3, OwnerMove DEF SnapshotRead, At, Step, Leaving, kickVars, exitVars
    <1>4. CASE AttachDetach(c)
        <2>1. LastAttachedOwnsPane'
            BY <1>4 DEF AttachDetach, DetachOwn, At, Step, OwnerInv, LastAttachedOwnsPane,
               Leaving, Connected, Detached, kickVars, exitVars
        <2> QED BY <1>4, <2>1, OwnerTake DEF AttachDetach, Step
    <1>5. CASE Disconnect(c)
        <2>1. LastAttachedOwnsPane'
            BY <1>5 DEF Disconnect, DetachOwn, At, Step, OwnerInv, LastAttachedOwnsPane,
               Leaving, Connected, Detached, kickVars, exitVars
        <2> QED BY <1>5, <2>1, OwnerTake DEF Disconnect, Step
    <1>6. CASE Receive(c)
        BY <1>6, OwnerMove DEF Receive, At, Step, Leaving, kickVars, exitVars
    <1> QED BY <1>1, <1>2, <1>3, <1>4, <1>5, <1>6 DEF Client

\* The ownership invariant holds at the start.
LEMMA InitOwner == Init => OwnerInv
    BY DEF Init, OwnerInv, ResumeExclusive, ResumeOwns, ConnectingVisible,
           LastAttachedOwnsPane

\* Every step keeps it.
LEMMA StepOwner == TypeOK /\ OwnerInv /\ [Next]_vars => OwnerInv'
    <1> SUFFICES ASSUME TypeOK, OwnerInv, [Next]_vars PROVE OwnerInv'
        OBVIOUS
    <1>1. CASE Reader
        BY <1>1, ReaderStepOwner
    <1>2. ASSUME NEW c \in Conn, Client(c) \/ Task(c) PROVE OwnerInv'
        BY <1>2, ClientStepOwner, TaskStepOwner
    <1>3. CASE ExitTask
        BY <1>3, OwnerStays DEF ExitTask, taskVars, kickVars
    <1>4. CASE UNCHANGED vars
        BY <1>4, OwnerStays DEF vars, taskVars, kickVars, exitVars
    <1> QED BY <1>1, <1>2, <1>3, <1>4 DEF Next, Terminated

\* With any number of clients that attach, hide, show and leave in any order, the
\* client that attached last owns the pane until it leaves.
THEOREM OwnerCorrect == Spec => []LastAttachedOwnsPane
    <1>1. OwnerInv => LastAttachedOwnsPane
        BY DEF OwnerInv
    <1> QED BY <1>1, InitOwner, StepOwner, TypeCorrect, PTL DEF Spec

-----------------------------------------------------------------------------
(* A hidden client is never connected *)

\* Only the end of a resume and of a visible reattach connect the pane.
LEMMA ConnectingSteps ==
    ASSUME TypeOK, Next, NEW d \in Conn, target' = Connected(d), target # Connected(d)
    PROVE  conn[d] \in {"resumeCommit", "attachSwap"}
    <1>1. CASE Reader
        BY <1>1 DEF Reader, ReaderCapture, Forward, ForwardDetached,
           ForwardSuppressed, ForwardSend, ForwardFull, ReaderPoll,
           ReaderSlot, SlotSend, SlotCovered, SlotClosed, Suppress, SuppressNothing,
           SuppressSend, SuppressEmpty, ReaderEof, Eof, EofSend, EofNotify,
           ReaderError, Connected, Detached
    <1>2. ASSUME NEW c \in Conn, Client(c) PROVE FALSE
        BY <1>2 DEF Client, Receive, Hide, Hidden, Show, SnapshotRead, AttachDetach,
           DetachOwn, Disconnect, Connected, Detached
    <1>3. ASSUME NEW c \in Conn, Task(c) PROVE conn[d] \in {"resumeCommit", "attachSwap"}
        <2>1. CASE ResumeNoChange(c)
            BY <2>1 DEF ResumeNoChange, Connected, Detached
        <2>2. CASE ResumeCommit(c) \/ AttachSwap(c)
            BY <2>2 DEF ResumeCommit, AttachSwap, At, Connected
        <2>3. CASE AttachHidden(c)
            BY <2>3 DEF AttachHidden, Connected, Detached
        <2> QED BY <1>3, <2>1, <2>2, <2>3
            DEF Task, RouteOther, Resume, ResumeRead, ResumeOversize, OnDemand, SnapshotEnqueue,
                SnapshotOversize, Attach, AttachRead, AttachSend, Arm, Drain,
                DrainEnd, Flush, FlushEnd, FlushChunk, FlushResume, PollReserve,
                Fair, FairChunk, FairResume, FairNothing, KickedOut, Close
    <1>4. CASE ExitTask \/ Terminated
        BY <1>4 DEF ExitTask, Terminated, vars
    <1> QED BY <1>1, <1>2, <1>3, <1>4 DEF Next

\* No interleaving of hides, shows, attaches and deferred resumes connects the
\* pane to a client that is hidden.
THEOREM HiddenCorrect == Spec => NeverConnectHidden
    <1>1. TypeOK /\ OwnerInv /\ [Next]_vars =>
            [\A c \in Conn : target' = Connected(c) /\ target # Connected(c)
                              => visible[c]]_vars
        BY ConnectingSteps DEF OwnerInv, ConnectingVisible
    <1> QED BY <1>1, InitOwner, StepOwner, TypeCorrect, PTL DEF Spec, NeverConnectHidden

-----------------------------------------------------------------------------
(* Sequences of frames *)

\* A frame at the end of a stream keeps it ordered, unless it is a raw chunk
\* that an earlier snapshot contains.
LEMMA AppendOrdered ==
    ASSUME NEW s \in Seq(Frame), NEW f \in Frame, Ordered(s),
           f.kind = "raw" => \A i \in 1 .. Len(s) : IsSnapshot(s[i]) => s[i].num < f.num
    PROVE  Ordered(Append(s, f))
    <1> DEFINE t == Append(s, f)
    <1>1. /\ Len(t) = Len(s) + 1 /\ Len(s) \in Nat
          /\ \A i \in 1 .. Len(s) : t[i] = s[i]
          /\ t[Len(s) + 1] = f
        OBVIOUS
    <1> SUFFICES ASSUME NEW i \in 1 .. Len(t), NEW j \in 1 .. Len(t), i < j,
                        IsSnapshot(t[i]), t[j].kind = "raw"
                 PROVE  t[j].num > t[i].num
        BY DEF Ordered
    <1> HIDE DEF t
    <1>2. i \in 1 .. Len(s) /\ t[i] = s[i]
        BY <1>1
    <1>3. s[i].num \in Nat /\ f.num \in Nat
        <2>1. s[i] \in Frame
            BY <1>2
        <2> QED BY <2>1, PaneOutputAssumption DEF Frame, Number
    <1>4. CASE j \in 1 .. Len(s)
        BY <1>1, <1>2, <1>4 DEF Ordered
    <1>5. CASE j = Len(s) + 1
        BY <1>1, <1>2, <1>3, <1>5
    <1> QED BY <1>1, <1>4, <1>5

\* The part of a stream that has reached the wire is ordered if all of it is.
LEMMA PrefixOrdered ==
    ASSUME NEW w \in Seq(Frame), NEW q \in Seq(Frame), Ordered(w \o q)
    PROVE  Ordered(w)
    <1>1. /\ Len(w \o q) = Len(w) + Len(q) /\ Len(w) \in Nat /\ Len(q) \in Nat
          /\ \A i \in 1 .. Len(w) : (w \o q)[i] = w[i]
        OBVIOUS
    <1> QED BY <1>1 DEF Ordered

\* A snapshot at the end of a stream is below the client's boundary if it is.
LEMMA AppendBelow ==
    ASSUME NEW s \in Seq(Frame), NEW f \in Frame, NEW e, Below(s, e),
           IsSnapshot(f) => e.gen > 0 /\ f.num <= e.b
    PROVE  Below(Append(s, f), e)
    <1>1. /\ Len(Append(s, f)) = Len(s) + 1 /\ Len(s) \in Nat
          /\ \A i \in 1 .. Len(s) : Append(s, f)[i] = s[i]
          /\ Append(s, f)[Len(s) + 1] = f
        OBVIOUS
    <1> QED BY <1>1 DEF Below

\* Draining moves a frame from the channel to the wire and leaves the order.
LEMMA DrainSame ==
    ASSUME NEW w \in Seq(Frame), NEW q \in Seq(Frame), q # <<>>
    PROVE  Append(w, Head(q)) \o Tail(q) = w \o q
    OBVIOUS

\* Inserting at the end of the channel is inserting at the end of the stream.
LEMMA AppendLast ==
    ASSUME NEW w \in Seq(Frame), NEW q \in Seq(Frame), NEW f \in Frame
    PROVE  w \o Append(q, f) = Append(w \o q, f)
    OBVIOUS

-----------------------------------------------------------------------------
(* One stream *)

\* A stream is a sequence of frames.
LEMMA StreamType ==
    ASSUME TypeOK, NEW c \in Conn
    PROVE  Stream(c) \in Seq(Frame) /\ ReattachFrame(c) \in Frame
    <1>1. wire[c] \in Seq(Frame) /\ queue[c] \in Seq(Frame)
        BY DEF TypeOK, WireType, ChanType
    <1>2. ReattachFrame(c) \in Frame
        BY DEF TypeOK, TaskType, ReattachFrame, Frame, Kind
    <1>3. Append(wire[c], ReattachFrame(c)) \in Seq(Frame)
        BY <1>1, <1>2
    <1> QED BY <1>1, <1>2, <1>3 DEF Stream

\* Recording a boundary never lowers the one of a connection that is open.
LEMMA RecordGrows ==
    ASSUME CaptureType, NEW c \in Conn, NEW b \in Number, Record(c, b), Open(c)
    PROVE  /\ entry'[c].gen > 0 /\ b <= entry'[c].b
           /\ \A d \in Conn : Open(d) /\ entry[d].gen > 0 =>
                 entry'[d].gen > 0 /\ entry[d].b <= entry'[d].b
    <1> DEFINE pruned == [d \in Conn |-> IF Open(d) THEN entry[d] ELSE NoEntry]
    <1>1. /\ pruned \in [Conn -> [b : Number, gen : Nat]]
          /\ pruned[c] = entry[c]
          /\ \A d \in Conn : Open(d) => pruned[d] = entry[d]
        BY PaneOutputAssumption DEF CaptureType, NoEntry, Number
    <1>2. Number \subseteq Nat /\ nextGen \in Nat
        BY PaneOutputAssumption DEF Number, CaptureType
    <1>3. CASE pruned[c].gen = 0 \/ b >= pruned[c].b
        <2>1. entry' = [pruned EXCEPT ![c] = [b |-> b, gen |-> nextGen + 1]]
            BY <1>3 DEF Record
        <2>2. entry[c].b \in Nat /\ b \in Nat
            BY <1>2 DEF CaptureType
        <2> HIDE DEF pruned
        <2>3. entry'[c] = [b |-> b, gen |-> nextGen + 1]
            BY <1>1, <2>1
        <2>4. \A d \in Conn : d # c /\ Open(d) => entry'[d] = entry[d]
            BY <1>1, <2>1
        <2>5. \A d \in Conn : entry[d].b \in Nat
            BY <1>2 DEF CaptureType
        <2>6. entry[c].gen > 0 => entry[c].b <= b
            BY <1>1, <1>3
        <2> QED BY <1>2, <2>2, <2>3, <2>4, <2>5, <2>6
    <1>4. CASE ~(pruned[c].gen = 0 \/ b >= pruned[c].b)
        <2>1. entry' = pruned
            BY <1>4 DEF Record
        <2>2. \A d \in Conn : entry[d].b \in Nat /\ entry[d].gen \in Nat
            BY <1>2 DEF CaptureType
        <2>3. b \in Nat
            BY <1>2
        <2> HIDE DEF pruned
        <2>4. entry[c].gen # 0 /\ ~(b >= entry[c].b)
            BY <1>1, <1>4
        <2> QED BY <1>1, <2>1, <2>2, <2>3, <2>4
    <1> QED BY <1>3, <1>4

\* What one stream contributes to the invariant.
StreamOK(c) == Ordered(Stream(c)) /\ (~Leaving(c) => Below(Stream(c), entry[c]))

\* The boundary of c does not fall.
Grows(c) == ~Leaving(c) /\ entry[c].gen > 0 =>
                entry'[c].gen > 0 /\ entry[c].b <= entry'[c].b

\* The stream stays as it is.
LEMMA SameOK ==
    ASSUME TypeOK, TypeOK', NEW c \in Conn, StreamOK(c),
           Stream(c)' = Stream(c), Leaving(c) => Leaving(c)', Grows(c)
    PROVE  StreamOK(c)'
    <1>1. CASE Leaving(c)'
        BY <1>1 DEF StreamOK
    <1>2. CASE ~Leaving(c)'
        <2>1. ~Leaving(c) /\ Below(Stream(c), entry[c])
            BY <1>2 DEF StreamOK
        <2>2. \A i \in 1 .. Len(Stream(c)) : Stream(c)[i].num \in Nat
            <3>1. \A i \in 1 .. Len(Stream(c)) : Stream(c)[i] \in Frame
                BY StreamType
            <3> QED BY <3>1, PaneOutputAssumption DEF Frame, Number
        <2>3. entry[c].b \in Nat /\ entry'[c].b \in Nat
            BY PaneOutputAssumption DEF TypeOK, CaptureType, Number
        <2>4. Below(Stream(c), entry[c])'
            BY <2>1, <2>2, <2>3 DEF Below, Grows
        <2> QED BY <2>4 DEF StreamOK
    <1> QED BY <1>1, <1>2

\* A frame is added to the stream: not a raw chunk at or below the boundary, and
\* no snapshot above it.
LEMMA AppendOK ==
    ASSUME TypeOK, TypeOK', NEW c \in Conn, StreamOK(c), NEW f \in Frame,
           Stream(c)' = Append(Stream(c), f), ~Leaving(c), Grows(c),
           f.kind = "raw" => ~Covered(c, f.num),
           IsSnapshot(f) => entry'[c].gen > 0 /\ f.num <= entry'[c].b
    PROVE  StreamOK(c)'
    <1>1. Stream(c) \in Seq(Frame) /\ Below(Stream(c), entry[c]) /\ Ordered(Stream(c))
        BY StreamType DEF StreamOK
    <1>2. \A i \in 1 .. Len(Stream(c)) : Stream(c)[i].num \in Nat
        <2>1. \A i \in 1 .. Len(Stream(c)) : Stream(c)[i] \in Frame
            BY <1>1
        <2> QED BY <2>1, PaneOutputAssumption DEF Frame, Number
    <1>3. entry[c].b \in Nat /\ entry'[c].b \in Nat /\ f.num \in Nat
        BY PaneOutputAssumption DEF TypeOK, CaptureType, Number, Frame
    <1>4. Ordered(Append(Stream(c), f))
        <2>1. f.kind = "raw" => \A i \in 1 .. Len(Stream(c)) :
                    IsSnapshot(Stream(c)[i]) => Stream(c)[i].num < f.num
            BY <1>1, <1>2, <1>3 DEF Below, Covered
        <2> QED BY <1>1, <2>1, AppendOrdered
    <1>5. Below(Stream(c), entry'[c])
        BY <1>1, <1>2, <1>3 DEF Below, Grows
    <1>6. Below(Append(Stream(c), f), entry'[c])
        BY <1>1, <1>5, AppendBelow
    <1> QED BY <1>4, <1>6 DEF StreamOK

-----------------------------------------------------------------------------
(* One step *)

\* A task that is neither leaving nor about to send the reattach frames.
Plain(pc) == pc \notin {"closing", "gone", "attachSend"}

\* The step is not about d: a leaving connection's channel may still be filled.
LEMMA OtherOK ==
    ASSUME TypeOK, TypeOK', NEW d \in Conn, StreamOK(d), Grows(d),
           wire'[d] = wire[d], conn'[d] = conn[d], job'[d] = job[d],
           queue'[d] = queue[d] \/ Leaving(d)
    PROVE  StreamOK(d)'
    <1>1. Stream(d)' = Stream(d)
        BY DEF Stream, Leaving, ReattachFrame
    <1>2. Leaving(d)' <=> Leaving(d)
        BY DEF Leaving
    <1> QED BY <1>1, <1>2, SameOK

\* The task goes from one plain place to another.
LEMMA MoveOK ==
    ASSUME TypeOK, TypeOK', NEW c \in Conn, StreamOK(c), Grows(c),
           wire'[c] = wire[c], queue'[c] = queue[c],
           Plain(conn[c]), Plain(conn'[c])
    PROVE  StreamOK(c)'
    <1>1. Stream(c)' = Stream(c) /\ ~Leaving(c)
        BY DEF Stream, Leaving, Plain
    <1> QED BY <1>1, SameOK

\* A frame enters the channel.
LEMMA InsertOK ==
    ASSUME TypeOK, TypeOK', NEW c \in Conn, StreamOK(c), Grows(c), ~Leaving(c),
           NEW f \in Frame, wire'[c] = wire[c], queue'[c] = Append(queue[c], f),
           \/ Plain(conn[c]) /\ Plain(conn'[c])
           \/ conn'[c] = conn[c] /\ job'[c] = job[c],
           f.kind = "raw" => ~Covered(c, f.num),
           IsSnapshot(f) => entry'[c].gen > 0 /\ f.num <= entry'[c].b
    PROVE  StreamOK(c)'
    <1>1. wire[c] \in Seq(Frame) /\ queue[c] \in Seq(Frame) /\ ReattachFrame(c) \in Frame
        BY StreamType DEF TypeOK, WireType, ChanType
    <1>2. Stream(c)' = Append(Stream(c), f)
        <2>1. CASE Plain(conn[c]) /\ Plain(conn'[c])
            BY <1>1, <2>1, AppendLast DEF Stream, Leaving, Plain
        <2>2. CASE conn[c] = "attachSend" /\ conn'[c] = conn[c] /\ job'[c] = job[c]
            <3>1. Append(wire[c], ReattachFrame(c)) \in Seq(Frame)
                BY <1>1
            <3>2. ReattachFrame(c)' = ReattachFrame(c)
                BY <2>2 DEF ReattachFrame
            <3> QED BY <1>1, <2>2, <3>1, <3>2, AppendLast DEF Stream, Leaving
        <2> QED BY <2>1, <2>2 DEF Plain, Leaving
    <1> QED BY <1>2, AppendOK

\* The task leaves, and what waits in its channel is not sent.
LEMMA LeaveOK ==
    ASSUME TypeOK, NEW c \in Conn, StreamOK(c), ~Leaving(c),
           wire'[c] = wire[c], conn'[c] = "closing"
    PROVE  StreamOK(c)'
    <1>1. wire[c] \in Seq(Frame) /\ queue[c] \in Seq(Frame) /\ ReattachFrame(c) \in Frame
        BY StreamType DEF TypeOK, WireType, ChanType
    <1>2. Leaving(c)' /\ Stream(c)' = wire[c]
        BY DEF Stream, Leaving
    <1>3. Ordered(wire[c])
        <2>1. CASE conn[c] = "attachSend"
            <3>1. Append(wire[c], ReattachFrame(c)) \in Seq(Frame)
                BY <1>1
            <3>2. Ordered(Append(wire[c], ReattachFrame(c)))
                BY <1>1, <2>1, <3>1, PrefixOrdered DEF StreamOK, Stream
            <3>3. Append(wire[c], ReattachFrame(c)) = wire[c] \o <<ReattachFrame(c)>>
                BY <1>1
            <3>4. <<ReattachFrame(c)>> \in Seq(Frame)
                BY <1>1
            <3> QED BY <1>1, <3>2, <3>3, <3>4, PrefixOrdered
        <2>2. CASE conn[c] # "attachSend"
            BY <1>1, <2>2, PrefixOrdered DEF StreamOK, Stream
        <2> QED BY <2>1, <2>2
    <1> QED BY <1>2, <1>3 DEF StreamOK

AllOK == \A c \in Conn : StreamOK(c)

\* A step of one task that touches no stream.
LEMMA QuietOK ==
    ASSUME TypeOK, TypeOK', AllOK, NEW c \in Conn, UNCHANGED <<wire, queue, entry>>,
           Plain(conn[c]), Plain(conn'[c]),
           \A d \in Conn : d # c => conn'[d] = conn[d] /\ job'[d] = job[d]
    PROVE  AllOK'
    <1> SUFFICES ASSUME NEW d \in Conn PROVE StreamOK(d)'
        BY DEF AllOK
    <1>1. StreamOK(d) /\ Grows(d)
        BY PaneOutputAssumption DEF AllOK, Grows, TypeOK, CaptureType, Number
    <1> QED BY <1>1, OtherOK, MoveOK

\* A snapshot enters the channel of c in the same step as its boundary.
LEMMA SnapshotOK ==
    ASSUME TypeOK, TypeOK', AllOK, NEW c \in Conn, NEW k \in SnapKind,
           NEW b \in Number, NEW a \in Number, Record(c, b),
           queue' = [queue EXCEPT ![c] = Append(@, Snapshot(k, b, a))],
           UNCHANGED <<wire, job>>, Plain(conn[c]), Plain(conn'[c]),
           \A d \in Conn : d # c => conn'[d] = conn[d]
    PROVE  AllOK'
    <1> SUFFICES ASSUME NEW d \in Conn PROVE StreamOK(d)'
        BY DEF AllOK
    <1>1. Open(c) /\ ~Leaving(c)
        BY DEF Open, Plain, Leaving
    <1>2. /\ entry'[c].gen > 0 /\ b <= entry'[c].b
          /\ StreamOK(d) /\ Grows(d)
        <2>1. CaptureType
            BY DEF TypeOK
        <2> QED BY <1>1, <2>1, RecordGrows DEF AllOK, Grows, Leaving, Open
    <1>3. CASE d # c
        <2>1. queue'[d] = queue[d]
            BY <1>3 DEF TypeOK, ChanType
        <2> QED BY <1>2, <1>3, <2>1, OtherOK
    <1>4. CASE d = c
        <2>1. Snapshot(k, b, a) \in Frame
            BY FrameType DEF SnapKind, Kind
        <2>2. Snapshot(k, b, a).kind # "raw" /\ Snapshot(k, b, a).num = b
            BY DEF Snapshot, SnapKind
        <2>3. queue'[c] = Append(queue[c], Snapshot(k, b, a))
            BY DEF TypeOK, ChanType
        <2> QED BY <1>1, <1>2, <1>4, <2>1, <2>2, <2>3, InsertOK
    <1> QED BY <1>3, <1>4

-----------------------------------------------------------------------------
(* Every step keeps every stream in order *)

\* The reader inserts raw chunks only above the boundary, and no snapshots.
LEMMA ReaderStepStream ==
    ASSUME TypeOK, TypeOK', AllOK, Reader
    PROVE  AllOK'
    <1>1. UNCHANGED <<wire, conn, job, entry>>
        BY DEF Reader, ReaderCapture, Forward, ForwardDetached, ForwardSuppressed,
               ForwardSend, ForwardFull, ReaderPoll, ReaderSlot,
               SlotSend, SlotCovered, SlotClosed, Suppress, SuppressNothing,
               SuppressSend, SuppressEmpty, ReaderEof, Eof, EofSend, EofNotify,
               ReaderError, taskVars, captureVars
    <1>2. \A d \in Conn : Grows(d) /\ StreamOK(d)
        BY <1>1, PaneOutputAssumption DEF Grows, AllOK, TypeOK, CaptureType, Number
    <1>3. CASE UNCHANGED queue
        BY <1>1, <1>2, <1>3, OtherOK DEF AllOK
    <1>4. ASSUME NEW c \in Conn, NEW f \in Frame, ~IsSnapshot(f),
                 f.kind = "raw" => ~Covered(c, f.num),
                 queue' = [queue EXCEPT ![c] = Append(@, f)]
          PROVE  AllOK'
        <2> SUFFICES ASSUME NEW d \in Conn PROVE StreamOK(d)'
            BY DEF AllOK
        <2>1. /\ d # c => queue'[d] = queue[d]
              /\ queue'[c] = Append(queue[c], f)
            BY <1>4 DEF TypeOK, ChanType
        <2>2. CASE d # c \/ Leaving(d)
            BY <1>1, <1>2, <2>1, <2>2, OtherOK
        <2>3. CASE d = c /\ ~Leaving(c)
            BY <1>1, <1>2, <1>4, <2>1, <2>3, InsertOK
        <2> QED BY <2>2, <2>3
    <1>5. CASE SlotSend
        <2>1. Output("raw", reader.n) \in Frame /\ reader.tx \in Conn
            BY <1>5, FrameType DEF SlotSend, ReaderAt, TypeOK, ReaderType, Kind
        <2>2. ~IsSnapshot(Output("raw", reader.n)) /\ Output("raw", reader.n).num = reader.n
            BY DEF IsSnapshot, Output, SnapKind
        <2> QED BY <1>3, <1>4, <1>5, <2>1, <2>2 DEF SlotSend, PermitSend
    <1>6. CASE SuppressSend
        <2> DEFINE f == [kind |-> "repl", num |-> reader.n, fits |-> TRUE,
                         at |-> IF UsesTail THEN reader.n ELSE 0]
        <2>1. f \in Frame /\ reader.tx \in Conn
            BY <1>6, PaneOutputAssumption
            DEF SuppressSend, ReaderAt, TypeOK, ReaderType, Frame, Kind, Number
        <2>2. ~IsSnapshot(f) /\ f.kind # "raw"
            BY DEF IsSnapshot, SnapKind
        <2>3. PermitSend(reader.tx, "reader", f)
            BY <1>6 DEF SuppressSend
        <2> HIDE DEF f
        <2> QED BY <1>3, <1>4, <2>1, <2>2, <2>3 DEF PermitSend
    <1>7. CASE EofSend
        <2>1. Output("exit", 0) \in Frame /\ reader.tx \in Conn
            BY <1>7, FrameType, PaneOutputAssumption
            DEF EofSend, ReaderAt, TypeOK, ReaderType, Kind, Number
        <2>2. ~IsSnapshot(Output("exit", 0)) /\ Output("exit", 0).kind # "raw"
            BY DEF IsSnapshot, Output, SnapKind
        <2> QED BY <1>3, <1>4, <1>7, <2>1, <2>2 DEF EofSend, PermitSend, chanVars
    <1>8. ASSUME NEW c \in Conn, ForwardSend(c) PROVE AllOK'
        <2>1. Output("raw", reader.n) \in Frame
            BY FrameType DEF TypeOK, ReaderType, Kind
        <2>2. ~IsSnapshot(Output("raw", reader.n)) /\ Output("raw", reader.n).num = reader.n
            BY DEF IsSnapshot, Output, SnapKind
        <2> QED BY <1>3, <1>4, <1>8, <2>1, <2>2 DEF ForwardSend
    <1> QED BY <1>3, <1>5, <1>6, <1>7, <1>8
        DEF Reader, ReaderCapture, Forward, ForwardDetached, ForwardSuppressed,
            ForwardFull, ReaderPoll, PollPermit, ReaderSlot,
            SlotCovered, SlotClosed, Suppress, SuppressNothing, SuppressEmpty,
            ReaderEof, Eof, EofNotify, ReaderError, chanVars

\* A task inserts snapshots with their boundaries, and sends a reattach snapshot
\* only when nothing of the pane waits in its channel.
LEMMA TaskStepStream ==
    ASSUME TypeOK, TypeOK', AllOK, UnattachedEmpty, NEW c \in Conn, Task(c)
    PROVE  AllOK'
    <1>1. CASE ResumeNoChange(c)
        BY <1>1, QuietOK DEF ResumeNoChange, At, Step, Plain, TypeOK, TaskType, captureVars,
           chanVars, taskVars
    <1>2. CASE ResumeRead(c)
        BY <1>2, QuietOK DEF ResumeRead, At, Step, Plain, TypeOK, TaskType, captureVars,
           chanVars, taskVars
    <1>3. CASE ResumeOversize(c)
        BY <1>3, QuietOK DEF ResumeOversize, At, Step, Plain, TypeOK, TaskType, captureVars,
           chanVars, taskVars
    <1>4. CASE SnapshotOversize(c)
        BY <1>4, QuietOK DEF SnapshotOversize, At, Step, Plain, TypeOK, TaskType, captureVars,
           chanVars, taskVars
    <1>5. CASE AttachHidden(c)
        BY <1>5, QuietOK DEF AttachHidden, captureVars, chanVars, At, Step, Plain, TypeOK, TaskType, captureVars,
           chanVars, taskVars
    <1>6. CASE AttachRead(c)
        BY <1>6, QuietOK DEF AttachRead, At, Step, Plain, TypeOK, TaskType, captureVars,
           chanVars, taskVars
    <1>7. CASE Arm(c)
        BY <1>7, QuietOK DEF Arm, At, Step, Plain, TypeOK, TaskType, captureVars,
           chanVars, taskVars
    <1>8. CASE DrainEnd(c)
        BY <1>8, QuietOK DEF DrainEnd, At, Step, Plain, TypeOK, TaskType, captureVars,
           chanVars, taskVars
    <1>9. CASE FlushEnd(c)
        <2>1. job[c].then \in {"arm", "route"}
            BY DEF TypeOK, TaskType
        <2> QED BY <1>9, <2>1, QuietOK DEF FlushEnd, At, Step, Plain, TypeOK, TaskType, captureVars,
           chanVars, taskVars
    <1>10. CASE FlushResume(c)
        BY <1>10, QuietOK DEF FlushResume, At, Step, Plain, TypeOK, TaskType, captureVars,
           chanVars, taskVars
    <1>11. CASE PollReserve(c)
        BY <1>11, QuietOK DEF PollReserve, PollPermit, At, Step, Plain, TypeOK, TaskType, captureVars,
           chanVars, taskVars
    <1>12. CASE FairResume(c)
        BY <1>12, QuietOK DEF FairResume, FairReady, At, Step, Plain, TypeOK, TaskType, captureVars,
           chanVars, taskVars
    <1>13. CASE FairNothing(c)
        BY <1>13, QuietOK DEF FairNothing, FairReady, At, Step, Plain, TypeOK, TaskType, captureVars,
           chanVars, taskVars
    <1>14. CASE ResumeCommit(c)
        <2>1. /\ job[c].b \in Number /\ captured \in Number /\ conn[c] = "resumeCommit"
              /\ job[c].back \in {"arm", "flush"} /\ Open(c) /\ "resume" \in SnapKind
            BY <1>14 DEF ResumeCommit, At, Open, TypeOK, TaskType, ReaderType, SnapKind
        <2>2. \A d \in Conn : conn'[d] = IF d = c THEN job[c].back ELSE conn[d]
            BY <1>14 DEF ResumeCommit, Step, TypeOK, TaskType
        <2> QED BY <1>14, <2>1, <2>2, SnapshotOK DEF ResumeCommit, PermitSend, Plain
    <1>15. CASE SnapshotEnqueue(c)
        <2>1. /\ job[c].b \in Number /\ captured \in Number /\ conn[c] = "snapshot"
              /\ "ondemand" \in SnapKind
            BY <1>15 DEF SnapshotEnqueue, At, TypeOK, TaskType, ReaderType, SnapKind
        <2>2. \A d \in Conn : conn'[d] = IF d = c THEN "arm" ELSE conn[d]
            BY <1>15 DEF SnapshotEnqueue, Step, TypeOK, TaskType
        <2>3. CASE Free(c)
            BY <1>15, <2>1, <2>2, <2>3, SnapshotOK DEF SnapshotEnqueue, Plain
        <2>4. CASE ~Free(c)
            BY <1>15, <2>1, <2>2, <2>4, QuietOK DEF SnapshotEnqueue, Defer, Plain, captureVars
        <2> QED BY <2>3, <2>4
    <1>16. CASE FlushChunk(c)
        <2>1. /\ Head(deferred[c]).b \in Number /\ captured \in Number
              /\ conn[c] = "flush" /\ Open(c) /\ "deferred" \in SnapKind
            <3>1. deferred[c] \in Seq(Item) /\ deferred[c] # <<>>
                BY <1>16 DEF FlushChunk, TypeOK, TaskType
            <3>2. Head(deferred[c]) \in Item
                BY <3>1
            <3> QED BY <1>16, <3>2 DEF FlushChunk, At, Open, Item, TypeOK,
                ReaderType, SnapKind
        <2>2. \A d \in Conn : conn'[d] = conn[d]
            BY <1>16 DEF FlushChunk, Step, TypeOK, TaskType
        <2> QED BY <1>16, <2>1, <2>2, SnapshotOK DEF FlushChunk, Plain
    <1>17. CASE FairChunk(c)
        <2>1. /\ Head(deferred[c]).b \in Number /\ captured \in Number
              /\ conn[c] = "idle" /\ Open(c) /\ "deferred" \in SnapKind
            <3>1. deferred[c] \in Seq(Item) /\ deferred[c] # <<>>
                BY <1>17 DEF FairChunk, TypeOK, TaskType
            <3>2. Head(deferred[c]) \in Item
                BY <3>1
            <3> QED BY <1>17, <3>2 DEF FairChunk, FairReady, At, Open, Item, TypeOK,
                ReaderType, SnapKind
        <2>2. \A d \in Conn : conn'[d] = IF d = c THEN "arm" ELSE conn[d]
            BY <1>17 DEF FairChunk, Step, TypeOK, TaskType
        <2> QED BY <1>17, <2>1, <2>2, SnapshotOK DEF FairChunk, PermitSend, Plain
    <1>18. CASE AttachSwap(c)
        <2>1. /\ conn[c] = "attachSwap" /\ queue[c] = <<>> /\ UNCHANGED <<wire, queue>>
              /\ job[c].b \in Number /\ captured \in Number
              /\ Open(c) /\ ~Leaving(c)
            BY <1>18 DEF AttachSwap, At, UnattachedEmpty, Unattached, chanVars, TypeOK,
               TaskType, ReaderType, Open, Leaving
        <2>2. CASE exited
            BY <1>18, <2>1, <2>2, QuietOK DEF AttachSwap, Step, Plain, TypeOK, TaskType,
               captureVars
        <2>3. CASE ~exited
            <3>1. conn' = [conn EXCEPT ![c] = "attachSend"]
                BY <1>18, <2>3 DEF AttachSwap, Step
            <3>2. /\ \A d \in Conn : d # c => conn'[d] = conn[d] /\ job'[d] = job[d]
                  /\ conn'[c] = "attachSend" /\ job'[c].b = job[c].b
                BY <1>18, <2>3, <3>1 DEF AttachSwap, TypeOK, TaskType
            <3>3. /\ \A d \in Conn : Grows(d)
                  /\ job'[c].fits => entry'[c].gen > 0 /\ job[c].b <= entry'[c].b
                <4>1. CASE Record(c, job[c].b)
                    BY <2>1, <4>1, RecordGrows DEF Grows, Leaving, Open, TypeOK
                <4>2. CASE UNCHANGED captureVars /\ ~job'[c].fits
                    BY <4>2, PaneOutputAssumption
                    DEF Grows, captureVars, TypeOK, CaptureType, Number
                <4>3. \/ Record(c, job[c].b)
                      \/ /\ UNCHANGED captureVars
                         /\ job' = [job EXCEPT ![c].fits = FALSE, ![c].at = captured]
                    BY <1>18, <2>3 DEF AttachSwap
                <4> QED BY <4>1, <4>2, <4>3 DEF TypeOK, TaskType
            <3>4. ASSUME NEW d \in Conn, d # c PROVE StreamOK(d)'
                BY <2>1, <3>2, <3>3, <3>4, OtherOK DEF AllOK
            <3>5. StreamOK(c)'
                <4> DEFINE f == ReattachFrame(c)'
                <4>1. f \in Frame /\ wire[c] \in Seq(Frame)
                    BY DEF TypeOK, TaskType, WireType, ReattachFrame, Frame, Kind
                <4>2. /\ f.kind = "reattach" /\ f.num = job[c].b
                      /\ IsSnapshot(f) => job'[c].fits
                    BY <3>2 DEF ReattachFrame, IsSnapshot
                <4>3. Stream(c) = wire[c]
                    BY <2>1, <4>1 DEF Stream, Leaving
                <4>4. Stream(c)' = Append(wire[c], f)
                    <5>1. Append(wire[c], f) \in Seq(Frame)
                        BY <4>1
                    <5>2. Stream(c)' = Append(wire[c], f) \o <<>>
                        BY <2>1, <3>2 DEF Stream, Leaving
                    <5> QED BY <5>1, <5>2
                <4> HIDE DEF f
                <4> QED BY <2>1, <3>3, <4>1, <4>2, <4>3, <4>4, AppendOK DEF AllOK
            <3> QED BY <3>4, <3>5 DEF AllOK
        <2> QED BY <2>2, <2>3
    <1>19. CASE AttachSend(c)
        <2>1. /\ conn[c] = "attachSend"
              /\ conn' = [conn EXCEPT ![c] = "arm"]
              /\ UNCHANGED <<job, entry, queue>>
            BY <1>19 DEF AttachSend, At, Step, captureVars, chanVars
        <2>2. wire[c] \in Seq(Frame) /\ queue[c] \in Seq(Frame)
            BY DEF TypeOK, WireType, ChanType
        <2>3. /\ \A d \in Conn : d # c =>
                    conn'[d] = conn[d] /\ wire'[d] = wire[d] /\ queue'[d] = queue[d]
              /\ conn'[c] = "arm"
            BY <1>19, <2>1 DEF AttachSend, TypeOK, TaskType, WireType, ChanType
        <2>4. \A d \in Conn : Grows(d) /\ StreamOK(d)
            BY <2>1, PaneOutputAssumption
            DEF Grows, AllOK, TypeOK, CaptureType, Number
        <2>5. Stream(c)' = Stream(c)
            <3>1. wire'[c] = Append(wire[c], ReattachFrame(c)) /\ queue'[c] = queue[c]
                BY <1>19, <2>1 DEF AttachSend, TypeOK, WireType
            <3> QED BY <2>1, <2>3, <3>1 DEF Stream, Leaving
        <2>6. StreamOK(c)'
            BY <2>1, <2>4, <2>5, SameOK DEF Leaving
        <2>7. ASSUME NEW d \in Conn, d # c PROVE StreamOK(d)'
            BY <2>1, <2>3, <2>4, <2>7, OtherOK
        <2> QED BY <2>6, <2>7 DEF AllOK
    <1>20. CASE Drain(c)
        <2>1. /\ conn[c] \in {"drain", "idle"} /\ queue[c] # <<>>
              /\ conn' = [conn EXCEPT ![c] = "drain"]
              /\ UNCHANGED <<job, entry>>
            BY <1>20 DEF Drain, At, Step, captureVars, chanVars
        <2>2. wire[c] \in Seq(Frame) /\ queue[c] \in Seq(Frame)
            BY DEF TypeOK, WireType, ChanType
        <2>3. /\ \A d \in Conn : d # c =>
                    conn'[d] = conn[d] /\ wire'[d] = wire[d] /\ queue'[d] = queue[d]
              /\ conn'[c] = "drain"
            BY <1>20, <2>1 DEF Drain, TypeOK, TaskType, WireType, ChanType
        <2>4. \A d \in Conn : Grows(d) /\ StreamOK(d)
            BY <2>1, PaneOutputAssumption
            DEF Grows, AllOK, TypeOK, CaptureType, Number
        <2>5. Stream(c)' = Stream(c)
            <3>1. wire'[c] = Append(wire[c], Head(queue[c])) /\ queue'[c] = Tail(queue[c])
                BY <1>20 DEF Drain, TypeOK, WireType, ChanType
            <3> QED BY <2>1, <2>2, <2>3, <3>1, DrainSame DEF Stream, Leaving
        <2>6. StreamOK(c)'
            BY <2>1, <2>4, <2>5, SameOK DEF Leaving
        <2>7. ASSUME NEW d \in Conn, d # c PROVE StreamOK(d)'
            BY <2>1, <2>3, <2>4, <2>7, OtherOK
        <2> QED BY <2>6, <2>7 DEF AllOK
    <1>21. CASE KickedOut(c)
        <2>1. /\ conn[c] = "idle" /\ UNCHANGED <<wire, job, entry, queue>>
              /\ conn' = [conn EXCEPT ![c] = "closing"]
            BY <1>21 DEF KickedOut, At, Step, captureVars, chanVars
        <2>2. /\ \A d \in Conn : d # c => conn'[d] = conn[d]
              /\ conn'[c] = "closing"
            BY <2>1 DEF TypeOK, TaskType
        <2>3. \A d \in Conn : Grows(d) /\ StreamOK(d)
            BY <2>1, PaneOutputAssumption
            DEF Grows, AllOK, TypeOK, CaptureType, Number
        <2>4. StreamOK(c)'
            BY <2>1, <2>2, <2>3, LeaveOK DEF Leaving
        <2>5. ASSUME NEW d \in Conn, d # c PROVE StreamOK(d)'
            BY <2>1, <2>2, <2>3, <2>5, OtherOK
        <2> QED BY <2>4, <2>5 DEF AllOK
    <1>22. CASE Close(c)
        <2>1. /\ \A d \in Conn : d # c =>
                    /\ conn'[d] = conn[d] /\ wire'[d] = wire[d]
                    /\ queue'[d] = queue[d] /\ job'[d] = job[d]
              /\ conn'[c] = "gone" /\ wire'[c] = <<>>
            BY <1>22 DEF Close, Step, TypeOK, TaskType, WireType, ChanType
        <2>2. \A d \in Conn : Grows(d) /\ StreamOK(d)
            BY <1>22, PaneOutputAssumption
            DEF Close, Grows, AllOK, TypeOK, CaptureType, Number, captureVars
        <2>3. StreamOK(c)'
            BY <2>1 DEF StreamOK, Stream, Leaving, Ordered
        <2>4. ASSUME NEW d \in Conn, d # c PROVE StreamOK(d)'
            BY <2>1, <2>2, <2>4, OtherOK
        <2> QED BY <2>3, <2>4 DEF AllOK
    <1>23. CASE RouteOther(c)
        BY <1>23, QuietOK DEF RouteOther, At, Step, Plain, TypeOK, TaskType,
           captureVars, chanVars, taskVars
    <1> QED BY <1>1, <1>2, <1>3, <1>4, <1>5, <1>6, <1>7, <1>8, <1>9,
            <1>10, <1>11, <1>12, <1>13, <1>14, <1>15, <1>16, <1>17,
            <1>18, <1>19, <1>20, <1>21, <1>22, <1>23
        DEF Task, Resume, OnDemand, Attach, Flush, Fair

\* A client's message changes no stream; when it leaves, its stream ends.
LEMMA ClientStepStream ==
    ASSUME TypeOK, TypeOK', AllOK, NEW c \in Conn, Client(c)
    PROVE  AllOK'
    <1>1. CASE Hide(c)
        BY <1>1, QuietOK DEF Hide, At, Step, Plain, TypeOK, TaskType, captureVars,
           chanVars
    <1>2. CASE Show(c)
        BY <1>2, QuietOK DEF Show, At, Step, Plain, TypeOK, TaskType, captureVars,
           chanVars
    <1>3. CASE SnapshotRead(c)
        BY <1>3, QuietOK DEF SnapshotRead, At, Step, Plain, TypeOK, TaskType, captureVars,
           chanVars
    <1>4. CASE AttachDetach(c)
        BY <1>4, QuietOK DEF AttachDetach, At, Step, Plain, TypeOK, TaskType, captureVars,
           chanVars
    <1>5. CASE Disconnect(c)
        <2>1. /\ conn[c] \in {"idle", "attachSend"} /\ UNCHANGED <<wire, job, entry, queue>>
              /\ conn' = [conn EXCEPT ![c] = "closing"]
            BY <1>5 DEF Disconnect, At, Step, captureVars, chanVars
        <2>2. /\ \A d \in Conn : d # c => conn'[d] = conn[d]
              /\ conn'[c] = "closing"
            BY <2>1 DEF TypeOK, TaskType
        <2>3. \A d \in Conn : Grows(d) /\ StreamOK(d)
            BY <2>1, PaneOutputAssumption
            DEF Grows, AllOK, TypeOK, CaptureType, Number
        <2>4. StreamOK(c)'
            BY <2>1, <2>2, <2>3, LeaveOK DEF Leaving
        <2>5. ASSUME NEW d \in Conn, d # c PROVE StreamOK(d)'
            BY <2>1, <2>2, <2>3, <2>5, OtherOK
        <2> QED BY <2>4, <2>5 DEF AllOK
    <1>6. CASE Receive(c)
        BY <1>6, QuietOK DEF Receive, At, Step, Plain, TypeOK, TaskType, captureVars,
           chanVars
    <1> QED BY <1>1, <1>2, <1>3, <1>4, <1>5, <1>6 DEF Client

-----------------------------------------------------------------------------
(* A client that attaches finds its channel empty *)

NoChunkDeferred(d) == \A i \in 1 .. Len(d) : d[i].item # "chunk"

\* Taking the first item of a deferred queue leaves no new ones.
LEMMA TailDeferred ==
    ASSUME NEW d \in Seq(Item), d # <<>>, NoChunkDeferred(d)
    PROVE  NoChunkDeferred(Tail(d)) /\ Head(d).item # "chunk"
    <1>1. /\ Len(d) \in Nat /\ Len(d) > 0 /\ Len(Tail(d)) = Len(d) - 1
          /\ \A i \in 1 .. Len(d) - 1 : Tail(d)[i] = d[i + 1]
          /\ Head(d) = d[1]
        OBVIOUS
    <1> QED BY <1>1 DEF NoChunkDeferred

\* Queueing a resume adds no snapshot.
LEMMA ResumeDeferred ==
    ASSUME NEW d \in Seq(Item), NoChunkDeferred(d)
    PROVE  NoChunkDeferred(DeferResume(d))
    <1> DEFINE r == [item |-> "resume", b |-> 0]
    <1>1. r \in Item
        BY PaneOutputAssumption DEF Item, Number
    <1>2. /\ Len(Append(d, r)) = Len(d) + 1 /\ Len(d) \in Nat
          /\ \A i \in 1 .. Len(d) : Append(d, r)[i] = d[i]
          /\ Append(d, r)[Len(d) + 1] = r
        BY <1>1
    <1>3. NoChunkDeferred(Append(d, r))
        BY <1>2 DEF NoChunkDeferred
    <1> QED BY <1>3 DEF DeferResume

\* A step of one task that leaves the pane where it is and gives a connection
\* that has not attached nothing to send.
LEMMA UnattachedMove ==
    ASSUME TypeOK, NobodysIsNetwork, UnattachedEmpty, NEW c \in Conn, NEW pc,
           conn' = [conn EXCEPT ![c] = pc],
           UNCHANGED <<reader, target, attaches>>,
           pc \in {"attach", "attachSwap"} => conn[c] \in {"attach", "attachSwap"},
           attaches[c] = 0 => pc \notin {"snapshot", "resumeCommit", "attachSend"},
           \A d \in Conn : d # c =>
                queue'[d] = queue[d] /\ deferred'[d] = deferred[d],
           Unattached(c) => queue'[c] = queue[c] /\ NoChunkDeferred(deferred'[c])
    PROVE  NobodysIsNetwork' /\ UnattachedEmpty'
    <1>1. /\ \A d \in Conn : d # c => conn'[d] = conn[d]
          /\ conn'[c] = pc
        BY DEF TypeOK, TaskType
    <1>2. NobodysIsNetwork'
        BY DEF NobodysIsNetwork
    <1>3. ASSUME NEW d \in Conn, Unattached(d)', d # c
          PROVE  /\ queue'[d] = <<>> /\ reader'.tx # d
                 /\ target'.tx = d => target'.state = "detached" /\ "network" \in target'.reason
                 /\ \A i \in 1 .. Len(deferred'[d]) : deferred'[d][i].item # "chunk"
                 /\ conn'[d] \notin {"snapshot", "resumeCommit", "attachSend"}
        BY <1>1, <1>3 DEF UnattachedEmpty, Unattached
    <1>4. ASSUME Unattached(c)'
          PROVE  /\ queue'[c] = <<>> /\ reader'.tx # c
                 /\ target'.tx = c => target'.state = "detached" /\ "network" \in target'.reason
                 /\ \A i \in 1 .. Len(deferred'[c]) : deferred'[c][i].item # "chunk"
                 /\ conn'[c] \notin {"snapshot", "resumeCommit", "attachSend"}
        <2>1. Unattached(c)
            BY <1>1, <1>4 DEF Unattached
        <2> QED BY <1>1, <1>4, <2>1 DEF UnattachedEmpty, Unattached, NoChunkDeferred
    <1> QED BY <1>2, <1>3, <1>4 DEF UnattachedEmpty

\* The reader serves only a client the pane has been connected to.
LEMMA ReaderStepUnattached ==
    ASSUME TypeOK, NobodysIsNetwork, UnattachedEmpty, Reader
    PROVE  NobodysIsNetwork' /\ UnattachedEmpty'
    <1>1. UNCHANGED <<conn, deferred, attaches>>
        BY DEF Reader, ReaderCapture, Forward, ForwardDetached, ForwardSuppressed,
               ForwardSend, ForwardFull, ReaderPoll, ReaderSlot,
               SlotSend, SlotCovered, SlotClosed, Suppress, SuppressNothing,
               SuppressSend, SuppressEmpty, ReaderEof, Eof, EofSend, EofNotify,
               ReaderError, taskVars, boundVars
    <1>2. target' \in {target, Detached(NetworkDetach, NoConn)}
        BY DEF Reader, ReaderCapture, Forward, ForwardDetached, ForwardSuppressed,
               ForwardSend, ForwardFull, ReaderPoll, ReaderSlot,
               SlotSend, SlotCovered, SlotClosed, Suppress, SuppressNothing,
               SuppressSend, SuppressEmpty, ReaderEof, Eof, EofSend, EofNotify,
               ReaderError
    <1>3. \/ reader'.tx \in {reader.tx, NoConn}
          \/ target.state = "connected" /\ reader'.tx = target.tx
        <2> USE DEF TypeOK, ReaderType, Goto, NoChunk
        <2>1. CASE ForwardDetached
            BY <2>1 DEF ForwardDetached
        <2>8. CASE ReaderEof
            <3>1. CASE target.state = "connected"
                BY <2>8, <3>1 DEF ReaderEof
            <3> QED BY <2>8, <3>1 DEF ReaderEof
        <2>2. ASSUME NEW c \in Conn, ForwardSuppressed(c) \/ ForwardFull(c)
              PROVE  target.state = "connected" /\ reader'.tx = target.tx
            <3>1. reader'.tx = c
                BY <2>2 DEF ForwardSuppressed, ForwardFull
            <3> QED BY <2>2, <3>1 DEF ForwardSuppressed, ForwardFull, Connected
        <2>4. ASSUME NEW c \in Conn, ForwardSend(c)
              PROVE  reader'.tx = NoConn
            BY <2>4 DEF ForwardSend
        <2>5. CASE SlotCovered
            BY <2>5 DEF SlotCovered
        <2>6. CASE ReaderCapture
            BY <2>6 DEF ReaderCapture
        <2>7. CASE ReaderPoll \/ SlotSend \/ SlotClosed
            BY <2>7 DEF ReaderPoll, SlotSend, SlotClosed, readerVars
        <2>3. CASE Suppress \/ Eof \/ ReaderError
            BY <2>3 DEF Suppress, SuppressNothing, SuppressSend, SuppressEmpty, Eof,
               EofSend, EofNotify, ReaderError
        <2> QED BY <2>1, <2>2, <2>3, <2>4, <2>5, <2>6, <2>7, <2>8
            DEF Reader, Forward, ReaderSlot
    <1>4. ASSUME NEW d \in Conn, d # reader.tx, target.state = "connected" => target.tx # d
          PROVE  queue'[d] = queue[d]
        <2> USE DEF TypeOK, ChanType
        <2>1. ASSUME NEW c \in Conn, ForwardSend(c) PROVE queue'[d] = queue[d]
            <3>1. c # d
                BY <1>4, <2>1 DEF ForwardSend, Connected
            <3> QED BY <2>1, <3>1 DEF ForwardSend
        <2>2. ASSUME NEW f, PermitSend(reader.tx, "reader", f) PROVE queue'[d] = queue[d]
            BY <1>4, <2>2 DEF PermitSend
        <2>3. CASE SlotSend \/ SuppressSend \/ EofSend
            BY <2>2, <2>3 DEF SlotSend, SuppressSend, EofSend, chanVars
        <2> QED BY <2>1, <2>3
            DEF Reader, ReaderCapture, Forward, ForwardDetached, ForwardSuppressed,
                ForwardFull, ReaderPoll, ReaderSlot, SlotCovered,
                SlotClosed, Suppress, SuppressNothing, SuppressEmpty, ReaderEof, Eof,
                EofNotify, ReaderError, PollPermit, chanVars
    <1>5. NobodysIsNetwork'
        BY <1>2 DEF NobodysIsNetwork, Detached, NetworkDetach
    <1>6. ASSUME NEW d \in Conn, Unattached(d)'
          PROVE  /\ queue'[d] = <<>> /\ reader'.tx # d
                 /\ target'.tx = d => target'.state = "detached" /\ "network" \in target'.reason
        <2>1. Unattached(d)
            BY <1>1, <1>6 DEF Unattached
        <2> QED BY <1>2, <1>3, <1>4, <2>1, NoConnAssumption
            DEF UnattachedEmpty, Detached, NetworkDetach
    <1> QED BY <1>1, <1>5, <1>6 DEF UnattachedEmpty, Unattached

\* A task connects the pane to its client only when the client attaches, and
\* sends snapshots only afterwards.
LEMMA TaskStepUnattached ==
    ASSUME TypeOK, NobodysIsNetwork, AttachingCounted, UnattachedEmpty,
           NEW c \in Conn, Task(c)
    PROVE  NobodysIsNetwork' /\ UnattachedEmpty'
    <1> USE DEF At, Step, TypeOK, TaskType
    <1>1. UNCHANGED attaches
        BY DEF Task, RouteOther, Resume, ResumeNoChange, ResumeRead, ResumeCommit,
           ResumeOversize, OnDemand, SnapshotEnqueue, SnapshotOversize, Attach, AttachHidden,
           AttachRead, AttachSwap, AttachSend, Arm, Drain, DrainEnd, Flush, FlushEnd,
           FlushChunk, FlushResume, PollReserve, Fair, FairChunk, FairResume,
           FairNothing, KickedOut, Close, boundVars
    <1>2. Unattached(c) => NoChunkDeferred(deferred[c]) /\ queue[c] = <<>>
        BY DEF UnattachedEmpty, NoChunkDeferred
    <1>3. Unattached(c) /\ deferred[c] # <<>> =>
            NoChunkDeferred(Tail(deferred[c])) /\ Head(deferred[c]).item # "chunk"
        BY <1>2, TailDeferred
    <1>4. CASE \/ ResumeOversize(c) \/ SnapshotOversize(c) \/ AttachRead(c) \/ Arm(c)
               \/ DrainEnd(c) \/ FlushEnd(c) \/ PollReserve(c) \/ KickedOut(c)
               \/ AttachSend(c) \/ RouteOther(c)
        <2>1. /\ UNCHANGED <<reader, target, queue, deferred>>
              /\ \E pc \in {"arm", "flush", "route", "attachSwap", "idle", "closing"} :
                    /\ conn' = [conn EXCEPT ![c] = pc]
                    /\ pc = "attachSwap" => conn[c] = "attach"
            BY <1>4 DEF ResumeOversize, SnapshotOversize, AttachRead, Arm, DrainEnd,
               FlushEnd, PollReserve, PollPermit, KickedOut, AttachSend, RouteOther, readerVars,
               chanVars, taskVars
        <2> QED BY <1>1, <1>2, <2>1, UnattachedMove
    <1>5. CASE SnapshotEnqueue(c) \/ FlushChunk(c) \/ FairChunk(c)
        <2>1. ~Unattached(c)
            BY <1>2, <1>3, <1>5 DEF SnapshotEnqueue, FlushChunk, FairChunk, FairReady,
               UnattachedEmpty
        <2>2. /\ UNCHANGED <<reader, target>>
              /\ conn[c] \in {"snapshot", "flush", "idle"}
              /\ conn' \in {conn, [conn EXCEPT ![c] = "arm"]}
              /\ \A d \in Conn : d # c =>
                    queue'[d] = queue[d] /\ deferred'[d] = deferred[d]
            BY <1>5 DEF SnapshotEnqueue, Defer, FlushChunk, FairChunk, FairReady,
               PermitSend, readerVars, ChanType
        <2>3. PICK pc \in {conn[c], "arm"} : conn' = [conn EXCEPT ![c] = pc]
            BY <2>2
        <2> QED BY <1>1, <2>1, <2>2, <2>3, UnattachedMove DEF Unattached
    <1>6. CASE FlushResume(c) \/ FairResume(c) \/ FairNothing(c)
        <2>1. /\ UNCHANGED <<reader, target, queue>>
              /\ conn[c] \in {"flush", "idle"}
              /\ conn' \in {conn, [conn EXCEPT ![c] = "arm"], [conn EXCEPT ![c] = "resume"]}
              /\ \/ deferred[c] # <<>> /\ deferred' = [deferred EXCEPT ![c] = Tail(@)]
                 \/ deferred[c] = <<>> /\ deferred' = deferred
            BY <1>6 DEF FlushResume, FairResume, FairNothing, FairReady, readerVars
        <2>2. PICK pc \in {conn[c], "arm", "resume"} : conn' = [conn EXCEPT ![c] = pc]
            BY <2>1
        <2>3. /\ \A d \in Conn : d # c => deferred'[d] = deferred[d]
              /\ Unattached(c) => NoChunkDeferred(deferred'[c])
            BY <1>2, <1>3, <2>1
        <2> QED BY <1>1, <2>1, <2>2, <2>3, UnattachedMove
    <1>7. CASE Drain(c)
        <2>1. ~Unattached(c)
            BY <1>2, <1>7 DEF Drain
        <2> QED BY <1>1, <1>7, <2>1, UnattachedMove DEF Drain, readerVars, ChanType, Unattached
    <1>8. CASE Close(c)
        <2>1. Unattached(c) => queue'[c] = queue[c] /\ NoChunkDeferred(deferred'[c])
            BY <1>2, <1>8 DEF Close, NoChunkDeferred, ChanType
        <2> QED BY <1>1, <1>8, <2>1, UnattachedMove DEF Close, readerVars, ChanType
    <1>9. CASE ResumeRead(c)
        <2>1. attaches[c] # 0
            BY <1>9 DEF ResumeRead, Owns, HiddenByVisibility, UnattachedEmpty, Unattached,
               NobodysIsNetwork
        <2> QED BY <1>1, <1>2, <1>9, <2>1, UnattachedMove DEF ResumeRead, readerVars, chanVars
    <1>10. CASE ResumeNoChange(c)
        <2>1. /\ UNCHANGED <<reader, queue, deferred>>
              /\ conn[c] = "resume" /\ job[c].back \in {"arm", "flush"}
              /\ conn' = [conn EXCEPT ![c] = job[c].back]
            BY <1>10 DEF ResumeNoChange, readerVars
        <2>2. \/ target' = target
              \/ Owns(c) /\ target' = Detached(target.reason \ HiddenByVisibility, c)
            BY <1>10 DEF ResumeNoChange
        <2>3. NobodysIsNetwork'
            BY <2>2, NoConnAssumption DEF NobodysIsNetwork, Detached
        <2>4. ASSUME NEW d \in Conn, Unattached(d)'
              PROVE  Unattached(d) /\ conn'[d] \notin {"snapshot", "resumeCommit", "attachSend"}
            BY <1>1, <2>1, <2>4 DEF Unattached, UnattachedEmpty
        <2>5. ASSUME NEW d \in Conn, Unattached(d)', target'.tx = d
              PROVE  target'.state = "detached" /\ "network" \in target'.reason
            BY <2>2, <2>4, <2>5 DEF UnattachedEmpty, NobodysIsNetwork, Owns, Detached,
               HiddenByVisibility
        <2> QED BY <2>1, <2>3, <2>4, <2>5 DEF UnattachedEmpty
    <1>11. CASE ResumeCommit(c)
        <2>1. /\ UNCHANGED <<reader, deferred>> /\ target' = Connected(c)
              /\ conn[c] = "resumeCommit" /\ job[c].back \in {"arm", "flush"}
              /\ conn' = [conn EXCEPT ![c] = job[c].back]
              /\ \A d \in Conn : d # c => queue'[d] = queue[d]
            BY <1>11 DEF ResumeCommit, PermitSend, readerVars, ChanType
        <2>2. ~Unattached(c)
            BY <2>1 DEF UnattachedEmpty
        <2>3. ASSUME NEW d \in Conn, Unattached(d)'
              PROVE  /\ Unattached(d) /\ d # c
                     /\ conn'[d] \notin {"snapshot", "resumeCommit", "attachSend"}
            BY <1>1, <2>1, <2>2, <2>3 DEF Unattached, UnattachedEmpty
        <2> QED BY <2>1, <2>3 DEF UnattachedEmpty, NobodysIsNetwork, Connected
    <1>12. CASE AttachHidden(c)
        <2>1. /\ UNCHANGED <<reader, deferred, queue>>
              /\ target' \in {target, Detached(HiddenByVisibility, c)}
              /\ conn[c] = "attach" /\ conn' = [conn EXCEPT ![c] = "arm"]
            BY <1>12 DEF AttachHidden, readerVars, chanVars
        <2>2. attaches[c] # 0
            BY <2>1, PaneOutputAssumption DEF AttachingCounted, BoundType
        <2>3. ASSUME NEW d \in Conn, Unattached(d)'
              PROVE  /\ Unattached(d) /\ d # c
                     /\ conn'[d] \notin {"snapshot", "resumeCommit", "attachSend"}
            BY <1>1, <2>1, <2>2, <2>3 DEF Unattached, UnattachedEmpty
        <2> QED BY <2>1, <2>3, NoConnAssumption
            DEF UnattachedEmpty, NobodysIsNetwork, Detached
    <1>13. CASE AttachSwap(c)
        <2>1. /\ UNCHANGED <<reader, deferred, queue>>
              /\ target' \in {target, Connected(c)} /\ conn[c] = "attachSwap"
              /\ conn' \in {[conn EXCEPT ![c] = "arm"], [conn EXCEPT ![c] = "attachSend"]}
            BY <1>13 DEF AttachSwap, readerVars, chanVars
        <2>2. attaches[c] # 0
            BY <2>1, PaneOutputAssumption DEF AttachingCounted, BoundType
        <2>3. ASSUME NEW d \in Conn, Unattached(d)'
              PROVE  /\ Unattached(d) /\ d # c
                     /\ conn'[d] \notin {"snapshot", "resumeCommit", "attachSend"}
            BY <1>1, <2>1, <2>2, <2>3 DEF Unattached, UnattachedEmpty
        <2>4. NobodysIsNetwork'
            BY <2>1 DEF NobodysIsNetwork, Connected
        <2>5. ASSUME NEW d \in Conn, Unattached(d)', target'.tx = d
              PROVE  target'.state = "detached" /\ "network" \in target'.reason
            BY <2>1, <2>3, <2>5 DEF UnattachedEmpty, Connected
        <2> QED BY <2>1, <2>3, <2>4, <2>5 DEF UnattachedEmpty
    <1> QED BY <1>4, <1>5, <1>6, <1>7, <1>8, <1>9, <1>10, <1>11, <1>12, <1>13
        DEF Task, Resume, OnDemand, Attach, Flush, Fair

\* A client that hides, shows or leaves before it attaches gets nothing; one that
\* attaches had never attached before.
LEMMA ClientStepUnattached ==
    ASSUME TypeOK, NobodysIsNetwork, UnattachedEmpty, MaxAttach <= 1,
           NEW c \in Conn, Client(c)
    PROVE  NobodysIsNetwork' /\ UnattachedEmpty'
    <1> USE DEF At, Step, TypeOK, TaskType
    <1>1. Unattached(c) => NoChunkDeferred(deferred[c]) /\ queue[c] = <<>>
        BY DEF UnattachedEmpty, NoChunkDeferred
    <1>2. CASE Hide(c)
        <2>1. /\ UNCHANGED <<reader, deferred, queue, attaches>>
              /\ target' \in {target, Hidden(c)}
              /\ conn[c] = "route" /\ conn' = [conn EXCEPT ![c] = "arm"]
            BY <1>2 DEF Hide, readerVars, chanVars
        <2>2. ASSUME NEW d \in Conn, Unattached(d)'
              PROVE  /\ Unattached(d)
                     /\ conn'[d] \notin {"snapshot", "resumeCommit", "attachSend"}
            BY <2>1, <2>2 DEF Unattached, UnattachedEmpty
        <2>3. NobodysIsNetwork'
            BY <2>1, NoConnAssumption DEF NobodysIsNetwork, Hidden, Detached
        <2>4. ASSUME NEW d \in Conn, Unattached(d)', target'.tx = d
              PROVE  target'.state = "detached" /\ "network" \in target'.reason
            BY <2>1, <2>2, <2>4 DEF UnattachedEmpty, NobodysIsNetwork, Hidden,
               Connected, Detached
        <2> QED BY <2>1, <2>2, <2>3, <2>4 DEF UnattachedEmpty
    <1>3. CASE Show(c)
        <2>1. /\ UNCHANGED <<reader, target, queue, attaches>> /\ conn[c] = "route"
              /\ deferred' \in {deferred, [deferred EXCEPT ![c] = DeferResume(@)]}
              /\ conn' \in {[conn EXCEPT ![c] = "arm"], [conn EXCEPT ![c] = "resume"]}
            BY <1>3 DEF Show, readerVars
        <2>2. PICK pc \in {"arm", "resume"} : conn' = [conn EXCEPT ![c] = pc]
            BY <2>1
        <2>3. /\ \A d \in Conn : d # c => deferred'[d] = deferred[d]
              /\ Unattached(c) => NoChunkDeferred(deferred'[c])
            BY <1>1, <2>1, ResumeDeferred
        <2> QED BY <2>1, <2>2, <2>3, UnattachedMove
    <1>4. CASE SnapshotRead(c)
        <2>1. ~Unattached(c)
            BY <1>4 DEF SnapshotRead, Unattached, BoundType
        <2> QED BY <1>4, <2>1, UnattachedMove
            DEF SnapshotRead, readerVars, chanVars, Unattached
    <1>5. CASE Disconnect(c)
        <2>1. /\ UNCHANGED <<reader, deferred, queue, attaches>>
              /\ target' \in {target, Detached(NetworkDetach, NoConn)}
              /\ conn' = [conn EXCEPT ![c] = "closing"]
            BY <1>5 DEF Disconnect, DetachOwn, readerVars, chanVars, boundVars
        <2>2. ASSUME NEW d \in Conn, Unattached(d)'
              PROVE  /\ Unattached(d)
                     /\ conn'[d] \notin {"snapshot", "resumeCommit", "attachSend"}
            BY <2>1, <2>2 DEF Unattached, UnattachedEmpty
        <2>3. /\ target' = target \/ (target'.tx = NoConn /\ "network" \in target'.reason)
              /\ NobodysIsNetwork'
            <3>1. CASE target' = target
                BY <3>1 DEF NobodysIsNetwork
            <3>2. CASE target' = Detached(NetworkDetach, NoConn)
                BY <3>2 DEF NobodysIsNetwork, Detached, NetworkDetach
            <3> QED BY <2>1, <3>1, <3>2
        <2>4. ASSUME NEW d \in Conn, Unattached(d)', target'.tx = d
              PROVE  target'.state = "detached" /\ "network" \in target'.reason
            BY <2>2, <2>3, <2>4, NoConnAssumption DEF UnattachedEmpty
        <2> QED BY <2>1, <2>2, <2>3, <2>4 DEF UnattachedEmpty
    <1>6. CASE AttachDetach(c)
        <2>1. /\ UNCHANGED <<reader, deferred, queue>> /\ conn[c] = "route"
              /\ target' \in {target, Detached(NetworkDetach, NoConn)}
              /\ conn' = [conn EXCEPT ![c] = "attach"]
              /\ \A d \in Conn : d # c => attaches'[d] = attaches[d]
            BY <1>6 DEF AttachDetach, DetachOwn, readerVars, chanVars, BoundType
        <2>2. attaches[c] = 0
            BY <1>6, PaneOutputAssumption DEF AttachDetach, BoundType
        <2>3. ASSUME NEW d \in Conn, Unattached(d)'
              PROVE  /\ Unattached(d)
                     /\ conn'[d] \notin {"snapshot", "resumeCommit", "attachSend"}
            BY <2>1, <2>2, <2>3 DEF Unattached, UnattachedEmpty
        <2>4. /\ target' = target \/ (target'.tx = NoConn /\ "network" \in target'.reason)
              /\ NobodysIsNetwork'
            <3>1. CASE target' = target
                BY <3>1 DEF NobodysIsNetwork
            <3>2. CASE target' = Detached(NetworkDetach, NoConn)
                BY <3>2 DEF NobodysIsNetwork, Detached, NetworkDetach
            <3> QED BY <2>1, <3>1, <3>2
        <2>5. ASSUME NEW d \in Conn, Unattached(d)', target'.tx = d
              PROVE  target'.state = "detached" /\ "network" \in target'.reason
            BY <2>3, <2>4, <2>5, NoConnAssumption DEF UnattachedEmpty
        <2> QED BY <2>1, <2>3, <2>4, <2>5 DEF UnattachedEmpty
    <1>7. CASE Receive(c)
        BY <1>1, <1>7, UnattachedMove DEF Receive, readerVars, chanVars, boundVars
    <1> QED BY <1>2, <1>3, <1>4, <1>5, <1>6, <1>7 DEF Client

\* A client is inside an attach only if it has sent an Attach.
LEMMA StepCounted ==
    ASSUME TypeOK, AttachingCounted, [Next]_vars
    PROVE  AttachingCounted'
    <1> USE DEF At, Step, TypeOK, TaskType, BoundType
    <1>1. CASE Reader
        <2>1. UNCHANGED <<conn, attaches>>
            BY <1>1 DEF Reader, ReaderCapture, Forward, ForwardDetached,
               ForwardSuppressed, ForwardSend, ForwardFull, ReaderPoll,
               ReaderSlot, SlotSend, SlotCovered, SlotClosed, Suppress,
               SuppressNothing, SuppressSend, SuppressEmpty, ReaderEof, Eof, EofSend,
               EofNotify, ReaderError, taskVars, boundVars
        <2> QED BY <2>1 DEF AttachingCounted
    <1>2. ASSUME NEW c \in Conn, Client(c) PROVE AttachingCounted'
        <2>1. CASE AttachDetach(c)
            BY <2>1 DEF AttachDetach, AttachingCounted
        <2>2. CASE Receive(c) \/ Hide(c) \/ SnapshotRead(c) \/ Disconnect(c)
            BY <2>2 DEF Receive, Hide, SnapshotRead, Disconnect, AttachingCounted, boundVars
        <2>3. CASE Show(c)
            BY <2>3 DEF Show, AttachingCounted
        <2> QED BY <1>2, <2>1, <2>2, <2>3 DEF Client
    <1>3. ASSUME NEW c \in Conn, Task(c) PROVE AttachingCounted'
        <2>1. CASE Resume(c)
            BY <2>1 DEF Resume, ResumeNoChange, ResumeRead, ResumeCommit, ResumeOversize,
               AttachingCounted, boundVars
        <2>2. CASE OnDemand(c) \/ Attach(c)
            BY <2>2 DEF OnDemand, SnapshotEnqueue, SnapshotOversize, Attach,
               AttachHidden, AttachRead, AttachSwap, AttachSend, AttachingCounted, boundVars
        <2>3. CASE Arm(c) \/ Drain(c) \/ DrainEnd(c) \/ KickedOut(c) \/ Close(c)
                \/ RouteOther(c)
            BY <2>3 DEF RouteOther, Arm, Drain, DrainEnd, KickedOut, Close, AttachingCounted, boundVars
        <2>4. CASE Flush(c) \/ Fair(c) \/ PollReserve(c)
            <3>1. job[c].then \in {"arm", "route"}
                OBVIOUS
            <3> QED BY <2>4, <3>1 DEF Flush, FlushEnd, FlushChunk, FlushResume, Fair, FairChunk,
               FairResume, FairNothing, PollReserve, AttachingCounted, boundVars, taskVars
        <2> QED BY <1>3, <2>1, <2>2, <2>3, <2>4 DEF Task
    <1>4. CASE ExitTask \/ UNCHANGED vars
        BY <1>4 DEF ExitTask, vars, taskVars, boundVars, AttachingCounted
    <1> QED BY <1>1, <1>2, <1>3, <1>4 DEF Next, Terminated

-----------------------------------------------------------------------------
(* The theorem *)

\* Initially nothing has been sent, and the pane is connected only to a client
\* that has attached.
LEMMA InitStream == Init => StreamInv
    <1> SUFFICES ASSUME Init PROVE StreamInv
        OBVIOUS
    <1>1. \A c \in Conn : Stream(c) = <<>> /\ conn[c] = "idle"
        BY DEF Init, Stream, Leaving
    <1>2. NoDoubleApply /\ SnapshotsRecorded
        BY <1>1 DEF NoDoubleApply, SnapshotsRecorded, Ordered, Below
    <1>3. NobodysIsNetwork /\ AttachingCounted
        BY <1>1, NoConnAssumption
        DEF Init, NobodysIsNetwork, AttachingCounted, Detached, NetworkDetach, Connected
    <1>4. UnattachedEmpty
        BY <1>1, NoConnAssumption
        DEF Init, UnattachedEmpty, Unattached, Detached, NetworkDetach, Connected, NoChunk
    <1> QED BY <1>2, <1>3, <1>4 DEF StreamInv

\* Every step keeps the invariant, if no client attaches twice.
LEMMA StepStream ==
    ASSUME MaxAttach <= 1
    PROVE  TypeOK /\ StreamInv /\ [Next]_vars => StreamInv'
    <1> SUFFICES ASSUME TypeOK, StreamInv, [Next]_vars PROVE StreamInv'
        OBVIOUS
    <1>1. TypeOK'
        BY StepType
    <1>2. AllOK /\ NobodysIsNetwork /\ AttachingCounted /\ UnattachedEmpty
        BY DEF StreamInv, AllOK, StreamOK, NoDoubleApply, SnapshotsRecorded
    <1>3. AttachingCounted'
        BY <1>2, StepCounted
    <1>4. AllOK' /\ NobodysIsNetwork' /\ UnattachedEmpty'
        <2>1. CASE Reader
            BY <1>1, <1>2, <2>1, ReaderStepStream, ReaderStepUnattached
        <2>2. ASSUME NEW c \in Conn, Task(c)
              PROVE  AllOK' /\ NobodysIsNetwork' /\ UnattachedEmpty'
            BY <1>1, <1>2, <2>2, TaskStepStream, TaskStepUnattached
        <2>3. ASSUME NEW c \in Conn, Client(c)
              PROVE  AllOK' /\ NobodysIsNetwork' /\ UnattachedEmpty'
            BY <1>1, <1>2, <2>3, ClientStepStream, ClientStepUnattached
        <2>4. CASE ExitTask \/ UNCHANGED vars
            BY <1>2, <2>4 DEF ExitTask, vars, readerVars, captureVars, chanVars, taskVars,
               boundVars, AllOK, StreamOK, Stream, ReattachFrame, Leaving,
               NobodysIsNetwork, UnattachedEmpty, Unattached
        <2> QED BY <2>1, <2>2, <2>3, <2>4 DEF Next, Terminated
    <1> QED BY <1>3, <1>4
        DEF StreamInv, AllOK, StreamOK, NoDoubleApply, SnapshotsRecorded

\* Whatever the number of clients, chunks and requests and the capacity of the
\* channel: a client that attaches at most once never receives a chunk after a
\* snapshot that contains it.
THEOREM StreamCorrect ==
    ASSUME MaxAttach <= 1
    PROVE  Spec => []NoDoubleApply
    <1>1. StreamInv => NoDoubleApply
        BY DEF StreamInv
    <1> QED BY <1>1, InitStream, StepStream, TypeCorrect, PTL DEF Spec

-----------------------------------------------------------------------------
(* One stream, and the inductive invariant *)

\* Frame k is the last of s that replaces the client's screen; 0: none does.
LastAt(s, k) ==
    /\ k \in 0 .. Len(s)
    /\ k # 0 => s[k].kind \in SnapKind
    /\ \A i \in k + 1 .. Len(s) : s[i].kind \notin SnapKind

\* The chunks after this one are sent as raw output behind frame k.
LoAt(s, k) == IF k = 0 THEN 0
              ELSE IF s[k].kind = "resume" THEN s[k].num ELSE s[k].at

\* Chunk n follows frame k as raw output.
RawAfter(s, k, n) ==
    \E j \in k + 1 .. Len(s) : s[j].kind = "raw" /\ s[j].num = n

\* s has a snapshot that contains the chunks up to b.
HasSnap(s, b) == \E i \in 1 .. Len(s) : IsSnapshot(s[i]) /\ s[i].num = b

\* Every replacement in s continues a snapshot before it.
Replaces(s) ==
    \A j \in 1 .. Len(s) : s[j].kind = "repl" =>
        /\ s[j].at = s[j].num
        /\ \E i \in 1 .. j - 1 : IsSnapshot(s[i]) /\ s[i].num = s[j].num

\* The boundary of a client is that of a snapshot in its stream, and no larger
\* than what was captured when its last reset took its place.
Recorded(s, k, e) == e.gen > 0 => HasSnap(s, e.b) /\ e.b <= LoAt(s, k)

\* What a client the pane is connected to has after frame k: every chunk the
\* reader has settled, and the one waiting for a slot only if it waits for this
\* client.
Got(c, s, k) ==
    /\ \A n \in LoAt(s, k) + 1 .. Settled : RawAfter(s, k, n)
    /\ reader.pc = "needSlot" => c = reader.tx \/ captured <= LoAt(s, k)

Arrive(c) ==
    ~Leaving(c) => \E k \in 0 .. Len(Stream(c)) :
        /\ LastAt(Stream(c), k)
        /\ Recorded(Stream(c), k, entry[c])
        /\ target = Connected(c) => Got(c, Stream(c), k)

\* Numbers never run ahead of the capture step, and a chunk is decided upon
\* before the next one is captured.
Numbers ==
    /\ \A c \in Conn : /\ entry[c].b <= captured /\ job[c].b <= captured
                       /\ \A i \in 1 .. Len(deferred[c]) : deferred[c][i].b <= captured
    /\ reader.pc \in {"captured", "needSlot", "suppressed"} => reader.n = captured

\* A chunk is withheld only while the client's boundary covers it.
Withheld ==
    reader.pc = "suppressed" =>
        reader.tail /\ (~Leaving(reader.tx) => Covered(reader.tx, reader.n))

\* A task between captured_read and the switch to Connected holds output_target:
\* nothing is decided about a later chunk.
Committing ==
    \A c \in Conn : conn[c] = "resumeCommit" =>
        /\ Settled <= job[c].b /\ entry[c].b <= job[c].b
        /\ reader.pc = "needSlot" => job[c].b = captured

\* A client that is told to go, or that leaves, does not have a live pane.
LeaversDetached ==
    ~exited => \A c \in Conn :
        /\ kicked[c] /\ target.tx = c =>
              target.state = "detached" /\ "network" \in target.reason
        /\ Leaving(c) => target # Connected(c)

\* A task about to connect the pane finds it detached for visibility alone.
ResumesHidden ==
    \A c \in Conn : conn[c] = "resumeCommit" => target.reason \subseteq HiddenByVisibility

DecisionInv == Numbers /\ Withheld /\ Committing
Intact(c) == Arrive(c) /\ Replaces(Stream(c))
AllIntact == \A c \in Conn : Intact(c)
ArrivalInv == AllIntact /\ DecisionInv
OpenInv == LeaversDetached /\ ResumesHidden

-----------------------------------------------------------------------------
(* Sequences of frames *)

\* A frame that resets nothing leaves the last reset where it is.
LEMMA AppendPlain ==
    ASSUME NEW s \in Seq(Frame), NEW f \in Frame, f.kind \notin SnapKind,
           NEW k, LastAt(s, k)
    PROVE  /\ LastAt(Append(s, f), k) /\ LoAt(Append(s, f), k) = LoAt(s, k)
           /\ \A n : RawAfter(s, k, n) => RawAfter(Append(s, f), k, n)
           /\ f.kind = "raw" => RawAfter(Append(s, f), k, f.num)
    <1> DEFINE t == Append(s, f)
    <1>1. /\ Len(t) = Len(s) + 1 /\ Len(s) \in Nat
          /\ \A i \in 1 .. Len(s) : t[i] = s[i]
          /\ t[Len(s) + 1] = f
        OBVIOUS
    <1>2. k \in 0 .. Len(s) /\ (k # 0 => t[k] = s[k] /\ s[k].kind \in SnapKind)
        BY <1>1 DEF LastAt
    <1> HIDE DEF t
    <1>3. LastAt(t, k)
        <2>1. ASSUME NEW i \in k + 1 .. Len(t) PROVE t[i].kind \notin SnapKind
            <3>1. CASE i = Len(s) + 1
                BY <1>1, <3>1
            <3>2. CASE i # Len(s) + 1
                <4>1. i \in k + 1 .. Len(s) /\ i \in 1 .. Len(s)
                    BY <1>1, <1>2, <3>2
                <4> QED BY <1>1, <4>1 DEF LastAt
            <3> QED BY <3>1, <3>2
        <2> QED BY <1>1, <1>2, <2>1 DEF LastAt
    <1>4. LoAt(t, k) = LoAt(s, k)
        BY <1>2 DEF LoAt
    <1>5. ASSUME NEW n, RawAfter(s, k, n) PROVE RawAfter(t, k, n)
        <2>1. PICK j \in k + 1 .. Len(s) : s[j].kind = "raw" /\ s[j].num = n
            BY <1>5 DEF RawAfter
        <2>2. j \in k + 1 .. Len(t) /\ t[j] = s[j]
            BY <1>1, <1>2
        <2> QED BY <2>1, <2>2 DEF RawAfter
    <1>6. ASSUME f.kind = "raw" PROVE RawAfter(t, k, f.num)
        <2>1. Len(s) + 1 \in k + 1 .. Len(t)
            BY <1>1, <1>2
        <2> QED BY <1>1, <1>6, <2>1 DEF RawAfter
    <1> QED BY <1>3, <1>4, <1>5, <1>6 DEF t

\* A reset at the end of a stream is its last one.
LEMMA AppendReset ==
    ASSUME NEW s \in Seq(Frame), NEW f \in Frame, f.kind \in SnapKind
    PROVE  /\ LastAt(Append(s, f), Len(s) + 1)
           /\ Len(s) + 1 \in 0 .. Len(Append(s, f))
           /\ LoAt(Append(s, f), Len(s) + 1) = IF f.kind = "resume" THEN f.num ELSE f.at
    <1>1. /\ Len(Append(s, f)) = Len(s) + 1 /\ Len(s) \in Nat
          /\ Append(s, f)[Len(s) + 1] = f
        OBVIOUS
    <1> QED BY <1>1 DEF LastAt, LoAt

\* A snapshot in a stream stays in it, and one that is added is in it.
LEMMA AppendSnap ==
    ASSUME NEW s \in Seq(Frame), NEW f \in Frame
    PROVE  /\ \A b : HasSnap(s, b) => HasSnap(Append(s, f), b)
           /\ IsSnapshot(f) => HasSnap(Append(s, f), f.num)
    <1>1. /\ Len(Append(s, f)) = Len(s) + 1 /\ Len(s) \in Nat
          /\ \A i \in 1 .. Len(s) : Append(s, f)[i] = s[i]
          /\ Append(s, f)[Len(s) + 1] = f
        OBVIOUS
    <1>2. /\ 1 .. Len(s) \subseteq 1 .. Len(Append(s, f))
          /\ Len(s) + 1 \in 1 .. Len(Append(s, f))
        BY <1>1
    <1>3. ASSUME NEW b, HasSnap(s, b) PROVE HasSnap(Append(s, f), b)
        <2>1. PICK i \in 1 .. Len(s) : IsSnapshot(s[i]) /\ s[i].num = b
            BY <1>3 DEF HasSnap
        <2> QED BY <1>1, <1>2, <2>1 DEF HasSnap
    <1>4. IsSnapshot(f) => HasSnap(Append(s, f), f.num)
        BY <1>1, <1>2 DEF HasSnap
    <1> QED BY <1>3, <1>4

\* A frame at the end of a stream replaces nothing, or what a snapshot in the
\* stream contains.
LEMMA AppendReplaces ==
    ASSUME NEW s \in Seq(Frame), NEW f \in Frame, Replaces(s),
           f.kind = "repl" => f.at = f.num /\ HasSnap(s, f.num)
    PROVE  Replaces(Append(s, f))
    <1> DEFINE t == Append(s, f)
    <1>1. /\ Len(t) = Len(s) + 1 /\ Len(s) \in Nat
          /\ \A i \in 1 .. Len(s) : t[i] = s[i]
          /\ t[Len(s) + 1] = f
        OBVIOUS
    <1> HIDE DEF t
    <1> SUFFICES ASSUME NEW j \in 1 .. Len(t), t[j].kind = "repl"
                 PROVE  /\ t[j].at = t[j].num
                        /\ \E i \in 1 .. j - 1 : IsSnapshot(t[i]) /\ t[i].num = t[j].num
        BY DEF Replaces, t
    <1>2. CASE j \in 1 .. Len(s)
        <2>1. /\ s[j].at = s[j].num /\ t[j] = s[j]
              /\ \E i \in 1 .. j - 1 : IsSnapshot(s[i]) /\ s[i].num = s[j].num
            BY <1>1, <1>2 DEF Replaces
        <2>2. PICK i \in 1 .. j - 1 : IsSnapshot(s[i]) /\ s[i].num = s[j].num
            BY <2>1
        <2>3. t[i] = s[i]
            BY <1>1, <1>2
        <2> QED BY <2>1, <2>2, <2>3
    <1>3. CASE j = Len(s) + 1
        <2>1. f.at = f.num /\ HasSnap(s, f.num) /\ t[j] = f
            BY <1>1, <1>3
        <2>2. PICK i \in 1 .. Len(s) : IsSnapshot(s[i]) /\ s[i].num = f.num
            BY <2>1 DEF HasSnap
        <2>3. t[i] = s[i] /\ i \in 1 .. j - 1
            BY <1>1, <1>3
        <2> QED BY <2>1, <2>2, <2>3
    <1> QED BY <1>1, <1>2, <1>3

\* What has reached the wire needs nothing that has not.
LEMMA PrefixReplaces ==
    ASSUME NEW w \in Seq(Frame), NEW q \in Seq(Frame), Replaces(w \o q)
    PROVE  Replaces(w)
    <1> DEFINE t == w \o q
    <1>1. /\ Len(t) = Len(w) + Len(q) /\ Len(w) \in Nat /\ Len(q) \in Nat
          /\ \A i \in 1 .. Len(w) : t[i] = w[i]
        OBVIOUS
    <1>2. Replaces(t)
        OBVIOUS
    <1> HIDE DEF t
    <1> SUFFICES ASSUME NEW j \in 1 .. Len(w), w[j].kind = "repl"
                 PROVE  /\ w[j].at = w[j].num
                        /\ \E i \in 1 .. j - 1 : IsSnapshot(w[i]) /\ w[i].num = w[j].num
        BY DEF Replaces
    <1>3. j \in 1 .. Len(t) /\ t[j] = w[j] /\ \A i \in 1 .. j - 1 : t[i] = w[i]
        BY <1>1
    <1> QED BY <1>2, <1>3 DEF Replaces

-----------------------------------------------------------------------------
(* A live pane is never left connected to a client that has gone *)

\* The step leaves target and kicks alone, and takes the task to a place where it
\* does not hold the output_target lock.
LEMMA OpenMove ==
    ASSUME TypeOK, OpenInv, NEW c \in Conn, NEW pc, conn' = [conn EXCEPT ![c] = pc],
           pc # "resumeCommit", UNCHANGED <<target, kicked>>, exited => exited',
           pc \in {"closing", "gone"} => Leaving(c) \/ kicked[c]
    PROVE  OpenInv'
    <1>1. /\ \A d \in Conn : d # c => conn'[d] = conn[d]
          /\ conn'[c] = pc
        BY DEF TypeOK, TaskType
    <1>2. ResumesHidden'
        BY <1>1 DEF OpenInv, ResumesHidden
    <1>3. ASSUME ~exited', NEW d \in Conn
          PROVE  /\ kicked'[d] /\ target'.tx = d =>
                       target'.state = "detached" /\ "network" \in target'.reason
                 /\ Leaving(d)' => target' # Connected(d)
        <2>1. /\ kicked[d] /\ target.tx = d =>
                   target.state = "detached" /\ "network" \in target.reason
              /\ Leaving(d) => target # Connected(d)
            BY <1>3 DEF OpenInv, LeaversDetached
        <2>2. CASE Leaving(d)' /\ ~Leaving(d)
            <3>1. d = c /\ kicked[c]
                BY <1>1, <2>2 DEF Leaving
            <3> QED BY <2>1, <3>1 DEF Connected
        <2> QED BY <2>1, <2>2
    <1>4. LeaversDetached'
        BY <1>3 DEF LeaversDetached
    <1> QED BY <1>2, <1>4 DEF OpenInv

\* A step of one task, taken while no other task is inside a resume, that may
\* change the target.
LEMMA OpenTake ==
    ASSUME TypeOK, OwnerInv, NEW c \in Conn, NEW pc, conn' = [conn EXCEPT ![c] = pc],
           pc # "resumeCommit", conn[c] = "resumeCommit" \/ TargetFree,
           ~exited' => \A d \in Conn :
              /\ kicked'[d] /\ target'.tx = d =>
                    target'.state = "detached" /\ "network" \in target'.reason
              /\ Leaving(d)' => target' # Connected(d)
    PROVE  OpenInv'
    <1>1. /\ \A d \in Conn : d # c => conn'[d] = conn[d]
          /\ conn'[c] = pc
        BY DEF TypeOK, TaskType
    <1>2. \A d \in Conn : conn'[d] # "resumeCommit"
        BY <1>1 DEF OwnerInv, ResumeExclusive, TargetFree
    <1> QED BY <1>2 DEF OpenInv, LeaversDetached, ResumesHidden

\* The reader takes the target only from a client that has gone.
LEMMA ReaderStepOpen ==
    ASSUME TypeOK, OpenInv, Reader
    PROVE  OpenInv'
    <1>1. UNCHANGED <<conn, kicked, exited>>
        BY DEF Reader, ReaderCapture, Forward, ForwardDetached, ForwardSuppressed,
               ForwardSend, ForwardFull, ReaderPoll, ReaderSlot,
               SlotSend, SlotCovered, SlotClosed, Suppress, SuppressNothing,
               SuppressSend, SuppressEmpty, ReaderEof, Eof, EofSend, EofNotify,
               ReaderError, taskVars, kickVars, exitVars
    <1>2. \/ UNCHANGED target
          \/ target' = Detached(NetworkDetach, NoConn) /\ TargetFree
        BY DEF Reader, ReaderCapture, Forward, ForwardDetached, ForwardSuppressed,
               ForwardSend, ForwardFull, ReaderPoll, ReaderSlot,
               SlotSend, SlotCovered, SlotClosed, Suppress, SuppressNothing,
               SuppressSend, SuppressEmpty, ReaderEof, Eof, EofSend, EofNotify,
               ReaderError
    <1>3. CASE UNCHANGED target
        BY <1>1, <1>3 DEF OpenInv, LeaversDetached, ResumesHidden, Leaving
    <1>4. CASE target' = Detached(NetworkDetach, NoConn) /\ TargetFree
        <2>1. target'.tx = NoConn /\ target'.state = "detached"
            BY <1>4 DEF Detached
        <2>2. LeaversDetached'
            BY <2>1, NoConnAssumption DEF LeaversDetached, Connected
        <2>3. ResumesHidden'
            BY <1>1, <1>4 DEF ResumesHidden, TargetFree
        <2> QED BY <2>2, <2>3 DEF OpenInv
    <1> QED BY <1>2, <1>3, <1>4

\* A task that takes the pane has not been told to go; one that is told to go
\* does not have it.
LEMMA TaskStepOpen ==
    ASSUME TypeOK, OwnerInv, NobodysIsNetwork, OpenInv, NEW c \in Conn, Task(c)
    PROVE  OpenInv'
    <1> USE DEF TypeOK, TaskType
    <1>1. CASE ResumeNoChange(c)
        <2>1. /\ job[c].back \in {"arm", "flush"} /\ conn[c] = "resume" /\ TargetFree
              /\ conn' = [conn EXCEPT ![c] = job[c].back]
              /\ UNCHANGED <<kicked, exited>>
            BY <1>1 DEF ResumeNoChange, At, Step, kickVars, exitVars
        <2>2. CASE UNCHANGED target
            BY <2>1, <2>2, OpenMove
        <2>3. CASE target' # target
            <3>1. ~exited /\ Owns(c)
                  /\ target' = Detached(target.reason \ HiddenByVisibility, c)
                BY <1>1, <2>3 DEF ResumeNoChange
            <3>2. kicked[c] => "network" \in target.reason
                BY <3>1 DEF Owns, OpenInv, LeaversDetached, NobodysIsNetwork
            <3>3. /\ target'.tx = c /\ target'.state = "detached"
                  /\ "network" \in target.reason => "network" \in target'.reason
                BY <3>1 DEF Detached, HiddenByVisibility
            <3>4. ASSUME NEW d \in Conn, kicked'[d], target'.tx = d
                  PROVE  "network" \in target'.reason
                <4>1. d = c
                    BY <3>3, <3>4
                <4>2. kicked[c]
                    BY <2>1, <3>4, <4>1
                <4> QED BY <3>2, <3>3, <4>2
            <3>5. \A d \in Conn : target' # Connected(d)
                BY <3>3 DEF Connected
            <3> QED BY <2>1, <3>3, <3>4, <3>5, OpenTake
        <2> QED BY <2>2, <2>3
    <1>2. CASE ResumeRead(c)
        <2>1. /\ conn[c] = "resume" /\ target.reason \subseteq HiddenByVisibility
              /\ \A d \in Conn : d # c => conn'[d] = conn[d]
              /\ conn'[c] = "resumeCommit" /\ UNCHANGED <<target, kicked, exited>>
            BY <1>2 DEF ResumeRead, At, Step, kickVars, exitVars
        <2>2. \A d \in Conn : Leaving(d)' <=> Leaving(d)
            BY <2>1 DEF Leaving
        <2> QED BY <2>1, <2>2 DEF OpenInv, LeaversDetached, ResumesHidden
    <1>3. CASE ResumeCommit(c)
        <2>1. /\ job[c].back \in {"arm", "flush"} /\ conn[c] = "resumeCommit"
              /\ conn' = [conn EXCEPT ![c] = job[c].back] /\ target' = Connected(c)
              /\ UNCHANGED <<kicked, exited>>
            BY <1>3 DEF ResumeCommit, At, Step, kickVars, exitVars
        <2>2. ~exited => ~kicked[c]
            <3>1. Owns(c) /\ "network" \notin target.reason
                BY <2>1 DEF OwnerInv, ResumeOwns, OpenInv, ResumesHidden, HiddenByVisibility
            <3> QED BY <3>1 DEF Owns, NobodysIsNetwork, OpenInv, LeaversDetached
        <2>3. target'.tx = c /\ ~Leaving(c)'
            BY <2>1 DEF Connected, Leaving
        <2>4. \A d \in Conn : d # c => target' # Connected(d)
            BY <2>1 DEF Connected
        <2>5. ASSUME ~exited', NEW d \in Conn
              PROVE  /\ ~(kicked'[d] /\ target'.tx = d)
                     /\ Leaving(d)' => target' # Connected(d)
            <3>1. ~kicked'[c] /\ ~Leaving(c)' /\ target'.tx = c
                BY <2>1, <2>2, <2>3, <2>5
            <3> QED BY <2>4, <3>1
        <2> QED BY <2>1, <2>5, OpenTake
    <1>4. CASE ResumeOversize(c)
        <2>1. job[c].back \in {"arm", "flush"} /\ conn[c] = "resumeCommit"
            BY <1>4 DEF ResumeOversize, At
        <2> QED BY <1>4, <2>1, OpenMove DEF ResumeOversize, Step, kickVars, exitVars
    <1>5. CASE AttachHidden(c)
        <2>1. /\ conn' = [conn EXCEPT ![c] = "arm"] /\ TargetFree
              /\ UNCHANGED exited /\ ~kicked'[c]
              /\ ~exited => target' = Detached(HiddenByVisibility, c)
            BY <1>5 DEF AttachHidden, KickOld, Step, exitVars
        <2>2. ASSUME ~exited', NEW d \in Conn
              PROVE  ~(kicked'[d] /\ target'.tx = d) /\ target' # Connected(d)
            BY <2>1, <2>2 DEF Detached, Connected
        <2> QED BY <2>1, <2>2, OpenTake
    <1>6. CASE AttachSwap(c)
        <2>1. /\ TargetFree /\ UNCHANGED exited /\ ~kicked'[c]
              /\ ~exited => target' = Connected(c)
            BY <1>6 DEF AttachSwap, KickOld, exitVars
        <2>2. PICK pc \in {"arm", "attachSend"} : conn' = [conn EXCEPT ![c] = pc]
            BY <1>6 DEF AttachSwap, Step
        <2>3. conn'[c] = pc
            BY <2>2
        <2>4. ASSUME ~exited', NEW d \in Conn
              PROVE  /\ ~(kicked'[d] /\ target'.tx = d)
                     /\ Leaving(d)' => target' # Connected(d)
            BY <2>1, <2>3, <2>4 DEF Connected, Leaving
        <2> QED BY <2>1, <2>2, <2>4, OpenTake
    <1>7. CASE FlushResume(c)
        <2>1. CASE ResumeWanted(c)
            BY <1>7, <2>1, OpenMove DEF FlushResume, Step, kickVars, exitVars
        <2>2. CASE ~ResumeWanted(c)
            BY <1>7, <2>2 DEF FlushResume, kickVars, exitVars, OpenInv, LeaversDetached,
               ResumesHidden, Leaving
        <2> QED BY <2>1, <2>2
    <1>8. CASE FlushChunk(c) \/ PollReserve(c)
        BY <1>8 DEF FlushChunk, PollReserve, taskVars, kickVars, exitVars, OpenInv,
           LeaversDetached, ResumesHidden, Leaving
    <1>9. CASE SnapshotEnqueue(c)
        BY <1>9, OpenMove DEF SnapshotEnqueue, Step, kickVars, exitVars
    <1>10. CASE SnapshotOversize(c)
        BY <1>10, OpenMove DEF SnapshotOversize, Step, kickVars, exitVars
    <1>11. CASE AttachRead(c)
        BY <1>11, OpenMove DEF AttachRead, Step, kickVars, exitVars
    <1>12. CASE AttachSend(c)
        BY <1>12, OpenMove DEF AttachSend, Step, kickVars, exitVars
    <1>13. CASE Arm(c)
        BY <1>13, OpenMove DEF Arm, Step, kickVars, exitVars
    <1>14. CASE Drain(c)
        BY <1>14, OpenMove DEF Drain, Step, kickVars, exitVars
    <1>15. CASE DrainEnd(c)
        BY <1>15, OpenMove DEF DrainEnd, Step, kickVars, exitVars
    <1>16. CASE FlushEnd(c)
        <2>1. job[c].then \in {"arm", "route"}
            OBVIOUS
        <2> QED BY <1>16, <2>1, OpenMove DEF FlushEnd, Step, kickVars, exitVars
    <1>17. CASE FairChunk(c)
        BY <1>17, OpenMove DEF FairChunk, Step, kickVars, exitVars
    <1>18. CASE FairResume(c)
        BY <1>18, OpenMove DEF FairResume, Step, kickVars, exitVars
    <1>19. CASE FairNothing(c)
        BY <1>19, OpenMove DEF FairNothing, Step, kickVars, exitVars
    <1>20. CASE KickedOut(c)
        BY <1>20, OpenMove DEF KickedOut, Step, kickVars, exitVars
    <1>21. CASE Close(c)
        BY <1>21, OpenMove DEF Close, At, Leaving, Step, kickVars, exitVars
    <1>22. CASE RouteOther(c)
        BY <1>22, OpenMove DEF RouteOther, Step, kickVars, exitVars
    <1> QED BY <1>1, <1>2, <1>3, <1>4, <1>5, <1>6, <1>7, <1>8, <1>9, <1>10, <1>11,
               <1>12, <1>13, <1>14, <1>15, <1>16, <1>17, <1>18, <1>19, <1>20, <1>21,
               <1>22
        DEF Task, Resume, OnDemand, Attach, Flush, Fair

\* A client's message connects nobody, and a client that leaves gives the pane up.
LEMMA ClientStepOpen ==
    ASSUME TypeOK, OwnerInv, NobodysIsNetwork, OpenInv, NEW c \in Conn, Client(c)
    PROVE  OpenInv'
    <1> USE DEF TypeOK, TaskType
    <1>1. CASE Hide(c)
        <2>1. /\ conn' = [conn EXCEPT ![c] = "arm"] /\ TargetFree
              /\ UNCHANGED <<kicked, exited>> /\ target' \in {target, Hidden(c)}
            BY <1>1 DEF Hide, Step, kickVars, exitVars
        <2>2. CASE UNCHANGED target
            BY <2>1, <2>2, OpenMove
        <2>3. CASE target = Connected(c) /\ target' = Detached(HiddenByVisibility, c)
            <3>1. ~exited => ~kicked[c]
                BY <2>3 DEF OpenInv, LeaversDetached, Connected
            <3>2. ASSUME ~exited', NEW d \in Conn
                  PROVE  ~(kicked'[d] /\ target'.tx = d) /\ target' # Connected(d)
                BY <2>1, <2>3, <3>1, <3>2 DEF Detached, Connected
            <3> QED BY <2>1, <3>2, OpenTake
        <2>4. CASE /\ target.state = "detached" /\ target.tx \in {c, NoConn}
                   /\ target' = Detached(target.reason, c)
            <3>1. ~exited /\ kicked[c] => "network" \in target.reason
                BY <2>4 DEF OpenInv, LeaversDetached, NobodysIsNetwork
            <3>2. target'.tx = c /\ target'.state = "detached" /\ target'.reason = target.reason
                BY <2>4 DEF Detached
            <3>3. ASSUME ~exited', NEW d \in Conn, kicked'[d], target'.tx = d
                  PROVE  "network" \in target'.reason
                <4>1. d = c
                    BY <3>2, <3>3
                <4>2. kicked[c] /\ ~exited
                    BY <2>1, <3>3, <4>1
                <4> QED BY <3>1, <3>2, <4>2
            <3>4. \A d \in Conn : target' # Connected(d)
                BY <3>2 DEF Connected
            <3> QED BY <2>1, <3>2, <3>3, <3>4, OpenTake
        <2> QED BY <2>1, <2>2, <2>3, <2>4 DEF Hidden
    <1>2. CASE Show(c)
        <2>1. UNCHANGED <<target, kicked, exited>>
            BY <1>2 DEF Show, kickVars, exitVars
        <2>2. PICK pc \in {"arm", "resume"} : conn' = [conn EXCEPT ![c] = pc]
            BY <1>2 DEF Show, Step
        <2> QED BY <2>1, <2>2, OpenMove
    <1>3. CASE SnapshotRead(c)
        BY <1>3, OpenMove DEF SnapshotRead, Step, kickVars, exitVars
    <1>4. CASE AttachDetach(c)
        <2>1. /\ conn' = [conn EXCEPT ![c] = "attach"] /\ TargetFree
              /\ UNCHANGED <<kicked, exited>>
              /\ target' = IF ~exited /\ target = Connected(c)
                           THEN Detached(NetworkDetach, NoConn) ELSE target
            BY <1>4 DEF AttachDetach, DetachOwn, Step, kickVars, exitVars
        <2>2. CASE UNCHANGED target
            BY <2>1, <2>2, OpenMove
        <2>3. CASE target' = Detached(NetworkDetach, NoConn)
            <3>1. \A d \in Conn : target'.tx # d /\ target' # Connected(d)
                BY <2>3, NoConnAssumption DEF Detached, Connected
            <3> QED BY <2>1, <3>1, OpenTake
        <2> QED BY <2>1, <2>2, <2>3
    <1>5. CASE Disconnect(c)
        <2>1. /\ conn' = [conn EXCEPT ![c] = "closing"] /\ TargetFree
              /\ conn[c] \in {"idle", "attachSend"} /\ UNCHANGED <<kicked, exited>>
              /\ target' = IF ~exited /\ target = Connected(c)
                           THEN Detached(NetworkDetach, NoConn) ELSE target
            BY <1>5 DEF Disconnect, DetachOwn, Step, kickVars, exitVars
        <2>2. CASE target' = target /\ (exited \/ target # Connected(c))
            <3>1. /\ \A d \in Conn : d # c => conn'[d] = conn[d]
                  /\ conn'[c] = "closing"
                BY <2>1
            <3>2. ASSUME ~exited', NEW d \in Conn, Leaving(d)'
                  PROVE  target' # Connected(d)
                BY <2>1, <2>2, <3>1, <3>2 DEF Leaving, OpenInv, LeaversDetached
            <3>3. LeaversDetached'
                BY <2>1, <2>2, <3>2 DEF OpenInv, LeaversDetached
            <3>4. ResumesHidden'
                BY <2>2, <3>1 DEF OpenInv, ResumesHidden
            <3> QED BY <3>3, <3>4 DEF OpenInv
        <2>3. CASE target' = Detached(NetworkDetach, NoConn)
            <3>1. \A d \in Conn : target'.tx # d /\ target' # Connected(d)
                BY <2>3, NoConnAssumption DEF Detached, Connected
            <3> QED BY <2>1, <3>1, OpenTake
        <2> QED BY <2>1, <2>2, <2>3
    <1>6. CASE Receive(c)
        BY <1>6, OpenMove DEF Receive, Step, kickVars, exitVars
    <1> QED BY <1>1, <1>2, <1>3, <1>4, <1>5, <1>6 DEF Client

\* Every step keeps the target of a live pane away from the clients that go.
LEMMA StepOpen ==
    ASSUME TypeOK, OwnerInv, NobodysIsNetwork, OpenInv, [Next]_vars
    PROVE  OpenInv'
    <1>1. CASE Reader
        BY <1>1, ReaderStepOpen
    <1>2. ASSUME NEW c \in Conn, Client(c) \/ Task(c) PROVE OpenInv'
        BY <1>2, ClientStepOpen, TaskStepOpen
    <1>3. CASE ExitTask \/ UNCHANGED vars
        BY <1>3 DEF ExitTask, vars, taskVars, kickVars, exitVars, OpenInv, LeaversDetached,
           ResumesHidden, Leaving
    <1> QED BY <1>1, <1>2, <1>3 DEF Next, Terminated

-----------------------------------------------------------------------------
(* Numbers, boundaries and the reader's decisions *)

\* What recording a boundary does, entry by entry.
LEMMA RecordExact ==
    ASSUME CaptureType, NEW c \in Conn, NEW b \in Number, Record(c, b), Open(c)
    PROVE  /\ entry'[c].gen > 0 /\ (entry'[c].b = b \/ entry'[c] = entry[c])
           /\ \A d \in Conn : d # c => /\ entry'[d] \in {entry[d], NoEntry}
                                       /\ Open(d) => entry'[d] = entry[d]
    <1> DEFINE pruned == [d \in Conn |-> IF Open(d) THEN entry[d] ELSE NoEntry]
    <1>1. /\ pruned \in [Conn -> [b : Number, gen : Nat]]
          /\ pruned[c] = entry[c]
          /\ \A d \in Conn : /\ pruned[d] \in {entry[d], NoEntry}
                             /\ Open(d) => pruned[d] = entry[d]
        BY PaneOutputAssumption DEF CaptureType, NoEntry, Number
    <1>2. CASE entry' = [pruned EXCEPT ![c] = [b |-> b, gen |-> nextGen + 1]]
        <2> HIDE DEF pruned
        <2>1. entry'[c] = [b |-> b, gen |-> nextGen + 1] /\ nextGen \in Nat
            BY <1>1, <1>2 DEF CaptureType
        <2>2. \A d \in Conn : d # c => entry'[d] = pruned[d]
            BY <1>1, <1>2
        <2> QED BY <1>1, <2>1, <2>2
    <1>3. CASE entry' = pruned /\ entry[c].gen # 0
        <2>1. entry[c].gen \in Nat
            BY DEF CaptureType
        <2> HIDE DEF pruned
        <2> QED BY <1>1, <1>3, <2>1
    <1> QED BY <1>1, <1>2, <1>3 DEF Record

\* The items of a deferred queue were captured.
ItemsBelow(d, m) == \A i \in 1 .. Len(d) : d[i].b <= m

LEMMA ItemsTail ==
    ASSUME NEW d \in Seq(Item), d # <<>>, NEW m, ItemsBelow(d, m)
    PROVE  ItemsBelow(Tail(d), m) /\ Head(d).b <= m /\ Head(d).b \in Number
    <1>1. /\ Len(d) \in Nat /\ Len(d) > 0 /\ Len(Tail(d)) = Len(d) - 1
          /\ \A i \in 1 .. Len(d) - 1 : Tail(d)[i] = d[i + 1]
          /\ Head(d) = d[1] /\ d[1] \in Item
        OBVIOUS
    <1> QED BY <1>1 DEF ItemsBelow, Item

LEMMA ItemsAppend ==
    ASSUME NEW d \in Seq(Item), NEW m, ItemsBelow(d, m), NEW x \in Item, x.b <= m
    PROVE  ItemsBelow(Append(d, x), m) /\ ItemsBelow(<<x>> \o d, m)
    <1>1. /\ Len(Append(d, x)) = Len(d) + 1 /\ Len(d) \in Nat
          /\ \A i \in 1 .. Len(d) : Append(d, x)[i] = d[i]
          /\ Append(d, x)[Len(d) + 1] = x
        OBVIOUS
    <1>2. ItemsBelow(Append(d, x), m)
        BY <1>1 DEF ItemsBelow
    <1>3. /\ Len(<<x>> \o d) = Len(d) + 1
          /\ (<<x>> \o d)[1] = x
          /\ \A i \in 2 .. Len(d) + 1 : (<<x>> \o d)[i] = d[i - 1]
        <2>1. <<x>> \in Seq(Item) /\ Len(<<x>>) = 1 /\ <<x>>[1] = x
            OBVIOUS
        <2> QED BY <2>1
    <1>4. ItemsBelow(<<x>> \o d, m)
        BY <1>1, <1>3 DEF ItemsBelow
    <1> QED BY <1>2, <1>4

LEMMA ItemsDefer ==
    ASSUME NEW d \in Seq(Item), NEW m \in Nat, ItemsBelow(d, m)
    PROVE  /\ ItemsBelow(DeferResume(d), m)
           /\ \A b \in Number : b <= m => ItemsBelow(DeferChunk(d, b), m)
    <1>1. [item |-> "resume", b |-> 0] \in Item
        BY PaneOutputAssumption DEF Item, Number
    <1> DEFINE r == [item |-> "resume", b |-> 0]
    <1>2. ItemsBelow(DeferResume(d), m)
        <2>1. r \in Item /\ r.b <= m
            BY <1>1
        <2>2. ItemsBelow(Append(d, r), m)
            BY <2>1, ItemsAppend
        <2> QED BY <2>2 DEF DeferResume
    <1>3. ASSUME NEW b \in Number, b <= m PROVE ItemsBelow(DeferChunk(d, b), m)
        <2> DEFINE new == [item |-> "chunk", b |-> b]
                   old == {i \in 1 .. Len(d) : d[i].item = "chunk"}
                   res == {i \in 1 .. Len(d) : d[i].item = "resume"}
                   rep == [i \in 1 .. Len(d) |-> IF i \in old THEN new ELSE d[i]]
        <2>1. new \in Item /\ new.b <= m
            BY <1>3 DEF Item
        <2>2. DeferChunk(d, b) = IF old # {} THEN rep
                                 ELSE IF res # {} THEN <<new>> \o d ELSE Append(d, new)
            BY DEF DeferChunk
        <2>3. ItemsBelow(rep, m)
            <3>1. Len(d) \in Nat /\ Len(rep) = Len(d)
                OBVIOUS
            <3>2. \A i \in 1 .. Len(d) : rep[i].b = b \/ rep[i] = d[i]
                OBVIOUS
            <3> HIDE DEF rep
            <3> QED BY <1>3, <3>1, <3>2 DEF ItemsBelow
        <2>4. ItemsBelow(<<new>> \o d, m) /\ ItemsBelow(Append(d, new), m)
            BY <2>1, ItemsAppend
        <2> HIDE DEF new, old, res, rep
        <2> QED BY <2>2, <2>3, <2>4
    <1> QED BY <1>2, <1>3

\* A task takes nothing from the reader and starts no resume.
LEMMA DecisionTask ==
    ASSUME TypeOK, TypeOK', DecisionInv, UNCHANGED <<captured, reader>>,
           \A d \in Conn : /\ job'[d].b <= captured /\ ItemsBelow(deferred'[d], captured)
                           /\ Leaving(d) => Leaving(d)'
                           /\ conn'[d] = "resumeCommit" =>
                                conn[d] = "resumeCommit" /\ job'[d].b = job[d].b,
           \/ UNCHANGED entry
           \/ \E c \in Conn, b \in Number : /\ Record(c, b) /\ Open(c) /\ b <= captured
                                            /\ conn'[c] # "resumeCommit"
    PROVE  DecisionInv'
    <1>1. /\ \A d \in Conn : entry[d].b \in Nat /\ entry'[d].b \in Nat
          /\ captured \in Nat /\ reader.n \in Nat
        BY PaneOutputAssumption DEF TypeOK, CaptureType, ReaderType, Number
    <1>2. \A d \in Conn :
            /\ entry'[d].b <= captured
            /\ ~Leaving(d) /\ entry[d].gen > 0 => entry'[d].gen > 0 /\ entry[d].b <= entry'[d].b
            /\ conn'[d] = "resumeCommit" => entry'[d] = entry[d]
        <2>1. CASE UNCHANGED entry
            BY <1>1, <2>1 DEF DecisionInv, Numbers
        <2>2. ASSUME NEW c \in Conn, NEW b \in Number, Record(c, b), Open(c), b <= captured,
                     conn'[c] # "resumeCommit", NEW d \in Conn
              PROVE  /\ entry'[d].b <= captured
                     /\ ~Leaving(d) /\ entry[d].gen > 0 =>
                           entry'[d].gen > 0 /\ entry[d].b <= entry'[d].b
                     /\ conn'[d] = "resumeCommit" => entry'[d] = entry[d]
            <3>1. /\ entry'[c].b = b \/ entry'[c] = entry[c]
                  /\ d # c => entry'[d] \in {entry[d], NoEntry}
                  /\ d # c /\ Open(d) => entry'[d] = entry[d]
                BY <2>2, RecordExact DEF TypeOK
            <3>2. Open(d) /\ entry[d].gen > 0 => entry'[d].gen > 0 /\ entry[d].b <= entry'[d].b
                BY <2>2, RecordGrows DEF TypeOK
            <3>3. entry'[d].b <= captured
                BY <1>1, <2>2, <3>1 DEF DecisionInv, Numbers, NoEntry
            <3> QED BY <2>2, <3>1, <3>2, <3>3 DEF Leaving, Open
        <2> QED BY <2>1, <2>2
    <1>3. Numbers'
        BY <1>2 DEF DecisionInv, Numbers, ItemsBelow
    <1>4. Withheld'
        <2>1. ASSUME reader.pc = "suppressed", ~Leaving(reader.tx)'
              PROVE  Covered(reader.tx, reader.n)'
            <3>1. reader.tx \in Conn /\ ~Leaving(reader.tx)
                BY <2>1 DEF TypeOK, ReaderType
            <3>2. Covered(reader.tx, reader.n)
                BY <2>1, <3>1 DEF DecisionInv, Withheld
            <3> QED BY <1>1, <1>2, <3>1, <3>2 DEF Covered
        <2> QED BY <2>1 DEF DecisionInv, Withheld
    <1>5. Committing'
        BY <1>2 DEF DecisionInv, Committing, Settled
    <1> QED BY <1>3, <1>4, <1>5 DEF DecisionInv

\* The reader decides about the chunk it captured last, with output_target in its
\* hands.
LEMMA DecisionReader ==
    ASSUME TypeOK, DecisionInv, Reader
    PROVE  DecisionInv'
    <1>1. UNCHANGED <<conn, job, deferred, entry>>
        BY DEF Reader, ReaderCapture, Forward, ForwardDetached, ForwardSuppressed,
               ForwardSend, ForwardFull, ReaderPoll, ReaderSlot,
               SlotSend, SlotCovered, SlotClosed, Suppress, SuppressNothing,
               SuppressSend, SuppressEmpty, ReaderEof, Eof, EofSend, EofNotify,
               ReaderError, taskVars, captureVars
    <1>2. /\ \A d \in Conn : entry[d].b \in Nat /\ job[d].b \in Nat
          /\ \A d \in Conn : \A i \in 1 .. Len(deferred[d]) : deferred[d][i].b \in Nat
          /\ captured \in Nat /\ reader.n \in Nat
        <2>1. ASSUME NEW d \in Conn, NEW i \in 1 .. Len(deferred[d])
              PROVE  deferred[d][i] \in Item
            <3>1. deferred[d] \in Seq(Item)
                BY DEF TypeOK, TaskType
            <3> QED BY <3>1
        <2>2. \A d \in Conn : \A i \in 1 .. Len(deferred[d]) : deferred[d][i].b \in Nat
            BY <2>1, PaneOutputAssumption DEF Item, Number
        <2>3. \A d \in Conn : entry[d].b \in Nat
            BY PaneOutputAssumption DEF TypeOK, CaptureType, Number
        <2>4. \A d \in Conn : job[d].b \in Nat
            BY PaneOutputAssumption DEF TypeOK, TaskType, Number
        <2>5. captured \in Nat /\ reader.n \in Nat
            BY PaneOutputAssumption DEF TypeOK, ReaderType, Number
        <2> QED BY <2>2, <2>3, <2>4, <2>5
    <1>3. CASE ReaderCapture
        <2>1. /\ reader.pc = "read" /\ captured' = captured + 1
              /\ reader'.pc = "captured" /\ reader'.n = captured + 1
            BY <1>3 DEF ReaderCapture, ReaderAt, TypeOK, ReaderType
        <2>2. Settled' = Settled
            BY <1>2, <2>1 DEF Settled
        <2>3. Numbers'
            BY <1>1, <1>2, <2>1 DEF DecisionInv, Numbers
        <2>4. Committing'
            BY <1>1, <2>1, <2>2 DEF DecisionInv, Committing
        <2> QED BY <2>1, <2>3, <2>4 DEF DecisionInv, Withheld
    <1>4. ASSUME UNCHANGED captured,
                 reader'.pc \in {"captured", "needSlot", "suppressed"} => reader'.n = captured,
                 ~TargetFree => /\ reader'.pc \notin {"captured", "needSlot"}
                                /\ reader.pc \notin {"captured", "needSlot"},
                 reader'.pc = "suppressed" =>
                     reader'.tail /\ Covered(reader'.tx, reader'.n)
          PROVE  DecisionInv'
        <2>1. Numbers'
            BY <1>1, <1>4 DEF DecisionInv, Numbers
        <2>2. Withheld'
            BY <1>1, <1>4 DEF Withheld, Covered
        <2>3. Committing'
            BY <1>1, <1>4 DEF DecisionInv, Committing, TargetFree, Settled
        <2> QED BY <2>1, <2>2, <2>3 DEF DecisionInv
    <1>5. ASSUME UNCHANGED reader, UNCHANGED captured PROVE DecisionInv'
        BY <1>1, <1>5 DEF DecisionInv, Numbers, Withheld, Committing, Covered, Settled, Leaving
    <1>6. ASSUME NEW pc \in {"read", "notify", "done"}, Goto(pc), UNCHANGED captured,
                 reader.pc \in {"captured", "needSlot"} => TargetFree
          PROVE  DecisionInv'
        <2>1. reader'.pc \in {"read", "notify", "done"}
            BY <1>6 DEF Goto, NoChunk
        <2> QED BY <1>4, <1>6, <2>1
    <1>7. ASSUME NEW c \in Conn, ForwardSuppressed(c) PROVE DecisionInv'
        <2>1. /\ UNCHANGED captured /\ TargetFree /\ reader.pc = "captured"
              /\ reader.n = captured /\ Covered(c, reader.n)
              /\ reader' = [reader EXCEPT !.pc = "suppressed", !.tx = c,
                                 !.gen = entry[c].gen, !.tail = (entry[c].b = reader.n)]
            BY <1>7 DEF ForwardSuppressed, ReaderAt, DecisionInv, Numbers
        <2>2. entry[c].b = reader.n
            BY <1>2, <2>1 DEF Covered, DecisionInv, Numbers
        <2>3. reader'.tail /\ reader'.tx = c /\ reader'.n = reader.n /\ reader'.pc = "suppressed"
            BY <2>1, <2>2 DEF TypeOK, ReaderType
        <2> QED BY <1>4, <2>1, <2>3
    <1>8. CASE SlotCovered
        <2>1. /\ UNCHANGED captured /\ TargetFree /\ reader.pc = "needSlot"
              /\ reader.n = captured /\ Covered(reader.tx, reader.n) /\ reader.tx \in Conn
              /\ reader' = [reader EXCEPT !.pc = "suppressed", !.gen = entry[reader.tx].gen,
                                 !.tail = (entry[reader.tx].b = reader.n)]
            BY <1>8 DEF SlotCovered, ReaderAt, DecisionInv, Numbers, TypeOK, ReaderType
        <2>2. entry[reader.tx].b = reader.n
            BY <1>2, <2>1 DEF Covered, DecisionInv, Numbers
        <2>3. /\ reader'.tail /\ reader'.tx = reader.tx /\ reader'.n = reader.n
              /\ reader'.pc = "suppressed"
            BY <2>1, <2>2 DEF TypeOK, ReaderType
        <2> QED BY <1>4, <2>1, <2>3
    <1>9. ASSUME NEW c \in Conn, ForwardFull(c) PROVE DecisionInv'
        <2>1. /\ UNCHANGED captured /\ TargetFree /\ reader.pc = "captured"
              /\ reader.n = captured
              /\ reader' = [reader EXCEPT !.pc = "needSlot", !.tx = c]
            BY <1>9 DEF ForwardFull, ReaderAt, DecisionInv, Numbers
        <2>2. reader'.n = reader.n /\ reader'.pc = "needSlot"
            BY <2>1 DEF TypeOK, ReaderType
        <2> QED BY <1>4, <2>1, <2>2
    <1>10. CASE ReaderEof
        <2>1. CASE Goto("notify")
            BY <1>6, <1>10, <2>1 DEF ReaderEof
        <2>2. CASE reader' = [reader EXCEPT !.pc = "eofSend", !.tx = target.tx]
            <3>1. reader'.pc = "eofSend"
                BY <2>2 DEF TypeOK, ReaderType
            <3> QED BY <1>4, <1>10, <3>1 DEF ReaderEof
        <2> QED BY <1>10, <2>1, <2>2 DEF ReaderEof
    <1>11. CASE ForwardDetached \/ (\E c \in Conn : ForwardSend(c)) \/ SlotSend \/ SlotClosed
        <2>1. Goto("read") /\ UNCHANGED captured /\ TargetFree
            BY <1>11 DEF ForwardDetached, ForwardSend, SlotSend, SlotClosed
        <2> QED BY <1>6, <2>1
    <1>12. CASE Suppress
        <2>1. Goto("read") /\ UNCHANGED captured /\ reader.pc = "suppressed"
            BY <1>12 DEF Suppress, SuppressNothing, SuppressSend, SuppressEmpty, ReaderAt
        <2> QED BY <1>6, <2>1
    <1>13. CASE Eof \/ ReaderError
        <2>1. /\ Goto("notify") \/ Goto("done")
              /\ UNCHANGED captured /\ reader.pc \in {"eofSend", "notify", "read"}
            BY <1>13 DEF Eof, EofSend, EofNotify, ReaderError, ReaderAt
        <2> QED BY <1>6, <2>1
    <1>14. CASE ReaderPoll
        BY <1>5, <1>14 DEF ReaderPoll, readerVars
    <1> QED BY <1>3, <1>7, <1>8, <1>9, <1>10, <1>11, <1>12, <1>13, <1>14
        DEF Reader, Forward, ReaderSlot

\* Which boundary an update of a task's job leaves.
LEMMA JobUpdates ==
    ASSUME TaskType, NEW c \in Conn
    PROVE  /\ \A v : job' = [job EXCEPT ![c].b = v] =>
                 job'[c].b = v /\ \A d \in Conn : d # c => job'[d] = job[d]
           /\ \A v : job' = [job EXCEPT ![c].back = v] => \A d \in Conn : job'[d].b = job[d].b
           /\ \A v : job' = [job EXCEPT ![c].then = v] => \A d \in Conn : job'[d].b = job[d].b
           /\ \A v, w : job' = [job EXCEPT ![c].fits = v, ![c].at = w] =>
                 /\ job'[c].fits = v /\ job'[c].at = w /\ job'[c].b = job[c].b
                 /\ \A d \in Conn : d # c => job'[d] = job[d]
           /\ job' = [job EXCEPT ![c] = NoJob] =>
                 job'[c].b = 0 /\ \A d \in Conn : d # c => job'[d] = job[d]
    <1>1. job \in [Conn -> [b : Number, at : Number, fits : BOOLEAN,
                            back : {"arm", "flush"}, then : {"arm", "route"}]]
        BY DEF TaskType
    <1> QED BY <1>1 DEF NoJob

\* A task or a client's message keeps the numbers, and only captured_read under
\* output_target starts a resume.
LEMMA DecisionStep ==
    ASSUME TypeOK, TypeOK', DecisionInv, NEW c \in Conn, Task(c) \/ Client(c)
    PROVE  DecisionInv'
    <1> USE DEF At, Step
    <1>0. /\ conn \in [Conn -> TaskPc] /\ deferred \in [Conn -> Seq(Item)]
          /\ \A d \in Conn : /\ job[d].b \in Number /\ job[d].back \in {"arm", "flush"}
                             /\ job[d].then \in {"arm", "route"}
        BY DEF TypeOK, TaskType
    <1>j. TaskType
        BY DEF TypeOK
    <1> USE <1>0
    <1>1. /\ captured \in Nat /\ captured \in Number
          /\ \A d \in Conn : /\ ItemsBelow(deferred[d], captured) /\ job[d].b <= captured
                             /\ job[d].b \in Number /\ entry[d].b <= captured
                             /\ deferred[d] \in Seq(Item)
        <2>1. captured \in Nat /\ captured \in Number
            BY PaneOutputAssumption DEF TypeOK, ReaderType, Number
        <2> QED BY <2>1 DEF DecisionInv, Numbers, ItemsBelow
    <1>2. ASSUME UNCHANGED <<captured, reader>>, NEW pc, conn' = [conn EXCEPT ![c] = pc],
                 pc # "resumeCommit",
                 pc \notin {"closing", "gone"} => ~Leaving(c),
                 \A d \in Conn : d # c =>
                    job'[d].b = job[d].b /\ ItemsBelow(deferred'[d], captured),
                 job'[c].b <= captured, ItemsBelow(deferred'[c], captured),
                 \/ UNCHANGED entry
                 \/ \E b \in Number : Record(c, b) /\ Open(c) /\ b <= captured
          PROVE  DecisionInv'
        <2>1. /\ \A d \in Conn : d # c => conn'[d] = conn[d]
              /\ conn'[c] = pc
            BY <1>2
        <2>2. \A d \in Conn :
                /\ job'[d].b <= captured /\ ItemsBelow(deferred'[d], captured)
                /\ Leaving(d) => Leaving(d)'
                /\ conn'[d] = "resumeCommit" =>
                        conn[d] = "resumeCommit" /\ job'[d].b = job[d].b
            BY <1>1, <1>2, <2>1 DEF Leaving
        <2>3. \/ UNCHANGED entry
              \/ \E e \in Conn, b \in Number : /\ Record(e, b) /\ Open(e) /\ b <= captured
                                               /\ conn'[e] # "resumeCommit"
            BY <1>2, <2>1
        <2> QED BY <1>2, <2>2, <2>3, DecisionTask
    <1>3. ASSUME UNCHANGED <<captured, reader, entry, job, deferred>>, NEW pc,
                 conn' = [conn EXCEPT ![c] = pc], pc # "resumeCommit",
                 pc \notin {"closing", "gone"} => ~Leaving(c)
          PROVE  DecisionInv'
        BY <1>1, <1>2, <1>3
    <1>4. CASE ResumeNoChange(c) \/ ResumeOversize(c)
        <2>1. job[c].back \in {"arm", "flush"}
            OBVIOUS
        <2> QED BY <1>3, <1>4, <2>1 DEF ResumeNoChange, ResumeOversize, Leaving,
            readerVars, captureVars
    <1>5. CASE ResumeRead(c)
        <2>1. /\ UNCHANGED <<captured, reader, entry, deferred>> /\ TargetFree
              /\ \A d \in Conn : d # c => conn'[d] = conn[d] /\ job'[d] = job[d]
              /\ conn[c] = "resume" /\ conn'[c] = "resumeCommit" /\ job'[c].b = captured
            BY <1>5, <1>j, JobUpdates DEF ResumeRead, readerVars, captureVars
        <2>2. Numbers'
            BY <1>1, <2>1 DEF DecisionInv, Numbers
        <2>3. Withheld'
            <3>1. reader.pc = "suppressed" => reader.tx \in Conn
                BY DEF TypeOK, ReaderType
            <3> QED BY <2>1, <3>1 DEF DecisionInv, Withheld, Covered, Leaving
        <2>4. Committing'
            <3>1. Settled' <= captured
                BY <1>1, <2>1 DEF Settled
            <3> QED BY <1>1, <2>1, <3>1 DEF Committing, TargetFree
        <2> QED BY <2>2, <2>3, <2>4 DEF DecisionInv
    <1>6. CASE ResumeCommit(c)
        <2>1. /\ UNCHANGED <<captured, reader, job, deferred>> /\ Record(c, job[c].b)
              /\ conn[c] = "resumeCommit" /\ job[c].back \in {"arm", "flush"}
              /\ conn' = [conn EXCEPT ![c] = job[c].back]
            BY <1>6 DEF ResumeCommit, readerVars
        <2> QED BY <1>1, <1>2, <2>1 DEF Open, Leaving
    <1>7. CASE SnapshotEnqueue(c)
        <2>1. /\ UNCHANGED <<captured, reader, job>> /\ conn[c] = "snapshot"
              /\ conn' = [conn EXCEPT ![c] = "arm"]
            BY <1>7 DEF SnapshotEnqueue, readerVars
        <2>2. CASE Free(c)
            BY <1>1, <1>2, <1>7, <2>1, <2>2 DEF SnapshotEnqueue, Open, Leaving
        <2>3. CASE ~Free(c)
            <3>1. /\ UNCHANGED entry
                  /\ deferred' = [deferred EXCEPT ![c] = DeferChunk(@, job[c].b)]
                BY <1>7, <2>3 DEF SnapshotEnqueue, Defer, captureVars
            <3>2. ItemsBelow(DeferChunk(deferred[c], job[c].b), captured)
                BY <1>1, ItemsDefer
            <3>3. \A d \in Conn : ItemsBelow(deferred'[d], captured)
                BY <1>1, <3>1, <3>2
            <3> QED BY <1>1, <1>2, <2>1, <3>1, <3>3 DEF Leaving
        <2> QED BY <2>2, <2>3
    <1>8. CASE AttachRead(c)
        <2>1. /\ UNCHANGED <<captured, reader, entry, deferred>> /\ conn[c] = "attach"
              /\ conn' = [conn EXCEPT ![c] = "attachSwap"]
              /\ \A d \in Conn : d # c => job'[d].b = job[d].b
              /\ job'[c].b <= captured
            BY <1>1, <1>8, <1>j, JobUpdates DEF AttachRead, readerVars, captureVars
        <2> QED BY <1>1, <1>2, <2>1 DEF Leaving
    <1>9. CASE AttachSwap(c)
        <2>1. /\ UNCHANGED <<captured, reader, deferred>> /\ conn[c] = "attachSwap"
              /\ \A d \in Conn : job'[d].b = job[d].b
              /\ UNCHANGED entry \/ Record(c, job[c].b)
            <3>1. /\ UNCHANGED <<captured, reader, deferred>> /\ conn[c] = "attachSwap"
                  /\ UNCHANGED entry \/ Record(c, job[c].b)
                  /\ \/ UNCHANGED job
                     \/ job' = [job EXCEPT ![c].fits = TRUE, ![c].at = captured]
                     \/ job' = [job EXCEPT ![c].fits = FALSE, ![c].at = captured]
                BY <1>9 DEF AttachSwap, readerVars, captureVars
            <3>2. \A d \in Conn : job'[d].b = job[d].b
                <4>1. CASE UNCHANGED job
                    BY <4>1
                <4>2. CASE job' = [job EXCEPT ![c].fits = TRUE, ![c].at = captured]
                    BY <1>j, <4>2, JobUpdates
                <4>3. CASE job' = [job EXCEPT ![c].fits = FALSE, ![c].at = captured]
                    BY <1>j, <4>3, JobUpdates
                <4> QED BY <3>1, <4>1, <4>2, <4>3
            <3> QED BY <3>1, <3>2
        <2>2. PICK pc \in {"arm", "attachSend"} : conn' = [conn EXCEPT ![c] = pc]
            BY <1>9 DEF AttachSwap
        <2> QED BY <1>1, <1>2, <2>1, <2>2 DEF Open, Leaving
    <1>10. CASE Arm(c)
        <2>1. /\ UNCHANGED <<captured, reader, entry, deferred>> /\ conn[c] = "arm"
              /\ conn' = [conn EXCEPT ![c] = "idle"]
              /\ \A d \in Conn : d # c => job'[d].b = job[d].b
              /\ job'[c].b <= captured
            BY <1>1, <1>10, <1>j, JobUpdates DEF Arm, readerVars, captureVars, NoJob
        <2> QED BY <1>1, <1>2, <2>1 DEF Leaving
    <1>11. CASE Close(c)
        <2>1. /\ UNCHANGED <<captured, reader, entry>>
              /\ conn' = [conn EXCEPT ![c] = "gone"]
              /\ job' = [job EXCEPT ![c] = NoJob]
              /\ deferred' = [deferred EXCEPT ![c] = <<>>]
            BY <1>11 DEF Close, readerVars, captureVars
        <2>2. /\ \A d \in Conn : d # c => job'[d].b = job[d].b
              /\ job'[c].b <= captured
            <3>1. job' = [job EXCEPT ![c] = NoJob]
                BY <2>1
            <3>2. job'[c].b = 0 /\ \A d \in Conn : d # c => job'[d] = job[d]
                BY <1>j, <3>1, JobUpdates
            <3> QED BY <1>1, <3>2
        <2>3. /\ \A d \in Conn : d # c => ItemsBelow(deferred'[d], captured)
              /\ ItemsBelow(deferred'[c], captured)
            <3>1. /\ \A d \in Conn : d # c => deferred'[d] = deferred[d]
                  /\ deferred'[c] = <<>>
                BY <2>1
            <3>2. ItemsBelow(<<>>, captured)
                BY DEF ItemsBelow
            <3> QED BY <1>1, <3>1, <3>2
        <2> QED BY <1>2, <2>1, <2>2, <2>3
    <1>12. CASE FlushChunk(c)
        <2>1. /\ UNCHANGED <<captured, reader, job, conn>> /\ conn[c] = "flush"
              /\ deferred[c] # <<>> /\ deferred' = [deferred EXCEPT ![c] = Tail(@)]
              /\ Record(c, Head(deferred[c]).b)
            BY <1>12 DEF FlushChunk, readerVars
        <2>2. /\ ItemsBelow(Tail(deferred[c]), captured)
              /\ Head(deferred[c]).b <= captured /\ Head(deferred[c]).b \in Number
            BY <1>1, <2>1, ItemsTail
        <2>3. \A d \in Conn : ItemsBelow(deferred'[d], captured)
            BY <1>1, <2>1, <2>2
        <2>4. conn' = [conn EXCEPT ![c] = "flush"]
            BY <2>1
        <2> QED BY <1>1, <1>2, <2>1, <2>2, <2>3, <2>4 DEF Open, Leaving
    <1>13. CASE FairChunk(c)
        <2>1. /\ UNCHANGED <<captured, reader, job>> /\ conn[c] = "idle"
              /\ conn' = [conn EXCEPT ![c] = "arm"]
              /\ deferred[c] # <<>> /\ deferred' = [deferred EXCEPT ![c] = Tail(@)]
              /\ Record(c, Head(deferred[c]).b)
            BY <1>13 DEF FairChunk, FairReady, readerVars
        <2>2. /\ ItemsBelow(Tail(deferred[c]), captured)
              /\ Head(deferred[c]).b <= captured /\ Head(deferred[c]).b \in Number
            BY <1>1, <2>1, ItemsTail
        <2>3. \A d \in Conn : ItemsBelow(deferred'[d], captured)
            BY <1>1, <2>1, <2>2
        <2> QED BY <1>1, <1>2, <2>1, <2>2, <2>3 DEF Open, Leaving
    <1>14. CASE FlushResume(c) \/ FairResume(c) \/ FairNothing(c)
        <2>1. /\ UNCHANGED <<captured, reader, entry>> /\ conn[c] \in {"flush", "idle"}
              /\ \A d \in Conn : job'[d].b = job[d].b
              /\ deferred' \in {deferred, [deferred EXCEPT ![c] = Tail(@)]}
              /\ deferred' # deferred => deferred[c] # <<>>
            <3>1. CASE FlushResume(c)
                <4>1. UNCHANGED job \/ job' = [job EXCEPT ![c].back = "flush"]
                    BY <3>1 DEF FlushResume
                <4>2. \A d \in Conn : job'[d].b = job[d].b
                    BY <1>j, <4>1, JobUpdates
                <4> QED BY <3>1, <4>2 DEF FlushResume, readerVars, captureVars
            <3>2. CASE FairResume(c)
                BY <1>j, <3>2, JobUpdates DEF FairResume, FairReady, readerVars, captureVars
            <3>3. CASE FairNothing(c)
                <4>1. deferred[c] = <<>> =>
                        [deferred EXCEPT ![c] = IF @ = <<>> THEN @ ELSE Tail(@)] = deferred
                    OBVIOUS
                <4>2. deferred[c] # <<>> =>
                        [deferred EXCEPT ![c] = IF @ = <<>> THEN @ ELSE Tail(@)]
                            = [deferred EXCEPT ![c] = Tail(@)]
                    OBVIOUS
                <4> QED BY <3>3, <4>1, <4>2 DEF FairNothing, FairReady, readerVars, captureVars
            <3> QED BY <1>14, <3>1, <3>2, <3>3
        <2>2. PICK pc \in {"arm", "resume", "flush"} : conn' = [conn EXCEPT ![c] = pc]
            <3>1. UNCHANGED conn /\ conn[c] = "flush" => conn' = [conn EXCEPT ![c] = "flush"]
                OBVIOUS
            <3> QED BY <1>14, <3>1 DEF FlushResume, FairResume, FairNothing, FairReady
        <2>3. \A d \in Conn : ItemsBelow(deferred'[d], captured)
            <3>1. CASE deferred' = deferred
                BY <1>1, <3>1
            <3>2. CASE deferred' # deferred
                <4>1. ItemsBelow(Tail(deferred[c]), captured)
                    BY <1>1, <2>1, <3>2, ItemsTail
                <4> QED BY <1>1, <2>1, <3>2, <4>1
            <3> QED BY <3>1, <3>2
        <2> QED BY <1>1, <1>2, <2>1, <2>2, <2>3 DEF Leaving
    <1>15. CASE SnapshotOversize(c) \/ AttachHidden(c) \/ AttachSend(c) \/ RouteOther(c)
        BY <1>3, <1>15 DEF SnapshotOversize, AttachHidden, AttachSend, RouteOther,
           Leaving, readerVars, captureVars
    <1>16. CASE Drain(c) \/ DrainEnd(c) \/ KickedOut(c) \/ AttachDetach(c) \/ Disconnect(c)
             \/ Hide(c)
        BY <1>3, <1>16 DEF Drain, DrainEnd, KickedOut, AttachDetach, Disconnect, Hide,
           Leaving, readerVars, captureVars
    <1>17. CASE FlushEnd(c)
        <2>1. job[c].then \in {"arm", "route"}
            OBVIOUS
        <2> QED BY <1>3, <1>17, <2>1 DEF FlushEnd, Leaving, readerVars, captureVars
    <1>18. CASE PollReserve(c)
        <2>1. UNCHANGED <<captured, reader, entry, job, deferred>>
            BY <1>18 DEF PollReserve, readerVars, captureVars, taskVars
        <2>2. conn[c] = "idle" /\ conn' = [conn EXCEPT ![c] = "idle"]
            BY <1>18 DEF PollReserve, taskVars
        <2> QED BY <1>3, <2>1, <2>2 DEF Leaving
    <1>19. CASE Receive(c)
        <2>1. /\ UNCHANGED <<captured, reader, entry, deferred>> /\ conn[c] = "idle"
              /\ conn' = [conn EXCEPT ![c] = "flush"]
              /\ \A d \in Conn : job'[d].b = job[d].b
            BY <1>19, <1>j, JobUpdates DEF Receive, readerVars, captureVars
        <2> QED BY <1>1, <1>2, <2>1 DEF Leaving
    <1>20. CASE Show(c)
        <2>1. /\ UNCHANGED <<captured, reader, entry>> /\ conn[c] = "route"
              /\ \A d \in Conn : job'[d].b = job[d].b
              /\ deferred' \in {deferred, [deferred EXCEPT ![c] = DeferResume(@)]}
            BY <1>20, <1>j, JobUpdates DEF Show, readerVars, captureVars
        <2>2. PICK pc \in {"arm", "resume"} : conn' = [conn EXCEPT ![c] = pc]
            BY <1>20 DEF Show
        <2>3. ItemsBelow(DeferResume(deferred[c]), captured)
            BY <1>1, ItemsDefer
        <2>4. \A d \in Conn : ItemsBelow(deferred'[d], captured)
            BY <1>1, <2>1, <2>3
        <2> QED BY <1>1, <1>2, <2>1, <2>2, <2>4 DEF Leaving
    <1>21. CASE SnapshotRead(c)
        <2>1. /\ UNCHANGED <<captured, reader, entry, deferred>> /\ conn[c] = "route"
              /\ conn' = [conn EXCEPT ![c] = "snapshot"]
              /\ \A d \in Conn : d # c => job'[d].b = job[d].b
              /\ job'[c].b <= captured
            BY <1>1, <1>21, <1>j, JobUpdates DEF SnapshotRead, readerVars, captureVars
        <2> QED BY <1>1, <1>2, <2>1 DEF Leaving
    <1> QED BY <1>4, <1>5, <1>6, <1>7, <1>8, <1>9, <1>10, <1>11, <1>12, <1>13, <1>14,
            <1>15, <1>16, <1>17, <1>18, <1>19, <1>20, <1>21
        DEF Task, Client, Resume, OnDemand, Attach, Flush, Fair

-----------------------------------------------------------------------------
(* What one step does to one stream *)

\* The reader does nothing, and the stream stays as it is.
LEMMA IntactSame ==
    ASSUME NEW c \in Conn, Intact(c), Stream(c)' = Stream(c),
           Leaving(c) => Leaving(c)', UNCHANGED <<captured, reader>>,
           ~Leaving(c)' => entry'[c] = entry[c],
           target' = Connected(c) => target = Connected(c)
    PROVE  Intact(c)'
    <1>1. Replaces(Stream(c))'
        BY DEF Intact
    <1>2. ASSUME ~Leaving(c)' PROVE Arrive(c)'
        <2>1. PICK k \in 0 .. Len(Stream(c)) :
                /\ LastAt(Stream(c), k)
                /\ Recorded(Stream(c), k, entry[c])
                /\ target = Connected(c) => Got(c, Stream(c), k)
            BY <1>2 DEF Intact, Arrive
        <2>2. /\ k \in 0 .. Len(Stream(c)') /\ LastAt(Stream(c)', k)
              /\ Recorded(Stream(c)', k, entry'[c])
            BY <1>2, <2>1
        <2>3. target' = Connected(c) => Got(c, Stream(c), k)'
            BY <2>1 DEF Got, Settled
        <2> QED BY <2>2, <2>3 DEF Arrive
    <1> QED BY <1>1, <1>2 DEF Intact, Arrive

\* A reset is added to the stream, which stands for everything the reader has
\* decided about.
LEMMA IntactReset ==
    ASSUME TypeOK, NEW c \in Conn, Intact(c), ~Leaving(c), NEW f \in Frame,
           f.kind \in SnapKind, Stream(c)' = Append(Stream(c), f), NEW lo \in Nat,
           lo = IF f.kind = "resume" THEN f.num ELSE f.at,
           entry'[c].gen > 0 =>
                /\ entry'[c].b <= lo
                /\ (IsSnapshot(f) /\ entry'[c].b = f.num) \/ entry'[c] = entry[c],
           target' = Connected(c) =>
                Settled' <= lo /\ (reader'.pc = "needSlot" => captured' <= lo),
           Settled' \in Int
    PROVE  Intact(c)'
    <1>0. PICK s, t, k : s = Stream(c) /\ t = Append(s, f) /\ k = Len(s) + 1
        OBVIOUS
    <1>1. s \in Seq(Frame) /\ Stream(c)' = t
        BY <1>0, StreamType
    <1>2. Replaces(t)
        <2>1. f.kind # "repl"
            BY DEF SnapKind
        <2>2. Replaces(s)
            BY <1>0 DEF Intact
        <2> QED BY <1>1, <2>1, <2>2, AppendReplaces, <1>0
    <1>3. LastAt(t, k) /\ k \in 0 .. Len(t) /\ LoAt(t, k) = lo
        <2> QED BY <1>1, AppendReset, <1>0
    <1>4. Recorded(t, k, entry'[c])
        <2>1. ASSUME entry'[c].gen > 0 PROVE HasSnap(t, entry'[c].b)
            <3>1. CASE IsSnapshot(f) /\ entry'[c].b = f.num
                <4>1. HasSnap(t, f.num)
                    BY <1>1, <3>1, AppendSnap, <1>0
                <4> QED BY <3>1, <4>1
            <3>2. CASE entry'[c] = entry[c]
                <4>1. HasSnap(s, entry[c].b)
                    BY <1>0, <2>1, <3>2 DEF Intact, Arrive, Recorded
                <4>2. HasSnap(t, entry[c].b)
                    BY <1>1, <4>1, AppendSnap, <1>0
                <4> QED BY <3>2, <4>2
            <3> QED BY <2>1, <3>1, <3>2
        <2> QED BY <1>3, <2>1 DEF Recorded
    <1>5. target' = Connected(c) => Got(c, t, k)'
        <2>1. ASSUME target' = Connected(c)
              PROVE  /\ \A n \in lo + 1 .. Settled' : FALSE
                     /\ reader'.pc = "needSlot" => captured' <= lo
            BY <2>1
        <2> QED BY <1>3, <2>1 DEF Got
    <1>6. Arrive(c)'
        BY <1>1, <1>3, <1>4, <1>5 DEF Arrive
    <1> QED BY <1>1, <1>2, <1>6 DEF Intact

\* The reader sends a chunk, a replacement or the exit chunk.
LEMMA IntactGrow ==
    ASSUME TypeOK, NEW c \in Conn, Intact(c), ~Leaving(c), NEW f \in Frame,
           f.kind \notin SnapKind, Stream(c)' = Append(Stream(c), f),
           f.kind = "repl" => f.at = f.num /\ HasSnap(Stream(c), f.num),
           entry'[c] = entry[c], UNCHANGED captured,
           target' = Connected(c) => target = Connected(c),
           reader'.pc # "needSlot", Settled \in Int, Settled' \in Int,
           Settled' = Settled \/ (Settled' = Settled + 1 /\ f.kind = "raw" /\ f.num = Settled')
    PROVE  Intact(c)'
    <1>0. PICK s, t : s = Stream(c) /\ t = Append(s, f)
        OBVIOUS
    <1>1. s \in Seq(Frame) /\ Stream(c)' = t
        BY <1>0, StreamType
    <1>2. Replaces(t)
        <2>1. Replaces(s) /\ (f.kind = "repl" => f.at = f.num /\ HasSnap(s, f.num))
            BY <1>0 DEF Intact
        <2> QED BY <1>1, <2>1, AppendReplaces, <1>0
    <1>3. PICK k \in 0 .. Len(s) :
            /\ LastAt(s, k)
            /\ Recorded(s, k, entry[c])
            /\ target = Connected(c) => Got(c, s, k)
        BY <1>0 DEF Intact, Arrive
    <1>4. /\ LastAt(t, k) /\ LoAt(t, k) = LoAt(s, k)
          /\ \A n : RawAfter(s, k, n) => RawAfter(t, k, n)
          /\ f.kind = "raw" => RawAfter(t, k, f.num)
        <2> QED BY <1>1, <1>3, AppendPlain, <1>0
    <1>5. \A b : HasSnap(s, b) => HasSnap(t, b)
        <2> QED BY <1>1, AppendSnap, <1>0
    <1>6. k \in 0 .. Len(t)
        BY <1>4 DEF LastAt
    <1>7. Recorded(t, k, entry'[c])
        BY <1>3, <1>4, <1>5 DEF Recorded
    <1>8. target' = Connected(c) => Got(c, t, k)'
        <2>1. ASSUME target' = Connected(c), NEW n \in LoAt(t, k) + 1 .. Settled'
              PROVE  RawAfter(t, k, n)
            <3>1. CASE n \in LoAt(s, k) + 1 .. Settled
                BY <1>3, <1>4, <2>1, <3>1 DEF Got
            <3>2. CASE n \notin LoAt(s, k) + 1 .. Settled
                <4>1. n = Settled' /\ f.kind = "raw" /\ f.num = n
                    BY <1>4, <2>1, <3>2
                <4> QED BY <1>4, <4>1
            <3> QED BY <3>1, <3>2
        <2> QED BY <2>1 DEF Got
    <1>9. Arrive(c)'
        BY <1>1, <1>4, <1>6, <1>7, <1>8 DEF Arrive
    <1> QED BY <1>1, <1>2, <1>9 DEF Intact

\* The reader decides about a chunk without sending anything to this client.
LEMMA IntactHold ==
    ASSUME TypeOK, NEW c \in Conn, Intact(c), Stream(c)' = Stream(c),
           Leaving(c)' <=> Leaving(c), entry'[c] = entry[c],
           captured \in Int, captured' \in Int, Settled \in Int, Settled' \in Int,
           target' = Connected(c) /\ ~Leaving(c) =>
                /\ target = Connected(c)
                /\ \/ Settled' = Settled
                   \/ Settled' = Settled + 1 /\ Covered(c, Settled')
                   \/ /\ Settled' <= captured
                      /\ reader.pc = "needSlot" /\ reader.tx # c
                /\ reader'.pc = "needSlot" =>
                        c = reader'.tx \/ UNCHANGED <<captured, reader>>
    PROVE  Intact(c)'
    <1>1. Replaces(Stream(c))'
        BY DEF Intact
    <1>2. ASSUME ~Leaving(c)' PROVE Arrive(c)'
        <2> USE <1>2
        <2>1. PICK k \in 0 .. Len(Stream(c)) :
                /\ LastAt(Stream(c), k)
                /\ Recorded(Stream(c), k, entry[c])
                /\ target = Connected(c) => Got(c, Stream(c), k)
            BY DEF Intact, Arrive
        <2>2. /\ k \in 0 .. Len(Stream(c)') /\ LastAt(Stream(c)', k)
              /\ Recorded(Stream(c)', k, entry'[c])
            BY <2>1
        <2>3. LoAt(Stream(c), k) \in Int /\ entry[c].b \in Int
            <3>1. Stream(c) \in Seq(Frame) /\ (k # 0 => k \in 1 .. Len(Stream(c)))
                BY <2>1, StreamType
            <3>2. k # 0 => Stream(c)[k] \in Frame
                BY <3>1
            <3>3. k # 0 => Stream(c)[k].num \in Nat /\ Stream(c)[k].at \in Nat
                BY <3>2, PaneOutputAssumption DEF Frame, Number
            <3> QED BY <3>3, PaneOutputAssumption DEF LoAt, TypeOK, CaptureType, Number
        <2>4. ASSUME target' = Connected(c), NEW n \in LoAt(Stream(c), k) + 1 .. Settled'
              PROVE  RawAfter(Stream(c), k, n)
            <3>1. CASE Settled' = Settled
                BY <2>1, <2>4, <3>1 DEF Got
            <3>2. CASE Settled' = Settled + 1 /\ Covered(c, Settled')
                <4>1. Settled' <= LoAt(Stream(c), k)
                    BY <2>1, <2>3, <3>2 DEF Covered, Recorded
                <4> QED BY <2>3, <2>4, <4>1
            <3>3. CASE Settled' <= captured /\ reader.pc = "needSlot" /\ reader.tx # c
                <4>1. captured <= LoAt(Stream(c), k)
                    BY <2>1, <2>4, <3>3 DEF Got
                <4> QED BY <2>3, <2>4, <3>3, <4>1
            <3> QED BY <2>4, <3>1, <3>2, <3>3
        <2>5. ASSUME target' = Connected(c), reader'.pc = "needSlot"
              PROVE  c = reader'.tx \/ captured' <= LoAt(Stream(c), k)
            BY <2>1, <2>5 DEF Got
        <2>6. target' = Connected(c) => Got(c, Stream(c), k)'
            BY <2>4, <2>5 DEF Got
        <2> QED BY <2>2, <2>6 DEF Arrive
    <1> QED BY <1>1, <1>2 DEF Intact, Arrive

\* The task leaves, and what waits in its channel is not sent.
LEMMA IntactLeave ==
    ASSUME TypeOK, NEW c \in Conn, Intact(c), ~Leaving(c),
           wire'[c] = wire[c], conn'[c] = "closing"
    PROVE  Intact(c)'
    <1>1. wire[c] \in Seq(Frame) /\ queue[c] \in Seq(Frame) /\ ReattachFrame(c) \in Frame
        BY StreamType DEF TypeOK, WireType, ChanType
    <1>2. Leaving(c)' /\ Stream(c)' = wire[c]
        BY DEF Stream, Leaving
    <1>3. Replaces(wire[c])
        <2>1. CASE conn[c] = "attachSend"
            <3>1. Append(wire[c], ReattachFrame(c)) \in Seq(Frame)
                BY <1>1
            <3>2. Replaces(Append(wire[c], ReattachFrame(c)))
                BY <1>1, <2>1, <3>1, PrefixReplaces DEF Intact, Stream
            <3>3. Append(wire[c], ReattachFrame(c)) = wire[c] \o <<ReattachFrame(c)>>
                BY <1>1
            <3>4. <<ReattachFrame(c)>> \in Seq(Frame)
                BY <1>1
            <3> QED BY <1>1, <3>2, <3>3, <3>4, PrefixReplaces
        <2>2. CASE conn[c] # "attachSend"
            BY <1>1, <2>2, PrefixReplaces DEF Intact, Stream
        <2> QED BY <2>1, <2>2
    <1> QED BY <1>2, <1>3 DEF Intact, Arrive

\* A frame that enters the channel of an open stream is its last one.
LEMMA InsertStream ==
    ASSUME TypeOK, NEW c \in Conn, ~Leaving(c), NEW f \in Frame,
           wire'[c] = wire[c], queue'[c] = Append(queue[c], f),
           \/ Plain(conn[c]) /\ Plain(conn'[c])
           \/ conn'[c] = conn[c] /\ job'[c] = job[c]
    PROVE  Stream(c)' = Append(Stream(c), f)
    <1>1. wire[c] \in Seq(Frame) /\ queue[c] \in Seq(Frame) /\ ReattachFrame(c) \in Frame
        BY StreamType DEF TypeOK, WireType, ChanType
    <1>2. CASE Plain(conn[c]) /\ Plain(conn'[c])
        BY <1>1, <1>2, AppendLast DEF Stream, Leaving, Plain
    <1>3. CASE conn[c] = "attachSend" /\ conn'[c] = conn[c] /\ job'[c] = job[c]
        <2>1. Append(wire[c], ReattachFrame(c)) \in Seq(Frame)
            BY <1>1
        <2>2. ReattachFrame(c)' = ReattachFrame(c)
            BY <1>3 DEF ReattachFrame
        <2> QED BY <1>1, <1>3, <2>1, <2>2, AppendLast DEF Stream, Leaving
    <1> QED BY <1>2, <1>3 DEF Plain, Leaving

-----------------------------------------------------------------------------
(* Every step keeps every stream intact *)

\* The reader sends what nobody has, and withholds what a snapshot contains.
LEMMA ReaderStepIntact ==
    ASSUME TypeOK, TypeOK', DecisionInv, AllIntact, Reader
    PROVE  AllIntact'
    <1>1. UNCHANGED <<wire, conn, job, entry>>
        BY DEF Reader, ReaderCapture, Forward, ForwardDetached, ForwardSuppressed,
               ForwardSend, ForwardFull, ReaderPoll, ReaderSlot,
               SlotSend, SlotCovered, SlotClosed, Suppress, SuppressNothing,
               SuppressSend, SuppressEmpty, ReaderEof, Eof, EofSend, EofNotify,
               ReaderError, taskVars, captureVars
    <1>2. /\ captured \in Int /\ captured' \in Int /\ Settled \in Int /\ Settled' \in Int
          /\ \A d \in Conn : entry[d].b \in Int /\ entry[d].gen \in Nat
        BY PaneOutputAssumption DEF TypeOK, ReaderType, CaptureType, Number, Settled
    <1>3. /\ reader.pc \in {"captured", "needSlot", "suppressed"} =>
                reader.n = captured /\ Settled \in {captured, captured - 1}
          /\ reader.pc \in {"captured", "needSlot"} => Settled = captured - 1
          /\ reader.pc \notin {"captured", "needSlot"} => Settled = captured
          /\ reader.pc \in {"needSlot", "suppressed", "eofSend"} => reader.tx \in Conn
        BY DEF DecisionInv, Numbers, Settled, TypeOK, ReaderType
    <1>4. /\ reader'.pc \in {"captured", "needSlot"} => Settled' = captured' - 1
          /\ reader'.pc \notin {"captured", "needSlot"} => Settled' = captured'
        BY DEF Settled
    <1>5. \A c, d \in Conn : Connected(c) = Connected(d) => c = d
        BY DEF Connected
    <1>6. ASSUME NEW d \in Conn, queue'[d] = queue[d] \/ Leaving(d),
                 target' = Connected(d) /\ ~Leaving(d) =>
                    /\ target = Connected(d)
                    /\ \/ Settled' = Settled
                       \/ Settled' = Settled + 1 /\ Covered(d, Settled')
                       \/ /\ Settled' <= captured
                          /\ reader.pc = "needSlot" /\ reader.tx # d
                    /\ reader'.pc = "needSlot" =>
                            d = reader'.tx \/ UNCHANGED <<captured, reader>>
          PROVE  Intact(d)'
        <2>1. Stream(d)' = Stream(d) /\ (Leaving(d)' <=> Leaving(d))
            BY <1>1, <1>6 DEF Stream, Leaving, ReattachFrame
        <2> QED BY <1>1, <1>2, <1>6, <2>1, IntactHold DEF AllIntact
    <1>7. ASSUME NEW c \in Conn, NEW f \in Frame, f.kind \notin SnapKind,
                 ~Leaving(c), queue' = [queue EXCEPT ![c] = Append(@, f)],
                 f.kind = "repl" => f.at = f.num /\ HasSnap(Stream(c), f.num),
                 UNCHANGED <<captured, target>>, reader'.pc # "needSlot",
                 \/ Settled' = Settled
                 \/ Settled' = Settled + 1 /\ f.kind = "raw" /\ f.num = Settled'
          PROVE  Intact(c)'
        <2>1. queue'[c] = Append(queue[c], f)
            BY <1>7 DEF TypeOK, ChanType
        <2>2. Stream(c)' = Append(Stream(c), f)
            BY <1>1, <1>7, <2>1, InsertStream
        <2> QED BY <1>1, <1>2, <1>7, <2>2, IntactGrow DEF AllIntact
    <1>8. ASSUME NEW pc \in {"read", "notify", "done"}, Goto(pc), UNCHANGED captured
          PROVE  reader'.pc = pc /\ Settled' = captured
        <2>1. reader'.pc = pc
            BY <1>8 DEF Goto, NoChunk
        <2> QED BY <1>4, <1>8, <2>1
    \* A frame for the client tx, in a step that has decided about nothing else.
    <1>9. ASSUME NEW f \in Frame, f.kind \notin SnapKind, reader.tx \in Conn,
                 PermitSend(reader.tx, "reader", f), UNCHANGED <<captured, target>>,
                 reader'.pc # "needSlot",
                 ~Leaving(reader.tx) /\ f.kind = "repl" =>
                    f.at = f.num /\ HasSnap(Stream(reader.tx), f.num),
                 \/ Settled' = Settled
                 \/ /\ Settled' = Settled + 1 /\ f.kind = "raw" /\ f.num = Settled'
                    /\ Settled' <= captured /\ reader.pc = "needSlot"
          PROVE  AllIntact'
        <2> SUFFICES ASSUME NEW d \in Conn PROVE Intact(d)'
            BY DEF AllIntact
        <2>1. CASE d = reader.tx /\ ~Leaving(d)
            <3>1. queue' = [queue EXCEPT ![d] = Append(@, f)]
                BY <1>9, <2>1 DEF PermitSend, Open, Leaving
            <3> QED BY <1>7, <1>9, <2>1, <3>1
        <2>2. CASE d # reader.tx \/ Leaving(d)
            <3>1. queue'[d] = queue[d] \/ Leaving(d)
                BY <1>9, <2>2 DEF PermitSend, TypeOK, ChanType
            <3> QED BY <1>6, <1>9, <2>2, <3>1
        <2> QED BY <2>1, <2>2
    <1>10. CASE SlotSend
        <2>1. /\ reader.pc = "needSlot" /\ Goto("read") /\ UNCHANGED <<captured, target>>
              /\ PermitSend(reader.tx, "reader", Output("raw", reader.n))
            BY <1>10 DEF SlotSend, ReaderAt
        <2>2. /\ Output("raw", reader.n) \in Frame
              /\ Output("raw", reader.n).kind = "raw" /\ Output("raw", reader.n).num = reader.n
            BY FrameType DEF TypeOK, ReaderType, Kind, Output
        <2>3. "raw" \notin SnapKind /\ "raw" # "repl"
            BY DEF SnapKind
        <2>4. Settled' = captured /\ reader'.pc = "read"
            BY <1>8, <2>1
        <2> QED BY <1>2, <1>3, <1>9, <2>1, <2>2, <2>3, <2>4
    <1>11. CASE SuppressSend
        <2> DEFINE f == [kind |-> "repl", num |-> reader.n, fits |-> TRUE,
                         at |-> IF UsesTail THEN reader.n ELSE 0]
        <2>1. /\ reader.pc = "suppressed" /\ Goto("read") /\ UNCHANGED <<captured, target>>
              /\ PermitSend(reader.tx, "reader", f)
            BY <1>11 DEF SuppressSend, ReaderAt
        <2>2. f \in Frame
            BY <2>1, PaneOutputAssumption DEF TypeOK, ReaderType, Frame, Kind, Number
        <2>3. ASSUME ~Leaving(reader.tx)
              PROVE  f.at = f.num /\ HasSnap(Stream(reader.tx), f.num)
            <3>1. Covered(reader.tx, reader.n) /\ reader.tail /\ reader.tx \in Conn
                BY <1>3, <2>1, <2>3 DEF DecisionInv, Withheld
            <3>2. entry[reader.tx].b = reader.n /\ entry[reader.tx].gen > 0
                BY <1>2, <1>3, <2>1, <3>1 DEF Covered, DecisionInv, Numbers
            <3>3. UsesTail
                BY <3>1, <3>2 DEF UsesTail
            <3>4. HasSnap(Stream(reader.tx), reader.n)
                BY <2>3, <3>1, <3>2 DEF AllIntact, Intact, Arrive, Recorded
            <3> QED BY <3>3, <3>4
        <2>4. f.kind \notin SnapKind
            BY DEF SnapKind
        <2>5. Settled' = captured /\ reader'.pc = "read"
            BY <1>8, <2>1
        <2> HIDE DEF f
        <2> QED BY <1>3, <1>9, <2>1, <2>2, <2>3, <2>4, <2>5
    <1>12. CASE EofSend
        <2>1. reader.pc = "eofSend" /\ Goto("notify") /\ UNCHANGED <<captured, target>>
            BY <1>12 DEF EofSend, ReaderAt
        <2>2. Settled' = Settled /\ reader'.pc = "notify"
            BY <1>3, <1>8, <2>1
        <2>3. CASE PermitSend(reader.tx, "reader", Output("exit", 0))
            <3>1. /\ Output("exit", 0) \in Frame
                  /\ Output("exit", 0).kind = "exit"
                BY FrameType, PaneOutputAssumption DEF Kind, Number, Output
            <3>2. "exit" \notin SnapKind /\ "exit" # "repl"
                BY DEF SnapKind
            <3> QED BY <1>3, <1>9, <2>1, <2>2, <2>3, <3>1, <3>2
        <2>4. CASE UNCHANGED queue
            BY <1>6, <2>1, <2>2, <2>4 DEF AllIntact
        <2> QED BY <1>12, <2>3, <2>4 DEF EofSend, chanVars
    <1>13. ASSUME NEW c \in Conn, ForwardSend(c) PROVE AllIntact'
        <2>1. /\ reader.pc = "captured" /\ Goto("read") /\ UNCHANGED captured
              /\ target = Connected(c)
            BY <1>13 DEF ForwardSend, ReaderAt
        <2>2. Settled' = captured /\ reader'.pc = "read" /\ Settled' = Settled + 1
            BY <1>2, <1>3, <1>8, <2>1
        <2>3. CASE Open(c)
            <3>1. /\ Output("raw", reader.n) \in Frame
                  /\ Output("raw", reader.n).kind = "raw" /\ Output("raw", reader.n).num = reader.n
                  /\ "raw" \notin SnapKind
                BY FrameType DEF TypeOK, ReaderType, Kind, Output, SnapKind
            <3>2. /\ queue' = [queue EXCEPT ![c] = Append(@, Output("raw", reader.n))]
                  /\ UNCHANGED target
                BY <1>13, <2>3 DEF ForwardSend
            <3> SUFFICES ASSUME NEW d \in Conn PROVE Intact(d)'
                BY DEF AllIntact
            <3>3. CASE d = c /\ ~Leaving(c)
                BY <1>3, <1>7, <2>1, <2>2, <3>1, <3>2, <3>3
            <3>4. CASE d # c \/ Leaving(d)
                <4>1. queue'[d] = queue[d] \/ Leaving(d)
                    BY <3>2, <3>4 DEF TypeOK, ChanType
                <4> QED BY <1>5, <1>6, <2>1, <3>2, <3>4, <4>1
            <3> QED BY <3>3, <3>4
        <2>4. CASE ~Open(c)
            <3>1. UNCHANGED queue /\ target' = Detached(NetworkDetach, NoConn)
                BY <1>13, <2>4 DEF ForwardSend
            <3>2. \A d \in Conn : target' # Connected(d)
                BY <3>1 DEF Detached, Connected
            <3> QED BY <1>6, <3>1, <3>2 DEF AllIntact
        <2> QED BY <2>3, <2>4
    <1>14. CASE ForwardDetached
        <2>1. UNCHANGED queue /\ \A d \in Conn : target' # Connected(d)
            BY <1>14 DEF ForwardDetached, chanVars, Connected
        <2> QED BY <1>6, <2>1 DEF AllIntact
    <1>15. ASSUME NEW c \in Conn, ForwardSuppressed(c) PROVE AllIntact'
        <2>1. /\ reader.pc = "captured" /\ UNCHANGED <<captured, queue, target>>
              /\ target = Connected(c) /\ Covered(c, reader.n) /\ reader'.pc = "suppressed"
            BY <1>15 DEF ForwardSuppressed, ReaderAt, chanVars, TypeOK, ReaderType
        <2>2. Settled' = Settled + 1 /\ Covered(c, Settled')
            BY <1>2, <1>3, <1>4, <2>1
        <2> QED BY <1>5, <1>6, <2>1, <2>2 DEF AllIntact
    <1>16. ASSUME NEW c \in Conn, ForwardFull(c) PROVE AllIntact'
        <2>1. /\ reader.pc = "captured" /\ UNCHANGED <<captured, queue, target>>
              /\ target = Connected(c) /\ reader'.pc = "needSlot" /\ reader'.tx = c
            BY <1>16 DEF ForwardFull, ReaderAt, chanVars, TypeOK, ReaderType
        <2>2. Settled' = Settled
            BY <1>3, <1>4, <2>1
        <2> QED BY <1>5, <1>6, <2>1, <2>2 DEF AllIntact
    <1>17. CASE SlotCovered
        <2>1. /\ reader.pc = "needSlot" /\ UNCHANGED <<captured, queue, target>>
              /\ Covered(reader.tx, reader.n) /\ reader'.pc = "suppressed"
            BY <1>17 DEF SlotCovered, ReaderAt, TypeOK, ReaderType
        <2>2. Settled' = Settled + 1 /\ Covered(reader.tx, Settled') /\ Settled' <= captured
            BY <1>2, <1>3, <1>4, <2>1
        <2> QED BY <1>6, <2>1, <2>2 DEF AllIntact
    <1>18. CASE SlotClosed
        <2>1. /\ reader.pc = "needSlot" /\ UNCHANGED <<captured, queue>> /\ Goto("read")
              /\ Leaving(reader.tx)
              /\ target' \in {target, Detached(NetworkDetach, NoConn)}
            BY <1>18 DEF SlotClosed, ReaderRefused, ReaderAt, chanVars, Open, Leaving
        <2>2. Settled' <= captured /\ reader'.pc = "read"
            BY <1>2, <1>8, <2>1
        <2>3. \A d \in Conn : target' = Connected(d) => target = Connected(d)
            BY <2>1 DEF Detached, Connected
        <2> QED BY <1>6, <2>1, <2>2, <2>3 DEF AllIntact
    <1>19. CASE ReaderCapture
        <2>1. /\ reader.pc = "read" /\ UNCHANGED <<queue, target>> /\ captured' = captured + 1
              /\ reader'.pc = "captured"
            BY <1>19 DEF ReaderCapture, ReaderAt, chanVars, TypeOK, ReaderType
        <2>2. Settled' = Settled
            BY <1>2, <1>3, <1>4, <2>1
        <2> QED BY <1>6, <2>1, <2>2 DEF AllIntact
    <1>20. CASE SuppressNothing \/ SuppressEmpty \/ EofNotify \/ ReaderError
        <2>1. /\ UNCHANGED <<captured, queue, target>>
              /\ Goto("read") \/ Goto("done")
              /\ reader.pc \notin {"captured", "needSlot"}
            BY <1>20 DEF SuppressNothing, SuppressEmpty, DropPermit, EofNotify,
               ReaderError, ReaderAt, chanVars
        <2>2. Settled' = Settled /\ reader'.pc # "needSlot"
            BY <1>3, <1>8, <2>1
        <2> QED BY <1>6, <2>1, <2>2 DEF AllIntact
    <1>21. CASE ReaderEof
        <2>1. /\ UNCHANGED <<captured, queue, target>>
              /\ reader.pc = "read" /\ reader'.pc \in {"notify", "eofSend"}
            <3>1. Goto("notify") => reader'.pc = "notify"
                BY DEF Goto, NoChunk
            <3>2. reader' = [reader EXCEPT !.pc = "eofSend", !.tx = target.tx]
                    => reader'.pc = "eofSend"
                BY DEF TypeOK, ReaderType
            <3> QED BY <1>21, <3>1, <3>2 DEF ReaderEof, ReaderAt, chanVars
        <2>2. Settled' = Settled
            BY <1>3, <1>4, <2>1
        <2> QED BY <1>6, <2>1, <2>2 DEF AllIntact
    <1>22. CASE ReaderPoll
        <2>1. UNCHANGED <<captured, reader, queue, target>>
            BY <1>22 DEF ReaderPoll, PollPermit, readerVars
        <2>2. Settled' = Settled
            BY <2>1 DEF Settled
        <2> QED BY <1>6, <2>1, <2>2 DEF AllIntact
    <1> QED BY <1>10, <1>11, <1>12, <1>13, <1>14, <1>15, <1>16, <1>17, <1>18, <1>19, <1>20,
            <1>21, <1>22
        DEF Reader, Forward, ReaderSlot, Suppress, Eof

\* Nobody is connected by the step.
ConnectsNobody == \A d \in Conn : target' = Connected(d) => target = Connected(d)

\* A step of one task that touches no stream.
LEMMA QuietIntact ==
    ASSUME AllIntact, NEW c \in Conn, UNCHANGED <<captured, reader, wire, queue, entry>>,
           Plain(conn[c]), Plain(conn'[c]), ConnectsNobody,
           \A d \in Conn : d # c => conn'[d] = conn[d] /\ job'[d] = job[d]
    PROVE  AllIntact'
    <1> SUFFICES ASSUME NEW d \in Conn PROVE Intact(d)'
        BY DEF AllIntact
    <1>1. Stream(d)' = Stream(d) /\ (Leaving(d)' <=> Leaving(d))
        BY DEF Stream, Leaving, ReattachFrame, Plain
    <1> QED BY <1>1, IntactSame DEF AllIntact, ConnectsNobody

\* Another task's step leaves this stream alone, but may drop the boundary of a
\* connection that has gone.
LEMMA OtherIntact ==
    ASSUME AllIntact, NEW d \in Conn, UNCHANGED <<captured, reader>>,
           conn'[d] = conn[d], job'[d] = job[d], wire'[d] = wire[d], queue'[d] = queue[d],
           Open(d) => entry'[d] = entry[d],
           target' = Connected(d) => target = Connected(d)
    PROVE  Intact(d)'
    <1>1. Stream(d)' = Stream(d) /\ (Leaving(d)' <=> Leaving(d))
        BY DEF Stream, Leaving, ReattachFrame
    <1> QED BY <1>1, IntactSame DEF AllIntact, Leaving, Open

\* A snapshot enters the channel of c in the same step as its boundary, and stands
\* for everything the reader has decided about.
LEMMA ResetIntact ==
    ASSUME TypeOK, TypeOK', AllIntact, NEW c \in Conn, NEW k \in SnapKind,
           NEW b \in Number, NEW a \in Number, Record(c, b),
           queue' = [queue EXCEPT ![c] = Append(@, Snapshot(k, b, a))],
           UNCHANGED <<captured, reader, wire, job>>, Plain(conn[c]), Plain(conn'[c]),
           \A d \in Conn : d # c =>
                conn'[d] = conn[d] /\ (target' = Connected(d) => target = Connected(d)),
           NEW lo \in Nat, lo = IF k = "resume" THEN b ELSE a,
           entry'[c].b <= lo, Settled <= lo, reader.pc = "needSlot" => captured <= lo
    PROVE  AllIntact'
    <1> SUFFICES ASSUME NEW d \in Conn PROVE Intact(d)'
        BY DEF AllIntact
    <1>1. Open(c) /\ ~Leaving(c)
        BY DEF Open, Plain, Leaving
    <1>2. /\ entry'[c].b = b \/ entry'[c] = entry[c]
          /\ d # c /\ Open(d) => entry'[d] = entry[d]
        BY <1>1, RecordExact DEF TypeOK
    <1>3. CASE d # c
        <2>1. queue'[d] = queue[d]
            BY <1>3 DEF TypeOK, ChanType
        <2> QED BY <1>2, <1>3, <2>1, OtherIntact
    <1>4. CASE d = c
        <2>1. PICK f : f = Snapshot(k, b, a)
            OBVIOUS
        <2>2. /\ f \in Frame /\ f.kind = k /\ f.num = b /\ f.at = a /\ IsSnapshot(f)
            BY <2>1, FrameType DEF Snapshot, IsSnapshot, SnapKind, Kind
        <2>3. queue'[c] = Append(queue[c], f)
            BY <2>1 DEF TypeOK, ChanType
        <2>4. Stream(c)' = Append(Stream(c), f)
            BY <1>1, <2>2, <2>3, InsertStream
        <2>5. Settled' = Settled /\ Settled' \in Int
            BY PaneOutputAssumption DEF Settled, TypeOK, ReaderType, Number
        <2> QED BY <1>1, <1>2, <1>4, <2>2, <2>4, <2>5, IntactReset DEF AllIntact
    <1> QED BY <1>3, <1>4

\* A task inserts a snapshot only where it stands for everything decided so far,
\* and connects the pane to its client in the same step.
LEMMA TaskStepIntact ==
    ASSUME TypeOK, TypeOK', DecisionInv, DecisionInv', AllIntact, UnattachedEmpty,
           NEW c \in Conn, Task(c)
    PROVE  AllIntact'
    <1> USE DEF At, Step, readerVars, captureVars, chanVars, ConnectsNobody, Connected, Detached
    <1>a. /\ conn \in [Conn -> TaskPc] /\ job[c].back \in {"arm", "flush"}
          /\ job[c].then \in {"arm", "route"} /\ job[c].b \in Number
          /\ job \in [Conn -> [b : Number, at : Number, fits : BOOLEAN,
                               back : {"arm", "flush"}, then : {"arm", "route"}]]
        BY DEF TypeOK, TaskType
    <1>b. /\ captured \in Number /\ captured \in Nat /\ Number \subseteq Nat
          /\ Settled <= captured
        BY PaneOutputAssumption DEF TypeOK, ReaderType, Number, Settled
    <1> USE <1>a
    <1>1. CASE ResumeNoChange(c)
        <2>1. /\ UNCHANGED <<captured, reader, wire, queue, entry>> /\ ConnectsNobody
              /\ Plain(conn[c]) /\ Plain(conn'[c])
              /\ \A d \in Conn : d # c => conn'[d] = conn[d] /\ job'[d] = job[d]
            BY <1>1 DEF ResumeNoChange, DropPermit, Plain
        <2> QED BY <2>1, QuietIntact
    <1>2. CASE ResumeRead(c)
        <2>1. /\ UNCHANGED <<captured, reader, wire, queue, entry>> /\ ConnectsNobody
              /\ Plain(conn[c]) /\ Plain(conn'[c])
              /\ \A d \in Conn : d # c => conn'[d] = conn[d] /\ job'[d] = job[d]
            BY <1>2 DEF ResumeRead, Plain
        <2> QED BY <2>1, QuietIntact
    <1>3. CASE ResumeOversize(c)
        <2>1. /\ UNCHANGED <<captured, reader, wire, queue, entry>> /\ ConnectsNobody
              /\ Plain(conn[c]) /\ Plain(conn'[c])
              /\ \A d \in Conn : d # c => conn'[d] = conn[d] /\ job'[d] = job[d]
            BY <1>3 DEF ResumeOversize, DropPermit, Plain
        <2> QED BY <2>1, QuietIntact
    <1>4. CASE SnapshotOversize(c)
        <2>1. /\ UNCHANGED <<captured, reader, wire, queue, entry>> /\ ConnectsNobody
              /\ Plain(conn[c]) /\ Plain(conn'[c])
              /\ \A d \in Conn : d # c => conn'[d] = conn[d] /\ job'[d] = job[d]
            BY <1>4 DEF SnapshotOversize, Plain
        <2> QED BY <2>1, QuietIntact
    <1>5. CASE AttachHidden(c)
        <2>1. /\ UNCHANGED <<captured, reader, wire, queue, entry>> /\ ConnectsNobody
              /\ Plain(conn[c]) /\ Plain(conn'[c])
              /\ \A d \in Conn : d # c => conn'[d] = conn[d] /\ job'[d] = job[d]
            BY <1>5 DEF AttachHidden, Plain
        <2> QED BY <2>1, QuietIntact
    <1>6. CASE AttachRead(c)
        <2>1. /\ UNCHANGED <<captured, reader, wire, queue, entry>> /\ ConnectsNobody
              /\ Plain(conn[c]) /\ Plain(conn'[c])
              /\ \A d \in Conn : d # c => conn'[d] = conn[d] /\ job'[d] = job[d]
            BY <1>6 DEF AttachRead, Plain
        <2> QED BY <2>1, QuietIntact
    <1>7. CASE Arm(c)
        <2>1. /\ UNCHANGED <<captured, reader, wire, queue, entry>> /\ ConnectsNobody
              /\ Plain(conn[c]) /\ Plain(conn'[c])
              /\ \A d \in Conn : d # c => conn'[d] = conn[d] /\ job'[d] = job[d]
            BY <1>7 DEF Arm, Plain
        <2> QED BY <2>1, QuietIntact
    <1>8. CASE DrainEnd(c)
        <2>1. /\ UNCHANGED <<captured, reader, wire, queue, entry>> /\ ConnectsNobody
              /\ Plain(conn[c]) /\ Plain(conn'[c])
              /\ \A d \in Conn : d # c => conn'[d] = conn[d] /\ job'[d] = job[d]
            BY <1>8 DEF DrainEnd, Plain
        <2> QED BY <2>1, QuietIntact
    <1>9. CASE FlushEnd(c)
        <2>1. /\ UNCHANGED <<captured, reader, wire, queue, entry>> /\ ConnectsNobody
              /\ Plain(conn[c]) /\ Plain(conn'[c])
              /\ \A d \in Conn : d # c => conn'[d] = conn[d] /\ job'[d] = job[d]
            BY <1>9 DEF FlushEnd, Plain
        <2> QED BY <2>1, QuietIntact
    <1>10. CASE FlushResume(c)
        <2>1. /\ UNCHANGED <<captured, reader, wire, queue, entry>> /\ ConnectsNobody
              /\ Plain(conn[c]) /\ Plain(conn'[c])
              /\ \A d \in Conn : d # c => conn'[d] = conn[d] /\ job'[d] = job[d]
            BY <1>10 DEF FlushResume, Plain
        <2> QED BY <2>1, QuietIntact
    <1>11. CASE PollReserve(c)
        <2>1. /\ UNCHANGED <<captured, reader, wire, queue, entry>> /\ ConnectsNobody
              /\ Plain(conn[c]) /\ Plain(conn'[c])
              /\ \A d \in Conn : d # c => conn'[d] = conn[d] /\ job'[d] = job[d]
            BY <1>11 DEF PollReserve, PollPermit, taskVars, Plain
        <2> QED BY <2>1, QuietIntact
    <1>12. CASE FairResume(c)
        <2>1. /\ UNCHANGED <<captured, reader, wire, queue, entry>> /\ ConnectsNobody
              /\ Plain(conn[c]) /\ Plain(conn'[c])
              /\ \A d \in Conn : d # c => conn'[d] = conn[d] /\ job'[d] = job[d]
            BY <1>12 DEF FairResume, FairReady, Plain
        <2> QED BY <2>1, QuietIntact
    <1>13. CASE FairNothing(c)
        <2>1. /\ UNCHANGED <<captured, reader, wire, queue, entry>> /\ ConnectsNobody
              /\ Plain(conn[c]) /\ Plain(conn'[c])
              /\ \A d \in Conn : d # c => conn'[d] = conn[d] /\ job'[d] = job[d]
            BY <1>13 DEF FairNothing, FairReady, DropPermit, Plain
        <2> QED BY <2>1, QuietIntact
    <1>14. CASE RouteOther(c)
        <2>1. /\ UNCHANGED <<captured, reader, wire, queue, entry>> /\ ConnectsNobody
              /\ Plain(conn[c]) /\ Plain(conn'[c])
              /\ \A d \in Conn : d # c => conn'[d] = conn[d] /\ job'[d] = job[d]
            BY <1>14 DEF RouteOther, Plain
        <2> QED BY <2>1, QuietIntact
    <1>15. CASE ResumeCommit(c)
        <2>1. /\ UNCHANGED <<captured, reader, wire, job>> /\ Record(c, job[c].b)
              /\ conn[c] = "resumeCommit" /\ Plain(conn[c]) /\ Plain(conn'[c])
              /\ \A d \in Conn : d # c =>
                    conn'[d] = conn[d] /\ (target' = Connected(d) => target = Connected(d))
            BY <1>15 DEF ResumeCommit, PermitSend, Plain
        <2>2. queue' = [queue EXCEPT ![c] = Append(@, Snapshot("resume", job[c].b, captured))]
            BY <1>15, <2>1 DEF ResumeCommit, PermitSend, Open
        <2>3. /\ Settled <= job[c].b /\ entry[c].b <= job[c].b
              /\ reader.pc = "needSlot" => captured <= job[c].b
            BY <1>b, <2>1 DEF DecisionInv, Committing
        <2>4. entry'[c].b <= job[c].b
            <3>1. entry'[c].b = job[c].b \/ entry'[c] = entry[c]
                BY <2>1, RecordExact DEF Open, TypeOK
            <3>2. job[c].b <= job[c].b
                <4>1. PICK b : b = job[c].b
                    OBVIOUS
                <4>2. b \in Nat
                    BY <1>b, <4>1
                <4> QED BY <4>1, <4>2
            <3>3. CASE entry'[c].b = job[c].b
                BY <3>2, <3>3
            <3>4. CASE entry'[c] = entry[c]
                BY <2>3, <3>4
            <3> QED BY <3>1, <3>3, <3>4
        <2>5. "resume" \in SnapKind
            BY DEF SnapKind
        <2> QED BY <1>b, <2>1, <2>2, <2>3, <2>4, <2>5, ResetIntact
    <1>16. ASSUME NEW k \in SnapKind, k # "resume", NEW b \in Number, Record(c, b),
                 queue' = [queue EXCEPT ![c] = Append(@, Snapshot(k, b, captured))],
                 UNCHANGED <<captured, reader, wire, job, target>>,
                 Plain(conn[c]), Plain(conn'[c]),
                 \A d \in Conn : d # c => conn'[d] = conn[d]
          PROVE  AllIntact'
        <2>1. entry'[c].b <= captured
            BY <1>16 DEF DecisionInv, Numbers
        <2>2. captured = IF k = "resume" THEN b ELSE captured
            BY <1>16
        <2>3. captured <= captured
            BY <1>b
        <2>4. \A d \in Conn : d # c =>
                conn'[d] = conn[d] /\ (target' = Connected(d) => target = Connected(d))
            BY <1>16
        <2> QED BY <1>b, <1>16, <2>1, <2>2, <2>3, <2>4, ResetIntact
    <1>17. CASE SnapshotEnqueue(c)
        <2>1. /\ conn[c] = "snapshot" /\ UNCHANGED <<captured, reader, wire, job, target>>
              /\ \A d \in Conn : conn'[d] = IF d = c THEN "arm" ELSE conn[d]
            BY <1>17 DEF SnapshotEnqueue
        <2>2. "ondemand" \in SnapKind /\ "ondemand" # "resume"
            BY DEF SnapKind
        <2>3. CASE Free(c)
            BY <1>16, <1>17, <2>1, <2>2, <2>3 DEF SnapshotEnqueue, Plain
        <2>4. CASE ~Free(c)
            <3>1. UNCHANGED <<queue, entry>>
                BY <1>17, <2>4 DEF SnapshotEnqueue, Defer
            <3> QED BY <2>1, <3>1, QuietIntact DEF Plain
        <2> QED BY <2>3, <2>4
    <1>18. CASE FlushChunk(c)
        <2>1. Head(deferred[c]).b \in Number
            <3>1. deferred[c] \in Seq(Item) /\ deferred[c] # <<>>
                BY <1>18 DEF FlushChunk, TypeOK, TaskType
            <3>2. Head(deferred[c]) \in Item
                BY <3>1
            <3> QED BY <3>2 DEF Item
        <2>2. "deferred" \in SnapKind /\ "deferred" # "resume"
            BY DEF SnapKind
        <2> QED BY <1>16, <1>18, <2>1, <2>2 DEF FlushChunk, Plain
    <1>19. CASE FairChunk(c)
        <2>1. Head(deferred[c]).b \in Number
            <3>1. deferred[c] \in Seq(Item) /\ deferred[c] # <<>>
                BY <1>19 DEF FairChunk, TypeOK, TaskType
            <3>2. Head(deferred[c]) \in Item
                BY <3>1
            <3> QED BY <3>2 DEF Item
        <2>2. "deferred" \in SnapKind /\ "deferred" # "resume"
            BY DEF SnapKind
        <2>3. /\ conn[c] = "idle" /\ UNCHANGED <<captured, reader, wire, job, target>>
              /\ \A d \in Conn : conn'[d] = IF d = c THEN "arm" ELSE conn[d]
              /\ Record(c, Head(deferred[c]).b)
              /\ PermitSend(c, "fair", Snapshot("deferred", Head(deferred[c]).b, captured))
            BY <1>19 DEF FairChunk, FairReady
        <2>4. queue' = [queue EXCEPT ![c] =
                    Append(@, Snapshot("deferred", Head(deferred[c]).b, captured))]
            BY <2>3 DEF PermitSend, Open
        <2> QED BY <1>16, <2>1, <2>2, <2>3, <2>4 DEF Plain
    <1>20. CASE AttachSwap(c)
        <2>1. /\ conn[c] = "attachSwap" /\ queue[c] = <<>>
              /\ UNCHANGED <<captured, reader, wire, queue>> /\ Open(c) /\ ~Leaving(c)
            BY <1>20 DEF AttachSwap, UnattachedEmpty, Unattached, Open, Leaving
        <2>2. CASE exited
            <3>1. /\ UNCHANGED <<entry, target, job>>
                  /\ \A d \in Conn : conn'[d] = IF d = c THEN "arm" ELSE conn[d]
                BY <1>20, <2>2 DEF AttachSwap
            <3> QED BY <2>1, <3>1, QuietIntact DEF Plain
        <2>3. CASE ~exited
            <3>1. /\ \A d \in Conn : conn'[d] = IF d = c THEN "attachSend" ELSE conn[d]
                  /\ target' = Connected(c)
                  /\ \/ /\ Record(c, job[c].b)
                        /\ job' = [job EXCEPT ![c].fits = TRUE, ![c].at = captured]
                     \/ /\ job' = [job EXCEPT ![c].fits = FALSE, ![c].at = captured]
                        /\ UNCHANGED entry
                BY <1>20, <2>3 DEF AttachSwap
            <3>2. /\ \A d \in Conn : d # c => job'[d] = job[d]
                  /\ job'[c].b = job[c].b /\ job'[c].at = captured
                  /\ \/ Record(c, job[c].b) /\ job'[c].fits
                     \/ UNCHANGED entry
                <4>1. CASE /\ Record(c, job[c].b)
                           /\ job' = [job EXCEPT ![c].fits = TRUE, ![c].at = captured]
                    BY <4>1
                <4>2. CASE /\ job' = [job EXCEPT ![c].fits = FALSE, ![c].at = captured]
                           /\ UNCHANGED entry
                    BY <4>2
                <4> QED BY <3>1, <4>1, <4>2
            <3>3. /\ (entry'[c].b = job[c].b /\ job'[c].fits) \/ entry'[c] = entry[c]
                  /\ \A d \in Conn : d # c /\ Open(d) => entry'[d] = entry[d]
                BY <2>1, <3>2, RecordExact DEF TypeOK
            <3>4. ASSUME NEW d \in Conn, d # c PROVE Intact(d)'
                <4>1. target' = Connected(d) => target = Connected(d)
                    BY <3>1, <3>4
                <4> QED BY <2>1, <3>1, <3>2, <3>3, <3>4, <4>1, OtherIntact
            <3>5. Intact(c)'
                <4>1. PICK f : f = ReattachFrame(c)'
                    OBVIOUS
                <4>2. f \in Frame /\ wire[c] \in Seq(Frame)
                    BY <4>1 DEF TypeOK, TaskType, WireType, ReattachFrame, Frame, Kind
                <4>3. /\ f.kind = "reattach" /\ f.num = job[c].b /\ f.at = captured
                      /\ f.fits = job'[c].fits
                    BY <3>2, <4>1 DEF ReattachFrame
                <4>4. Stream(c) = wire[c]
                    BY <2>1, <4>2 DEF Stream, Leaving
                <4>5. Stream(c)' = Append(wire[c], f)
                    <5>1. Append(wire[c], f) \in Seq(Frame)
                        BY <4>2
                    <5>2. Stream(c)' = Append(wire[c], f) \o <<>>
                        BY <2>1, <3>1, <4>1 DEF Stream, Leaving
                    <5> QED BY <5>1, <5>2
                <4>6. f.kind \in SnapKind /\ (IsSnapshot(f) <=> f.fits)
                    BY <4>3 DEF SnapKind, IsSnapshot
                <4>7. /\ entry'[c].b <= captured
                      /\ Settled' <= captured /\ Settled' \in Int /\ UNCHANGED captured
                    BY <1>b, <2>1 DEF DecisionInv, Numbers, Settled
                <4>8. (IsSnapshot(f) /\ entry'[c].b = f.num) \/ entry'[c] = entry[c]
                    BY <3>3, <4>3, <4>6
                <4>9. Stream(c)' = Append(Stream(c), f)
                    BY <4>4, <4>5
                <4>10. captured = IF f.kind = "resume" THEN f.num ELSE f.at
                    BY <4>3
                <4>11. Intact(c) /\ Settled' <= captured /\ captured' <= captured
                    BY <1>b, <4>7 DEF AllIntact
                <4> HIDE <1>a
                <4> QED BY <1>b, <2>1, <4>2, <4>6, <4>7, <4>8, <4>9, <4>10, <4>11, IntactReset
            <3> QED BY <3>4, <3>5 DEF AllIntact
        <2> QED BY <2>2, <2>3
    <1>21. CASE AttachSend(c)
        <2>1. /\ conn[c] = "attachSend"
              /\ UNCHANGED <<captured, reader, job, entry, queue, target>>
              /\ \A d \in Conn : d # c => conn'[d] = conn[d] /\ wire'[d] = wire[d]
              /\ conn'[c] = "arm" /\ wire'[c] = Append(wire[c], ReattachFrame(c))
            BY <1>21 DEF AttachSend, TypeOK, WireType
        <2>2. Stream(c)' = Stream(c) /\ ~Leaving(c)
            BY <2>1 DEF Stream, Leaving
        <2>3. Intact(c)'
            BY <2>1, <2>2, IntactSame DEF AllIntact
        <2>4. ASSUME NEW d \in Conn, d # c PROVE Intact(d)'
            BY <2>1, <2>4, OtherIntact
        <2> QED BY <2>3, <2>4 DEF AllIntact
    <1>22. CASE Drain(c)
        <2>1. /\ conn[c] \in {"drain", "idle"} /\ queue[c] # <<>>
              /\ UNCHANGED <<captured, reader, job, entry, target>>
              /\ \A d \in Conn : d # c =>
                    conn'[d] = conn[d] /\ wire'[d] = wire[d] /\ queue'[d] = queue[d]
              /\ conn'[c] = "drain" /\ wire'[c] = Append(wire[c], Head(queue[c]))
              /\ queue'[c] = Tail(queue[c])
            BY <1>22 DEF Drain, TypeOK, WireType, ChanType
        <2>2. wire[c] \in Seq(Frame) /\ queue[c] \in Seq(Frame)
            BY DEF TypeOK, WireType, ChanType
        <2>3. Stream(c)' = Stream(c) /\ ~Leaving(c)
            BY <2>1, <2>2, DrainSame DEF Stream, Leaving
        <2>4. Intact(c)'
            BY <2>1, <2>3, IntactSame DEF AllIntact
        <2>5. ASSUME NEW d \in Conn, d # c PROVE Intact(d)'
            BY <2>1, <2>5, OtherIntact
        <2> QED BY <2>4, <2>5 DEF AllIntact
    <1>23. CASE KickedOut(c)
        <2>1. /\ conn[c] = "idle"
              /\ UNCHANGED <<captured, reader, wire, job, entry, queue, target>>
              /\ \A d \in Conn : d # c => conn'[d] = conn[d]
              /\ conn'[c] = "closing"
            BY <1>23 DEF KickedOut
        <2>2. Intact(c)'
            BY <2>1, IntactLeave DEF AllIntact, Leaving
        <2>3. ASSUME NEW d \in Conn, d # c PROVE Intact(d)'
            BY <2>1, <2>3, OtherIntact
        <2> QED BY <2>2, <2>3 DEF AllIntact
    <1>24. CASE Close(c)
        <2>1. /\ UNCHANGED <<captured, reader, entry, target>>
              /\ \A d \in Conn : d # c =>
                    /\ conn'[d] = conn[d] /\ wire'[d] = wire[d]
                    /\ queue'[d] = queue[d] /\ job'[d] = job[d]
              /\ conn'[c] = "gone" /\ wire'[c] = <<>>
            BY <1>24 DEF Close, TypeOK, WireType, ChanType
        <2>2. Intact(c)'
            BY <2>1 DEF Intact, Arrive, Replaces, Stream, Leaving
        <2>3. ASSUME NEW d \in Conn, d # c PROVE Intact(d)'
            BY <2>1, <2>3, OtherIntact
        <2> QED BY <2>2, <2>3 DEF AllIntact
    <1> QED BY <1>1, <1>2, <1>3, <1>4, <1>5, <1>6, <1>7, <1>8, <1>9, <1>10, <1>11, <1>12, <1>13, <1>14, <1>15, <1>16, <1>17, <1>18, <1>19, <1>20, <1>21, <1>22, <1>23, <1>24
        DEF Task, Resume, OnDemand, Attach, Flush, Fair

\* A message from the client, or its end, touches no other stream and connects
\* the pane to nobody.
LEMMA ClientStepIntact ==
    ASSUME TypeOK, AllIntact, NEW c \in Conn, Client(c)
    PROVE  AllIntact'
    <1> USE DEF At, Step, captureVars, readerVars, chanVars
    <1>a. conn \in [Conn -> TaskPc] /\ job \in [Conn -> [b : Number, at : Number,
              fits : BOOLEAN, back : {"arm", "flush"}, then : {"arm", "route"}]]
        BY DEF TypeOK, TaskType
    <1> USE <1>a
    <1>1. CASE Receive(c)
        <2>1. /\ UNCHANGED <<captured, reader, wire, queue, entry>> /\ ConnectsNobody
              /\ Plain(conn[c]) /\ Plain(conn'[c])
              /\ \A d \in Conn : d # c => conn'[d] = conn[d] /\ job'[d] = job[d]
            BY <1>1 DEF Receive, Plain, ConnectsNobody
        <2> QED BY <2>1, QuietIntact
    <1>2. CASE Hide(c)
        <2>1. ConnectsNobody
            BY <1>2 DEF Hide, Hidden, ConnectsNobody, Connected, Detached
        <2>2. /\ UNCHANGED <<captured, reader, wire, queue, entry>>
              /\ Plain(conn[c]) /\ Plain(conn'[c])
              /\ \A d \in Conn : d # c => conn'[d] = conn[d] /\ job'[d] = job[d]
            BY <1>2 DEF Hide, Plain
        <2> QED BY <2>1, <2>2, QuietIntact
    <1>3. CASE Show(c)
        <2>1. /\ UNCHANGED <<captured, reader, wire, queue, entry>> /\ ConnectsNobody
              /\ Plain(conn[c]) /\ Plain(conn'[c])
              /\ \A d \in Conn : d # c => conn'[d] = conn[d] /\ job'[d] = job[d]
            BY <1>3 DEF Show, Plain, ConnectsNobody
        <2> QED BY <2>1, QuietIntact
    <1>4. CASE SnapshotRead(c)
        <2>1. /\ UNCHANGED <<captured, reader, wire, queue, entry>> /\ ConnectsNobody
              /\ Plain(conn[c]) /\ Plain(conn'[c])
              /\ \A d \in Conn : d # c => conn'[d] = conn[d] /\ job'[d] = job[d]
            BY <1>4 DEF SnapshotRead, Plain, ConnectsNobody
        <2> QED BY <2>1, QuietIntact
    <1>5. CASE AttachDetach(c)
        <2>1. ConnectsNobody
            BY <1>5 DEF AttachDetach, DetachOwn, ConnectsNobody, Connected, Detached
        <2>2. /\ UNCHANGED <<captured, reader, wire, queue, entry>>
              /\ Plain(conn[c]) /\ Plain(conn'[c])
              /\ \A d \in Conn : d # c => conn'[d] = conn[d] /\ job'[d] = job[d]
            BY <1>5 DEF AttachDetach, Plain
        <2> QED BY <2>1, <2>2, QuietIntact
    <1>6. CASE Disconnect(c)
        <2>1. ConnectsNobody
            BY <1>6 DEF Disconnect, DetachOwn, ConnectsNobody, Connected, Detached
        <2>2. /\ conn[c] \in {"idle", "attachSend"}
              /\ UNCHANGED <<captured, reader, wire, queue, entry, job>>
              /\ \A d \in Conn : d # c => conn'[d] = conn[d]
              /\ conn'[c] = "closing"
            BY <1>6 DEF Disconnect
        <2>3. Intact(c)'
            BY <2>2, IntactLeave DEF AllIntact, Leaving
        <2>4. ASSUME NEW d \in Conn, d # c PROVE Intact(d)'
            BY <2>1, <2>2, <2>4, OtherIntact DEF ConnectsNobody
        <2> QED BY <2>3, <2>4 DEF AllIntact
    <1> QED BY <1>1, <1>2, <1>3, <1>4, <1>5, <1>6 DEF Client

-----------------------------------------------------------------------------
(* The invariant *)

\* Initially nothing has been sent, captured or decided.
LEMMA InitArrival == Init => ArrivalInv /\ OpenInv
    <1> SUFFICES ASSUME Init PROVE ArrivalInv /\ OpenInv
        OBVIOUS
    <1>1. /\ \A c \in Conn : /\ Stream(c) = <<>> /\ conn[c] = "idle"
                             /\ entry[c].gen = 0 /\ entry[c].b = 0 /\ job[c].b = 0
                             /\ deferred[c] = <<>> /\ ~kicked[c]
          /\ captured = 0 /\ reader.pc = "read"
        BY DEF Init, Stream, Leaving, NoEntry, NoJob, NoChunk
    <1>2. ASSUME NEW c \in Conn PROVE Intact(c)
        <2>1. Replaces(Stream(c)) /\ LastAt(Stream(c), 0) /\ 0 \in 0 .. Len(Stream(c))
            BY <1>1 DEF Replaces, LastAt
        <2>2. Recorded(Stream(c), 0, entry[c])
            BY <1>1 DEF Recorded
        <2>3. Got(c, Stream(c), 0)
            BY <1>1 DEF Got, LoAt, Settled
        <2> QED BY <2>1, <2>2, <2>3 DEF Intact, Arrive
    <1>3. DecisionInv
        BY <1>1 DEF DecisionInv, Numbers, Withheld, Committing
    <1>4. OpenInv
        BY <1>1 DEF OpenInv, LeaversDetached, ResumesHidden, Leaving
    <1> QED BY <1>2, <1>3, <1>4 DEF ArrivalInv, AllIntact

\* Every step keeps it.
LEMMA StepArrival ==
    ASSUME TypeOK, UnattachedEmpty, ArrivalInv, [Next]_vars
    PROVE  ArrivalInv'
    <1>1. TypeOK'
        BY StepType
    <1>2. AllIntact /\ DecisionInv
        BY DEF ArrivalInv
    <1>3. CASE Reader
        BY <1>1, <1>2, <1>3, DecisionReader, ReaderStepIntact DEF ArrivalInv
    <1>4. ASSUME NEW c \in Conn, Client(c) \/ Task(c) PROVE ArrivalInv'
        <2>1. DecisionInv'
            BY <1>1, <1>2, <1>4, DecisionStep
        <2>2. CASE Client(c)
            BY <1>2, <2>1, <2>2, ClientStepIntact DEF ArrivalInv
        <2>3. CASE Task(c)
            BY <1>1, <1>2, <2>1, <2>3, TaskStepIntact DEF ArrivalInv
        <2> QED BY <1>4, <2>2, <2>3
    <1>5. CASE ExitTask \/ UNCHANGED vars
        <2>1. UNCHANGED <<captured, entry, nextGen, target, reader, queue, conn, job,
                          deferred, wire>>
            BY <1>5 DEF ExitTask, vars, readerVars, captureVars, chanVars, taskVars
        <2>2. Settled' = Settled
            BY <2>1 DEF Settled
        <2>3. \A c \in Conn : Stream(c)' = Stream(c) /\ (Leaving(c)' <=> Leaving(c))
            BY <2>1 DEF Stream, Leaving, ReattachFrame
        <2>4. AllIntact'
            BY <1>2, <2>1, <2>3, IntactSame DEF AllIntact
        <2>5. DecisionInv'
            BY <1>2, <2>1, <2>2, <2>3
            DEF DecisionInv, Numbers, Withheld, Committing, Covered, Leaving
        <2> QED BY <2>4, <2>5 DEF ArrivalInv
    <1> QED BY <1>3, <1>4, <1>5 DEF Next, Terminated

-----------------------------------------------------------------------------
(* The theorem *)

\* LastReset is the frame the invariant speaks of.
LEMMA LastResetIs ==
    ASSUME TypeOK, NEW c \in Conn, NEW k, LastAt(Stream(c), k)
    PROVE  LastReset(c) = k
    <1>0. Stream(c) \in Seq(Frame)
        BY StreamType
    <1>1. PICK n, s : n = Len(s) /\ s = Stream(c) /\ n \in Nat
        BY <1>0
    <1>2. /\ k \in 0 .. n /\ (k # 0 => s[k].kind \in SnapKind)
          /\ \A i \in k + 1 .. n : s[i].kind \notin SnapKind
        BY <1>1 DEF LastAt
    <1>3. PICK R : R = {i \in 1 .. n : s[i].kind \in SnapKind}
        OBVIOUS
    <1>4. /\ \A i \in R : i \in Nat /\ i <= k
          /\ k # 0 => k \in R
        BY <1>1, <1>2, <1>3
    <1>5. LastReset(c) = IF R = {} THEN 0 ELSE CHOOSE i \in R : \A j \in R : j <= i
        BY <1>1, <1>3 DEF LastReset
    <1>6. CASE k = 0
        <2>1. R = {}
            BY <1>1, <1>2, <1>3, <1>6
        <2> QED BY <1>5, <1>6, <2>1
    <1>7. CASE k # 0
        <2>1. k \in R /\ \A j \in R : j <= k
            BY <1>4, <1>7
        <2>2. \A i \in R : (\A j \in R : j <= i) => i = k
            BY <1>2, <1>4, <2>1
        <2>3. (CHOOSE i \in R : \A j \in R : j <= i) = k
            BY <2>1, <2>2
        <2> QED BY <1>5, <2>1, <2>3
    <1> QED BY <1>6, <1>7

\* The invariant says what OutputArrives promises.
LEMMA ArrivalImplies ==
    ASSUME TypeOK, ArrivalInv, OpenInv
    PROVE  OutputArrives
    <1>1. \A c \in Conn : Intact(c)
        BY DEF ArrivalInv, AllIntact
    <1>2. Complete
        <2> SUFFICES ASSUME NEW c \in Conn, Receives(c)
                     PROVE  DeliveredAfter(c, LoAt(Stream(c), LastReset(c)))
            BY DEF Complete, LoAt
        <2>1. PICK k \in 0 .. Len(Stream(c)) :
                LastAt(Stream(c), k) /\ Got(c, Stream(c), k)
            BY <1>1 DEF Intact, Arrive, Receives
        <2>2. LastReset(c) = k
            BY <2>1, LastResetIs
        <2> QED BY <2>1, <2>2 DEF DeliveredAfter, Got, RawAfter
    <1>3. ReplacementContinuesSnapshot
        BY <1>1 DEF ReplacementContinuesSnapshot, Intact, Replaces
    <1>4. SuppressedIsInSnapshot
        <2>1. ASSUME reader.pc = "suppressed", ~Leaving(reader.tx)
              PROVE  \E i \in 1 .. Len(Stream(reader.tx)) :
                        /\ IsSnapshot(Stream(reader.tx)[i])
                        /\ Stream(reader.tx)[i].num >= reader.n
            <3>1. reader.tx \in Conn /\ reader.n \in Nat /\ entry[reader.tx].b \in Nat
                BY <2>1, PaneOutputAssumption DEF TypeOK, ReaderType, CaptureType, Number
            <3>2. Covered(reader.tx, reader.n)
                BY <2>1 DEF ArrivalInv, DecisionInv, Withheld
            <3>3. entry[reader.tx].gen > 0 /\ reader.n <= entry[reader.tx].b
                BY <3>2 DEF Covered
            <3>4. HasSnap(Stream(reader.tx), entry[reader.tx].b)
                BY <1>1, <2>1, <3>1, <3>3 DEF Intact, Arrive, Recorded
            <3> QED BY <3>1, <3>3, <3>4 DEF HasSnap
        <2>2. ASSUME NEW c \in Conn, NEW j \in 1 .. Len(Stream(c)),
                     Stream(c)[j].kind = "repl"
              PROVE  \E i \in 1 .. j - 1 : /\ IsSnapshot(Stream(c)[i])
                                           /\ Stream(c)[i].num >= Stream(c)[j].num
            <3>1. Stream(c)[j].num \in Nat
                <4>1. Stream(c) \in Seq(Frame)
                    BY StreamType
                <4>2. Stream(c)[j] \in Frame
                    BY <4>1
                <4> QED BY <4>2, PaneOutputAssumption DEF Frame, Number
            <3>2. PICK i \in 1 .. j - 1 : IsSnapshot(Stream(c)[i])
                                          /\ Stream(c)[i].num = Stream(c)[j].num
                BY <1>1, <2>2 DEF Intact, Replaces
            <3>3. Stream(c)[i].num >= Stream(c)[j].num
                BY <3>1, <3>2
            <3> QED BY <3>2, <3>3
        <2> QED BY <2>1, <2>2 DEF SuppressedIsInSnapshot
    <1>5. ConnectedIsOpen
        BY DEF OpenInv, LeaversDetached, ConnectedIsOpen, Leaving, Open
    <1> QED BY <1>2, <1>3, <1>4, <1>5 DEF OutputArrives

\* Whatever the number of clients, chunks, requests and visibility changes and the
\* capacity of the channel: with clients that attach at most once, every chunk the
\* reader settles reaches the client the pane is connected to, or is withheld because a
\* snapshot on its way contains it; a replacement continues such a snapshot; and a live
\* pane is never connected to a dropped receiver (pty_reader_loop, OutputCapture,
\* resume_pane_with_permit, detach_session_panes).
THEOREM ArrivalCorrect ==
    ASSUME MaxAttach <= 1
    PROVE  Spec => []OutputArrives
    <1>1. Init => TypeOK /\ OwnerInv /\ StreamInv /\ ArrivalInv /\ OpenInv
        BY InitType, InitOwner, InitStream, InitArrival
    <1>2. /\ TypeOK /\ OwnerInv /\ StreamInv /\ ArrivalInv /\ OpenInv
          /\ [Next]_vars
          => (TypeOK /\ OwnerInv /\ StreamInv /\ ArrivalInv /\ OpenInv)'
        <2> SUFFICES ASSUME TypeOK, OwnerInv, StreamInv, ArrivalInv, OpenInv, [Next]_vars
                     PROVE  (TypeOK /\ OwnerInv /\ StreamInv /\ ArrivalInv /\ OpenInv)'
            OBVIOUS
        <2>1. TypeOK' /\ OwnerInv' /\ StreamInv'
            BY StepType, StepOwner, StepStream
        <2>2. NobodysIsNetwork /\ UnattachedEmpty
            BY DEF StreamInv
        <2>3. ArrivalInv' /\ OpenInv'
            BY <2>2, StepArrival, StepOpen
        <2> QED BY <2>1, <2>3
    <1>3. TypeOK /\ ArrivalInv /\ OpenInv => OutputArrives
        BY ArrivalImplies
    <1> QED BY <1>1, <1>2, <1>3, PTL DEF Spec

=============================================================================
