--------------------------- MODULE ScrollbackRing ---------------------------
(***************************************************************************)
(* The scrollback ring of a pane (mux/scrollback_buffer.rs) with the two   *)
(* threads that share it: the PTY reader, which attributes what it read to *)
(* the size it saw published (mux/ipc/pty_spawn/mod.rs), and a resize,     *)
(* which publishes a size, resizes the PTY and records a marker while it   *)
(* holds the ring's lock (MuxPane::resize).  A hot upgrade captures the    *)
(* ring and rebuilds it from its bytes.                                    *)
(*                                                                         *)
(* A byte is the number of its place in everything the pane ever wrote, so *)
(* that what is read back can be compared with what was written; a size is *)
(* a member of Sizes.  Not modelled: the write filter and the strip passes *)
(* in front of the ring (a chunk is what is left after them), and `clear`, *)
(* which only tests call.                                                  *)
(***************************************************************************)
EXTENDS Integers, Sequences, FiniteSets

CONSTANTS Capacity,      \* DEFAULT_SCROLLBACK_CAPACITY
          MaxDimMarkers, \* MAX_DIM_MARKERS
          Sizes,         \* the (cols, rows) pairs clients ask for
          None,
          MaxBytes,      \* bound: bytes the pane ever writes
          MaxChunk,      \* bound: bytes of one read
          MaxResizes,    \* bound: resizes
          MaxUpgrades    \* bound: hot upgrades

ASSUME RingAssumption ==
    /\ Capacity \in Nat \ {0} /\ MaxDimMarkers \in Nat \ {0}
    /\ None \notin Sizes /\ Sizes # {}
    /\ {MaxBytes, MaxChunk, MaxResizes, MaxUpgrades} \subseteq Nat

VARIABLES
    ring,      \* ScrollbackRingBuffer
    dims,      \* PaneDims: the size published to the reader
    size,      \* MuxPane::cols/rows
    pty,       \* the size the kernel has for the PTY
    resizing,  \* the size a resize is about to set; it holds the ring's lock
    reader,    \* the chunk the reader holds: its length and the size it saw
    log,       \* history: the size the reader saw for every byte written
    had,       \* history: every size the PTY has had
    resizes, upgrades

vars == <<ring, dims, size, pty, resizing, reader, log, had, resizes, upgrades>>

----------------------------------------------------------------------------
(* The ring *)

Slots == 0 .. Capacity - 1
New == [buf |-> [i \in Slots |-> 0], writePos |-> 0, len |-> 0, total |-> 0,
        markers |-> <<>>, evictions |-> 0, cappedHead |-> None]

Lower(a, b) == IF a < b THEN a ELSE b

\* mutant: a write longer than the buffer keeps its head
WriteHead(r, data) ==
    LET n == Len(data) IN
    [r EXCEPT
        !.buf = [i \in Slots |->
                   LET k == (i - r.writePos) % Capacity
                   IN  IF k < n THEN data[k + 1] ELSE @[i]],
        !.writePos = (@ + n) % Capacity,
        !.len = Lower(@ + n, Capacity),
        !.total = @ + n]

(* Bytes of `data` land from writePos on, around the end of the buffer; a  *)
(* write of Capacity bytes or more keeps its tail only.                    *)
Write(r, data) ==
    LET n == Len(data) IN
    IF n >= Capacity
    THEN [r EXCEPT !.buf = [i \in Slots |-> data[n - Capacity + i + 1]],
                   !.writePos = 0, !.len = Capacity, !.total = @ + n]
    ELSE [r EXCEPT
            !.buf = [i \in Slots |->
                       LET k == (i - r.writePos) % Capacity
                       IN  IF k < n THEN data[k + 1] ELSE @[i]],
            !.writePos = (@ + n) % Capacity,
            !.len = Lower(@ + n, Capacity),
            !.total = @ + n]

OldestOffset(r) == IF r.total > Capacity THEN r.total - Capacity ELSE 0

(* How many markers at the front describe nothing the window still holds:  *)
(* the marker after each of them is at or before the window's head.  The   *)
(* offsets ascend, so these are the first ones.                            *)
Stale(r) ==
    Cardinality({ k \in 1 .. Len(r.markers) - 1 :
                    r.markers[k + 1].offset <= OldestOffset(r) })

PruneDimMarkers(r) ==
    [r EXCEPT !.markers = SubSeq(@, Stale(r) + 1, Len(@))]

\* mutant: the cap is not enforced
EnforceDimMarkerCapOff(r) == r

EnforceDimMarkerCap(r) ==
    LET over == Len(r.markers) - MaxDimMarkers IN
    IF over <= 0 THEN r
    ELSE [r EXCEPT !.markers = SubSeq(@, over + 1, Len(@)),
                   !.evictions = @ + over,
                   !.cappedHead = r.markers[over].dims]

WriteResizeMarker(r, d) ==
    LET n == Len(r.markers) IN
    IF n > 0 /\ r.markers[n].offset = r.total
    THEN [r EXCEPT !.markers[n].dims = d]
    ELSE EnforceDimMarkerCap(PruneDimMarkers(
             [r EXCEPT !.markers = Append(@, [offset |-> r.total, dims |-> d])]))

LastEffectiveDims(r) ==
    IF r.markers = <<>> THEN None ELSE r.markers[Len(r.markers)].dims

\* mutant: the reader's chunk trusts the order in which the lock was taken
AttributeWritePlain(r, d, data) == Write(r, data)

AttributeWrite(r, d, data) ==
    Write(IF LastEffectiveDims(r) # d THEN WriteResizeMarker(r, d) ELSE r, data)

ReadAll(r) ==
    LET start == (r.writePos - r.len) % Capacity
    IN  [k \in 1 .. r.len |-> r.buf[(start + k - 1) % Capacity]]

(* The segments of a read: position in the bytes read (from 0) and size.   *)
ReadSegments(r) ==
    LET old  == OldestOffset(r)
        Head_(m) == m.offset <= old
        heads == SelectSeq(r.markers, Head_)
        mids  == SubSeq(r.markers, Len(heads) + 1, Len(r.markers))
        head  == IF heads # <<>> THEN heads[Len(heads)].dims
                 ELSE IF r.markers # <<>> /\ r.evictions = 1 THEN r.cappedHead
                 ELSE None
    IN  (IF head = None THEN <<>> ELSE <<[pos |-> 0, dims |-> head]>>)
          \o [k \in 1 .. Len(mids) |->
                [pos |-> Lower(mids[k].offset - old, r.len),
                 dims |-> mids[k].dims]]

LoadSnapshot(data) == Write(New, data)

----------------------------------------------------------------------------
(* The threads *)

NewPane(s) ==
    /\ ring = WriteResizeMarker(New, s)
    /\ dims = s /\ size = s /\ pty = s /\ had = {s}

Init ==
    /\ \E s \in Sizes : NewPane(s)
    /\ resizing = None
    /\ reader = None
    /\ log = <<>>
    /\ resizes = 0 /\ upgrades = 0

(* read() returned n bytes: the reader notes the size published now, before *)
(* it waits for the capture exclusion or for the ring's lock.               *)
ReadChunk ==
    /\ reader = None
    /\ \E n \in 1 .. Lower(MaxChunk, MaxBytes - Len(log)) :
         reader' = [n |-> n, dims |-> dims]
    /\ UNCHANGED <<ring, dims, size, pty, resizing, log, had, resizes, upgrades>>

CaptureChunk ==
    /\ reader # None /\ resizing = None
    /\ ring' = AttributeWrite(ring, reader.dims,
                              [k \in 1 .. reader.n |-> Len(log) + k])
    /\ log' = log \o [k \in 1 .. reader.n |-> reader.dims]
    /\ reader' = None
    /\ UNCHANGED <<dims, size, pty, resizing, had, resizes, upgrades>>

(* MuxPane::resize to another size: under the ring's lock the size is      *)
(* published, then the PTY is resized ...                                  *)
ResizePublish(d) ==
    /\ resizing = None /\ d # size /\ resizes < MaxResizes
    /\ resizing' = d
    /\ dims' = d
    /\ resizes' = resizes + 1
    /\ UNCHANGED <<ring, size, pty, reader, log, had, upgrades>>

(* ... the marker is recorded ...                                          *)
ResizeDone ==
    /\ resizing # None
    /\ pty' = resizing /\ size' = resizing
    /\ had' = had \cup {resizing}
    /\ ring' = WriteResizeMarker(ring, resizing)
    /\ resizing' = None
    /\ UNCHANGED <<dims, reader, log, resizes, upgrades>>

\* mutant: the published size is left as it is
ResizeFailedNoRollback ==
    /\ resizing # None
    /\ resizing' = None
    /\ UNCHANGED <<ring, dims, size, pty, reader, log, had, resizes, upgrades>>

(* ... or the PTY refuses and the published size is rolled back.           *)
ResizeFailed ==
    /\ resizing # None
    /\ dims' = size
    /\ resizing' = None
    /\ UNCHANGED <<ring, size, pty, reader, log, had, resizes, upgrades>>

(* capture in the old image, load_snapshot in the new one: the readers are *)
(* stopped and no handler is in a resize.                                  *)
Upgrade ==
    /\ upgrades < MaxUpgrades /\ reader = None /\ resizing = None
    /\ upgrades' = upgrades + 1
    /\ ring' = LoadSnapshot(ReadAll(ring))
    /\ UNCHANGED <<dims, size, pty, resizing, reader, log, had, resizes>>

Next ==
    \/ ReadChunk \/ CaptureChunk
    \/ \E d \in Sizes : ResizePublish(d)
    \/ ResizeDone \/ ResizeFailed
    \/ Upgrade

Spec == Init /\ [][Next]_vars

----------------------------------------------------------------------------
(* Properties *)

Markers == [offset : Nat, dims : Sizes]
Rings == [buf : [Slots -> Nat], writePos : Slots, len : 0 .. Capacity,
          total : Nat, markers : Seq(Markers), evictions : Nat,
          cappedHead : Sizes \cup {None}]

(* The state is what the program keeps: positions inside the buffer, the   *)
(* marker queue, and the sizes of the pane.                                *)
TypeOK ==
    /\ ring \in Rings
    /\ dims \in Sizes /\ size \in Sizes /\ pty \in Sizes /\ had \subseteq Sizes
    /\ resizing \in Sizes \cup {None}
    /\ (reader = None \/ reader \in [n : Nat \ {0}, dims : Sizes])
    /\ log \in Seq(Sizes)
    /\ resizes \in Nat /\ upgrades \in Nat

(* read_all returns exactly the newest bytes, oldest first, whatever the   *)
(* sizes of the writes and however often they wrapped, and a hot upgrade   *)
(* (capture, then load_snapshot) loses none of them.                       *)
ReadIsSuffix ==
    LET n == Lower(Len(log), Capacity)
    IN  ReadAll(ring) = [k \in 1 .. n |-> Len(log) - n + k]

(* The size read_segments assigns to a byte is the one the reader saw when *)
(* it read that byte, although a resize may have put its marker into the   *)
(* ring first, markers are pruned and coalesced, and the cap evicts them.  *)
DimsAt(segs, p) ==
    LET before == { k \in 1 .. Len(segs) : segs[k].pos <= p }
    IN  IF before = {} THEN None
        ELSE segs[CHOOSE k \in before : \A j \in before : j <= k].dims
SegmentsTrue ==
    LET segs == ReadSegments(ring) IN
    \A p \in 0 .. ring.len - 1 :
       DimsAt(segs, p) \in {None, log[Len(log) - ring.len + p + 1]}

(* "When EXACTLY ONE entry has ever been evicted" read_segments recovers   *)
(* full attribution: no byte of a pane that was never upgraded is without  *)
(* a size until a second marker has been evicted by the cap.               *)
HeadCovered ==
    upgrades = 0 /\ ring.evictions <= 1 =>
        LET segs == ReadSegments(ring)
        IN  \A p \in 0 .. ring.len - 1 : DimsAt(segs, p) # None

(* The marker queue is bounded by the cap and strictly ascending: two      *)
(* resizes with no byte between them share one marker, and a segment list  *)
(* never goes back.                                                        *)
Ascending(ms, total) ==
    /\ \A k \in 1 .. Len(ms) : ms[k].offset <= total
    /\ \A k \in 1 .. Len(ms) - 1 : ms[k].offset < ms[k + 1].offset
MarkersOrdered ==
    /\ Len(ring.markers) <= MaxDimMarkers
    /\ Ascending(ring.markers, ring.total)

(* Outside a resize, the size the reader sees is the size the PTY has and  *)
(* the size the pane reports: a refused resize leaves none of them behind. *)
PublishedIsReal == resizing = None => dims = pty /\ size = pty

(* mux/session/pane/mod.rs: with the rollback "no reader-thread read can   *)
(* observe the bogus dims and misattribute against them", so every byte is *)
(* attributed to a size the PTY has had.                                   *)
NoBogusDims == \A k \in 1 .. Len(log) : log[k] \in had
=============================================================================
