---------------------------- MODULE DeferredQueue ----------------------------
(***************************************************************************)
(* The deferred output queue of one connection with several panes: snapshot*)
(* replies and visibility resumes that found the pane_output channel full, *)
(* the flush that retries them, and the fair reservation that competes     *)
(* with the reader threads for freed slots.                                *)
(*                                                                         *)
(* PaneOutput follows one pane byte by byte; here a snapshot is only the   *)
(* version of the pane it shows, and the subject is what several panes do  *)
(* to each other: coalescing, the limit on queued chunks, eviction.        *)
(***************************************************************************)
EXTENDS Integers, Sequences, FiniteSets, SequencesExt

CONSTANTS
    Pane,        \* panes of the session
    Cap,         \* PTY_CHANNEL_CAPACITY
    MaxItems,    \* MAX_DEFERRED_ITEMS
    MaxVersion,  \* bound: how often a pane's content changes
    MaxMsgs      \* bound: client messages

QueueAssumption ==
    /\ Cap \in Nat \ {0} /\ MaxItems \in Nat \ {0}
    /\ MaxVersion \in Nat \ {0} /\ MaxMsgs \in Nat

VARIABLES
    version,   \* the content of each pane
    off,       \* panes whose output target is Detached { HiddenByVisibility }
    visible,   \* the connection's visible_state
    items,     \* DeferredOutputQueue::items
    used,      \* occupied or reserved slots of the channel
    fair,      \* the fair reservation holds a slot
    conn,      \* the connection task: step, message being handled, panes left to show
    asked,     \* history: the version each pane's newest snapshot request saw
    got,       \* history: the version of the last snapshot inserted for each pane
    passed,    \* history: panes whose chunk was newly queued since this pane's
    lost,      \* history: panes whose queued chunk was evicted
    msgs

vars == <<version, off, visible, items, used, fair, conn, asked, got, passed, lost, msgs>>
history == <<asked, passed, lost>>

Chunk(p, v) == [k |-> "chunk", pane |-> p, v |-> v]
Resume(p) == [k |-> "resume", pane |-> p, v |-> 0]
Chunks(q) == {i \in DOMAIN q : q[i].k = "chunk"}
ChunkOf(q, p) == {i \in Chunks(q) : q[i].pane = p}
ResumeOf(q, p) == {i \in DOMAIN q : q[i] = Resume(p)}
First(is) == CHOOSE i \in is : \A j \in is : i <= j

Free == used < Cap

-----------------------------------------------------------------------------
(* The queue operations. *)

evict(q) == IF Cardinality(Chunks(q)) >= MaxItems THEN RemoveAt(q, First(Chunks(q))) ELSE q

defer_chunk_unbounded(q, p, v) ==
    IF ChunkOf(q, p) # {} THEN [q EXCEPT ![First(ChunkOf(q, p))] = Chunk(p, v)]
    ELSE IF ResumeOf(q, p) # {} THEN InsertAt(q, First(ResumeOf(q, p)), Chunk(p, v))
    ELSE Append(q, Chunk(p, v))
\* newest wins in place; a new chunk stands before its pane's resume
defer_chunk(q, p, v) ==
    IF ChunkOf(q, p) # {} THEN [q EXCEPT ![First(ChunkOf(q, p))] = Chunk(p, v)]
    ELSE LET e == evict(q)
         IN IF ResumeOf(e, p) # {} THEN InsertAt(e, First(ResumeOf(e, p)), Chunk(p, v))
            ELSE Append(e, Chunk(p, v))

defer_visibility_resume(q, p) == IF ResumeOf(q, p) # {} THEN q ELSE Append(q, Resume(p))

-----------------------------------------------------------------------------
Init ==
    /\ version = [p \in Pane |-> 1] /\ off = {} /\ visible = TRUE
    /\ items = <<>> /\ used = 0 /\ fair = FALSE
    /\ conn = [at |-> "idle", msg |-> "none", pane |-> CHOOSE p \in Pane : TRUE, todo |-> {}]
    /\ asked = [p \in Pane |-> 0] /\ got = [p \in Pane |-> 0]
    /\ passed = [p \in Pane |-> {}] /\ lost = {} /\ msgs = 0

PaneOutput(p) ==
    /\ version[p] < MaxVersion
    /\ version' = [version EXCEPT ![p] = @ + 1]
    /\ UNCHANGED <<off, visible, items, used, fair, conn, history, got, msgs>>

ReaderSend ==
    /\ Free /\ used' = used + 1
    /\ UNCHANGED <<version, off, visible, items, fair, conn, history, got, msgs>>

\* route_message flushes before it handles any message
Receive ==
    /\ conn.at = "idle" /\ msgs < MaxMsgs
    /\ \E m \in {"snapshot", "show", "hide"}, p \in Pane :
          conn' = [conn EXCEPT !.at = "flush", !.msg = m, !.pane = p]
    /\ msgs' = msgs + 1
    /\ UNCHANGED <<version, off, visible, items, used, fair, history, got>>

\* a snapshot of pane p with content v enters the channel
Insert(p, v) == used' = used + 1 /\ got' = [got EXCEPT ![p] = v]

FlushChunk ==
    /\ conn.at = "flush" /\ items # <<>> /\ Head(items).k = "chunk" /\ Free
    /\ Insert(Head(items).pane, Head(items).v)
    /\ items' = Tail(items)
    /\ UNCHANGED <<version, off, visible, fair, conn, history, msgs>>

\* the resume is built from the pane as it is now, and only if the pane is hidden
resume_pane_with_permit(p) ==
    IF p \in off
    THEN Insert(p, version[p]) /\ off' = off \ {p}
    ELSE UNCHANGED <<used, got, off>>

FlushResume ==
    /\ conn.at = "flush" /\ items # <<>> /\ Head(items).k = "resume"
    /\ IF visible THEN Free /\ resume_pane_with_permit(Head(items).pane) ELSE UNCHANGED <<used, got, off>>
    /\ items' = Tail(items)
    /\ UNCHANGED <<version, visible, fair, conn, history, msgs>>

FlushEnd ==
    /\ conn.at = "flush"
    /\ items # <<>> => ~Free /\ (Head(items).k = "resume" => visible)
    /\ conn' = [conn EXCEPT !.at = IF conn.msg = "none" THEN "idle" ELSE "handle"]
    /\ UNCHANGED <<version, off, visible, items, used, fair, history, got, msgs>>

\* handle_request_pane_snapshot / enqueue_pane_output_chunk
HandleSnapshot ==
    /\ conn.at = "handle" /\ conn.msg = "snapshot"
    /\ LET p == conn.pane
           v == version[p]
           new == defer_chunk(items, p, v)
           fresh == ChunkOf(items, p) = {}
       IN /\ asked' = [asked EXCEPT ![p] = v]
          /\ IF Free
             THEN Insert(p, v) /\ UNCHANGED <<items, passed, lost>>
             ELSE /\ items' = new
                  /\ lost' = (lost \cup {o \in Pane : ChunkOf(items, o) # {} /\ ChunkOf(new, o) = {}}) \ {p}
                  /\ passed' = [o \in Pane |-> CASE o = p /\ fresh -> {}
                                                 [] o # p /\ fresh -> passed[o] \cup {p}
                                                 [] OTHER -> passed[o]]
                  /\ UNCHANGED <<used, got>>
    /\ conn' = [conn EXCEPT !.at = "idle", !.msg = "none"]
    /\ UNCHANGED <<version, off, visible, fair, msgs>>

HandleHide ==
    /\ conn.at = "handle" /\ conn.msg = "hide"
    /\ visible' = FALSE
    /\ off' = IF visible THEN Pane ELSE off
    /\ conn' = [conn EXCEPT !.at = "idle", !.msg = "none"]
    /\ UNCHANGED <<version, items, used, fair, history, got, msgs>>

HandleShow ==
    /\ conn.at = "handle" /\ conn.msg = "show"
    /\ visible' = TRUE
    /\ conn' = [conn EXCEPT !.at = "show", !.todo = IF visible THEN {} ELSE Pane]
    /\ UNCHANGED <<version, off, items, used, fair, history, got, msgs>>

\* the visible edge: every pane, one at a time
ShowPane(p) ==
    /\ conn.at = "show" /\ p \in conn.todo
    /\ IF Free
       THEN resume_pane_with_permit(p) /\ UNCHANGED items
       ELSE items' = defer_visibility_resume(items, p) /\ UNCHANGED <<used, got, off>>
    /\ conn' = [conn EXCEPT !.todo = @ \ {p}]
    /\ UNCHANGED <<version, visible, fair, history, msgs>>

ShowEnd ==
    /\ conn.at = "show" /\ conn.todo = {}
    /\ conn' = [conn EXCEPT !.at = "idle", !.msg = "none"]
    /\ UNCHANGED <<version, off, visible, items, used, fair, history, got, msgs>>

\* The drain arm takes n messages.  Freed slots go first to whoever waits on the channel's
\* semaphore: r parked readers and, while the queue is not empty, the fair reservation.
Drain(n, r, f) ==
    /\ conn.at = "idle"
    /\ f => ~fair /\ items # <<>> /\ r < n
    /\ LET inChannel == used - (IF fair THEN 1 ELSE 0)
       IN n \in 1..inChannel /\ r \in 0..n
    /\ used' = used - n + r + (IF f THEN 1 ELSE 0)
    /\ fair' = (fair \/ f)
    /\ conn' = [conn EXCEPT !.at = "flush", !.msg = "none"]
    /\ UNCHANGED <<version, off, visible, items, history, got, msgs>>

DrainArm == \E n \in 1..Cap, r \in 0..Cap, f \in BOOLEAN : Drain(n, r, f)

GrantFair == \E n \in 1..Cap, r \in 0..Cap : Drain(n, r, TRUE)

\* the reservation armed at the top of the loop finds a free slot by itself
ReserveArm ==
    /\ conn.at = "idle" /\ items # <<>> /\ ~fair /\ Free
    /\ fair' = TRUE /\ used' = used + 1
    /\ UNCHANGED <<version, off, visible, items, conn, history, got, msgs>>

\* apply_fair_permit_to_front_deferred_item
FairArm ==
    /\ conn.at = "idle" /\ fair
    /\ fair' = FALSE
    /\ items' = IF items = <<>> THEN items ELSE Tail(items)
    /\ LET p == Head(items).pane
           sends == items # <<>> /\ (Head(items).k = "chunk" \/ (visible /\ p \in off))
           v == IF Head(items).k = "chunk" THEN Head(items).v ELSE version[p]
       IN /\ used' = IF sends THEN used ELSE used - 1
          /\ got' = IF sends THEN [got EXCEPT ![p] = v] ELSE got
          /\ off' = IF sends /\ Head(items).k = "resume" THEN off \ {p} ELSE off
    /\ UNCHANGED <<version, visible, conn, history, msgs>>

Next ==
    \/ \E p \in Pane : PaneOutput(p) \/ ShowPane(p)
    \/ ReaderSend \/ Receive \/ FlushChunk \/ FlushResume \/ FlushEnd
    \/ HandleSnapshot \/ HandleHide \/ HandleShow \/ ShowEnd \/ DrainArm \/ ReserveArm \/ FairArm

Spec == Init /\ [][Next]_vars

\* The connection task runs; the waiters of the semaphore are served in order, so the fair
\* reservation gets a slot after at most one more send of every reader.
Fairness ==
    /\ WF_vars(FlushChunk \/ FlushResume \/ FlushEnd) /\ WF_vars(FairArm) /\ SF_vars(ReserveArm \/ GrantFair)
    /\ WF_vars(HandleSnapshot \/ HandleHide \/ HandleShow \/ ShowEnd)
    /\ WF_vars(\E p \in Pane : ShowPane(p))

FairSpec == Spec /\ Fairness

-----------------------------------------------------------------------------
(* Properties. *)

\* Every variable has the shape of the state it models; a reservation is an occupied slot.
TypeOK ==
    /\ version \in [Pane -> 1..MaxVersion] /\ asked \in [Pane -> 0..MaxVersion]
    /\ got \in [Pane -> 0..MaxVersion] /\ off \subseteq Pane /\ visible \in BOOLEAN
    /\ items \in Seq([k : {"chunk", "resume"}, pane : Pane, v : 0..MaxVersion])
    /\ used \in 0..Cap /\ fair \in BOOLEAN /\ (fair => used > 0)
    /\ conn.at \in {"idle", "flush", "handle", "show"} /\ conn.todo \subseteq Pane
    /\ passed \in [Pane -> SUBSET Pane] /\ lost \subseteq Pane /\ msgs \in 0..MaxMsgs

\* One chunk and one resume per pane, the chunk first, and never more chunks than the limit:
\* the memory held for a client that does not read is bounded.
Coalesced ==
    /\ Cardinality(Chunks(items)) <= MaxItems
    /\ \A i, j \in DOMAIN items : (i < j /\ items[i].pane = items[j].pane) =>
          items[i].k = "chunk" /\ items[j].k = "resume"

\* FR3: the newest request of each pane is answered with a snapshot at least as new, unless
\* its chunk was evicted.
NewestDelivered ==
    \A p \in Pane : (ChunkOf(items, p) = {} /\ p \notin lost) => got[p] >= asked[p]

\* The client never gets, for one pane, an older snapshot after a newer one.
NeverOlder == \A p \in Pane : got'[p] >= got[p]

\* A chunk is evicted only while as many other panes as the limit allows have one queued:
\* a pane that asks again replaces its own chunk and costs nobody theirs.
EvictionIsForced ==
    \A p \in lost' \ lost : Cardinality({o \in Pane \ {p} : ChunkOf(items', o) # {}}) >= MaxItems

\* "evicting the OLDEST such entry" (output_queue.rs:233): the chunks that stay were all
\* queued after the evicted one.
OldestIsEvicted ==
    [][\A p \in lost' \ lost :
          \A o \in Pane \ {p} : ChunkOf(items, o) # {} => o \in passed[p]]_vars

\* Once a visible edge is handled, every pane is connected again or has a resume queued:
\* a lost resume would have no retry.
ResumeNotLost ==
    (visible /\ conn.at # "show") => \A p \in off : ResumeOf(items, p) # {}

=============================================================================
