------------------------ MODULE ConnectionLoop_proofs ------------------------
(***************************************************************************)
(* Whatever the capacities, batch limits, quota and number of panes and    *)
(* windows are, a connection delivers frames in the order in which they    *)
(* were handed over and loses none before a failure (NothingLost and       *)
(* InOrder of ConnectionLoop); and a remainder is never left without a     *)
(* reservation, nothing follows Detached, no upgrade is acknowledged ahead *)
(* of its frame, what is held is bounded, and a window's last name is told *)
(* also when notifications are lost (ConnectionKept and HeldBounded).      *)
(***************************************************************************)
EXTENDS ConnectionLoop, SequenceTheorems, FiniteSetTheorems, TLAPS

-----------------------------------------------------------------------------
(* Sequences *)

\* Moving the first element of t to the end of s leaves s \o t as it is.
LEMMA MoveHead ==
    ASSUME NEW S, NEW s \in Seq(S), NEW t \in Seq(S), t # <<>>
    PROVE  /\ Append(s, Head(t)) \in Seq(S) /\ Tail(t) \in Seq(S)
           /\ Append(s, Head(t)) \o Tail(t) = s \o t
    <1>1. Head(t) \in S /\ Tail(t) \in Seq(S)
        BY HeadTailProperties
    <1>2. Append(s, Head(t)) \in Seq(S)
        BY <1>1
    <1> DEFINE u == Append(s, Head(t)) \o Tail(t)
               v == s \o t
    <1>3. /\ u \in Seq(S) /\ Len(u) = Len(s) + 1 + Len(Tail(t))
          /\ \A i \in 1 .. Len(s) + 1 + Len(Tail(t)) :
                u[i] = IF i <= Len(s) + 1 THEN Append(s, Head(t))[i]
                       ELSE Tail(t)[i - (Len(s) + 1)]
        BY <1>1, <1>2, ConcatProperties
    <1>4. /\ v \in Seq(S) /\ Len(v) = Len(s) + Len(t)
          /\ \A i \in 1 .. Len(s) + Len(t) :
                v[i] = IF i <= Len(s) THEN s[i] ELSE t[i - Len(s)]
        BY ConcatProperties
    <1>5. /\ Len(t) \in Nat \ {0} /\ Len(Tail(t)) = Len(t) - 1 /\ Len(s) \in Nat
          /\ \A i \in 1 .. Len(t) - 1 : Tail(t)[i] = t[i + 1]
          /\ Head(t) = t[1]
        BY HeadTailProperties, EmptySeq
    <1>6. /\ \A i \in 1 .. Len(s) : Append(s, Head(t))[i] = s[i]
          /\ Append(s, Head(t))[Len(s) + 1] = Head(t)
        BY <1>1
    <1> HIDE DEF u, v
    <1>7. ASSUME NEW i \in 1 .. Len(u) PROVE u[i] = v[i]
        <2>1. i \in Nat /\ i >= 1 /\ i <= Len(s) + Len(t)
            BY <1>3, <1>5
        <2>2. CASE i <= Len(s)
            BY <1>3, <1>4, <1>5, <1>6, <2>1, <2>2
        <2>3. CASE i = Len(s) + 1
            BY <1>3, <1>4, <1>5, <1>6, <2>1, <2>3
        <2>4. CASE i > Len(s) + 1
            <3>1. u[i] = Tail(t)[i - (Len(s) + 1)]
                BY <1>3, <1>5, <2>1, <2>4
            <3>2. i - (Len(s) + 1) \in 1 .. Len(t) - 1
                BY <1>5, <2>1, <2>4
            <3>3. Tail(t)[i - (Len(s) + 1)] = t[(i - (Len(s) + 1)) + 1]
                BY <1>5, <3>2
            <3>4. (i - (Len(s) + 1)) + 1 = i - Len(s)
                BY <1>5, <2>1
            <3>5. v[i] = t[i - Len(s)]
                BY <1>4, <1>5, <2>1, <2>4
            <3> QED BY <3>1, <3>3, <3>4, <3>5
        <2> QED BY <1>5, <2>1, <2>2, <2>3, <2>4
    <1>8. Len(u) = Len(v)
        BY <1>3, <1>4, <1>5
    <1>9. u = v
        BY <1>3, <1>4, <1>7, <1>8, SeqEqual
    <1> QED BY <1>1, <1>2, <1>9 DEF u, v

\* A sequence is the concatenation of its two parts.
LEMMA SplitAt ==
    ASSUME NEW S, NEW s \in Seq(S), NEW k \in 0 .. Len(s)
    PROVE  /\ SubSeq(s, 1, k) \in Seq(S) /\ SubSeq(s, k + 1, Len(s)) \in Seq(S)
           /\ Len(SubSeq(s, 1, k)) = k
           /\ Len(SubSeq(s, k + 1, Len(s))) = Len(s) - k
           /\ SubSeq(s, 1, k) \o SubSeq(s, k + 1, Len(s)) = s
    <1>1. Len(s) \in Nat /\ k \in Nat
        BY LenProperties
    <1>2. \A i \in 1 .. Len(s) : s[i] \in S
        BY ElementOfSeq
    <1>3. /\ SubSeq(s, 1, k) \in Seq(S)
          /\ Len(SubSeq(s, 1, k)) = IF 1 <= k THEN k - 1 + 1 ELSE 0
        BY <1>1, <1>2, SubSeqProperties
    <1>4. /\ SubSeq(s, k + 1, Len(s)) \in Seq(S)
          /\ Len(SubSeq(s, k + 1, Len(s))) =
                IF k + 1 <= Len(s) THEN Len(s) - (k + 1) + 1 ELSE 0
        BY <1>1, <1>2, SubSeqProperties
    <1>5. SubSeq(s, 1, k) \o SubSeq(s, k + 1, Len(s)) = SubSeq(s, 1, Len(s))
        <2>1. 1 \in 1 .. Len(s) + 1 /\ k \in 1 - 1 .. Len(s) /\ Len(s) \in k .. Len(s)
            BY <1>1
        <2> QED BY <2>1, ConcatAdjacentSubSeq
    <1>6. SubSeq(s, 1, Len(s)) = s
        BY SubSeqFull
    <1>7. Len(SubSeq(s, 1, k)) = k
        BY <1>1, <1>3
    <1>8. Len(SubSeq(s, k + 1, Len(s))) = Len(s) - k
        BY <1>1, <1>4
    <1> QED BY <1>3, <1>4, <1>5, <1>6, <1>7, <1>8

\* IsPrefix, element by element.
LEMMA PrefixElements ==
    ASSUME NEW S, NEW s \in Seq(S), NEW t \in Seq(S)
    PROVE  IsPrefix(s, t) <=> /\ Len(s) <= Len(t)
                              /\ \A i \in 1 .. Len(s) : s[i] = t[i]
    <1>1. Len(s) \in Nat /\ Len(t) \in Nat
        BY LenProperties
    <1> SUFFICES ASSUME Len(s) <= Len(t)
                 PROVE  SubSeq(s, 1, Len(s)) = SubSeq(t, 1, Len(s))
                          <=> \A i \in 1 .. Len(s) : s[i] = t[i]
        BY DEF IsPrefix
    <1>2. SubSeq(s, 1, Len(s)) = s
        BY SubSeqFull
    <1>3. \A i \in 1 .. Len(s) : t[i] \in S
        BY <1>1, ElementOfSeq
    <1>4. /\ SubSeq(t, 1, Len(s)) \in Seq(S)
          /\ Len(SubSeq(t, 1, Len(s))) = IF 1 <= Len(s) THEN Len(s) - 1 + 1 ELSE 0
          /\ \A i \in 1 .. Len(s) - 1 + 1 : SubSeq(t, 1, Len(s))[i] = t[1 + i - 1]
        BY <1>1, <1>3, SubSeqProperties
    <1>5. /\ Len(SubSeq(t, 1, Len(s))) = Len(s)
          /\ \A i \in 1 .. Len(s) : SubSeq(t, 1, Len(s))[i] = t[i]
        BY <1>1, <1>4
    <1>6. ASSUME \A i \in 1 .. Len(s) : s[i] = t[i] PROVE s = SubSeq(t, 1, Len(s))
        BY <1>4, <1>5, <1>6, SeqEqual
    <1> QED BY <1>2, <1>5, <1>6

\* A sequence is a prefix of its extensions.
LEMMA PrefixConcat ==
    ASSUME NEW S, NEW s \in Seq(S), NEW t \in Seq(S)
    PROVE  IsPrefix(s, s \o t)
    <1>1. /\ s \o t \in Seq(S) /\ Len(s \o t) = Len(s) + Len(t)
          /\ \A i \in 1 .. Len(s) + Len(t) :
                (s \o t)[i] = IF i <= Len(s) THEN s[i] ELSE t[i - Len(s)]
        BY ConcatProperties
    <1>2. Len(s) \in Nat /\ Len(t) \in Nat
        BY LenProperties
    <1>3. Len(s) <= Len(s \o t) /\ \A i \in 1 .. Len(s) : s[i] = (s \o t)[i]
        BY <1>1, <1>2
    <1> QED BY <1>1, <1>3, PrefixElements

\* IsPrefix is transitive.
LEMMA PrefixTransitive ==
    ASSUME NEW S, NEW s \in Seq(S), NEW t \in Seq(S), NEW u \in Seq(S),
           IsPrefix(s, t), IsPrefix(t, u)
    PROVE  IsPrefix(s, u)
    <1>1. Len(s) \in Nat /\ Len(t) \in Nat /\ Len(u) \in Nat
        BY LenProperties
    <1>2. Len(s) <= Len(t) /\ \A i \in 1 .. Len(s) : s[i] = t[i]
        BY PrefixElements
    <1>3. Len(t) <= Len(u) /\ \A i \in 1 .. Len(t) : t[i] = u[i]
        BY PrefixElements
    <1>4. Len(s) <= Len(u) /\ \A i \in 1 .. Len(s) : s[i] = u[i]
        BY <1>1, <1>2, <1>3
    <1> QED BY <1>4, PrefixElements

-----------------------------------------------------------------------------
(* Types *)

ChunkType == [type : FrameKind, id : Pane]

\* A frame made of parts of the right types is a frame.
LEMMA MsgType ==
    ASSUME NEW t \in FrameKind, NEW i \in Pane \cup Window \cup {0}, NEW d \in Seq(Nat)
    PROVE  Msg(t, i, d) \in Frame
    BY DEF Msg, Frame

\* So is a frame without a payload.
LEMMA ControlType ==
    ASSUME NEW t \in FrameKind
    PROVE  Control(t) \in Frame /\ <<Control(t)>> \in Seq(Frame)
    <1>1. <<>> \in Seq(Nat) /\ 0 \in Pane \cup Window \cup {0}
        OBVIOUS
    <1>2. Control(t) \in Frame
        BY <1>1, MsgType DEF Control
    <1> QED BY <1>2

\* Merging a frame into a batch gives a batch.
LEMMA MergeType ==
    ASSUME NEW fs \in Seq(Frame), NEW c \in Frame
    PROVE  Merge(fs, c) \in Seq(Frame)
    <1>1. CASE /\ fs # <<>> /\ Last(fs).type = "output" /\ c.type = "output"
               /\ Last(fs).id = c.id
        <2> DEFINE n == Len(fs)
                   f == [fs[n] EXCEPT !.data = @ \o c.data]
        <2>1. n \in 1 .. Len(fs)
            BY <1>1, EmptySeq, LenProperties
        <2>2. fs[n] \in Frame
            BY <2>1, ElementOfSeq
        <2>3. fs[n].data \o c.data \in Seq(Nat)
            BY <2>2, ConcatProperties DEF Frame
        <2>4. f \in Frame
            BY <2>2, <2>3 DEF Frame
        <2>5. [fs EXCEPT ![n] = f] \in Seq(Frame)
            BY <2>1, <2>4, ExceptSeq
        <2>6. Merge(fs, c) = [fs EXCEPT ![n] = f]
            BY <1>1 DEF Merge
        <2> QED BY <2>5, <2>6
    <1>2. CASE ~(/\ fs # <<>> /\ Last(fs).type = "output" /\ c.type = "output"
                 /\ Last(fs).id = c.id)
        <2>1. Merge(fs, c) = Append(fs, c)
            BY <1>2 DEF Merge
        <2> QED BY <2>1
    <1> QED BY <1>1, <1>2

\* Chunks enter the channel as frames.
LEMMA EnqueueType ==
    ASSUME SourceType, NEW cs \in Seq(ChunkType), Enqueue(cs)
    PROVE  /\ pending' \in Seq(Frame) /\ Len(pending') = Len(pending) + Len(cs)
           /\ origin' \in Seq(ChunkType)
    <1> DEFINE new == [i \in 1 .. Len(cs) |->
                         Msg(cs[i].type, cs[i].id, <<Len(origin) + i>>)]
    <1>1. Len(cs) \in Nat /\ Len(origin) \in Nat
        BY LenProperties DEF SourceType, ChunkType
    <1>2. ASSUME NEW i \in 1 .. Len(cs)
          PROVE  Msg(cs[i].type, cs[i].id, <<Len(origin) + i>>) \in Frame
        <2>1. cs[i] \in ChunkType
            BY ElementOfSeq
        <2>2. Len(origin) + i \in Nat
            BY <1>1
        <2>3. <<Len(origin) + i>> \in Seq(Nat)
            BY <2>2
        <2> QED BY <2>1, <2>3, MsgType DEF ChunkType
    <1>3. new \in Seq(Frame) /\ Len(new) = Len(cs)
        BY <1>1, <1>2
    <1>4. pending' = pending \o new /\ origin' = origin \o cs
        BY DEF Enqueue
    <1> HIDE DEF new
    <1>5. pending' \in Seq(Frame) /\ Len(pending') = Len(pending) + Len(cs)
        <2>1. pending \in Seq(Frame)
            BY DEF SourceType
        <2>2. pending \o new \in Seq(Frame) /\ Len(pending \o new) = Len(pending) + Len(new)
            BY <1>3, <2>1, ConcatProperties
        <2> QED BY <1>3, <1>4, <2>2
    <1>6. origin' \in Seq(ChunkType)
        BY <1>4, ConcatProperties DEF SourceType, ChunkType
    <1> QED BY <1>5, <1>6

\* The slots not promised to a reader; they change only with the promises.
LEMMA AvailType ==
    /\ SourceType => Avail \in Nat
    /\ granted' = granted => Avail' = Avail
    BY ConnectionLoopAssumption DEF SourceType, Avail

\* What flush_deferred_output moves fits into the channel, and the rest stays.
LEMMA FlushType ==
    ASSUME SourceType
    PROVE  /\ Flushable \in 0 .. Len(deferred) /\ Len(pending) + Flushable <= Avail
           /\ Flushed \in Seq(ChunkType) /\ Len(Flushed) = Flushable
           /\ Kept \in Seq(Pane)
    <1>1. Len(deferred) \in Nat /\ Len(pending) \in Nat /\ Avail \in Nat
        BY AvailType, LenProperties DEF SourceType
    <1>2. Flushable \in 0 .. Len(deferred) /\ Len(pending) + Flushable <= Avail
        BY <1>1 DEF Flushable, SourceType
    <1>3. Kept \in Seq(Pane)
        BY <1>2, SplitAt DEF Kept, SourceType
    <1>4. ASSUME NEW i \in 1 .. Flushable PROVE Chunk("snapshot", deferred[i]) \in ChunkType
        <2>1. i \in 1 .. Len(deferred)
            BY <1>1, <1>2
        <2>2. deferred[i] \in Pane
            BY <2>1, ElementOfSeq DEF SourceType
        <2> QED BY <2>2 DEF Chunk, ChunkType, FrameKind
    <1>5. Flushable \in Nat
        BY <1>1, <1>2
    <1>6. Flushed \in Seq(ChunkType) /\ Len(Flushed) = Flushable
        BY <1>4, <1>5 DEF Flushed
    <1> QED BY <1>2, <1>3, <1>6

\* Types after flush_deferred_output.
LEMMA FlushDeferredType ==
    ASSUME SourceType, FlushDeferred, granted' = granted,
           pane' \in [Pane -> {"running", "exited", "reaped"}]
    PROVE  SourceType'
    <1>1. Len(pending) + Len(Flushed) <= Avail /\ Flushed \in Seq(ChunkType)
        BY FlushType
    <1>2. /\ pending' \in Seq(Frame) /\ Len(pending') <= Avail
          /\ origin' \in Seq(ChunkType)
        BY <1>1, EnqueueType DEF FlushDeferred
    <1>3. deferred' \in Seq(Pane)
        BY FlushType DEF FlushDeferred
    <1>4. Avail' = Avail
        BY AvailType
    <1> QED BY <1>2, <1>3, <1>4 DEF SourceType, ChunkType

\* try_admit: what goes to the queue fits, and with what is held it is all of fs.
LEMMA TryAdmitParts ==
    ASSUME AdmitType, NEW fs \in Seq(Frame), TryAdmit(fs), ~Gone
    PROVE  \E k \in 0 .. Len(fs) :
              /\ queue' = queue \o SubSeq(fs, 1, k) /\ Len(queue) + k <= Cap
              /\ remainder' = SubSeq(fs, k + 1, Len(fs))
              /\ reserve' = (k < Len(fs))
    <1>1. Len(fs) \in Nat /\ Len(queue) \in Nat /\ Cap \in Nat /\ Len(queue) <= Cap
        BY ConnectionLoopAssumption, LenProperties DEF AdmitType
    <1> DEFINE k == IF Len(fs) <= Cap - Len(queue) THEN Len(fs) ELSE Cap - Len(queue)
    <1>2. k \in 0 .. Len(fs) /\ Len(queue) + k <= Cap
        BY <1>1
    <1>3. /\ queue' = queue \o SubSeq(fs, 1, k)
          /\ remainder' = SubSeq(fs, k + 1, Len(fs))
          /\ reserve' = (k < Len(fs))
        BY DEF TryAdmit
    <1> QED BY <1>2, <1>3

\* Types after try_admit.
LEMMA TryAdmitType ==
    ASSUME AdmitType, NEW fs \in Seq(Frame), TryAdmit(fs), closed' = closed
    PROVE  AdmitType'
    <1>1. CASE Gone
        BY <1>1 DEF TryAdmit, AdmitType
    <1>2. CASE ~Gone
        <2>1. PICK k \in 0 .. Len(fs) :
                 /\ queue' = queue \o SubSeq(fs, 1, k) /\ Len(queue) + k <= Cap
                 /\ remainder' = SubSeq(fs, k + 1, Len(fs))
                 /\ reserve' = (k < Len(fs))
            BY <1>2, TryAdmitParts
        <2>2. /\ SubSeq(fs, 1, k) \in Seq(Frame) /\ Len(SubSeq(fs, 1, k)) = k
              /\ SubSeq(fs, k + 1, Len(fs)) \in Seq(Frame)
            BY SplitAt
        <2>3. queue \in Seq(Frame)
            BY DEF AdmitType
        <2>4. /\ queue \o SubSeq(fs, 1, k) \in Seq(Frame)
              /\ Len(queue \o SubSeq(fs, 1, k)) = Len(queue) + k
            BY <2>2, <2>3, ConcatProperties
        <2>5. reserve' \in BOOLEAN
            BY <2>1
        <2> QED BY <2>1, <2>2, <2>4, <2>5 DEF AdmitType
    <1> QED BY <1>1, <1>2

\* Types after push_or_admit.
LEMMA PushOrAdmitType ==
    ASSUME AdmitType, NEW fs \in Seq(Frame), PushOrAdmit(fs), closed' = closed
    PROVE  AdmitType'
    <1>1. CASE Holding
        <2>1. remainder \o fs \in Seq(Frame)
            BY ConcatProperties DEF AdmitType
        <2> QED BY <1>1, <2>1 DEF PushOrAdmit, AdmitType
    <1>2. CASE ~Holding
        BY <1>2, TryAdmitType DEF PushOrAdmit
    <1> QED BY <1>1, <1>2

\* The history keeps its type when frames are handed over.
LEMMA AcceptedStep ==
    ASSUME AcceptedType, NEW fs \in Seq(Frame), Accepted(fs)
    PROVE  AcceptedType'
    <1>1. accepted \o fs \in Seq(Frame)
        BY ConcatProperties DEF AcceptedType
    <1> QED BY <1>1 DEF Accepted, AcceptedType

\* The starvation counter never exceeds the quota.
LEMMA CountedType ==
    ASSUME LoopType, NEW b \in BOOLEAN, Counted(b)
    PROVE  count' \in 0 .. Quota
    <1>1. Quota \in Nat \ {0} /\ count \in 0 .. Quota
        BY ConnectionLoopAssumption DEF LoopType
    <1> QED BY <1>1 DEF Counted

\* Types after a broadcast.
LEMMA BroadcastType ==
    ASSUME NoticeType, NEW m \in Frame, Broadcast(m), name' \in [Window -> Nat],
           renamed' \subseteq Window, title' \in Seq(Frame)
    PROVE  NoticeType'
    <1>1. notices \in Seq(Frame) /\ Len(notices) \in Nat /\ NotifyCap \in Nat \ {0}
          /\ Len(notices) <= NotifyCap
        BY ConnectionLoopAssumption, LenProperties DEF NoticeType
    <1>2. broadcasts' \in Nat
        BY DEF Broadcast, NoticeType
    <1>3. lagged' \in BOOLEAN
        BY Zenon DEF Broadcast, NoticeType
    <1>4. CASE Len(notices) < NotifyCap
        <2>1. Append(notices, m) \in Seq(Frame)
              /\ Len(Append(notices, m)) = Len(notices) + 1
            BY <1>1
        <2>2. notices' = Append(notices, m)
            BY <1>4 DEF Broadcast
        <2>3. notices' \in Seq(Frame) /\ Len(notices') <= NotifyCap
            BY <1>1, <1>4, <2>1, <2>2
        <2> QED BY <1>2, <1>3, <2>3 DEF NoticeType
    <1>5. CASE ~(Len(notices) < NotifyCap)
        <2>1. notices # <<>>
            BY <1>1, <1>5
        <2>2. Tail(notices) \in Seq(Frame) /\ Len(Tail(notices)) = Len(notices) - 1
            BY <1>1, <2>1, HeadTailProperties
        <2>3. Append(Tail(notices), m) \in Seq(Frame)
              /\ Len(Append(Tail(notices), m)) = Len(notices)
            BY <1>1, <2>2
        <2>4. notices' = Append(Tail(notices), m)
            BY <1>5 DEF Broadcast
        <2> QED BY <1>1, <1>2, <1>3, <2>3, <2>4 DEF NoticeType
    <1> QED BY <1>4, <1>5

\* A step keeps the types of the variables it leaves alone.
LEMMA UnchangedTypes ==
    ASSUME TypeOK
    PROVE  /\ UNCHANGED sourceVars => SourceType'
           /\ UNCHANGED noticeVars => NoticeType'
           /\ UNCHANGED <<clientVars, kick>> => ClientType'
           /\ UNCHANGED loopVars => LoopType'
           /\ UNCHANGED <<admitVars, queue>> => AdmitType'
           /\ UNCHANGED <<writerVars, cut>> => WriterType'
           /\ UNCHANGED accepted => AcceptedType'
    <1>1. UNCHANGED sourceVars => SourceType'
        BY AvailType DEF TypeOK, sourceVars, SourceType
    <1>2. UNCHANGED noticeVars => NoticeType'
        BY DEF TypeOK, noticeVars, NoticeType
    <1>3. UNCHANGED <<clientVars, kick>> => ClientType'
        BY DEF TypeOK, clientVars, ClientType
    <1>4. UNCHANGED loopVars => LoopType'
        BY DEF TypeOK, loopVars, LoopType
    <1>5. UNCHANGED <<admitVars, queue>> => AdmitType'
        BY DEF TypeOK, admitVars, AdmitType
    <1>6. UNCHANGED <<writerVars, cut>> => WriterType'
        BY DEF TypeOK, writerVars, WriterType
    <1>7. UNCHANGED accepted => AcceptedType'
        BY DEF TypeOK, AcceptedType
    <1> QED BY <1>1, <1>2, <1>3, <1>4, <1>5, <1>6, <1>7

\* The initial state is well typed.
LEMMA InitType == Init => TypeOK
    <1> SUFFICES ASSUME Init PROVE TypeOK
        OBVIOUS
    <1>1. /\ <<>> \in Seq(Frame) /\ <<>> \in Seq(Pane)
          /\ <<>> \in Seq([type : FrameKind, id : Pane])
          /\ Len(<<>>) = 0
        OBVIOUS
    <1>2. /\ ChanCap \in Nat \ {0} /\ NotifyCap \in Nat \ {0} /\ Cap \in Nat \ {0}
          /\ Quota \in Nat \ {0} /\ BatchLimit \in Nat \ {0}
        BY ConnectionLoopAssumption
    <1>3. /\ lagged \in BOOLEAN /\ kick \in BOOLEAN /\ wasKicked \in BOOLEAN
          /\ reserve \in BOOLEAN /\ closed \in BOOLEAN /\ cut \in BOOLEAN
        BY Zenon DEF Init
    <1>4. SourceType
        BY <1>1, <1>2 DEF SourceType, Init, Avail
    <1>5. NoticeType
        BY <1>1, <1>2, <1>3 DEF NoticeType, Init
    <1>6. ClientType
        BY <1>3 DEF ClientType, Init
    <1>7. LoopType
        <2>1. guard \in [output : BOOLEAN, allow : BOOLEAN] /\ count \in 0 .. Quota
            BY <1>2 DEF Init
        <2>2. batch \in [n : 0 .. BatchLimit, frames : Seq(Frame)]
            BY <1>1, <1>2 DEF Init
        <2>3. then \in [ok : {"top", "break"}, err : {"top", "break"}]
            BY DEF Init
        <2> QED BY <1>1, <1>3, <2>1, <2>2, <2>3 DEF LoopType, Init
    <1>8. AdmitType
        BY <1>1, <1>2, <1>3 DEF AdmitType, Init
    <1>9. WriterType /\ AcceptedType
        BY <1>1, <1>3 DEF WriterType, AcceptedType, Init
    <1> QED BY <1>4, <1>5, <1>6, <1>7, <1>8, <1>9 DEF TypeOK

\* A window renamed by a message keeps the types of the notifications.
LEMMA RenamedType ==
    ASSUME NoticeType, NEW w \in Window, RenameSilently(w)
    PROVE  NoticeType'
    <1>1. name' \in [Window -> Nat] /\ renamed' \subseteq Window
        BY DEF RenameSilently, NoticeType
    <1>2. /\ title' \in Seq(Frame)
          /\ notices' \in Seq(Frame) /\ Len(notices') <= NotifyCap
          /\ broadcasts' \in Nat
        BY DEF RenameSilently, NoticeType
    <1>3. lagged' \in BOOLEAN
        BY Zenon DEF RenameSilently, NoticeType
    <1> QED BY <1>1, <1>2, <1>3 DEF NoticeType

\* Types after a step around the loop.
LEMMA OutsideType ==
    ASSUME TypeOK, Outside
    PROVE  TypeOK'
    <1> USE UnchangedTypes
    <1>0. /\ Len(pending) \in Nat /\ granted \in 0 .. ChanCap /\ ChanCap \in Nat
          /\ Len(pending) <= ChanCap - granted
        BY LenProperties, ConnectionLoopAssumption DEF TypeOK, SourceType, Avail
    <1>1. ASSUME NEW p \in Pane, NEW t \in {"output", "exited"}, Produce(p, t)
          PROVE  TypeOK'
        <2>1. Chunk(t, p) \in ChunkType
            BY DEF Chunk, ChunkType, FrameKind
        <2>2. <<Chunk(t, p)>> \in Seq(ChunkType) /\ Len(<<Chunk(t, p)>>) = 1
            BY <2>1
        <2>3. /\ pending' \in Seq(Frame) /\ Len(pending') = Len(pending) + 1
              /\ origin' \in Seq(ChunkType)
            BY <1>1, <2>2, EnqueueType DEF Produce, TypeOK
        <2>4. pane' \in [Pane -> {"running", "exited", "reaped"}]
            BY <1>1 DEF Produce, TypeOK, SourceType
        <2>5. granted' \in 0 .. ChanCap /\ Len(pending') <= Avail'
            BY <1>0, <1>1, <2>3 DEF Produce, Avail
        <2>6. SourceType'
            BY <1>1, <2>3, <2>4, <2>5 DEF Produce, TypeOK, SourceType, ChunkType
        <2> QED BY <1>1, <2>6 DEF Produce, TypeOK
    <1>2. ASSUME NEW w \in Window, TitleSet(w) PROVE TypeOK'
        <2>1. name[w] + 1 \in Nat /\ <<name[w] + 1>> \in Seq(Nat)
            BY DEF TypeOK, NoticeType
        <2>2. Msg("rename", w, <<name[w] + 1>>) \in Frame
            BY <2>1, MsgType DEF FrameKind
        <2>3. title' \in Seq(Frame)
            BY <1>2, <2>2 DEF TitleSet
        <2>4. name' \in [Window -> Nat]
            BY <1>2, <2>1 DEF TitleSet, TypeOK, NoticeType
        <2>5. lagged' \in BOOLEAN
            BY <1>2, Zenon DEF TitleSet, TypeOK, NoticeType
        <2>6. NoticeType'
            BY <1>2, <2>3, <2>4, <2>5 DEF TitleSet, TypeOK, NoticeType
        <2> QED BY <1>2, <2>6 DEF TitleSet, TypeOK
    <1>3. ASSUME TitleSend PROVE TypeOK'
        <2>1. Head(title) \in Frame /\ title' \in Seq(Frame)
            BY <1>3, HeadTailProperties DEF TitleSend, TypeOK, NoticeType
        <2>2. NoticeType'
            BY <1>3, <2>1, BroadcastType DEF TitleSend, TypeOK, NoticeType
        <2> QED BY <1>3, <2>2 DEF TitleSend, TypeOK
    <1>4. ASSUME NEW t \in {"upgrading", "notify"}, OtherBroadcast(t) PROVE TypeOK'
        <2>1. Control(t) \in Frame
            BY ControlType DEF FrameKind
        <2>2. NoticeType'
            BY <1>4, <2>1, BroadcastType DEF OtherBroadcast, TypeOK, NoticeType
        <2> QED BY <1>4, <2>2 DEF OtherBroadcast, TypeOK
    <1>5. ASSUME NEW s \in {"some", "eof"}, ClientSends(s) PROVE TypeOK'
        <2>1. ClientType'
            BY <1>5, Zenon DEF ClientSends, TypeOK, ClientType
        <2> QED BY <1>5, <2>1 DEF ClientSends, TypeOK
    <1>6. ASSUME Kick PROVE TypeOK'
        <2>1. kick' \in BOOLEAN
            BY <1>6, Zenon DEF Kick
        <2>2. ClientType'
            BY <1>6, <2>1 DEF Kick, TypeOK, ClientType, clientVars
        <2> QED BY <1>6, <2>2 DEF Kick, TypeOK
    <1>7. ASSUME ReaderReserve \/ ReaderRelease PROVE TypeOK'
        <2>1. granted' \in 0 .. ChanCap /\ Len(pending) <= Avail' /\ pending' = pending
            BY <1>0, <1>7 DEF ReaderReserve, ReaderRelease, Avail
        <2>2. SourceType'
            BY <1>7, <2>1 DEF ReaderReserve, ReaderRelease, TypeOK, SourceType
        <2> QED BY <1>7, <2>2 DEF ReaderReserve, ReaderRelease, TypeOK
    <1>8. ASSUME NEW w \in Window, OtherRename(w) PROVE TypeOK'
        <2>1. NoticeType'
            BY <1>8, RenamedType DEF OtherRename, TypeOK
        <2> QED BY <1>8, <2>1 DEF OtherRename, TypeOK
    <1> QED BY <1>1, <1>2, <1>3, <1>4, <1>5, <1>6, <1>7, <1>8 DEF Outside

\* Types after an arm that moves only the program counter, with the starvation
\* counter or without.
LEMMA LoopMoves ==
    ASSUME LoopType, UNCHANGED <<guard, batch, todo, then, wasKicked>>,
           loop' \in {"top", "select", "drain", "blocking", "break", "teardown",
                      "join", "ended"},
           UNCHANGED count \/ \E b \in BOOLEAN : Counted(b)
    PROVE  LoopType'
    <1>1. count' \in 0 .. Quota
        BY CountedType DEF LoopType
    <1>2. wasKicked' \in BOOLEAN
        BY Zenon DEF LoopType
    <1> QED BY <1>1, <1>2 DEF LoopType

\* Types of the client's variables after a message was taken.
LEMMA TakeMessageType ==
    ASSUME ClientType, TakeMessage, answers' \in Nat, kick' \in BOOLEAN
    PROVE  ClientType'
    <1>1. inbox' \in {"none", "some", "eof"} /\ served' \in 0 .. 1
        BY DEF TakeMessage, ClientType
    <1> QED BY <1>1 DEF ClientType

\* Types after a client message that is answered.
LEMMA AnswerType ==
    ASSUME TypeOK, NEW fs \in Seq(Frame), NEW ok \in {"top", "break"},
           NEW err \in {"top", "break"}, Answer(fs, ok, err), kick' \in BOOLEAN
    PROVE  TypeOK'
    <1>1. SourceType'
        BY FlushDeferredType DEF Answer, TypeOK, SourceType
    <1>2. ClientType'
        BY TakeMessageType DEF Answer, TypeOK, ClientType
    <1>3. LoopType'
        <2>1. count' \in 0 .. Quota
            BY CountedType DEF Answer, TakeMessage, TypeOK
        <2>2. wasKicked' \in BOOLEAN
            BY Zenon DEF Answer, TypeOK, LoopType
        <2>3. then' \in [ok : {"top", "break"}, err : {"top", "break"}]
            BY DEF Answer
        <2> QED BY <2>1, <2>2, <2>3 DEF Answer, TypeOK, LoopType
    <1>4. AdmitType'
        <2>1. reserve' \in BOOLEAN /\ closed' \in BOOLEAN
            BY Zenon DEF Answer, TypeOK, AdmitType
        <2> QED BY <2>1 DEF Answer, TypeOK, AdmitType
    <1>5. AcceptedType'
        BY AcceptedStep DEF Answer, TypeOK
    <1> QED BY <1>1, <1>2, <1>3, <1>4, <1>5, UnchangedTypes DEF Answer, TypeOK

\* Types after a step of the client arm.
LEMMA ClientArmType ==
    ASSUME TypeOK, ClientArm
    PROVE  TypeOK'
    <1> USE UnchangedTypes
    <1>0. /\ LoopType /\ SourceType /\ ClientType
          /\ answers \in Nat /\ kick \in BOOLEAN
        BY DEF TypeOK, ClientType
    <1>1. CASE MessageQuiet
        <2>1. SourceType'
            BY <1>0, <1>1, FlushDeferredType DEF MessageQuiet, SourceType
        <2>2. ClientType'
            BY <1>0, <1>1, TakeMessageType DEF MessageQuiet
        <2>3. LoopType'
            BY <1>0, <1>1, LoopMoves DEF MessageQuiet, TakeMessage
        <2> QED BY <1>1, <2>1, <2>2, <2>3 DEF MessageQuiet, TypeOK
    <1>2. ASSUME NEW p \in Pane, MessageSnapshot(p) PROVE TypeOK'
        <2>1. /\ Flushed \in Seq(ChunkType) /\ Len(Flushed) = Flushable
              /\ Len(pending) + Flushable <= Avail /\ Kept \in Seq(Pane)
              /\ Flushable \in Nat /\ Len(pending) \in Nat /\ Avail \in Nat
            BY <1>0, FlushType, AvailType, LenProperties DEF SourceType
        <2>2. Chunk("snapshot", p) \in ChunkType
            BY DEF Chunk, ChunkType, FrameKind
        <2>3. /\ Append(Flushed, Chunk("snapshot", p)) \in Seq(ChunkType)
              /\ Len(Append(Flushed, Chunk("snapshot", p))) = Flushable + 1
            BY <2>1, <2>2
        <2>4. /\ pending' \in Seq(Frame) /\ Len(pending') <= Avail
              /\ origin' \in Seq(ChunkType) /\ deferred' \in Seq(Pane)
            <3>1. CASE Len(pending) + Flushable < Avail
                <4>1. Len(pending) + Len(Append(Flushed, Chunk("snapshot", p))) <= Avail
                    BY <2>1, <2>3, <3>1
                <4> QED BY <1>0, <1>2, <2>1, <2>3, <3>1, <4>1, EnqueueType
                        DEF MessageSnapshot
            <3>2. CASE ~(Len(pending) + Flushable < Avail)
                <4>1. Enqueue(Flushed) /\ deferred' \in {Kept, Append(Kept, p)}
                    BY <1>2, <3>2 DEF MessageSnapshot
                <4>2. Append(Kept, p) \in Seq(Pane)
                    BY <2>1
                <4> QED BY <1>0, <2>1, <4>1, <4>2, EnqueueType
            <3> QED BY <3>1, <3>2
        <2>5. SourceType'
            BY <1>2, <2>4, AvailType DEF MessageSnapshot, TypeOK, SourceType, ChunkType
        <2>6. ClientType'
            BY <1>0, <1>2, TakeMessageType DEF MessageSnapshot
        <2>7. LoopType'
            BY <1>0, <1>2, LoopMoves DEF MessageSnapshot, TakeMessage
        <2> QED BY <1>2, <2>5, <2>6, <2>7 DEF MessageSnapshot, TypeOK
    <1>3. CASE MessageError
        <2>1. <<Control("reply")>> \in Seq(Frame)
            BY ControlType DEF FrameKind
        <2>2. kick' \in BOOLEAN
            BY <1>0, <1>3, Zenon DEF MessageError
        <2> QED BY <1>3, <2>1, <2>2, AnswerType DEF MessageError
    <1>4. CASE MessageAttach
        <2>1. Control("created") \in Frame /\ Control("restore") \in Frame
            BY ControlType DEF FrameKind
        <2>2. <<Control("created"), Control("restore")>> \in Seq(Frame)
            BY <2>1
        <2>3. kick' \in BOOLEAN
            BY <1>4, Zenon DEF MessageAttach
        <2> QED BY <1>4, <2>2, <2>3, AnswerType DEF MessageAttach
    <1>5. CASE MessageDetach
        <2>1. <<Control("detached")>> \in Seq(Frame)
            BY ControlType DEF FrameKind
        <2>2. kick' \in BOOLEAN
            BY <1>0, <1>5, Zenon DEF MessageDetach
        <2> QED BY <1>5, <2>1, <2>2, AnswerType DEF MessageDetach
    <1>6. CASE ClientEnd
        <2>1. LoopType'
            BY <1>0, <1>6, LoopMoves DEF ClientEnd
        <2> QED BY <1>6, <2>1 DEF ClientEnd, TypeOK
    <1>7. ASSUME NEW w \in Window, MessageRename(w) PROVE TypeOK'
        <2>1. SourceType'
            BY <1>0, <1>7, FlushDeferredType DEF MessageRename, SourceType
        <2>2. ClientType'
            BY <1>0, <1>7, TakeMessageType DEF MessageRename
        <2>3. LoopType'
            BY <1>0, <1>7, LoopMoves DEF MessageRename, TakeMessage
        <2>4. NoticeType'
            BY <1>7, RenamedType DEF MessageRename, TypeOK
        <2> QED BY <1>7, <2>1, <2>2, <2>3, <2>4 DEF MessageRename, TypeOK
    <1> QED BY <1>1, <1>2, <1>3, <1>4, <1>5, <1>6, <1>7 DEF ClientArm

\* Types after admit_blocking has moved on.
LEMMA BlockingType ==
    ASSUME TypeOK, Blocking
    PROVE  TypeOK'
    <1> USE UnchangedTypes
    <1>0. /\ LoopType /\ remainder \in Seq(Frame) /\ todo \in Seq(Frame)
          /\ queue \in Seq(Frame) /\ Len(queue) \in Nat
          /\ remainder # <<>> => Tail(remainder) \in Seq(Frame)
          /\ todo # <<>> => Tail(todo) \in Seq(Frame)
        BY HeadTailProperties, LenProperties DEF TypeOK, LoopType, AdmitType
    <1>1. CASE BlockingSend
        <2> DEFINE all == remainder \o todo
        <2>1. all \in Seq(Frame) /\ all # <<>>
            BY <1>0, <1>1, ConcatProperties DEF BlockingSend
        <2>2. Head(all) \in Frame
            BY <2>1, HeadTailProperties
        <2>3. queue' = Append(queue, Head(all)) /\ Len(queue) < Cap
            BY <1>1 DEF BlockingSend, Room
        <2> HIDE DEF all
        <2>4. queue' \in Seq(Frame) /\ Len(queue') = Len(queue) + 1
            BY <1>0, <2>2, <2>3
        <2>5. Len(queue') <= Cap
            BY <1>0, <2>3, <2>4, ConnectionLoopAssumption
        <2>6. remainder = <<>> => todo # <<>>
            BY <1>0, <1>1, ConcatEmptySeq DEF BlockingSend
        <2>7. remainder' \in Seq(Frame) /\ todo' \in Seq(Frame)
            BY <1>0, <1>1, <2>6 DEF BlockingSend
        <2>8. reserve' \in BOOLEAN /\ closed' \in BOOLEAN /\ wasKicked' \in BOOLEAN
            BY <1>1, Zenon DEF BlockingSend, TypeOK, AdmitType, LoopType
        <2>9. AdmitType'
            BY <2>4, <2>5, <2>7, <2>8 DEF AdmitType
        <2>10. LoopType'
            BY <1>0, <1>1, <2>7, <2>8 DEF BlockingSend, LoopType
        <2> QED BY <1>1, <2>9, <2>10 DEF BlockingSend, TypeOK
    <1>2. CASE BlockingDone
        <2>1. then.ok \in {"top", "break"}
            BY <1>0 DEF LoopType
        <2>2. LoopType'
            BY <1>0, <1>2, <2>1, LoopMoves DEF BlockingDone
        <2> QED BY <1>2, <2>2 DEF BlockingDone, TypeOK
    <1>3. CASE BlockingFails
        <2>1. then.err \in {"top", "break"} /\ <<>> \in Seq(Frame)
            BY <1>0 DEF LoopType
        <2>2. remainder' \in Seq(Frame) /\ todo' \in Seq(Frame)
            BY <1>0, <1>3, <2>1 DEF BlockingFails
        <2>3. reserve' \in BOOLEAN /\ closed' \in BOOLEAN /\ wasKicked' \in BOOLEAN
            BY <1>3, Zenon DEF BlockingFails, TypeOK, AdmitType, LoopType
        <2>4. AdmitType'
            BY <1>3, <2>2, <2>3 DEF BlockingFails, TypeOK, AdmitType
        <2>5. LoopType'
            BY <1>0, <1>3, <2>1, <2>2, <2>3 DEF BlockingFails, LoopType
        <2> QED BY <1>3, <2>4, <2>5 DEF BlockingFails, TypeOK
    <1> QED BY <1>1, <1>2, <1>3 DEF Blocking

\* Types after a held frame moves to the queue, which has room.
LEMMA HeldMoves ==
    ASSUME AdmitType, Room, remainder # <<>>,
           queue' = Append(queue, Head(remainder)), remainder' = Tail(remainder),
           reserve' \in BOOLEAN, closed' = closed
    PROVE  AdmitType'
    <1>1. /\ queue \in Seq(Frame) /\ Len(queue) \in Nat /\ Cap \in Nat
          /\ Head(remainder) \in Frame /\ Tail(remainder) \in Seq(Frame)
        BY HeadTailProperties, LenProperties, ConnectionLoopAssumption DEF AdmitType
    <1>2. queue' \in Seq(Frame) /\ Len(queue') = Len(queue) + 1
        BY <1>1
    <1>3. Len(queue') <= Cap
        BY <1>1, <1>2 DEF Room
    <1>4. closed' \in BOOLEAN
        BY Zenon DEF AdmitType
    <1> QED BY <1>1, <1>2, <1>3, <1>4 DEF AdmitType

\* Types after the arms that only admit, break or tear down.
LEMMA EndType ==
    ASSUME TypeOK, HeldWhere,
           Top \/ PermitArm \/ KickArm \/ WriterArm \/ Teardown \/ Timeout
    PROVE  TypeOK'
    <1> USE UnchangedTypes
    <1>0. /\ LoopType /\ AdmitType /\ AcceptedType /\ <<>> \in Seq(Frame)
          /\ reserve \in BOOLEAN /\ closed \in BOOLEAN /\ wasKicked \in BOOLEAN
        BY DEF TypeOK, LoopType, AdmitType
    <1>1. CASE Top
        <2>1. guard' \in [output : BOOLEAN, allow : BOOLEAN]
            BY <1>1 DEF Top, PendingOutput, Unforwarded, Holding, Excludable
        <2>2. wasKicked' \in BOOLEAN
            BY <1>0, <1>1, Zenon DEF Top
        <2>3. LoopType'
            BY <1>0, <1>1, <2>1, <2>2 DEF Top, LoopType
        <2> QED BY <1>1, <2>3 DEF Top, TypeOK
    <1>2. CASE PermitArm
        <2>1. LoopType'
            BY <1>0, <1>2, LoopMoves DEF PermitArm
        <2>2. CASE Gone
            <3>1. reserve' \in BOOLEAN /\ closed' \in BOOLEAN
                BY <1>0, <1>2, <2>2, Zenon DEF PermitArm
            <3>2. AdmitType'
                BY <1>0, <1>2, <2>2, <3>1 DEF PermitArm, AdmitType
            <3> QED BY <1>2, <2>1, <3>2 DEF PermitArm, TypeOK
        <2>3. CASE ~Gone
            <3>1. Room /\ remainder # <<>>
                BY <1>2, <2>3 DEF PermitArm, PermitReady, HeldWhere
            <3>2. reserve' \in BOOLEAN
                BY <1>2, <2>3 DEF PermitArm
            <3>3. AdmitType'
                BY <1>0, <1>2, <2>3, <3>1, <3>2, HeldMoves DEF PermitArm
            <3> QED BY <1>2, <2>1, <3>3 DEF PermitArm, TypeOK
        <2> QED BY <2>2, <2>3
    <1>3. CASE KickArm
        <2>1. <<Control("detached")>> \in Seq(Frame)
            BY ControlType DEF FrameKind
        <2>2. AdmitType' /\ AcceptedType'
            BY <1>0, <1>3, <2>1, PushOrAdmitType, AcceptedStep DEF KickArm
        <2>3. wasKicked' \in BOOLEAN
            BY <1>3, Zenon DEF KickArm
        <2>4. LoopType'
            BY <1>0, <1>3, <2>3 DEF KickArm, LoopType
        <2> QED BY <1>3, <2>2, <2>4 DEF KickArm, TypeOK
    <1>4. CASE WriterArm
        <2>1. reserve' \in BOOLEAN /\ closed' \in BOOLEAN
            BY <1>4, Zenon DEF WriterArm
        <2>2. AdmitType'
            BY <1>0, <1>4, <2>1 DEF WriterArm, AdmitType
        <2>3. LoopType'
            BY <1>0, <1>4, LoopMoves DEF WriterArm
        <2> QED BY <1>4, <2>2, <2>3 DEF WriterArm, TypeOK
    <1>5. CASE Break
        <2>1. reserve' \in BOOLEAN /\ closed' \in BOOLEAN
            BY <1>0, <1>5, Zenon DEF Break
        <2>2. AdmitType'
            BY <1>0, <1>5, <2>1 DEF Break, AdmitType
        <2>3. LoopType'
            BY <1>0, <1>5, LoopMoves DEF Break
        <2> QED BY <1>5, <2>2, <2>3 DEF Break, TypeOK
    <1>6. CASE TeardownSend
        <2>1. reserve' \in BOOLEAN
            BY <1>0, <1>6, Zenon DEF TeardownSend
        <2>2. AdmitType'
            BY <1>0, <1>6, <2>1, HeldMoves DEF TeardownSend
        <2> QED BY <1>6, <2>2 DEF TeardownSend, TypeOK
    <1>7. CASE TeardownDone
        <2>1. reserve' \in BOOLEAN /\ closed' \in BOOLEAN
            BY <1>0, <1>7, Zenon DEF TeardownDone
        <2>2. AdmitType'
            BY <1>0, <1>7, <2>1 DEF TeardownDone, AdmitType
        <2>3. LoopType'
            BY <1>0, <1>7, LoopMoves DEF TeardownDone
        <2> QED BY <1>7, <2>2, <2>3 DEF TeardownDone, TypeOK
    <1>8. CASE Join
        <2>1. LoopType'
            BY <1>0, <1>8, LoopMoves DEF Join
        <2> QED BY <1>8, <2>1 DEF Join, TypeOK
    <1>9. CASE Timeout
        <2>1. reserve' \in BOOLEAN /\ closed' \in BOOLEAN /\ cut' \in BOOLEAN
            BY <1>0, <1>9, Zenon DEF Timeout
        <2>2. AdmitType'
            BY <1>0, <1>9, <2>1 DEF Timeout, AdmitType
        <2>3. LoopType'
            BY <1>0, <1>9, LoopMoves DEF Timeout
        <2>4. WriterType'
            BY <1>9, <2>1 DEF Timeout, TypeOK, WriterType, writerVars
        <2> QED BY <1>9, <2>2, <2>3, <2>4 DEF Timeout, TypeOK
    <1> QED BY <1>1, <1>2, <1>3, <1>4, <1>5, <1>6, <1>7, <1>8, <1>9 DEF Teardown

\* What a lagged receiver is sent: one frame per window.
LEMMA ResyncType ==
    ASSUME NoticeType
    PROVE  Resync \in Seq(Frame)
    <1>1. ASSUME NEW w \in Window PROVE Rename(w) \in Frame
        <2>1. <<name[w]>> \in Seq(Nat)
            BY DEF NoticeType
        <2> QED BY <2>1, MsgType DEF Rename, FrameKind
    <1>2. Windows \in Nat
        BY ConnectionLoopAssumption
    <1> QED BY <1>1, <1>2 DEF Resync, Window

\* Types after an arm that moves output or notifications.
LEMMA FlowType ==
    ASSUME TypeOK, FairArm \/ Drain \/ Notify
    PROVE  TypeOK'
    <1> USE UnchangedTypes
    <1>0. /\ SourceType /\ NoticeType /\ LoopType /\ AdmitType /\ AcceptedType
          /\ pending \in Seq(Frame) /\ Len(pending) \in Nat /\ Avail \in Nat
          /\ Len(pending) <= Avail /\ batch.frames \in Seq(Frame)
          /\ batch.n \in 0 .. BatchLimit /\ BatchLimit \in Nat \ {0}
          /\ wasKicked \in BOOLEAN
        BY ConnectionLoopAssumption, AvailType, LenProperties
           DEF TypeOK, SourceType, LoopType
    <1>h. ASSUME pending # <<>>
          PROVE  /\ Head(pending) \in Frame /\ Tail(pending) \in Seq(Frame)
                 /\ Len(Tail(pending)) <= Avail
        <2>1. /\ Head(pending) \in Frame /\ Tail(pending) \in Seq(Frame)
              /\ Len(Tail(pending)) = Len(pending) - 1
            BY <1>0, <1>h, HeadTailProperties
        <2> QED BY <1>0, <2>1
    <1>1. CASE FairArm
        <2>1. deferred # <<>> /\ Len(pending) < Avail
            BY <1>1 DEF FairArm, FairReady
        <2>2. Head(deferred) \in Pane /\ Tail(deferred) \in Seq(Pane)
            BY <1>0, <2>1, HeadTailProperties DEF SourceType
        <2>3. Chunk("snapshot", Head(deferred)) \in ChunkType
            BY <2>2 DEF Chunk, ChunkType, FrameKind
        <2> DEFINE cs == <<Chunk("snapshot", Head(deferred))>>
        <2>4. cs \in Seq(ChunkType) /\ Len(cs) = 1
            BY <2>3
        <2>5. Enqueue(cs)
            BY <1>1 DEF FairArm
        <2> HIDE DEF cs
        <2>6. Len(pending) + Len(cs) <= Avail
            BY <1>0, <2>1, <2>4
        <2>7. /\ pending' \in Seq(Frame) /\ Len(pending') <= Avail
              /\ origin' \in Seq(ChunkType)
            BY <1>0, <2>4, <2>5, <2>6, EnqueueType
        <2>8. SourceType'
            BY <1>0, <1>1, <2>2, <2>7, AvailType DEF FairArm, SourceType, ChunkType
        <2>9. LoopType'
            BY <1>0, <1>1, LoopMoves DEF FairArm
        <2> QED BY <1>1, <2>8, <2>9 DEF FairArm, TypeOK
    <1>2. CASE DrainArm
        <2>1. pending # <<>>
            BY <1>2 DEF DrainArm, DrainReady
        <2>2. SourceType'
            BY <1>0, <1>h, <1>2, <2>1, AvailType DEF DrainArm, SourceType
        <2>3. <<>> \in Seq(Frame) /\ 1 \in 0 .. BatchLimit
            BY <1>0
        <2>4. Merge(<<>>, Head(pending)) \in Seq(Frame)
            BY <1>h, <2>1, <2>3, MergeType
        <2>5. batch' \in [n : 0 .. BatchLimit, frames : Seq(Frame)]
            BY <1>2, <2>3, <2>4 DEF DrainArm
        <2>6. wasKicked' \in BOOLEAN
            BY <1>0, <1>2, Zenon DEF DrainArm
        <2>7. LoopType'
            BY <1>0, <1>2, <2>5, <2>6 DEF DrainArm, LoopType
        <2> QED BY <1>2, <2>2, <2>7 DEF DrainArm, TypeOK
    <1>3. CASE DrainMore
        <2>1. pending # <<>> /\ batch.n + 1 \in 0 .. BatchLimit
            BY <1>0, <1>3 DEF DrainMore
        <2>2. SourceType'
            BY <1>0, <1>h, <1>3, <2>1, AvailType DEF DrainMore, SourceType
        <2>3. Merge(batch.frames, Head(pending)) \in Seq(Frame)
            BY <1>0, <1>h, <2>1, MergeType
        <2>4. batch' \in [n : 0 .. BatchLimit, frames : Seq(Frame)]
            BY <1>3, <2>1, <2>3 DEF DrainMore
        <2>5. wasKicked' \in BOOLEAN
            BY <1>0, <1>3, Zenon DEF DrainMore
        <2>6. LoopType'
            BY <1>0, <1>3, <2>4, <2>5 DEF DrainMore, LoopType
        <2> QED BY <1>3, <2>2, <2>6 DEF DrainMore, TypeOK
    <1>4. CASE DrainDone
        <2>1. FlushDeferred /\ TryAdmit(batch.frames) /\ Accepted(batch.frames)
            BY <1>4 DEF DrainDone
        <2>2. pane' \in [Pane -> {"running", "exited", "reaped"}]
            BY <1>0, <1>4 DEF DrainDone, SourceType
        <2>3. SourceType'
            BY <1>0, <1>4, <2>1, <2>2, FlushDeferredType DEF DrainDone
        <2>4. AdmitType' /\ AcceptedType'
            BY <1>0, <1>4, <2>1, TryAdmitType, AcceptedStep DEF DrainDone
        <2>5. count' \in 0 .. Quota
            BY <1>0, <1>4, CountedType DEF DrainDone
        <2>6. batch' \in [n : 0 .. BatchLimit, frames : Seq(Frame)]
            <3>1. <<>> \in Seq(Frame) /\ 0 \in 0 .. BatchLimit
                BY <1>0
            <3> QED BY <1>4, <3>1 DEF DrainDone
        <2>7. wasKicked' \in BOOLEAN
            BY <1>0, <1>4, Zenon DEF DrainDone
        <2>8. LoopType'
            BY <1>0, <1>4, <2>5, <2>6, <2>7 DEF DrainDone, LoopType
        <2> QED BY <1>4, <2>3, <2>4, <2>8 DEF DrainDone, TypeOK
    <1>5. CASE NotifyArm
        <2>1. notices # <<>>
            BY <1>5 DEF NotifyArm, NotifyReady
        <2>2. /\ Head(notices) \in Frame /\ Tail(notices) \in Seq(Frame)
              /\ Len(Tail(notices)) = Len(notices) - 1 /\ Len(notices) \in Nat
              /\ Len(notices) <= NotifyCap /\ NotifyCap \in Nat
            BY <1>0, <2>1, HeadTailProperties, LenProperties, ConnectionLoopAssumption
               DEF NoticeType
        <2>3. Len(Tail(notices)) <= NotifyCap /\ <<Head(notices)>> \in Seq(Frame)
            BY <2>2
        <2>4. lagged' \in BOOLEAN
            BY <1>0, <1>5, Zenon DEF NotifyArm, NoticeType
        <2>5. NoticeType'
            BY <1>0, <1>5, <2>2, <2>3, <2>4 DEF NotifyArm, NoticeType
        <2>6. AdmitType' /\ AcceptedType'
            BY <1>0, <1>5, <2>3, PushOrAdmitType, AcceptedStep DEF NotifyArm
        <2>7. LoopType'
            BY <1>0, <1>5, LoopMoves DEF NotifyArm
        <2> QED BY <1>5, <2>5, <2>6, <2>7 DEF NotifyArm, TypeOK
    <1>6. CASE LaggedArm
        <2>1. Resync \in Seq(Frame)
            BY <1>0, ResyncType
        <2>2. lagged' \in BOOLEAN
            BY <1>6, Zenon DEF LaggedArm
        <2>3. NoticeType'
            BY <1>0, <1>6, <2>2 DEF LaggedArm, NoticeType
        <2>4. AdmitType' /\ AcceptedType'
            BY <1>0, <1>6, <2>1, PushOrAdmitType, AcceptedStep DEF LaggedArm
        <2>5. LoopType'
            BY <1>0, <1>6, LoopMoves DEF LaggedArm
        <2> QED BY <1>6, <2>3, <2>4, <2>5 DEF LaggedArm, TypeOK
    <1> QED BY <1>1, <1>2, <1>3, <1>4, <1>5, <1>6 DEF Drain, Notify

\* Types after a step of the writer task.
LEMMA WriterStepType ==
    ASSUME TypeOK, Writer \/ WriterFails
    PROVE  TypeOK'
    <1> USE UnchangedTypes
    <1>0. /\ queue \in Seq(Frame) /\ wbatch \in Seq(Frame) /\ wire \in Seq(Frame)
          /\ Len(queue) \in Nat /\ Len(queue) <= Cap /\ Cap \in Nat /\ acked \in Nat
          /\ <<>> \in Seq(Frame) /\ Len(<<>>) = 0
        BY LenProperties, ConnectionLoopAssumption DEF TypeOK, AdmitType, WriterType
    <1>b. reserve \in BOOLEAN /\ closed \in BOOLEAN /\ cut \in BOOLEAN
        BY DEF TypeOK, AdmitType, WriterType
    <1>h. ASSUME queue # <<>>
          PROVE  /\ Head(queue) \in Frame /\ Tail(queue) \in Seq(Frame)
                 /\ Len(Tail(queue)) <= Cap
        <2>1. /\ Head(queue) \in Frame /\ Tail(queue) \in Seq(Frame)
              /\ Len(Tail(queue)) = Len(queue) - 1
            BY <1>0, <1>h, HeadTailProperties
        <2> QED BY <1>0, <2>1
    <1>1. CASE WriterRecv
        <2>1. reserve' \in BOOLEAN /\ closed' \in BOOLEAN /\ cut' \in BOOLEAN
            BY <1>1, <1>b, Zenon DEF WriterRecv, admitVars
        <2>2. AdmitType'
            BY <1>h, <1>1, <2>1 DEF WriterRecv, admitVars, TypeOK, AdmitType
        <2>3. <<Head(queue)>> \in Seq(Frame)
            BY <1>h, <1>1 DEF WriterRecv
        <2>4. WriterType'
            BY <1>0, <1>1, <2>1, <2>3 DEF WriterRecv, WriterType
        <2> QED BY <1>1, <2>2, <2>4 DEF WriterRecv, TypeOK
    <1>2. CASE WriterMore
        <2>1. reserve' \in BOOLEAN /\ closed' \in BOOLEAN /\ cut' \in BOOLEAN
            BY <1>2, <1>b, Zenon DEF WriterMore, admitVars
        <2>2. AdmitType'
            BY <1>h, <1>2, <2>1 DEF WriterMore, admitVars, TypeOK, AdmitType
        <2>3. Append(wbatch, Head(queue)) \in Seq(Frame)
            BY <1>0, <1>h, <1>2 DEF WriterMore
        <2>4. WriterType'
            BY <1>0, <1>2, <2>1, <2>3 DEF WriterMore, TypeOK, WriterType
        <2> QED BY <1>2, <2>2, <2>4 DEF WriterMore, TypeOK
    <1>3. CASE WriterWrite
        <2>1. cut' \in BOOLEAN
            BY <1>3, <1>b, Zenon DEF WriterWrite
        <2>2. wire \o wbatch \in Seq(Frame)
            BY <1>0, ConcatProperties
        <2>3. acked' \in Nat
            BY <1>0, <1>3 DEF WriterWrite
        <2>4. WriterType'
            BY <1>0, <1>3, <2>1, <2>2, <2>3 DEF WriterWrite, WriterType
        <2> QED BY <1>3, <2>4 DEF WriterWrite, TypeOK
    <1>4. CASE WriterExit
        <2>1. cut' \in BOOLEAN
            BY <1>4, <1>b, Zenon DEF WriterExit
        <2>2. WriterType'
            BY <1>0, <1>4, <2>1 DEF WriterExit, WriterType
        <2> QED BY <1>4, <2>2 DEF WriterExit, TypeOK
    <1>5. CASE WriterFails
        <2>1. reserve' \in BOOLEAN /\ closed' \in BOOLEAN /\ cut' \in BOOLEAN
            BY <1>5, <1>b, Zenon DEF WriterFails, admitVars
        <2>2. AdmitType'
            BY <1>0, <1>5, <2>1 DEF WriterFails, admitVars, TypeOK, AdmitType
        <2>3. PICK k \in 0 .. Len(wbatch) : wire' = wire \o SubSeq(wbatch, 1, k)
            BY <1>5 DEF WriterFails
        <2>4. SubSeq(wbatch, 1, k) \in Seq(Frame)
            BY <1>0, SplitAt
        <2>5. wire \o SubSeq(wbatch, 1, k) \in Seq(Frame)
            BY <1>0, <2>4, ConcatProperties
        <2>6. WriterType'
            BY <1>0, <1>5, <2>1, <2>3, <2>5 DEF WriterFails, WriterType
        <2> QED BY <1>5, <2>2, <2>6 DEF WriterFails, TypeOK
    <1> QED BY <1>1, <1>2, <1>3, <1>4, <1>5 DEF Writer

\* Every step keeps the types, given what is known of the remainder.
LEMMA StepType == TypeOK /\ HeldWhere /\ [Next]_vars => TypeOK'
    <1> SUFFICES ASSUME TypeOK, HeldWhere, [Next]_vars PROVE TypeOK'
        OBVIOUS
    <1>1. CASE Outside
        BY <1>1, OutsideType
    <1>2. CASE Loop
        <2>1. CASE ClientArm
            BY <2>1, ClientArmType
        <2>2. CASE Blocking
            BY <2>2, BlockingType
        <2>3. CASE FairArm \/ Drain \/ Notify
            BY <2>3, FlowType
        <2>4. CASE Top \/ PermitArm \/ KickArm \/ WriterArm \/ Teardown
            BY <2>4, EndType
        <2> QED BY <1>2, <2>1, <2>2, <2>3, <2>4 DEF Loop
    <1>3. CASE Timeout
        BY <1>3, EndType
    <1>4. CASE Writer \/ WriterFails
        BY <1>4, WriterStepType
    <1>5. CASE UNCHANGED vars
        BY <1>5, UnchangedTypes DEF vars, TypeOK
    <1> QED BY <1>1, <1>2, <1>3, <1>4, <1>5 DEF Next, Terminated


-----------------------------------------------------------------------------
(* Delivery *)

\* Concatenation of frame sequences is associative.
LEMMA FrameAssociative ==
    ASSUME NEW x \in Seq(Frame), NEW y \in Seq(Frame), NEW z \in Seq(Frame)
    PROVE  (x \o y) \o z = x \o (y \o z)
    BY ConcatAssociative

\* Moving the first element of z to the end of y, behind x.
LEMMA Shift ==
    ASSUME NEW x \in Seq(Frame), NEW y \in Seq(Frame), NEW z \in Seq(Frame), z # <<>>
    PROVE  (x \o Append(y, Head(z))) \o Tail(z) = (x \o y) \o z
    <1> DEFINE a == Append(y, Head(z))
               b == Tail(z)
    <1>1. a \in Seq(Frame) /\ b \in Seq(Frame)
        BY MoveHead
    <1>2. a \o b = y \o z
        BY MoveHead
    <1> HIDE DEF a, b
    <1>3. (x \o a) \o b = x \o (a \o b)
        BY <1>1, FrameAssociative, Zenon
    <1>4. (x \o y) \o z = x \o (y \o z)
        BY FrameAssociative, Zenon
    <1>5. (x \o a) \o b = (x \o y) \o z
        BY <1>2, <1>3, <1>4
    <1> QED BY <1>5 DEF a, b

\* Moving the first k elements of z to the end of y, behind x.
LEMMA ShiftMany ==
    ASSUME NEW x \in Seq(Frame), NEW y \in Seq(Frame), NEW z \in Seq(Frame),
           NEW k \in 0 .. Len(z)
    PROVE  (x \o (y \o SubSeq(z, 1, k))) \o SubSeq(z, k + 1, Len(z)) = (x \o y) \o z
    <1> DEFINE a == SubSeq(z, 1, k)
               b == SubSeq(z, k + 1, Len(z))
               p == x \o y
    <1>1. a \in Seq(Frame) /\ b \in Seq(Frame)
        BY SplitAt
    <1>2. a \o b = z
        BY SplitAt
    <1>3. p \in Seq(Frame)
        BY ConcatProperties
    <1> HIDE DEF a, b
    <1>4. p \o a = x \o (y \o a)
        BY <1>1, FrameAssociative, Zenon
    <1> HIDE DEF p
    <1>5. (p \o a) \o b = p \o (a \o b)
        BY <1>1, <1>3, FrameAssociative, Zenon
    <1>6. (x \o (y \o a)) \o b = p \o z
        BY <1>2, <1>4, <1>5
    <1> QED BY <1>6 DEF a, b, p

\* What is followed by something held is a prefix of the whole.
LEMMA HeldPrefix ==
    ASSUME NEW s \in Seq(Frame), NEW r \in Seq(Frame), NEW t \in Seq(Frame)
    PROVE  IsPrefix(s, (s \o r) \o t)
    <1> DEFINE p == r \o t
    <1>1. p \in Seq(Frame)
        BY ConcatProperties
    <1>2. (s \o r) \o t = s \o p
        BY FrameAssociative, Zenon
    <1> HIDE DEF p
    <1>3. IsPrefix(s, s \o p)
        BY <1>1, PrefixConcat
    <1> QED BY <1>2, <1>3

\* The types the delivery argument uses.
SeqTypes == /\ wire \in Seq(Frame) /\ wbatch \in Seq(Frame) /\ queue \in Seq(Frame)
            /\ remainder \in Seq(Frame) /\ todo \in Seq(Frame) /\ accepted \in Seq(Frame)

\* They follow from TypeOK, before and after a step.
LEMMA SeqTyped ==
    /\ TypeOK => SeqTypes /\ Sent \in Seq(Frame) /\ wire \o wbatch \in Seq(Frame)
    /\ TypeOK' => SeqTypes' /\ Sent' \in Seq(Frame) /\ (wire \o wbatch)' \in Seq(Frame)
    <1>1. TypeOK => SeqTypes
        BY DEF TypeOK, SeqTypes, LoopType, AdmitType, WriterType, AcceptedType
    <1>2. TypeOK' => SeqTypes'
        BY DEF TypeOK, SeqTypes, LoopType, AdmitType, WriterType, AcceptedType
    <1>3. SeqTypes => wire \o wbatch \in Seq(Frame) /\ Sent \in Seq(Frame)
        BY ConcatProperties DEF SeqTypes, Sent
    <1>4. SeqTypes' => (wire \o wbatch)' \in Seq(Frame) /\ Sent' \in Seq(Frame)
        BY ConcatProperties DEF SeqTypes, Sent
    <1> QED BY <1>1, <1>2, <1>3, <1>4

\* While nothing is cut, what is held decides what was sent.
LEMMA RestDecides ==
    ASSUME TypeOK', RestIsHeld', ~cut'
    PROVE  SentIsPrefix'
    <1>1. Sent' \in Seq(Frame) /\ remainder' \in Seq(Frame) /\ todo' \in Seq(Frame)
        BY SeqTyped DEF SeqTypes
    <1>2. accepted' = (Sent' \o remainder') \o todo'
        BY DEF RestIsHeld
    <1>3. IsPrefix(Sent', (Sent' \o remainder') \o todo')
        BY <1>1, HeldPrefix
    <1> QED BY <1>2, <1>3 DEF SentIsPrefix

\* A frame of the remainder goes to the queue.
LEMMA HeldSent ==
    ASSUME TypeOK, RestIsHeld, ~cut, remainder # <<>>,
           queue' = Append(queue, Head(remainder)), remainder' = Tail(remainder),
           UNCHANGED <<wire, wbatch, todo, accepted, cut>>
    PROVE  RestIsHeld'
    <1> DEFINE x == wire \o wbatch
    <1>1. x \in Seq(Frame) /\ queue \in Seq(Frame) /\ remainder \in Seq(Frame)
        BY SeqTyped DEF SeqTypes
    <1>2. Sent = x \o queue /\ Sent' = x \o Append(queue, Head(remainder))
        BY DEF Sent
    <1> HIDE DEF x
    <1>3. (x \o Append(queue, Head(remainder))) \o Tail(remainder) = (x \o queue) \o remainder
        BY <1>1, Shift, Zenon
    <1>4. Sent' \o remainder' = Sent \o remainder
        BY <1>2, <1>3
    <1> QED BY <1>4 DEF RestIsHeld

\* Before the teardown ends, delivery is cut exactly when the writer has gone.
LEMMA CutIsGone ==
    ASSUME CutOnlyAtTheEnd, loop \notin {"join", "ended"}
    PROVE  cut <=> Gone
    BY DEF CutOnlyAtTheEnd

\* A step that leaves the frames alone.
LEMMA SameFrames ==
    ASSUME SentIsPrefix, RestIsHeld,
           UNCHANGED <<wire, wbatch, queue, remainder, todo, accepted, cut>>
    PROVE  SentIsPrefix' /\ RestIsHeld'
    <1>1. Sent' = Sent
        BY DEF Sent
    <1> QED BY <1>1 DEF SentIsPrefix, RestIsHeld

\* A step after which delivery is cut, and which sends nothing.
LEMMA CutFrames ==
    ASSUME SentIsPrefix, UNCHANGED <<wire, wbatch, queue, accepted>>, cut'
    PROVE  SentIsPrefix' /\ RestIsHeld'
    <1>1. Sent' = Sent
        BY DEF Sent
    <1> QED BY <1>1 DEF SentIsPrefix, RestIsHeld

\* Frames handed to try_admit or push_or_admit join the end of what is held.
LEMMA AdmitFrames ==
    ASSUME TypeOK, TypeOK', DeliveryInv, loop \in {"select", "drain"},
           NEW fs \in Seq(Frame), PushOrAdmit(fs), Accepted(fs),
           UNCHANGED <<wire, wbatch, todo, cut, writer>>
    PROVE  /\ SentIsPrefix' /\ RestIsHeld' /\ WriterIdle'
           /\ reserve' => remainder' # <<>>
    <1>0. /\ todo = <<>> /\ (cut <=> Gone) /\ accepted' = accepted \o fs
          /\ (reserve => remainder # <<>>)
        BY CutIsGone DEF DeliveryInv, HeldWhere, Accepted
    <1>t. /\ Sent \in Seq(Frame) /\ accepted \in Seq(Frame) /\ remainder \in Seq(Frame)
          /\ queue \in Seq(Frame) /\ wire \o wbatch \in Seq(Frame)
        BY SeqTyped DEF SeqTypes
    <1>1. CASE Gone
        <2>1. queue' = queue
            BY <1>1 DEF PushOrAdmit, TryAdmit
        <2>2. Sent' = Sent
            BY <2>1 DEF Sent
        <2>3. accepted \o fs \in Seq(Frame) /\ IsPrefix(accepted, accepted \o fs)
            BY <1>t, ConcatProperties, PrefixConcat
        <2>4. IsPrefix(Sent, accepted)
            BY DEF DeliveryInv, SentIsPrefix
        <2>5. IsPrefix(Sent, accepted \o fs)
            BY <1>t, <2>3, <2>4, PrefixTransitive
        <2>6. SentIsPrefix'
            BY <1>0, <2>2, <2>5 DEF SentIsPrefix
        <2>7. RestIsHeld'
            BY <1>0, <1>1 DEF RestIsHeld
        <2>8. WriterIdle'
            BY <2>1 DEF DeliveryInv, WriterIdle, Gone
        <2>9. reserve' => remainder' # <<>>
            <3>1. CASE Holding
                <4>1. remainder # <<>>
                    BY <1>0, <3>1 DEF Holding
                <4>2. remainder \o fs # <<>>
                    BY <1>t, <4>1, ConcatEqualIffEmpty
                <4> QED BY <3>1, <4>2 DEF PushOrAdmit
            <3>2. CASE ~Holding
                BY <1>0, <1>1, <3>2 DEF PushOrAdmit, TryAdmit
            <3> QED BY <3>1, <3>2
        <2> QED BY <2>6, <2>7, <2>8, <2>9
    <1>2. CASE ~Gone
        <2>1. ~cut /\ ~cut' /\ todo' = <<>>
            BY <1>0, <1>2
        <2>2. Sent \o remainder \in Seq(Frame)
            BY <1>t, ConcatProperties
        <2>3. (Sent \o remainder) \o <<>> = Sent \o remainder
            BY <2>2, ConcatEmptySeq
        <2>4. accepted = Sent \o remainder
            BY <1>0, <2>1, <2>3 DEF DeliveryInv, RestIsHeld
        <2>5. /\ Sent' \o remainder' = (Sent \o remainder) \o fs
              /\ reserve' => remainder' # <<>>
            <3>1. CASE Holding
                <4>1. queue' = queue /\ remainder' = remainder \o fs
                    BY <3>1 DEF PushOrAdmit
                <4>2. Sent' = Sent
                    BY <4>1 DEF Sent
                <4>3. (Sent \o remainder) \o fs = Sent \o (remainder \o fs)
                    <5>1. Sent \in Seq(Frame)
                        BY <1>t
                    <5>2. remainder \in Seq(Frame)
                        BY <1>t
                    <5> QED BY <5>1, <5>2, FrameAssociative
                <4>4. remainder # <<>>
                    BY <1>0, <3>1 DEF Holding
                <4>5. remainder \o fs # <<>>
                    BY <1>t, <4>4, ConcatEqualIffEmpty
                <4> QED BY <4>1, <4>2, <4>3, <4>5
            <3>2. CASE ~Holding
                <4> DEFINE x == wire \o wbatch
                <4>1. AdmitType /\ TryAdmit(fs) /\ remainder = <<>>
                    BY <3>2 DEF PushOrAdmit, Holding, TypeOK
                <4>2. PICK k \in 0 .. Len(fs) :
                         /\ queue' = queue \o SubSeq(fs, 1, k) /\ Len(queue) + k <= Cap
                         /\ remainder' = SubSeq(fs, k + 1, Len(fs))
                         /\ reserve' = (k < Len(fs))
                    BY <1>2, <4>1, TryAdmitParts
                <4>3. x \in Seq(Frame) /\ Sent = x \o queue
                    BY <1>t DEF Sent
                <4>4. Sent' = x \o (queue \o SubSeq(fs, 1, k))
                    BY <4>2 DEF Sent
                <4> HIDE DEF x
                <4>5. (x \o (queue \o SubSeq(fs, 1, k))) \o SubSeq(fs, k + 1, Len(fs))
                        = (x \o queue) \o fs
                    <5>1. x \in Seq(Frame)
                        BY <4>3
                    <5>2. queue \in Seq(Frame)
                        BY <1>t
                    <5> QED BY <5>1, <5>2, ShiftMany
                <4>6. Sent \o remainder = Sent
                    BY <1>t, <4>1, ConcatEmptySeq
                <4>7. Sent' \o remainder' = (Sent \o remainder) \o fs
                    BY <4>2, <4>3, <4>4, <4>5, <4>6
                <4>8. Len(SubSeq(fs, k + 1, Len(fs))) = Len(fs) - k /\ Len(fs) \in Nat
                    BY SplitAt, LenProperties
                <4>9. reserve' => remainder' # <<>>
                    <5> DEFINE d == SubSeq(fs, k + 1, Len(fs))
                    <5>1. ASSUME k < Len(fs) PROVE d # <<>>
                        <6>1. Len(d) = Len(fs) - k
                            BY <4>8
                        <6> HIDE DEF d
                        <6>2. Len(d) # 0
                            BY <4>8, <5>1, <6>1
                        <6>3. Len(<<>>) = 0
                            OBVIOUS
                        <6> QED BY <6>2, <6>3
                    <5> QED BY <4>2, <5>1
                <4> QED BY <4>7, <4>9
            <3> QED BY <3>1, <3>2
        <2>6. (Sent' \o remainder') \o <<>> = Sent' \o remainder'
            <3>1. Sent' \o remainder' \in Seq(Frame)
                BY SeqTyped, ConcatProperties DEF SeqTypes
            <3> QED BY <3>1, ConcatEmptySeq
        <2>7. RestIsHeld'
            BY <1>0, <2>1, <2>4, <2>5, <2>6 DEF RestIsHeld
        <2>8. SentIsPrefix'
            BY <2>1, <2>7, RestDecides
        <2>9. WriterIdle'
            BY <1>2 DEF DeliveryInv, WriterIdle, Gone
        <2> QED BY <2>5, <2>7, <2>8, <2>9
    <1> QED BY <1>1, <1>2

\* A step that leaves the frames and the writer alone.
LEMMA QuietDelivery ==
    ASSUME DeliveryInv,
           UNCHANGED <<wire, wbatch, queue, remainder, todo, accepted, cut, writer>>
    PROVE  SentIsPrefix' /\ RestIsHeld' /\ WriterIdle'
    <1>1. SentIsPrefix' /\ RestIsHeld'
        BY SameFrames DEF DeliveryInv
    <1>2. WriterIdle'
        BY DEF DeliveryInv, WriterIdle, Gone
    <1> QED BY <1>1, <1>2

\* Delivery is not touched by what happens around the loop, and a stuttering
\* step changes nothing.
LEMMA OutsideDelivery ==
    ASSUME DeliveryInv, Outside \/ UNCHANGED vars
    PROVE  DeliveryInv'
    <1>1. UNCHANGED <<loopVars, admitVars, queue, writerVars, cut, accepted>>
        BY DEF Outside, ReaderReserve, ReaderRelease, Produce, TitleSet, OtherRename, TitleSend,
              OtherBroadcast, ClientSends, Kick, vars
    <1>2. UNCHANGED <<wire, wbatch, queue, remainder, todo, accepted, cut, writer>>
        BY <1>1 DEF loopVars, admitVars, writerVars
    <1>3. SentIsPrefix' /\ RestIsHeld' /\ WriterIdle'
        BY <1>2, QuietDelivery
    <1>4. CutOnlyAtTheEnd' /\ HeldWhere'
        BY <1>1 DEF DeliveryInv, CutOnlyAtTheEnd, HeldWhere, Holding, Gone, loopVars,
                    admitVars, writerVars
    <1> QED BY <1>3, <1>4 DEF DeliveryInv

\* The steps of the loop that move no frame.
LEMMA LoopDelivery ==
    ASSUME DeliveryInv,
           \/ Top \/ MessageQuiet \/ (\E w \in Window : MessageRename(w))
                  \/ (\E p \in Pane : MessageSnapshot(p)) \/ ClientEnd
           \/ BlockingDone \/ FairArm \/ DrainArm \/ DrainMore \/ Break \/ Join,
           LoopType
    PROVE  DeliveryInv'
    <1>1. /\ UNCHANGED <<wire, wbatch, queue, remainder, todo, accepted, cut, writer>>
          /\ closed' = closed
        BY DEF Top, MessageQuiet, MessageRename, MessageSnapshot, ClientEnd, BlockingDone,
               FairArm, DrainArm, DrainMore, Break, Join, admitVars, writerVars
    <1>2. SentIsPrefix' /\ RestIsHeld' /\ WriterIdle'
        BY <1>1, QuietDelivery
    <1>3. \/ loop' = loop /\ reserve' = reserve
          \/ loop # "blocking" /\ loop' \in {"top", "select"} /\ reserve' = reserve
             /\ loop \notin {"join", "ended"}
          \/ todo = <<>> /\ loop' \in {"top", "break"} /\ reserve' = reserve
             /\ loop \notin {"join", "ended"}
          \/ loop = "select" /\ loop' = "break" /\ reserve' = reserve
          \/ loop = "select" /\ loop' = "drain" /\ ~Holding /\ reserve' = reserve
          \/ loop = "break" /\ loop' = "teardown" /\ ~reserve'
          \/ loop = "join" /\ loop' = "ended" /\ reserve' = reserve
        BY DEF Top, MessageQuiet, MessageRename, MessageSnapshot, TakeMessage, ClientEnd,
               BlockingDone, FairArm, DrainArm, DrainReady, DrainMore, Break, Join, admitVars,
               LoopType
    <1>4. HeldWhere'
        BY <1>1, <1>3 DEF DeliveryInv, HeldWhere, Holding
    <1>5. CutOnlyAtTheEnd'
        BY <1>1, <1>3 DEF DeliveryInv, CutOnlyAtTheEnd, Gone
    <1> QED BY <1>2, <1>4, <1>5 DEF DeliveryInv

\* Frames handed over by an arm of the select or by the drain arm.
LEMMA AdmitDelivery ==
    ASSUME TypeOK, TypeOK', DeliveryInv, KickArm \/ DrainDone \/ Notify
    PROVE  DeliveryInv'
    <1>1. PICK fs \in Seq(Frame) : PushOrAdmit(fs) /\ Accepted(fs)
        <2>1. CASE KickArm
            <3>1. <<Control("detached")>> \in Seq(Frame)
                BY ControlType DEF FrameKind
            <3> QED BY <2>1, <3>1 DEF KickArm
        <2>2. CASE DrainDone
            <3>1. ~Holding /\ batch.frames \in Seq(Frame)
                BY <2>2 DEF DrainDone, DeliveryInv, HeldWhere, TypeOK, LoopType
            <3>2. PushOrAdmit(batch.frames) /\ Accepted(batch.frames)
                BY <2>2, <3>1 DEF DrainDone, PushOrAdmit
            <3> QED BY <3>1, <3>2
        <2>3. CASE NotifyArm
            <3>1. notices \in Seq(Frame) /\ notices # <<>>
                BY <2>3 DEF NotifyArm, NotifyReady, TypeOK, NoticeType
            <3>2. Head(notices) \in Frame
                BY <3>1, HeadTailProperties
            <3>3. <<Head(notices)>> \in Seq(Frame)
                BY <3>2
            <3> QED BY <2>3, <3>3 DEF NotifyArm
        <2>4. CASE LaggedArm
            <3>1. Resync \in Seq(Frame)
                BY ResyncType DEF TypeOK
            <3> QED BY <2>4, <3>1 DEF LaggedArm
        <2> QED BY <2>1, <2>2, <2>3, <2>4 DEF Notify
    <1>2. /\ loop \in {"select", "drain"} /\ loop' \in {"top", "break"}
          /\ UNCHANGED <<wire, wbatch, todo, cut, writer, closed>>
        BY DEF KickArm, DrainDone, Notify, NotifyArm, LaggedArm, writerVars
    <1>3. /\ SentIsPrefix' /\ RestIsHeld' /\ WriterIdle'
          /\ reserve' => remainder' # <<>>
        BY <1>1, <1>2, AdmitFrames
    <1>4. HeldWhere'
        BY <1>2, <1>3 DEF DeliveryInv, HeldWhere
    <1>5. CutOnlyAtTheEnd'
        BY <1>2 DEF DeliveryInv, CutOnlyAtTheEnd, Gone
    <1> QED BY <1>3, <1>4, <1>5 DEF DeliveryInv

\* A frame of the blocked reply goes to the queue once nothing else is held.
LEMMA TodoSent ==
    ASSUME TypeOK, TypeOK', RestIsHeld, ~cut, remainder = <<>>, todo # <<>>,
           queue' = Append(queue, Head(todo)), todo' = Tail(todo),
           UNCHANGED <<wire, wbatch, remainder, accepted, cut>>
    PROVE  RestIsHeld'
    <1> DEFINE x == wire \o wbatch
    <1>1. x \in Seq(Frame) /\ queue \in Seq(Frame) /\ todo \in Seq(Frame)
        BY SeqTyped DEF SeqTypes
    <1>2. Sent = x \o queue /\ Sent' = x \o Append(queue, Head(todo))
        BY DEF Sent
    <1> HIDE DEF x
    <1>3. (x \o Append(queue, Head(todo))) \o Tail(todo) = (x \o queue) \o todo
        BY <1>1, Shift, Zenon
    <1>4. Sent' \o todo' = Sent \o todo
        BY <1>2, <1>3
    <1>5. Sent \in Seq(Frame) /\ Sent' \in Seq(Frame)
        BY SeqTyped
    <1>6. Sent \o remainder = Sent
        BY <1>5, ConcatEmptySeq
    <1>7. Sent' \o remainder' = Sent'
        BY <1>5, ConcatEmptySeq
    <1> QED BY <1>4, <1>6, <1>7 DEF RestIsHeld

\* What is at the head of the remainder followed by the blocked reply.
LEMMA HeadHeld ==
    ASSUME TypeOK, remainder \o todo # <<>>
    PROVE  /\ remainder # <<>> => Head(remainder \o todo) = Head(remainder)
           /\ remainder = <<>> => Head(remainder \o todo) = Head(todo) /\ todo # <<>>
    <1>1. remainder \in Seq(Frame) /\ todo \in Seq(Frame)
        BY SeqTyped DEF SeqTypes
    <1>2. CASE remainder = <<>>
        <2>1. remainder \o todo = todo
            BY <1>1, <1>2, ConcatEmptySeq
        <2> QED BY <1>2, <2>1
    <1>3. CASE remainder # <<>>
        <2> DEFINE u == remainder \o todo
        <2>1. /\ u \in Seq(Frame) /\ Len(u) = Len(remainder) + Len(todo)
              /\ \A i \in 1 .. Len(remainder) + Len(todo) :
                    u[i] = IF i <= Len(remainder) THEN remainder[i] ELSE todo[i - Len(remainder)]
            BY <1>1, ConcatProperties
        <2>2. Len(remainder) \in Nat \ {0} /\ Len(todo) \in Nat
            BY <1>1, <1>3, EmptySeq, LenProperties
        <2> HIDE DEF u
        <2>3. u[1] = remainder[1]
            BY <2>1, <2>2
        <2>4. u # <<>>
            BY <2>1, <2>2
        <2>5. Head(u) = u[1] /\ Head(remainder) = remainder[1]
            BY <1>1, <1>3, <2>1, <2>4, HeadTailProperties
        <2> QED BY <1>3, <2>3, <2>5 DEF u
    <1> QED BY <1>2, <1>3

\* A held frame goes to a queue that is read.
LEMMA SendDelivery ==
    ASSUME TypeOK, TypeOK', DeliveryInv,
           (PermitArm /\ ~Gone) \/ BlockingSend \/ TeardownSend
    PROVE  DeliveryInv'
    <1>1. /\ loop \notin {"join", "ended"} /\ ~Gone
          /\ UNCHANGED <<wire, wbatch, accepted, cut, writer, closed>>
        BY DEF PermitArm, BlockingSend, TeardownSend, writerVars
    <1>2. ~cut /\ ~cut'
        BY <1>1, CutIsGone DEF DeliveryInv
    <1>3. RestIsHeld'
        <2>0. RestIsHeld
            BY DEF DeliveryInv
        <2>1. CASE PermitArm
            <3>1. remainder # <<>>
                BY <2>1 DEF PermitArm, PermitReady, DeliveryInv, HeldWhere
            <3>2. /\ queue' = Append(queue, Head(remainder)) /\ remainder' = Tail(remainder)
                  /\ todo' = todo
                BY <1>1, <2>1 DEF PermitArm
            <3> QED BY <1>1, <1>2, <2>0, <3>1, <3>2, HeldSent
        <2>2. CASE TeardownSend
            <3>1. /\ queue' = Append(queue, Head(remainder)) /\ remainder' = Tail(remainder)
                  /\ todo' = todo /\ remainder # <<>>
                BY <2>2 DEF TeardownSend, loopVars
            <3> QED BY <1>1, <1>2, <2>0, <3>1, HeldSent
        <2>3. CASE BlockingSend /\ remainder # <<>>
            <3>1. /\ queue' = Append(queue, Head(remainder)) /\ remainder' = Tail(remainder)
                  /\ todo' = todo
                BY <2>3, HeadHeld DEF BlockingSend
            <3> QED BY <1>1, <1>2, <2>0, <2>3, <3>1, HeldSent
        <2>4. CASE BlockingSend /\ remainder = <<>>
            <3>1. /\ queue' = Append(queue, Head(todo)) /\ todo' = Tail(todo)
                  /\ remainder' = remainder /\ todo # <<>>
                BY <2>4, HeadHeld DEF BlockingSend
            <3> QED BY <1>1, <1>2, <2>0, <2>4, <3>1, TodoSent
        <2> QED BY <2>1, <2>2, <2>3, <2>4
    <1>4. SentIsPrefix'
        BY <1>2, <1>3, RestDecides
    <1>5. WriterIdle'
        BY <1>1 DEF DeliveryInv, WriterIdle, Gone
    <1>6. CutOnlyAtTheEnd'
        BY <1>1 DEF DeliveryInv, CutOnlyAtTheEnd, Gone, PermitArm, BlockingSend, TeardownSend,
                    loopVars
    <1>7. HeldWhere'
        <2>1. CASE PermitArm
            <3>1. remainder \in Seq(Frame) /\ remainder # <<>>
                BY <2>1, SeqTyped DEF SeqTypes, PermitArm, PermitReady, DeliveryInv, HeldWhere
            <3>2. /\ Tail(remainder) \in Seq(Frame) /\ Len(Tail(remainder)) = Len(remainder) - 1
                  /\ Len(remainder) \in Nat
                BY <3>1, HeadTailProperties, LenProperties
            <3>3. ASSUME Len(remainder) > 1 PROVE Tail(remainder) # <<>>
                <4> DEFINE d == Tail(remainder)
                <4>1. Len(d) # 0
                    BY <3>2, <3>3
                <4> HIDE DEF d
                <4>2. Len(<<>>) = 0
                    OBVIOUS
                <4>3. d # <<>>
                    BY <4>1, <4>2
                <4> QED BY <4>3 DEF d
            <3>4. /\ remainder' = Tail(remainder) /\ reserve' = (Len(remainder) > 1)
                  /\ loop' = "top" /\ todo' = todo /\ loop = "select"
                BY <1>1, <2>1 DEF PermitArm
            <3>5. reserve' => remainder' # <<>>
                BY <3>3, <3>4
            <3> QED BY <3>4, <3>5 DEF DeliveryInv, HeldWhere
        <2>2. CASE BlockingSend \/ TeardownSend
            <3>1. ~reserve /\ ~reserve' /\ loop' = loop /\ loop # "drain"
                BY <2>2 DEF BlockingSend, TeardownSend, loopVars, DeliveryInv, HeldWhere
            <3> QED BY <2>2, <3>1 DEF BlockingSend, TeardownSend, loopVars, DeliveryInv, HeldWhere
        <2> QED BY <2>1, <2>2
    <1> QED BY <1>3, <1>4, <1>5, <1>6, <1>7 DEF DeliveryInv

\* The writer is gone, or the teardown timed out: what is held is given up.
LEMMA GoneDelivery ==
    ASSUME DeliveryInv,
           (PermitArm /\ Gone) \/ BlockingFails \/ WriterArm \/ (TeardownDone /\ Gone) \/ Timeout,
           LoopType
    PROVE  DeliveryInv'
    <1>1. UNCHANGED <<wire, wbatch, queue, accepted, writer>>
        BY DEF PermitArm, BlockingFails, WriterArm, TeardownDone, Timeout, writerVars
    <1>2. cut'
        <2>1. CASE Timeout
            BY <2>1, Zenon DEF Timeout
        <2>2. CASE (PermitArm /\ Gone) \/ BlockingFails \/ WriterArm \/ (TeardownDone /\ Gone)
            <3>1. Gone /\ loop \notin {"join", "ended"} /\ cut' = cut
                BY <2>2 DEF PermitArm, BlockingFails, WriterArm, TeardownDone
            <3>2. (Gone /\ ~cut => closed) /\ (closed => loop \in {"join", "ended"})
                BY DEF DeliveryInv, CutOnlyAtTheEnd
            <3>3. cut
                BY <3>1, <3>2, Zenon
            <3> QED BY <3>1, <3>3, Zenon
        <2> QED BY <2>1, <2>2, Zenon
    <1>3. SentIsPrefix' /\ RestIsHeld'
        BY <1>1, <1>2, CutFrames DEF DeliveryInv
    <1>4. WriterIdle'
        BY <1>1 DEF DeliveryInv, WriterIdle, Gone
    <1>5. \/ Gone /\ loop' \in {"top", "break"} /\ loop \notin {"join", "ended"} /\ closed' = closed
          \/ Gone /\ loop' \in {"join", "ended"}
          \/ loop' = "ended"
        BY DEF PermitArm, BlockingFails, WriterArm, TeardownDone, Timeout, LoopType
    <1>6. CutOnlyAtTheEnd'
        BY <1>1, <1>2, <1>5 DEF DeliveryInv, CutOnlyAtTheEnd, Gone
    <1>7. ~reserve' /\ loop' # "drain" /\ todo' = <<>>
        <2>1. CASE PermitArm /\ Gone
            BY <2>1 DEF PermitArm, DeliveryInv, HeldWhere
        <2>2. CASE BlockingFails
            BY <2>2 DEF BlockingFails, DeliveryInv, HeldWhere, LoopType
        <2>3. CASE WriterArm
            BY <2>3 DEF WriterArm, DeliveryInv, HeldWhere
        <2>4. CASE TeardownDone /\ Gone
            BY <2>4 DEF TeardownDone, DeliveryInv, HeldWhere
        <2>5. CASE Timeout
            BY <2>5 DEF Timeout, DeliveryInv, HeldWhere
        <2> QED BY <2>1, <2>2, <2>3, <2>4, <2>5
    <1>8. HeldWhere'
        BY <1>7 DEF HeldWhere
    <1> QED BY <1>3, <1>4, <1>6, <1>8 DEF DeliveryInv

\* The sender is dropped after everything was admitted.
LEMMA DoneDelivery ==
    ASSUME DeliveryInv, TeardownDone, remainder = <<>>
    PROVE  DeliveryInv'
    <1>1. UNCHANGED <<wire, wbatch, queue, remainder, todo, accepted, cut, writer>>
        BY DEF TeardownDone, writerVars
    <1>2. SentIsPrefix' /\ RestIsHeld' /\ WriterIdle'
        BY <1>1, QuietDelivery
    <1>3. CutOnlyAtTheEnd' /\ HeldWhere'
        BY <1>1 DEF DeliveryInv, CutOnlyAtTheEnd, HeldWhere, Holding, Gone, TeardownDone
    <1> QED BY <1>2, <1>3 DEF DeliveryInv

\* A reply joins what the client is owed, behind the remainder.
LEMMA AnswerDelivery ==
    ASSUME TypeOK, TypeOK', DeliveryInv, MessageError \/ MessageAttach \/ MessageDetach
    PROVE  DeliveryInv'
    <1>1. PICK fs \in Seq(Frame) : todo' = fs /\ Accepted(fs)
        <2>1. todo' \in Seq(Frame)
            BY SeqTyped DEF SeqTypes
        <2>2. Accepted(todo')
            BY DEF MessageError, MessageAttach, MessageDetach, Answer
        <2> QED BY <2>1, <2>2
    <1>2. /\ loop = "select" /\ loop' = "blocking" /\ ~reserve'
          /\ UNCHANGED <<wire, wbatch, queue, remainder, cut, writer, closed>>
        BY DEF MessageError, MessageAttach, MessageDetach, Answer, TakeMessage, writerVars
    <1>3. todo = <<>> /\ (cut <=> Gone)
        BY <1>2, CutIsGone DEF DeliveryInv, HeldWhere
    <1>4. /\ Sent \in Seq(Frame) /\ accepted \in Seq(Frame) /\ remainder \in Seq(Frame)
          /\ Sent' = Sent
        BY <1>2, SeqTyped DEF SeqTypes, Sent
    <1>5. accepted' = accepted \o fs
        BY <1>1 DEF Accepted
    <1>6. SentIsPrefix'
        <2>1. accepted \o fs \in Seq(Frame) /\ IsPrefix(accepted, accepted \o fs)
            BY <1>4, ConcatProperties, PrefixConcat
        <2>2. IsPrefix(Sent, accepted)
            BY DEF DeliveryInv, SentIsPrefix
        <2>3. IsPrefix(Sent, accepted \o fs)
            BY <1>4, <2>1, <2>2, PrefixTransitive
        <2> QED BY <1>4, <1>5, <2>3 DEF SentIsPrefix
    <1>7. RestIsHeld'
        <2>1. Sent \o remainder \in Seq(Frame)
            BY <1>4, ConcatProperties
        <2>2. (Sent \o remainder) \o <<>> = Sent \o remainder
            BY <2>1, ConcatEmptySeq
        <2>3. ~cut => accepted = Sent \o remainder
            BY <1>3, <2>2 DEF DeliveryInv, RestIsHeld
        <2> QED BY <1>1, <1>2, <1>4, <1>5, <2>3 DEF RestIsHeld
    <1>8. WriterIdle' /\ CutOnlyAtTheEnd' /\ HeldWhere'
        BY <1>2 DEF DeliveryInv, WriterIdle, CutOnlyAtTheEnd, HeldWhere, Gone
    <1> QED BY <1>6, <1>7, <1>8 DEF DeliveryInv

\* A part of a batch that was written before a failure is a prefix of what was sent.
LEMMA PartPrefix ==
    ASSUME NEW x \in Seq(Frame), NEW y \in Seq(Frame), NEW z \in Seq(Frame),
           NEW k \in 0 .. Len(y)
    PROVE  IsPrefix(x \o SubSeq(y, 1, k), (x \o y) \o z)
    <1> DEFINE a == SubSeq(y, 1, k)
               b == SubSeq(y, k + 1, Len(y))
               p == x \o a
    <1>1. a \in Seq(Frame) /\ b \in Seq(Frame)
        BY SplitAt
    <1>2. a \o b = y
        BY SplitAt
    <1> HIDE DEF a, b
    <1>3. p \in Seq(Frame)
        BY <1>1, ConcatProperties
    <1>4. p \o b = x \o (a \o b)
        BY <1>1, FrameAssociative, Zenon
    <1> HIDE DEF p
    <1>5. IsPrefix(p, (p \o b) \o z)
        BY <1>1, <1>3, HeldPrefix
    <1> QED BY <1>2, <1>4, <1>5 DEF a, p

\* The writer task moves frames towards the client; what was sent changes only
\* when it fails.
LEMMA WriterDelivery ==
    ASSUME TypeOK, TypeOK', DeliveryInv, Writer \/ WriterFails
    PROVE  DeliveryInv'
    <1>1. /\ wire \in Seq(Frame) /\ wbatch \in Seq(Frame) /\ queue \in Seq(Frame)
          /\ Sent \in Seq(Frame) /\ accepted \in Seq(Frame) /\ wire \o wbatch \in Seq(Frame)
        BY SeqTyped DEF SeqTypes
    <1>2. UNCHANGED <<loopVars, admitVars, accepted>>
        BY DEF Writer, WriterRecv, WriterMore, WriterWrite, WriterExit, WriterFails
    <1>3. HeldWhere'
        BY <1>2 DEF DeliveryInv, HeldWhere, Holding, loopVars, admitVars
    <1>4. CASE Writer
        <2>0. cut' = cut
            BY <1>4 DEF Writer, WriterRecv, WriterMore, WriterWrite, WriterExit
        <2>1. Sent' = Sent
            <3>1. CASE WriterRecv
                <4>1. /\ queue # <<>> /\ wbatch = <<>> /\ wbatch' = <<Head(queue)>>
                      /\ queue' = Tail(queue) /\ wire' = wire
                    BY <3>1 DEF WriterRecv, DeliveryInv, WriterIdle
                <4>2. Head(queue) \in Frame
                    BY <1>1, <4>1, HeadTailProperties
                <4>3. wbatch' = Append(wbatch, Head(queue))
                    BY <4>1, <4>2
                <4>4. queue \in Seq(Frame)
                    BY <1>1
                <4>5. (wire \o Append(wbatch, Head(queue))) \o Tail(queue) = (wire \o wbatch) \o queue
                    BY <1>1, <4>1, <4>4, Shift
                <4> QED BY <4>1, <4>3, <4>5 DEF Sent
            <3>2. CASE WriterMore
                <4>1. /\ queue # <<>> /\ wbatch' = Append(wbatch, Head(queue))
                      /\ queue' = Tail(queue) /\ wire' = wire
                    BY <3>2 DEF WriterMore
                <4>2. (wire \o Append(wbatch, Head(queue))) \o Tail(queue) = (wire \o wbatch) \o queue
                    BY <1>1, <4>1, Shift
                <4> QED BY <4>1, <4>2 DEF Sent
            <3>3. CASE WriterWrite
                <4>1. wire' = wire \o wbatch /\ wbatch' = <<>> /\ queue' = queue
                    BY <3>3 DEF WriterWrite
                <4>2. (wire \o wbatch) \o <<>> = wire \o wbatch
                    BY <1>1, ConcatEmptySeq
                <4> QED BY <4>1, <4>2 DEF Sent
            <3>4. CASE WriterExit
                BY <3>4 DEF WriterExit, Sent
            <3> QED BY <1>4, <3>1, <3>2, <3>3, <3>4 DEF Writer
        <2>2. SentIsPrefix' /\ RestIsHeld'
            BY <1>2, <2>0, <2>1 DEF DeliveryInv, SentIsPrefix, RestIsHeld, loopVars, admitVars
        <2>3. WriterIdle' /\ CutOnlyAtTheEnd'
            BY <1>2, <1>4, <2>0 DEF Writer, WriterRecv, WriterMore, WriterWrite, WriterExit, DeliveryInv,
                  WriterIdle, CutOnlyAtTheEnd, Gone, loopVars, admitVars
        <2> QED BY <1>3, <2>2, <2>3 DEF DeliveryInv
    <1>5. CASE WriterFails
        <2>1. PICK k \in 0 .. Len(wbatch) : wire' = wire \o SubSeq(wbatch, 1, k)
            BY <1>5 DEF WriterFails
        <2>2. wbatch' = <<>> /\ queue' = <<>> /\ writer' = "gone" /\ cut' = TRUE
            BY <1>5 DEF WriterFails
        <2>3. wire' \in Seq(Frame)
            BY SeqTyped DEF SeqTypes
        <2>4. wire' \o <<>> = wire'
            BY <2>3, ConcatEmptySeq
        <2>5. Sent' = wire'
            BY <2>2, <2>4 DEF Sent
        <2>6. IsPrefix(wire \o SubSeq(wbatch, 1, k), Sent)
            BY <1>1, PartPrefix DEF Sent
        <2>7. IsPrefix(Sent', accepted)
            <3>1. IsPrefix(Sent, accepted) /\ IsPrefix(wire', Sent)
                BY <2>1, <2>6 DEF DeliveryInv, SentIsPrefix
            <3> QED BY <1>1, <2>3, <2>5, <3>1, PrefixTransitive
        <2>8. SentIsPrefix' /\ RestIsHeld'
            BY <1>2, <2>2, <2>7 DEF SentIsPrefix, RestIsHeld
        <2>9. WriterIdle' /\ CutOnlyAtTheEnd'
            BY <1>2, <2>2 DEF DeliveryInv, WriterIdle, CutOnlyAtTheEnd, Gone, loopVars, admitVars
        <2> QED BY <1>3, <2>8, <2>9 DEF DeliveryInv
    <1> QED BY <1>4, <1>5

-----------------------------------------------------------------------------
(* The theorems *)

\* DeliveryInv holds at the start.
LEMMA InitDelivery == Init => DeliveryInv
    <1> SUFFICES ASSUME Init PROVE DeliveryInv
        OBVIOUS
    <1>1. /\ wire = <<>> /\ wbatch = <<>> /\ queue = <<>> /\ remainder = <<>> /\ todo = <<>>
          /\ accepted = <<>> /\ cut = FALSE /\ reserve = FALSE /\ closed = FALSE
          /\ writer = "recv" /\ loop = "top"
        BY DEF Init
    <1>2. <<>> \in Seq(Frame) /\ <<>> \o <<>> = <<>>
        BY ConcatEmptySeq
    <1>3. Sent = <<>>
        BY <1>1, <1>2 DEF Sent
    <1>4. IsPrefix(<<>>, <<>> \o <<>>)
        BY <1>2, PrefixConcat
    <1>5. SentIsPrefix
        BY <1>1, <1>2, <1>3, <1>4 DEF SentIsPrefix
    <1>6. RestIsHeld
        BY <1>1, <1>2, <1>3 DEF RestIsHeld
    <1>7. WriterIdle /\ CutOnlyAtTheEnd /\ HeldWhere
        BY <1>1 DEF WriterIdle, CutOnlyAtTheEnd, HeldWhere, Holding, Gone
    <1> QED BY <1>5, <1>6, <1>7 DEF DeliveryInv

\* Every step keeps it.
LEMMA StepDelivery == TypeOK /\ TypeOK' /\ DeliveryInv /\ [Next]_vars => DeliveryInv'
    <1> SUFFICES ASSUME TypeOK, TypeOK', DeliveryInv, [Next]_vars PROVE DeliveryInv'
        OBVIOUS
    <1>0. LoopType
        BY DEF TypeOK
    <1>1. CASE Outside \/ UNCHANGED vars
        BY <1>1, OutsideDelivery
    <1>2. CASE Loop
        <2>1. CASE \/ Top \/ MessageQuiet \/ (\E w \in Window : MessageRename(w))
                  \/ (\E p \in Pane : MessageSnapshot(p)) \/ ClientEnd
                   \/ BlockingDone \/ FairArm \/ DrainArm \/ DrainMore \/ Break \/ Join
            BY <1>0, <2>1, LoopDelivery
        <2>2. CASE KickArm \/ DrainDone \/ Notify
            BY <2>2, AdmitDelivery
        <2>3. CASE MessageError \/ MessageAttach \/ MessageDetach
            BY <2>3, AnswerDelivery
        <2>4. CASE (PermitArm /\ ~Gone) \/ BlockingSend \/ TeardownSend
            BY <2>4, SendDelivery
        <2>5. CASE (PermitArm /\ Gone) \/ BlockingFails \/ WriterArm \/ (TeardownDone /\ Gone)
            BY <1>0, <2>5, GoneDelivery
        <2>6. CASE TeardownDone /\ ~Gone
            BY <2>6, DoneDelivery DEF TeardownDone
        <2> QED BY <1>2, <2>1, <2>2, <2>3, <2>4, <2>5, <2>6
                DEF Loop, ClientArm, Blocking, Drain, Teardown
    <1>3. CASE Timeout
        BY <1>0, <1>3, GoneDelivery
    <1>4. CASE Writer \/ WriterFails
        BY <1>4, WriterDelivery
    <1> QED BY <1>1, <1>2, <1>3, <1>4 DEF Next, Terminated

\* The types and the delivery invariant hold together in every reachable state:
\* each needs the other.
LEMMA Inductive == Spec => [](TypeOK /\ DeliveryInv)
    <1>1. Init => TypeOK /\ DeliveryInv
        BY InitType, InitDelivery
    <1>2. TypeOK /\ DeliveryInv /\ [Next]_vars => (TypeOK /\ DeliveryInv)'
        <2> SUFFICES ASSUME TypeOK, DeliveryInv, [Next]_vars PROVE TypeOK' /\ DeliveryInv'
            OBVIOUS
        <2>1. TypeOK'
            BY StepType DEF DeliveryInv
        <2>2. DeliveryInv'
            BY <2>1, StepDelivery
        <2> QED BY <2>1, <2>2
    <1> QED BY <1>1, <1>2, PTL DEF Spec

\* The connection keeps its types: no channel, queue or batch of handle_connection
\* ever holds more than its capacity.
THEOREM TypeCorrect == Spec => []TypeOK
    BY Inductive, PTL

\* Until the writer fails or the teardown times out, every frame handed to the
\* OutboundAdmission is on the wire, with the writer, in the queue, in the
\* remainder or in the reply being admitted, in this order.
THEOREM LossCorrect == Spec => []NothingLost
    <1>1. DeliveryInv => NothingLost
        BY DEF DeliveryInv, RestIsHeld, NothingLost, Sent
    <1> QED BY <1>1, Inductive, PTL

\* What was accepted is only ever extended.
LEMMA AcceptedGrows ==
    ASSUME TypeOK, TypeOK', [Next]_vars
    PROVE  IsPrefix(accepted, accepted')
    <1>1. accepted \in Seq(Frame)
        BY SeqTyped DEF SeqTypes
    <1>2. accepted' = accepted \/ (\E fs \in Seq(Frame) : accepted' = accepted \o fs)
        <2>0. ASSUME NEW fs \in Seq(Frame), Accepted(fs)
              PROVE  \E gs \in Seq(Frame) : accepted' = accepted \o gs
            BY <2>0 DEF Accepted
        <2>1. CASE KickArm
            <3>1. <<Control("detached")>> \in Seq(Frame) /\ Accepted(<<Control("detached")>>)
                BY <2>1, ControlType DEF KickArm, FrameKind
            <3> QED BY <2>0, <3>1
        <2>2. CASE DrainDone
            <3>1. batch.frames \in Seq(Frame) /\ Accepted(batch.frames)
                BY <2>2 DEF DrainDone, TypeOK, LoopType
            <3> QED BY <2>0, <3>1
        <2>3. CASE NotifyArm
            <3>1. notices \in Seq(Frame) /\ notices # <<>>
                BY <2>3 DEF NotifyArm, NotifyReady, TypeOK, NoticeType
            <3>2. Head(notices) \in Frame
                BY <3>1, HeadTailProperties
            <3>3. <<Head(notices)>> \in Seq(Frame) /\ Accepted(<<Head(notices)>>)
                BY <2>3, <3>2 DEF NotifyArm
            <3> QED BY <2>0, <3>3
        <2>4. CASE LaggedArm
            <3>1. Resync \in Seq(Frame) /\ Accepted(Resync)
                BY <2>4, ResyncType DEF TypeOK, LaggedArm
            <3> QED BY <2>0, <3>1
        <2>5. CASE MessageError \/ MessageAttach \/ MessageDetach
            <3>1. todo' \in Seq(Frame) /\ Accepted(todo')
                BY <2>5, SeqTyped DEF SeqTypes, MessageError, MessageAttach, MessageDetach, Answer
            <3> QED BY <2>0, <3>1
        <2>6. CASE \/ Outside \/ Top \/ PermitArm \/ MessageQuiet
                   \/ (\E w \in Window : MessageRename(w)) \/ (\E p \in Pane : MessageSnapshot(p))
                   \/ ClientEnd \/ Blocking \/ WriterArm \/ FairArm \/ DrainArm \/ DrainMore
                   \/ Teardown \/ Timeout \/ Writer \/ WriterFails \/ UNCHANGED vars
            BY <2>6 DEF Outside, ReaderReserve, ReaderRelease, Produce, TitleSet, OtherRename,
                  TitleSend, OtherBroadcast, ClientSends, Kick, Top, PermitArm, MessageQuiet,
                  MessageRename, MessageSnapshot, ClientEnd, Blocking, BlockingSend,
                  BlockingDone, BlockingFails, WriterArm, FairArm, DrainArm, DrainMore,
                  Teardown, Break, TeardownSend, TeardownDone, Join, Timeout, Writer,
                  WriterRecv, WriterMore, WriterWrite, WriterExit, WriterFails, vars
        <2> QED BY <2>1, <2>2, <2>3, <2>4, <2>5, <2>6
                DEF Next, Loop, ClientArm, Drain, Notify, Terminated
    <1>3. IsPrefix(accepted, accepted)
        <2>1. <<>> \in Seq(Frame)
            OBVIOUS
        <2>2. IsPrefix(accepted, accepted \o <<>>)
            BY <1>1, <2>1, PrefixConcat
        <2>3. accepted \o <<>> = accepted
            BY <1>1, ConcatEmptySeq
        <2> QED BY <2>2, <2>3
    <1>4. CASE accepted' = accepted
        BY <1>3, <1>4
    <1>5. ASSUME NEW fs \in Seq(Frame), accepted' = accepted \o fs
          PROVE  IsPrefix(accepted, accepted')
        <2>1. IsPrefix(accepted, accepted \o fs)
            BY <1>1, PrefixConcat
        <2> QED BY <1>5, <2>1
    <1> QED BY <1>2, <1>4, <1>5

\* What the client has received grows with the batches the writer flushes, or
\* with a part of the batch that failed, and is a prefix of what was accepted.
LEMMA WireGrows ==
    ASSUME TypeOK, TypeOK', DeliveryInv', WriterWrite \/ WriterFails
    PROVE  /\ IsPrefix(wire, wire') /\ IsPrefix(wire', accepted')
           /\ accepted' = accepted
    <1>1. /\ wire \in Seq(Frame) /\ wbatch \in Seq(Frame)
          /\ wire' \in Seq(Frame) /\ wbatch' \in Seq(Frame) /\ queue' \in Seq(Frame)
          /\ Sent' \in Seq(Frame) /\ accepted' \in Seq(Frame)
        BY SeqTyped DEF SeqTypes
    <1>2. accepted' = accepted
        BY DEF WriterWrite, WriterFails
    <1>3. IsPrefix(wire, wire')
        <2>1. CASE WriterWrite
            <3>1. wire' = wire \o wbatch
                BY <2>1 DEF WriterWrite
            <3> QED BY <1>1, <3>1, PrefixConcat
        <2>2. CASE WriterFails
            <3>1. PICK k \in 0 .. Len(wbatch) : wire' = wire \o SubSeq(wbatch, 1, k)
                BY <2>2 DEF WriterFails
            <3>2. SubSeq(wbatch, 1, k) \in Seq(Frame)
                BY <1>1, SplitAt
            <3> QED BY <1>1, <3>1, <3>2, PrefixConcat
        <2> QED BY <2>1, <2>2
    <1>4. IsPrefix(wire', accepted')
        <2>1. IsPrefix(wire', (wire' \o wbatch') \o queue')
            BY <1>1, HeldPrefix
        <2>2. IsPrefix(wire', Sent')
            BY <2>1 DEF Sent
        <2>3. IsPrefix(Sent', accepted')
            BY DEF DeliveryInv, SentIsPrefix
        <2> QED BY <1>1, <2>2, <2>3, PrefixTransitive
    <1> QED BY <1>2, <1>3, <1>4

\* The client receives what the producers handed over, in order and without a
\* gap: the connection implements OrderedDelivery.
THEOREM OrderCorrect == Spec => InOrder
    <1>1. Init => Delivery!Init
        BY DEF Init, Delivery!Init
    <1>2. TypeOK /\ DeliveryInv /\ (TypeOK /\ DeliveryInv)' /\ [Next]_vars
            => [Delivery!Accept \/ Delivery!Deliver]_(Delivery!vars)
        <2> SUFFICES ASSUME TypeOK, DeliveryInv, TypeOK', DeliveryInv', [Next]_vars
                     PROVE  [Delivery!Accept \/ Delivery!Deliver]_(Delivery!vars)
            OBVIOUS
        <2>1. CASE WriterWrite \/ WriterFails
            BY <2>1, WireGrows DEF Delivery!Deliver, Delivery!IsPrefix, IsPrefix
        <2>2. CASE ~(WriterWrite \/ WriterFails)
            <3>1. wire' = wire
                BY <2>2 DEF Next, Outside, ReaderReserve, ReaderRelease, Produce, TitleSet,
                  OtherRename, TitleSend, OtherBroadcast, ClientSends, Kick, Loop, Top,
                  PermitArm, ClientArm, MessageQuiet, MessageRename, MessageSnapshot,
                  MessageError, MessageAttach, MessageDetach, Answer, ClientEnd, Blocking,
                  BlockingSend, BlockingDone, BlockingFails, KickArm, WriterArm, FairArm, Drain,
                  DrainArm, DrainMore, DrainDone, Notify, NotifyArm, LaggedArm, Teardown, Break,
                  TeardownSend, TeardownDone, Join, Timeout, Writer, WriterRecv, WriterMore,
                  WriterExit, Terminated, vars, writerVars
            <3>2. IsPrefix(accepted, accepted')
                BY AcceptedGrows
            <3> QED BY <3>1, <3>2 DEF Delivery!Accept, Delivery!IsPrefix, IsPrefix
        <2> QED BY <2>1, <2>2
    <1> QED BY <1>1, <1>2, Inductive, PTL DEF Spec, InOrder, Delivery!Spec

-----------------------------------------------------------------------------
(* The reservation *)

\* What try_admit leaves over is there exactly when a reservation is armed.
LEMMA TryAdmitArms ==
    ASSUME TypeOK, NEW fs \in Seq(Frame), TryAdmit(fs), ~Gone
    PROVE  /\ reserve' <=> remainder' # <<>>
           /\ remainder' \in Seq(Frame) /\ Len(remainder') <= Len(fs)
    <1>1. PICK k \in 0 .. Len(fs) : /\ remainder' = SubSeq(fs, k + 1, Len(fs))
                                    /\ reserve' = (k < Len(fs))
        BY TryAdmitParts DEF TypeOK
    <1>2. /\ remainder' \in Seq(Frame) /\ Len(remainder') = Len(fs) - k
          /\ Len(fs) \in Nat
        BY <1>1, SplitAt, LenProperties
    <1>3. remainder' = <<>> <=> Len(remainder') = 0
        BY <1>2, EmptySeq
    <1>4. k < Len(fs) <=> Len(remainder') # 0
        BY <1>2
    <1>5. Len(remainder') <= Len(fs)
        BY <1>2
    <1>6. reserve' <=> k < Len(fs)
        BY <1>1, Zenon
    <1> QED BY <1>2, <1>3, <1>4, <1>5, <1>6, Zenon

\* A step that leaves the admission and the place in the loop alone.
LEMMA ArmedKept ==
    ASSUME HeldIsArmed, UNCHANGED <<remainder, reserve>>, Gone => Gone',
           loop' \in {"top", "select"} => loop \in {"top", "select"}
    PROVE  HeldIsArmed'
    BY DEF HeldIsArmed

\* Every step keeps a reservation for what is held.
LEMMA StepArmed ==
    ASSUME TypeOK, DeliveryInv, HeldIsArmed, [Next]_vars
    PROVE  HeldIsArmed'
    <1>t. remainder \in Seq(Frame) /\ LoopType
        BY DEF TypeOK, AdmitType
    <1>h. /\ loop = "drain" => ~Holding
          /\ reserve => remainder # <<>> /\ loop \in {"top", "select", "break"}
        BY DEF DeliveryInv, HeldWhere
    <1>1. CASE Outside \/ UNCHANGED vars \/ Terminated
        <2>1. UNCHANGED <<remainder, reserve, loop, writer>>
            BY <1>1 DEF Outside, ReaderReserve, ReaderRelease, Produce, TitleSet, OtherRename,
                  TitleSend, OtherBroadcast, ClientSends, Kick, Terminated, vars, loopVars,
                  admitVars, writerVars
        <2> QED BY <2>1, ArmedKept DEF Gone
    <1>2. CASE Writer \/ WriterFails
        <2>1. UNCHANGED <<remainder, reserve, loop>> /\ (Gone => Gone')
            BY <1>2 DEF Writer, WriterRecv, WriterMore, WriterWrite, WriterExit, WriterFails,
                  loopVars, admitVars, Gone
        <2> QED BY <2>1, ArmedKept
    <1>3. CASE \/ Top \/ MessageQuiet \/ (\E w \in Window : MessageRename(w))
               \/ (\E p \in Pane : MessageSnapshot(p)) \/ FairArm
        <2>1. /\ UNCHANGED <<remainder, reserve>> /\ UNCHANGED writer
              /\ loop \in {"top", "select"}
            BY <1>3 DEF Top, MessageQuiet, MessageRename, MessageSnapshot, TakeMessage, FairArm,
                  admitVars, writerVars
        <2> QED BY <2>1, ArmedKept DEF Gone
    <1>4. CASE \/ DrainArm \/ DrainMore \/ MessageError \/ MessageAttach \/ MessageDetach
               \/ ClientEnd \/ KickArm \/ WriterArm \/ BlockingSend \/ Teardown \/ Timeout
        <2>1. loop' \notin {"top", "select"}
            BY <1>4 DEF DrainArm, DrainMore, MessageError, MessageAttach, MessageDetach, Answer,
                  ClientEnd, KickArm, WriterArm, BlockingSend, Teardown, Break, TeardownSend,
                  TeardownDone, Join, Timeout, loopVars
        <2> QED BY <2>1 DEF HeldIsArmed
    <1>5. CASE BlockingDone
        <2>0. remainder = <<>> /\ loop = "blocking" /\ UNCHANGED <<remainder, reserve>>
            BY <1>5 DEF BlockingDone, admitVars
        <2>3. loop \notin {"top", "select", "break"}
            BY <2>0
        <2>4. ~reserve
            BY <2>3, <1>h, Zenon
        <2>5. reserve' = reserve /\ remainder' = remainder
            BY <2>0, Zenon
        <2>1. remainder' = <<>>
            BY <2>0, <2>5, Zenon
        <2>2. ~reserve'
            BY <2>4, <2>5, Zenon
        <2> QED BY <2>1, <2>2, Zenon DEF HeldIsArmed
    <1>6. CASE BlockingFails
        <2>1. Gone'
            BY <1>6 DEF BlockingFails, Gone, writerVars
        <2> QED BY <2>1 DEF HeldIsArmed
    <1>7. CASE PermitArm
        <2>1. CASE Gone
            <3>1. Gone'
                BY <1>7, <2>1 DEF PermitArm, Gone, writerVars
            <3> QED BY <3>1 DEF HeldIsArmed
        <2>2. CASE ~Gone
            <3>1. /\ remainder # <<>> /\ remainder' = Tail(remainder)
                  /\ reserve' = (Len(remainder) > 1)
                <4>1. reserve /\ loop = "select"
                    BY <1>7 DEF PermitArm, PermitReady
                <4>2. remainder # <<>>
                    BY <1>h, <4>1, Zenon
                <4> QED BY <1>7, <2>2, <4>2 DEF PermitArm
            <3>2. /\ Tail(remainder) \in Seq(Frame) /\ Len(Tail(remainder)) = Len(remainder) - 1
                  /\ Len(remainder) \in Nat
                BY <1>t, <3>1, HeadTailProperties, LenProperties
            <3>3. remainder' # <<>> <=> Len(remainder') # 0
                BY <3>1, <3>2, EmptySeq
            <3>4. Len(remainder') # 0 <=> Len(remainder) > 1
                BY <3>1, <3>2
            <3>5. reserve' <=> remainder' # <<>>
                BY <3>1, <3>3, <3>4, Zenon
            <3> QED BY <3>5, Zenon DEF HeldIsArmed
        <2> QED BY <2>1, <2>2
    <1>8. CASE DrainDone \/ Notify
        <2>1. PICK fs \in Seq(Frame) : TryAdmit(fs)
            <3>1. CASE DrainDone
                BY <1>t, <3>1 DEF DrainDone, LoopType
            <3>2. CASE NotifyArm
                <4>1. notices # <<>> /\ notices \in Seq(Frame) /\ ~Holding
                    BY <3>2 DEF NotifyArm, NotifyReady, TypeOK, NoticeType
                <4>2. <<Head(notices)>> \in Seq(Frame)
                    BY <4>1, HeadTailProperties
                <4> QED BY <3>2, <4>1, <4>2 DEF NotifyArm, PushOrAdmit
            <3>3. CASE LaggedArm
                <4>1. Resync \in Seq(Frame)
                    BY ResyncType DEF TypeOK
                <4> QED BY <3>3, <4>1 DEF LaggedArm, NotifyReady, PushOrAdmit
            <3> QED BY <1>8, <3>1, <3>2, <3>3 DEF Notify
        <2>2. writer' = writer
            BY <1>8 DEF DrainDone, Notify, NotifyArm, LaggedArm, writerVars
        <2>3. ~Gone => (reserve' <=> remainder' # <<>>)
            BY <2>1, TryAdmitArms
        <2> QED BY <2>2, <2>3 DEF HeldIsArmed, Gone
    <1> QED BY <1>1, <1>2, <1>3, <1>4, <1>5, <1>6, <1>7, <1>8
            DEF Next, Loop, ClientArm, Blocking, Drain

-----------------------------------------------------------------------------
(* Upgrading and its acknowledgement *)

\* The Upgrading frames of a sequence, by their place.
UpgradingAt(s) == {i \in 1 .. Len(s) : s[i].type = "upgrading"}

\* They are finitely many.
LEMMA UpgradingFinite ==
    ASSUME NEW s \in Seq(Frame)
    PROVE  IsFiniteSet(UpgradingAt(s)) /\ Upgradings(s) = Cardinality(UpgradingAt(s))
           /\ Upgradings(s) \in Nat
    <1>1. Len(s) \in Nat
        BY LenProperties
    <1>2. IsFiniteSet(1 .. Len(s))
        BY <1>1, FS_Interval
    <1>3. IsFiniteSet(UpgradingAt(s))
        BY <1>2, FS_Subset DEF UpgradingAt
    <1> QED BY <1>3, FS_CardinalityType DEF Upgradings, UpgradingAt

\* Frames written behind others add to them; an Upgrading frame among them adds one.
LEMMA UpgradingsGrow ==
    ASSUME NEW s \in Seq(Frame), NEW t \in Seq(Frame)
    PROVE  /\ Upgradings(s) <= Upgradings(s \o t)
           /\ Upgradings(t) > 0 => Upgradings(s) + 1 <= Upgradings(s \o t)
    <1>1. /\ s \o t \in Seq(Frame) /\ Len(s \o t) = Len(s) + Len(t)
          /\ Len(s) \in Nat /\ Len(t) \in Nat
          /\ \A i \in 1 .. Len(s) : (s \o t)[i] = s[i]
          /\ \A i \in 1 .. Len(t) : (s \o t)[Len(s) + i] = t[i]
        <2>1. /\ s \o t \in Seq(Frame) /\ Len(s \o t) = Len(s) + Len(t)
              /\ \A i \in 1 .. Len(s) + Len(t) :
                    (s \o t)[i] = IF i <= Len(s) THEN s[i] ELSE t[i - Len(s)]
              /\ Len(s) \in Nat /\ Len(t) \in Nat
            BY ConcatProperties, LenProperties
        <2>2. ASSUME NEW i \in 1 .. Len(t) PROVE (s \o t)[Len(s) + i] = t[i]
            <3>1. Len(s) + i \in 1 .. Len(s) + Len(t) /\ ~(Len(s) + i <= Len(s))
                  /\ (Len(s) + i) - Len(s) = i
                BY <2>1
            <3> QED BY <2>1, <3>1
        <2> QED BY <2>1, <2>2
    <1>2. UpgradingAt(s) \subseteq UpgradingAt(s \o t)
        BY <1>1 DEF UpgradingAt
    <1>3. /\ IsFiniteSet(UpgradingAt(s)) /\ IsFiniteSet(UpgradingAt(s \o t))
          /\ Upgradings(s) = Cardinality(UpgradingAt(s))
          /\ Upgradings(s \o t) = Cardinality(UpgradingAt(s \o t))
        BY <1>1, UpgradingFinite
    <1>4. Upgradings(s) <= Upgradings(s \o t)
        BY <1>2, <1>3, FS_Subset
    <1>5. ASSUME Upgradings(t) > 0 PROVE Upgradings(s) + 1 <= Upgradings(s \o t)
        <2>1. UpgradingAt(t) # {}
            <3>1. Upgradings(t) = Cardinality(UpgradingAt(t))
                BY UpgradingFinite
            <3>2. Cardinality(UpgradingAt(t)) > 0
                BY <1>5, <3>1
            <3>3. ~(0 > 0) /\ Cardinality({}) = 0
                BY FS_EmptySet
            <3> QED BY <3>2, <3>3
        <2>2. PICK i \in 1 .. Len(t) : t[i].type = "upgrading"
            BY <2>1 DEF UpgradingAt
        <2> DEFINE j == Len(s) + i
        <2>3. j \in UpgradingAt(s \o t) /\ j \notin UpgradingAt(s)
            BY <1>1, <2>2 DEF UpgradingAt
        <2>4. UpgradingAt(s) \cup {j} \subseteq UpgradingAt(s \o t)
            BY <1>2, <2>3
        <2>5. /\ IsFiniteSet(UpgradingAt(s) \cup {j})
              /\ Cardinality(UpgradingAt(s) \cup {j}) = Cardinality(UpgradingAt(s)) + 1
            BY <1>3, <2>3, FS_AddElement
        <2>6. Cardinality(UpgradingAt(s) \cup {j}) <= Cardinality(UpgradingAt(s \o t))
            BY <1>3, <2>4, FS_Subset
        <2> QED BY <1>3, <2>5, <2>6
    <1> QED BY <1>4, <1>5

\* Every step keeps the acknowledgements behind the frames.
LEMMA StepAck ==
    ASSUME TypeOK, AckAfterFlush, [Next]_vars
    PROVE  AckAfterFlush'
    <1>1. wire \in Seq(Frame) /\ wbatch \in Seq(Frame) /\ acked \in Nat
        BY DEF TypeOK, WriterType
    <1>2. acked <= Upgradings(wire)
        BY DEF AckAfterFlush
    <1>3. CASE WriterWrite
        <2>1. wire' = wire \o wbatch
              /\ acked' = IF Upgradings(wbatch) > 0 THEN acked + 1 ELSE acked
            BY <1>3 DEF WriterWrite
        <2>2. wire \o wbatch \in Seq(Frame)
            BY <1>1, ConcatProperties
        <2>3. /\ Upgradings(wire) \in Nat /\ Upgradings(wbatch) \in Nat
              /\ Upgradings(wire \o wbatch) \in Nat
            BY <1>1, <2>2, UpgradingFinite
        <2>4. acked' <= Upgradings(wire \o wbatch)
            BY <1>1, <1>2, <2>1, <2>3, UpgradingsGrow
        <2>5. Upgradings(wire)' = Upgradings(wire \o wbatch)
            BY <2>1 DEF Upgradings
        <2> QED BY <2>4, <2>5 DEF AckAfterFlush
    <1>4. CASE WriterFails
        <2>1. PICK k \in 0 .. Len(wbatch) : wire' = wire \o SubSeq(wbatch, 1, k)
            BY <1>4 DEF WriterFails
        <2>2. SubSeq(wbatch, 1, k) \in Seq(Frame)
            BY <1>1, SplitAt
        <2>3. wire \o SubSeq(wbatch, 1, k) \in Seq(Frame)
            BY <1>1, <2>2, ConcatProperties
        <2>4. /\ Upgradings(wire) \in Nat /\ Upgradings(wire \o SubSeq(wbatch, 1, k)) \in Nat
              /\ Upgradings(wire) <= Upgradings(wire \o SubSeq(wbatch, 1, k))
            BY <1>1, <2>2, <2>3, UpgradingFinite, UpgradingsGrow
        <2>5. acked' = acked
            BY <1>4 DEF WriterFails
        <2>6. Upgradings(wire)' = Upgradings(wire \o SubSeq(wbatch, 1, k))
            BY <2>1 DEF Upgradings
        <2> QED BY <1>1, <1>2, <2>4, <2>5, <2>6 DEF AckAfterFlush
    <1>5. CASE ~(WriterWrite \/ WriterFails)
        <2>1. wire' = wire /\ acked' = acked
            BY <1>5 DEF Next, Outside, ReaderReserve, ReaderRelease, Produce, TitleSet,
                  OtherRename, TitleSend, OtherBroadcast, ClientSends, Kick, Loop, Top,
                  PermitArm, ClientArm, MessageQuiet, MessageRename, MessageSnapshot,
                  MessageError, MessageAttach, MessageDetach, Answer, ClientEnd, Blocking,
                  BlockingSend, BlockingDone, BlockingFails, KickArm, WriterArm, FairArm, Drain,
                  DrainArm, DrainMore, DrainDone, Notify, NotifyArm, LaggedArm, Teardown, Break,
                  TeardownSend, TeardownDone, Join, Timeout, Writer, WriterRecv, WriterMore,
                  WriterExit, Terminated, vars, writerVars
        <2> QED BY <2>1 DEF AckAfterFlush, Upgradings
    <1> QED BY <1>3, <1>4, <1>5

-----------------------------------------------------------------------------
(* What travels where *)

\* What the readers put into the channel, and what the broadcast channel carries.
ChunkKind == {"output", "snapshot", "exited"}
NoticeKind == {"rename", "upgrading", "notify"}
OfKind(s, K) == \A i \in 1 .. Len(s) : s[i].type \in K

\* No frame changes its kind on the way: chunks stay chunks when they are merged, and the
\* title task holds one rename at most.
KindInv ==
    /\ OfKind(pending, ChunkKind) /\ OfKind(batch.frames, ChunkKind)
    /\ OfKind(notices, NoticeKind)
    /\ OfKind(title, {"rename"}) /\ Len(title) <= 1

\* Operations on sequences of frames of one kind.
LEMMA KindKept ==
    ASSUME NEW K, NEW s \in Seq(Frame), OfKind(s, K)
    PROVE  /\ \A t \in Seq(Frame) : OfKind(t, K) => OfKind(s \o t, K)
           /\ \A f \in Frame : f.type \in K => OfKind(Append(s, f), K)
           /\ s # <<>> => OfKind(Tail(s), K) /\ Head(s).type \in K
    <1>1. Len(s) \in Nat
        BY LenProperties
    <1>2. ASSUME NEW t \in Seq(Frame), OfKind(t, K), NEW i \in 1 .. Len(s \o t)
          PROVE  (s \o t)[i].type \in K
        <2>1. /\ Len(s \o t) = Len(s) + Len(t) /\ Len(t) \in Nat
              /\ (s \o t)[i] = IF i <= Len(s) THEN s[i] ELSE t[i - Len(s)]
            BY ConcatProperties, LenProperties
        <2>2. i <= Len(s) => i \in 1 .. Len(s)
            BY <1>1, <2>1
        <2>3. ~(i <= Len(s)) => i - Len(s) \in 1 .. Len(t)
            BY <1>1, <2>1
        <2> QED BY <1>2, <2>1, <2>2, <2>3 DEF OfKind
    <1>3. ASSUME NEW f \in Frame, f.type \in K, NEW i \in 1 .. Len(Append(s, f))
          PROVE  Append(s, f)[i].type \in K
        BY <1>1, <1>3 DEF OfKind
    <1>4. ASSUME s # <<>> PROVE OfKind(Tail(s), K) /\ Head(s).type \in K
        <2>1. /\ Len(Tail(s)) = Len(s) - 1 /\ \A i \in 1 .. Len(s) - 1 : Tail(s)[i] = s[i + 1]
              /\ Head(s) = s[1] /\ Len(s) # 0
            BY <1>4, HeadTailProperties, EmptySeq
        <2>2. \A i \in 1 .. Len(s) - 1 : i + 1 \in 1 .. Len(s)
            BY <1>1
        <2>3. 1 \in 1 .. Len(s)
            BY <1>1, <2>1
        <2> QED BY <2>1, <2>2, <2>3 DEF OfKind
    <1>5. \A t \in Seq(Frame) : OfKind(t, K) => OfKind(s \o t, K)
        BY <1>2 DEF OfKind
    <1>6. \A f \in Frame : f.type \in K => OfKind(Append(s, f), K)
        BY <1>3 DEF OfKind
    <1> QED BY <1>4, <1>5, <1>6

\* Merging chunks gives chunks, and at most one frame more.
LEMMA MergeKind ==
    ASSUME NEW fs \in Seq(Frame), NEW c \in Frame, OfKind(fs, ChunkKind), c.type \in ChunkKind
    PROVE  OfKind(Merge(fs, c), ChunkKind) /\ Len(Merge(fs, c)) <= Len(fs) + 1
    <1>1. Len(fs) \in Nat
        BY LenProperties
    <1>2. CASE /\ fs # <<>> /\ Last(fs).type = "output" /\ c.type = "output"
               /\ Last(fs).id = c.id
        <2> DEFINE n == Len(fs)
                   f == [fs[n] EXCEPT !.data = @ \o c.data]
                   m == [fs EXCEPT ![n] = f]
        <2>1. n \in 1 .. Len(fs)
            BY <1>2, EmptySeq, <1>1
        <2>2. fs[n] \in Frame
            BY <2>1, ElementOfSeq
        <2>3. f.type = fs[n].type
            BY <2>2 DEF Frame
        <2>4. fs[n].data \o c.data \in Seq(Nat)
            BY <2>2, ConcatProperties DEF Frame
        <2>5. f \in Frame
            BY <2>2, <2>4 DEF Frame
        <2>6. Len(m) = Len(fs) /\ \A i \in 1 .. Len(fs) : m[i] = IF i = n THEN f ELSE fs[i]
            BY <2>1, <2>5, ExceptSeq
        <2>7. Merge(fs, c) = m
            BY <1>2 DEF Merge
        <2> HIDE DEF m, f
        <2>8. OfKind(m, ChunkKind)
            BY <2>1, <2>3, <2>6 DEF OfKind
        <2> QED BY <1>1, <2>6, <2>7, <2>8
    <1>3. CASE ~(/\ fs # <<>> /\ Last(fs).type = "output" /\ c.type = "output"
                 /\ Last(fs).id = c.id)
        <2>1. Merge(fs, c) = Append(fs, c)
            BY <1>3 DEF Merge
        <2>2. Len(Append(fs, c)) = Len(fs) + 1
            BY <1>1
        <2> QED BY <1>1, <2>1, <2>2, KindKept
    <1> QED BY <1>2, <1>3

\* What enters the channel is chunks.
LEMMA EnqueueKind ==
    ASSUME SourceType, NEW cs \in Seq(ChunkType), OfKind(cs, ChunkKind), Enqueue(cs),
           OfKind(pending, ChunkKind)
    PROVE  OfKind(pending', ChunkKind)
    <1> DEFINE new == [i \in 1 .. Len(cs) |->
                         Msg(cs[i].type, cs[i].id, <<Len(origin) + i>>)]
    <1>1. Len(cs) \in Nat /\ Len(origin) \in Nat
        BY LenProperties DEF SourceType, ChunkType
    <1>2. ASSUME NEW i \in 1 .. Len(cs)
          PROVE  Msg(cs[i].type, cs[i].id, <<Len(origin) + i>>) \in Frame
        <2>1. cs[i] \in ChunkType
            BY ElementOfSeq
        <2>2. <<Len(origin) + i>> \in Seq(Nat)
            BY <1>1
        <2> QED BY <2>1, <2>2, MsgType DEF ChunkType
    <1>3. new \in Seq(Frame) /\ Len(new) = Len(cs)
        BY <1>1, <1>2
    <1>4. \A i \in 1 .. Len(cs) : new[i].type = cs[i].type
        BY DEF Msg
    <1>5. OfKind(new, ChunkKind)
        BY <1>3, <1>4 DEF OfKind
    <1>6. pending' = pending \o new
        BY DEF Enqueue
    <1> HIDE DEF new
    <1>7. pending \in Seq(Frame)
        BY DEF SourceType
    <1> QED BY <1>3, <1>5, <1>6, <1>7, KindKept

\* The snapshots that flush_deferred_output moves are chunks.
LEMMA FlushedKind ==
    ASSUME SourceType
    PROVE  OfKind(Flushed, ChunkKind)
    <1>1. \A i \in 1 .. Flushable : Flushed[i].type = "snapshot"
        BY DEF Flushed, Chunk
    <1>2. Len(Flushed) = Flushable
        BY FlushType
    <1> QED BY <1>1, <1>2 DEF OfKind, ChunkKind

\* Every step keeps the kinds.
LEMMA StepKind ==
    ASSUME TypeOK, KindInv, [Next]_vars
    PROVE  KindInv'
    <1>t. /\ SourceType /\ pending \in Seq(Frame) /\ notices \in Seq(Frame)
          /\ title \in Seq(Frame) /\ batch.frames \in Seq(Frame)
          /\ batch \in [n : 0 .. BatchLimit, frames : Seq(Frame)]
        BY DEF TypeOK, SourceType, NoticeType, LoopType
    <1>k. /\ OfKind(pending, ChunkKind) /\ OfKind(batch.frames, ChunkKind)
          /\ OfKind(notices, NoticeKind)
          /\ OfKind(title, {"rename"}) /\ Len(title) <= 1
        BY DEF KindInv
    <1>1. OfKind(pending', ChunkKind)
        <2>1. CASE pending' = pending
            BY <1>k, <2>1
        <2>2. CASE DrainArm \/ DrainMore
            <3>1. pending # <<>> /\ pending' = Tail(pending)
                BY <2>2 DEF DrainArm, DrainReady, DrainMore
            <3> QED BY <1>t, <1>k, <3>1, KindKept
        <2>3. ASSUME NEW p \in Pane, NEW t \in {"output", "exited"}, Produce(p, t)
              PROVE  OfKind(pending', ChunkKind)
            <3>1. Enqueue(<<Chunk(t, p)>>)
                BY <2>3 DEF Produce
            <3>2. Chunk(t, p) \in ChunkType /\ Chunk(t, p).type \in ChunkKind
                BY DEF Chunk, ChunkType, FrameKind, ChunkKind
            <3>3. <<Chunk(t, p)>> \in Seq(ChunkType) /\ OfKind(<<Chunk(t, p)>>, ChunkKind)
                BY <3>2 DEF OfKind
            <3> QED BY <1>t, <1>k, <3>1, <3>3, EnqueueKind
        <2>4. CASE FairArm
            <3>1. deferred # <<>> /\ Enqueue(<<Chunk("snapshot", Head(deferred))>>)
                BY <2>4 DEF FairArm, FairReady
            <3>2. Head(deferred) \in Pane
                BY <1>t, <3>1, HeadTailProperties DEF SourceType
            <3> DEFINE c == Chunk("snapshot", Head(deferred))
            <3>3. c \in ChunkType /\ c.type \in ChunkKind
                BY <3>2 DEF Chunk, ChunkType, FrameKind, ChunkKind
            <3> HIDE DEF c
            <3>4. <<c>> \in Seq(ChunkType) /\ OfKind(<<c>>, ChunkKind)
                BY <3>3 DEF OfKind
            <3>5. Enqueue(<<c>>)
                BY <3>1 DEF c
            <3> QED BY <1>t, <1>k, <3>4, <3>5, EnqueueKind
        <2>5. CASE Enqueue(Flushed)
            <3>1. Flushed \in Seq(ChunkType)
                BY <1>t, FlushType
            <3> QED BY <1>t, <1>k, <2>5, <3>1, FlushedKind, EnqueueKind
        <2>6. ASSUME NEW p \in Pane, Enqueue(Append(Flushed, Chunk("snapshot", p)))
              PROVE  OfKind(pending', ChunkKind)
            <3> DEFINE c == Chunk("snapshot", p)
                       cs == Append(Flushed, c)
            <3>1. c \in ChunkType /\ c.type \in ChunkKind
                BY DEF Chunk, ChunkType, FrameKind, ChunkKind
            <3>2. Flushed \in Seq(ChunkType) /\ Len(Flushed) \in Nat
                BY <1>t, FlushType, LenProperties
            <3>3. OfKind(Flushed, ChunkKind)
                BY <1>t, FlushedKind
            <3> HIDE DEF c
            <3>4. /\ cs \in Seq(ChunkType) /\ Len(cs) = Len(Flushed) + 1
                  /\ \A i \in 1 .. Len(Flushed) : cs[i] = Flushed[i]
                  /\ cs[Len(Flushed) + 1] = c
                BY <3>1, <3>2
            <3>5. OfKind(cs, ChunkKind)
                BY <3>1, <3>2, <3>3, <3>4 DEF OfKind
            <3>6. Enqueue(cs)
                BY <2>6 DEF c
            <3> HIDE DEF cs
            <3> QED BY <1>t, <1>k, <3>4, <3>5, <3>6, EnqueueKind
        <2>7. ASSUME NEW p \in Pane, MessageSnapshot(p)
              PROVE  Enqueue(Flushed) \/ Enqueue(Append(Flushed, Chunk("snapshot", p)))
            BY <2>7 DEF MessageSnapshot
        <2>8. CASE \/ MessageQuiet \/ (\E w \in Window : MessageRename(w)) \/ MessageError
                   \/ MessageAttach \/ MessageDetach \/ DrainDone
            <3>1. Enqueue(Flushed)
                BY <2>8 DEF MessageQuiet, MessageRename, MessageError, MessageAttach, MessageDetach,
                      Answer, DrainDone, FlushDeferred
            <3> QED BY <2>5, <3>1
        <2>9. CASE \/ ReaderReserve \/ ReaderRelease \/ (\E w \in Window : TitleSet(w))
                   \/ (\E w \in Window : OtherRename(w)) \/ TitleSend
                   \/ (\E t \in {"upgrading", "notify"} : OtherBroadcast(t))
                   \/ (\E s \in {"some", "eof"} : ClientSends(s)) \/ Kick
                   \/ Top \/ PermitArm \/ ClientEnd \/ Blocking \/ KickArm \/ WriterArm \/ Notify
                   \/ Teardown \/ Timeout \/ Writer \/ WriterFails \/ Terminated \/ UNCHANGED vars
            <3>1. pending' = pending
                BY <2>9 DEF ReaderReserve, ReaderRelease, TitleSet, OtherRename, TitleSend, OtherBroadcast,
                      ClientSends, Kick, Top, PermitArm, ClientEnd, Blocking, BlockingSend,
                      BlockingDone, BlockingFails, KickArm, WriterArm, Notify, NotifyArm, LaggedArm,
                      Teardown, Break, TeardownSend, TeardownDone, Join, Timeout, Writer, WriterRecv,
                      WriterMore, WriterWrite, WriterExit, WriterFails, Terminated, vars, sourceVars
            <3> QED BY <2>1, <3>1
        <2> QED BY <2>2, <2>3, <2>4, <2>5, <2>6, <2>7, <2>8, <2>9
                DEF Next, Outside, Loop, ClientArm, Drain
    <1>2. OfKind(batch'.frames, ChunkKind)
        <2>1. CASE DrainArm
            <3>1. pending # <<>> /\ batch' = [n |-> 1, frames |-> Merge(<<>>, Head(pending))]
                BY <2>1 DEF DrainArm, DrainReady
            <3>2. Head(pending) \in Frame /\ Head(pending).type \in ChunkKind
                BY <1>t, <1>k, <3>1, HeadTailProperties, KindKept
            <3>3. <<>> \in Seq(Frame) /\ OfKind(<<>>, ChunkKind)
                BY DEF OfKind
            <3>4. OfKind(Merge(<<>>, Head(pending)), ChunkKind)
                BY <3>2, <3>3, MergeKind
            <3> QED BY <3>1, <3>4
        <2>2. CASE DrainMore
            <3>1. /\ pending # <<>>
                  /\ batch' = [n |-> batch.n + 1, frames |-> Merge(batch.frames, Head(pending))]
                BY <2>2 DEF DrainMore
            <3>2. Head(pending) \in Frame /\ Head(pending).type \in ChunkKind
                BY <1>t, <1>k, <3>1, HeadTailProperties, KindKept
            <3>3. OfKind(Merge(batch.frames, Head(pending)), ChunkKind)
                BY <1>t, <1>k, <3>2, MergeKind
            <3> QED BY <3>1, <3>3
        <2>3. CASE DrainDone
            <3>1. batch'.frames = <<>>
                BY <2>3 DEF DrainDone
            <3> QED BY <3>1 DEF OfKind
        <2>4. CASE ~(DrainArm \/ DrainMore \/ DrainDone)
            <3>1. batch' = batch
                BY <2>4 DEF Next, Outside, ReaderReserve, ReaderRelease, Produce, TitleSet,
                  OtherRename, TitleSend, OtherBroadcast, ClientSends, Kick, Loop, Top,
                  PermitArm, ClientArm, MessageQuiet, MessageRename, MessageSnapshot,
                  MessageError, MessageAttach, MessageDetach, Answer, ClientEnd, Blocking,
                  BlockingSend, BlockingDone, BlockingFails, KickArm, WriterArm, FairArm, Drain,
                  Notify, NotifyArm, LaggedArm, Teardown, Break, TeardownSend, TeardownDone,
                  Join, Timeout, Writer, WriterRecv, WriterMore, WriterWrite, WriterExit,
                  WriterFails, Terminated, vars, loopVars
            <3> QED BY <1>k, <3>1
        <2> QED BY <2>1, <2>2, <2>3, <2>4
    <1>3. OfKind(notices', NoticeKind)
        <2>1. ASSUME NEW m \in Frame, m.type \in NoticeKind, Broadcast(m)
              PROVE  OfKind(notices', NoticeKind)
            <3>1. CASE Len(notices) < NotifyCap
                <4>1. notices' = Append(notices, m)
                    BY <2>1, <3>1 DEF Broadcast
                <4> QED BY <1>t, <1>k, <2>1, <4>1, KindKept
            <3>2. CASE ~(Len(notices) < NotifyCap)
                <4>1. notices' = Append(Tail(notices), m)
                    BY <2>1, <3>2 DEF Broadcast
                <4>2. notices # <<>>
                    BY <1>t, <3>2, ConnectionLoopAssumption, EmptySeq
                <4>3. Tail(notices) \in Seq(Frame) /\ OfKind(Tail(notices), NoticeKind)
                    BY <1>t, <1>k, <4>2, HeadTailProperties, KindKept
                <4> QED BY <2>1, <4>1, <4>3, KindKept
            <3> QED BY <3>1, <3>2
        <2>2. CASE TitleSend
            <3>1. title # <<>> /\ Broadcast(Head(title))
                BY <2>2 DEF TitleSend
            <3>2. Head(title) \in Frame /\ Head(title).type \in {"rename"}
                BY <1>t, <1>k, <3>1, HeadTailProperties, KindKept
            <3> QED BY <2>1, <3>1, <3>2 DEF NoticeKind
        <2>3. ASSUME NEW t \in {"upgrading", "notify"}, OtherBroadcast(t)
              PROVE  OfKind(notices', NoticeKind)
            <3>1. Control(t) \in Frame
                BY ControlType DEF FrameKind
            <3>2. Control(t).type \in NoticeKind
                BY DEF Control, Msg, NoticeKind
            <3> QED BY <2>1, <2>3, <3>1, <3>2 DEF OtherBroadcast
        <2>4. CASE NotifyArm
            <3>1. notices # <<>> /\ notices' = Tail(notices)
                BY <2>4 DEF NotifyArm, NotifyReady
            <3> QED BY <1>t, <1>k, <3>1, KindKept
        <2>5. CASE ~(TitleSend \/ (\E t \in {"upgrading", "notify"} : OtherBroadcast(t)) \/ NotifyArm)
            <3>1. notices' = notices
                BY <2>5 DEF Next, Outside, ReaderReserve, ReaderRelease, Produce, TitleSet,
                  OtherRename, RenameSilently, ClientSends, Kick, Loop, Top, PermitArm, ClientArm, MessageQuiet,
                  MessageRename, MessageSnapshot, MessageError, MessageAttach, MessageDetach,
                  Answer, ClientEnd, Blocking, BlockingSend, BlockingDone, BlockingFails,
                  KickArm, WriterArm, FairArm, Drain, DrainArm, DrainMore, DrainDone, Notify,
                  LaggedArm, Teardown, Break, TeardownSend, TeardownDone, Join, Timeout, Writer,
                  WriterRecv, WriterMore, WriterWrite, WriterExit, WriterFails, Terminated,
                  vars, noticeVars
            <3> QED BY <1>k, <3>1
        <2> QED BY <2>2, <2>3, <2>4, <2>5
    <1>4. OfKind(title', {"rename"}) /\ Len(title') <= 1
        <2>1. ASSUME NEW w \in Window, TitleSet(w)
              PROVE  OfKind(title', {"rename"}) /\ Len(title') <= 1
            <3>1. title' = <<Msg("rename", w, <<name[w] + 1>>)>>
                BY <2>1 DEF TitleSet
            <3> DEFINE m == Msg("rename", w, <<name[w] + 1>>)
            <3>2. m.type = "rename"
                BY DEF Msg
            <3>3. title' = <<m>>
                BY <3>1
            <3> HIDE DEF m
            <3> QED BY <3>2, <3>3 DEF OfKind
        <2>2. CASE TitleSend
            <3>1. title' = <<>>
                BY <2>2 DEF TitleSend
            <3> QED BY <3>1 DEF OfKind
        <2>3. CASE ~(TitleSend \/ (\E w \in Window : TitleSet(w)))
            <3>1. title' = title
                BY <2>3 DEF Next, Outside, ReaderReserve, ReaderRelease, Produce, OtherRename,
                  RenameSilently, OtherBroadcast, ClientSends, Kick, Loop, Top, PermitArm,
                  ClientArm, MessageQuiet, MessageRename, MessageSnapshot, MessageError,
                  MessageAttach, MessageDetach, Answer, ClientEnd, Blocking, BlockingSend,
                  BlockingDone, BlockingFails, KickArm, WriterArm, FairArm, Drain, DrainArm,
                  DrainMore, DrainDone, Notify, NotifyArm, LaggedArm, Teardown, Break,
                  TeardownSend, TeardownDone, Join, Timeout, Writer, WriterRecv, WriterMore,
                  WriterWrite, WriterExit, WriterFails, Terminated, vars, noticeVars
            <3> QED BY <1>k, <3>1
        <2> QED BY <2>1, <2>2, <2>3
    <1> QED BY <1>1, <1>2, <1>3, <1>4 DEF KindInv

-----------------------------------------------------------------------------
(* Detached *)

Over == loop \in {"break", "teardown", "join", "ended"}

\* The connection is ending: the loop has been left, or will be after the reply.
Ending == Over \/ (loop = "blocking" /\ then.ok = "break" /\ then.err = "break")

\* Detached is the last frame that is accepted, and the connection ends then.
EndInv ==
    /\ wasKicked => Over
    /\ \A i \in 1 .. Len(accepted) :
         accepted[i].type = "detached" => i = Len(accepted) /\ Ending

\* The elements of a concatenation.
LEMMA ConcatElements ==
    ASSUME NEW s \in Seq(Frame), NEW t \in Seq(Frame)
    PROVE  /\ s \o t \in Seq(Frame) /\ Len(s \o t) = Len(s) + Len(t)
           /\ Len(s) \in Nat /\ Len(t) \in Nat
           /\ \A i \in 1 .. Len(s) : (s \o t)[i] = s[i]
           /\ \A i \in 1 .. Len(t) : (s \o t)[Len(s) + i] = t[i]
           /\ \A i \in 1 .. Len(s \o t) :
                 \/ i \in 1 .. Len(s) /\ (s \o t)[i] = s[i]
                 \/ /\ i > Len(s) /\ i - Len(s) \in 1 .. Len(t)
                    /\ (s \o t)[i] = t[i - Len(s)]
    <1>1. /\ s \o t \in Seq(Frame) /\ Len(s \o t) = Len(s) + Len(t)
          /\ \A i \in 1 .. Len(s) + Len(t) :
                (s \o t)[i] = IF i <= Len(s) THEN s[i] ELSE t[i - Len(s)]
          /\ Len(s) \in Nat /\ Len(t) \in Nat
        BY ConcatProperties, LenProperties
    <1>2. ASSUME NEW i \in 1 .. Len(t) PROVE (s \o t)[Len(s) + i] = t[i]
        <2>1. Len(s) + i \in 1 .. Len(s) + Len(t) /\ ~(Len(s) + i <= Len(s))
              /\ (Len(s) + i) - Len(s) = i
            BY <1>1
        <2> QED BY <1>1, <2>1
    <1>3. \A i \in 1 .. Len(s) : (s \o t)[i] = s[i]
        BY <1>1
    <1>4. ASSUME NEW i \in 1 .. Len(s \o t)
          PROVE  \/ i \in 1 .. Len(s) /\ (s \o t)[i] = s[i]
                 \/ /\ i > Len(s) /\ i - Len(s) \in 1 .. Len(t)
                    /\ (s \o t)[i] = t[i - Len(s)]
        BY <1>1
    <1> QED BY <1>1, <1>2, <1>3, <1>4

\* Once the connection ends, it goes on ending.
LEMMA EndingLasts ==
    ASSUME TypeOK, [Next]_vars
    PROVE  (Over => Over') /\ (Ending => Ending')
    <1>1. CASE \/ Outside \/ Writer \/ WriterFails \/ Terminated \/ UNCHANGED vars \/ BlockingSend
               \/ TeardownSend
        <2>1. UNCHANGED <<loop, then>>
            BY <1>1 DEF Outside, ReaderReserve, ReaderRelease, Produce, TitleSet, OtherRename,
                  TitleSend, OtherBroadcast, ClientSends, Kick, Writer, WriterRecv, WriterMore,
                  WriterWrite, WriterExit, WriterFails, Terminated, vars, loopVars,
                  BlockingSend, TeardownSend
        <2> QED BY <2>1 DEF Over, Ending
    <1>2. CASE BlockingDone \/ BlockingFails
        <2>1. loop = "blocking" /\ loop' \in {then.ok, then.err}
            BY <1>2 DEF BlockingDone, BlockingFails
        <2> QED BY <2>1 DEF Over, Ending
    <1>3. CASE Break \/ TeardownDone \/ Join \/ Timeout
        <2>1. Over'
            BY <1>3 DEF Break, TeardownDone, Join, Timeout, Over
        <2> QED BY <2>1 DEF Ending
    <1>4. CASE \/ Top \/ PermitArm \/ ClientArm \/ KickArm \/ WriterArm \/ FairArm \/ Drain \/ Notify
        <2>1. loop \in {"top", "select", "drain"}
            BY <1>4 DEF Top, PermitArm, ClientArm, MessageQuiet, MessageRename, MessageSnapshot,
                  MessageError, MessageAttach, MessageDetach, Answer, TakeMessage, ClientEnd,
                  KickArm, WriterArm, FairArm, Drain, DrainArm, DrainMore, DrainDone, Notify,
                  NotifyArm, LaggedArm
        <2> QED BY <2>1 DEF Over, Ending
    <1> QED BY <1>1, <1>2, <1>3, <1>4 DEF Next, Loop, Blocking, Teardown

\* What a step hands over: nothing, Detached as the connection ends, a reply, chunks,
\* a notification, or the names.
LEMMA StepAccepts ==
    ASSUME TypeOK, KindInv, [Next]_vars
    PROVE  \/ accepted' = accepted
           \/ /\ KickArm \/ MessageDetach
              /\ accepted' = accepted \o <<Control("detached")>>
           \/ /\ MessageError \/ MessageAttach \/ DrainDone \/ NotifyArm \/ LaggedArm
              /\ \E fs \in Seq(Frame) :
                    /\ accepted' = accepted \o fs
                    /\ OfKind(fs, ChunkKind \cup NoticeKind \cup {"reply", "created", "restore"})
    <1> DEFINE K == ChunkKind \cup NoticeKind \cup {"reply", "created", "restore"}
    <1>1. CASE KickArm \/ MessageDetach
        BY <1>1 DEF KickArm, MessageDetach, Answer, Accepted
    <1>2. CASE MessageError
        <2>1. <<Control("reply")>> \in Seq(Frame)
            BY ControlType DEF FrameKind
        <2>2. OfKind(<<Control("reply")>>, K)
            BY DEF OfKind, Control, Msg
        <2>3. accepted' = accepted \o <<Control("reply")>>
            BY <1>2 DEF MessageError, Answer, Accepted
        <2> QED BY <1>2, <2>1, <2>2, <2>3
    <1>3. CASE MessageAttach
        <2> DEFINE fs == <<Control("created"), Control("restore")>>
        <2>1. Control("created") \in Frame /\ Control("restore") \in Frame
            BY ControlType DEF FrameKind
        <2>2. fs \in Seq(Frame)
            BY <2>1
        <2>3. OfKind(fs, K)
            BY DEF OfKind, Control, Msg
        <2>4. accepted' = accepted \o fs
            BY <1>3 DEF MessageAttach, Answer, Accepted
        <2> HIDE DEF fs
        <2> QED BY <1>3, <2>2, <2>3, <2>4
    <1>4. CASE DrainDone
        <2>1. batch.frames \in Seq(Frame) /\ OfKind(batch.frames, K)
            BY DEF TypeOK, LoopType, KindInv, OfKind
        <2>2. accepted' = accepted \o batch.frames
            BY <1>4 DEF DrainDone, Accepted
        <2> QED BY <1>4, <2>1, <2>2
    <1>5. CASE NotifyArm
        <2>1. notices \in Seq(Frame) /\ notices # <<>> /\ OfKind(notices, NoticeKind)
            BY <1>5 DEF TypeOK, NoticeType, KindInv, NotifyArm, NotifyReady
        <2>2. Head(notices) \in Frame /\ Head(notices).type \in NoticeKind
            BY <2>1, HeadTailProperties, KindKept
        <2> DEFINE h == Head(notices)
        <2>3. accepted' = accepted \o <<h>>
            BY <1>5 DEF NotifyArm, Accepted
        <2> HIDE DEF h
        <2>4. h \in Frame /\ h.type \in NoticeKind
            BY <2>2 DEF h
        <2>5. <<h>> \in Seq(Frame) /\ OfKind(<<h>>, K)
            BY <2>4 DEF OfKind
        <2> QED BY <1>5, <2>3, <2>5
    <1>6. CASE LaggedArm
        <2>1. Resync \in Seq(Frame)
            BY ResyncType DEF TypeOK
        <2>2. OfKind(Resync, K)
            <3>1. \A i \in DOMAIN Resync : Resync[i].type = "rename"
                BY DEF Resync, Rename, Msg
            <3>2. DOMAIN Resync = 1 .. Len(Resync)
                BY <2>1, LenProperties
            <3> QED BY <3>1, <3>2 DEF OfKind, NoticeKind
        <2>3. accepted' = accepted \o Resync
            BY <1>6 DEF LaggedArm, Accepted
        <2> QED BY <1>6, <2>1, <2>2, <2>3
    <1>7. CASE ~\/ KickArm \/ MessageDetach \/ MessageError \/ MessageAttach
                \/ DrainDone \/ NotifyArm \/ LaggedArm
        <2>1. accepted' = accepted
            BY <1>7 DEF Next, Outside, ReaderReserve, ReaderRelease, Produce, TitleSet,
                  OtherRename, TitleSend, OtherBroadcast, ClientSends, Kick, Loop, Top,
                  PermitArm, ClientArm, MessageQuiet, MessageRename, MessageSnapshot, ClientEnd,
                  Blocking, BlockingSend, BlockingDone, BlockingFails, WriterArm, FairArm,
                  Drain, DrainArm, DrainMore, Notify, Teardown, Break, TeardownSend,
                  TeardownDone, Join, Timeout, Writer, WriterRecv, WriterMore, WriterWrite,
                  WriterExit, WriterFails, Terminated, vars
        <2> QED BY <2>1
    <1> QED BY <1>1, <1>2, <1>3, <1>4, <1>5, <1>6, <1>7

\* Every step keeps Detached last.
LEMMA StepEnd ==
    ASSUME TypeOK, KindInv, EndInv, [Next]_vars
    PROVE  EndInv'
    <1>t. accepted \in Seq(Frame) /\ Len(accepted) \in Nat
        BY LenProperties DEF TypeOK, AcceptedType
    <1>e. (Over => Over') /\ (Ending => Ending')
        BY EndingLasts
    <1>1. wasKicked' => Over'
        <2>1. CASE KickArm
            BY <2>1 DEF KickArm, Over
        <2>2. CASE ~KickArm
            <3>1. wasKicked' = wasKicked
                BY <2>2 DEF Next, Outside, ReaderReserve, ReaderRelease, Produce, TitleSet,
                  OtherRename, TitleSend, OtherBroadcast, ClientSends, Kick, Loop, Top,
                  PermitArm, ClientArm, MessageQuiet, MessageRename, MessageSnapshot,
                  MessageError, MessageAttach, MessageDetach, Answer, ClientEnd, Blocking,
                  BlockingSend, BlockingDone, BlockingFails, WriterArm, FairArm, Drain,
                  DrainArm, DrainMore, DrainDone, Notify, NotifyArm, LaggedArm, Teardown, Break,
                  TeardownSend, TeardownDone, Join, Timeout, Writer, WriterRecv, WriterMore,
                  WriterWrite, WriterExit, WriterFails, Terminated, vars, loopVars
            <3>2. wasKicked => Over
                BY DEF EndInv
            <3> QED BY <1>e, <3>1, <3>2, Zenon
        <2> QED BY <2>1, <2>2
    <1>2. ASSUME NEW i \in 1 .. Len(accepted'), accepted'[i].type = "detached"
          PROVE  i = Len(accepted') /\ Ending'
        <2>1. CASE accepted' = accepted
            BY <1>2, <1>e, <2>1 DEF EndInv
        <2>2. ASSUME KickArm \/ MessageDetach \/ MessageError \/ MessageAttach \/ DrainDone
                     \/ NotifyArm \/ LaggedArm
              PROVE  \A j \in 1 .. Len(accepted) : accepted[j].type # "detached"
            <3>1. loop \in {"select", "drain"}
                BY <2>2 DEF KickArm, MessageDetach, MessageError, MessageAttach, Answer,
                      TakeMessage, DrainDone, NotifyArm, LaggedArm
            <3>2. ~Ending
                BY <3>1 DEF Ending, Over
            <3> QED BY <3>2 DEF EndInv
        <2>3. CASE /\ KickArm \/ MessageDetach
                   /\ accepted' = accepted \o <<Control("detached")>>
            <3>1. <<Control("detached")>> \in Seq(Frame) /\ Len(<<Control("detached")>>) = 1
                BY ControlType DEF FrameKind
            <3>2. i \notin 1 .. Len(accepted)
                BY <1>t, <1>2, <2>2, <2>3, <3>1, ConcatElements
            <3>3. Len(accepted') = Len(accepted) + 1
                BY <1>t, <2>3, <3>1, ConcatElements
            <3>4. i = Len(accepted')
                BY <1>t, <3>2, <3>3
            <3>5. Ending'
                BY <2>3 DEF KickArm, MessageDetach, Answer, Ending, Over
            <3> QED BY <3>4, <3>5
        <2>4. ASSUME MessageError \/ MessageAttach \/ DrainDone \/ NotifyArm \/ LaggedArm,
                     NEW fs \in Seq(Frame), accepted' = accepted \o fs,
                     OfKind(fs, ChunkKind \cup NoticeKind \cup {"reply", "created", "restore"})
              PROVE  FALSE
            <3>1. \/ i \in 1 .. Len(accepted) /\ accepted'[i] = accepted[i]
                  \/ /\ i - Len(accepted) \in 1 .. Len(fs)
                     /\ accepted'[i] = fs[i - Len(accepted)]
                BY <1>t, <2>4, ConcatElements
            <3>2. \A j \in 1 .. Len(fs) : fs[j].type # "detached"
                BY <2>4 DEF OfKind, ChunkKind, NoticeKind
            <3> QED BY <1>2, <2>2, <2>4, <3>1, <3>2
        <2> QED BY <2>1, <2>3, <2>4, StepAccepts
    <1> QED BY <1>1, <1>2 DEF EndInv

\* Nothing reaches the client after Detached, because the wire is a prefix of what was
\* accepted.
LEMMA EndIsLast ==
    ASSUME TypeOK, DeliveryInv, EndInv
    PROVE  DetachedLast
    <1>t. /\ wire \in Seq(Frame) /\ accepted \in Seq(Frame) /\ wbatch \in Seq(Frame)
          /\ queue \in Seq(Frame) /\ Sent \in Seq(Frame)
        BY SeqTyped DEF SeqTypes
    <1>1. IsPrefix(wire, Sent)
        BY <1>t, HeldPrefix DEF Sent
    <1>2. IsPrefix(wire, accepted)
        BY <1>t, <1>1, PrefixTransitive DEF DeliveryInv, SentIsPrefix
    <1>3. Len(wire) <= Len(accepted) /\ \A i \in 1 .. Len(wire) : wire[i] = accepted[i]
        BY <1>t, <1>2, PrefixElements
    <1>4. Len(wire) \in Nat /\ Len(accepted) \in Nat
        BY <1>t, LenProperties
    <1> QED BY <1>3, <1>4 DEF DetachedLast, EndInv

-----------------------------------------------------------------------------
(* What is held *)

Limit == IF BatchLimit > Windows THEN BatchLimit ELSE Windows

\* No more is held than one batch or one resync, and Detached; a batch has no more
\* frames than chunks.
BoundInv ==
    /\ Len(remainder) <= Limit + (IF wasKicked THEN 1 ELSE 0)
    /\ Len(batch.frames) <= batch.n

\* Every step keeps the bound.
LEMMA StepBound ==
    ASSUME TypeOK, TypeOK', DeliveryInv, KindInv, EndInv, BoundInv, [Next]_vars
    PROVE  BoundInv'
    <1>t. /\ remainder \in Seq(Frame) /\ Len(remainder) \in Nat
          /\ remainder' \in Seq(Frame) /\ Len(remainder') \in Nat
          /\ batch \in [n : 0 .. BatchLimit, frames : Seq(Frame)] /\ Len(batch.frames) \in Nat
          /\ pending \in Seq(Frame) /\ notices \in Seq(Frame)
          /\ wasKicked \in BOOLEAN
        BY LenProperties DEF TypeOK, AdmitType, LoopType, SourceType, NoticeType
    <1>c. /\ BatchLimit \in Nat \ {0} /\ Windows \in Nat /\ Limit \in Nat \ {0}
          /\ BatchLimit <= Limit /\ Windows <= Limit
        BY ConnectionLoopAssumption DEF Limit
    <1>b. /\ Len(remainder) <= Limit + (IF wasKicked THEN 1 ELSE 0)
          /\ Len(batch.frames) <= batch.n
        BY DEF BoundInv
    <1>k. ~KickArm => wasKicked' = wasKicked
        BY DEF Next, Outside, ReaderReserve, ReaderRelease, Produce, TitleSet, OtherRename,
              TitleSend, OtherBroadcast, ClientSends, Kick, Loop, Top, PermitArm, ClientArm,
              MessageQuiet, MessageRename, MessageSnapshot, MessageError, MessageAttach,
              MessageDetach, Answer, ClientEnd, Blocking, BlockingSend, BlockingDone,
              BlockingFails, WriterArm, FairArm, Drain, DrainArm, DrainMore, DrainDone, Notify,
              NotifyArm, LaggedArm, Teardown, Break, TeardownSend, TeardownDone, Join, Timeout,
              Writer, WriterRecv, WriterMore, WriterWrite, WriterExit, WriterFails, Terminated,
              vars, loopVars
    <1>1. Len(remainder') <= Limit + (IF wasKicked' THEN 1 ELSE 0)
        <2>0. ASSUME NEW fs \in Seq(Frame), TryAdmit(fs), Len(fs) <= Limit, wasKicked' = wasKicked
              PROVE  Len(remainder') <= Limit + (IF wasKicked' THEN 1 ELSE 0)
            <3>1. CASE Gone
                <4>1. remainder' = remainder
                    BY <2>0, <3>1 DEF TryAdmit
                <4> QED BY <1>b, <2>0, <4>1
            <3>2. CASE ~Gone
                <4>1. Len(remainder') <= Len(fs) /\ Len(fs) \in Nat
                    BY <2>0, <3>2, TryAdmitArms, LenProperties
                <4>2. Len(remainder') <= Limit
                    BY <1>t, <1>c, <2>0, <4>1
                <4> QED BY <1>t, <1>c, <4>2
            <3> QED BY <3>1, <3>2
        <2>1. CASE KickArm
            <3> DEFINE d == <<Control("detached")>>
            <3>1. d \in Seq(Frame) /\ Len(d) = 1
                BY ControlType DEF FrameKind
            <3>2. PushOrAdmit(d) /\ wasKicked' = TRUE /\ loop = "select"
                BY <2>1 DEF KickArm
            <3> HIDE DEF d
            <3>3. ~wasKicked
                BY <3>2 DEF EndInv, Over
            <3>4. Len(remainder) <= Limit
                BY <1>t, <1>c, <1>b, <3>3
            <3>5. CASE Holding
                <4>1. remainder' = remainder \o d
                    BY <3>2, <3>5 DEF PushOrAdmit
                <4>a. Len(remainder \o d) = Len(remainder) + Len(d)
                    BY <1>t, <3>1, ConcatElements
                <4>2. Len(remainder') = Len(remainder) + 1
                    BY <3>1, <4>1, <4>a
                <4> QED BY <1>t, <1>c, <3>2, <3>4, <4>2
            <3>6. CASE ~Holding
                <4>1. TryAdmit(d)
                    BY <3>2, <3>6 DEF PushOrAdmit
                <4>2. CASE Gone
                    <5>1. remainder' = remainder
                        BY <4>1, <4>2 DEF TryAdmit
                    <5> QED BY <1>t, <1>c, <3>2, <3>4, <5>1
                <4>3. CASE ~Gone
                    <5>1. Len(remainder') <= 1
                        BY <3>1, <4>1, <4>3, TryAdmitArms
                    <5> QED BY <1>t, <1>c, <3>2, <5>1
                <4> QED BY <4>2, <4>3
            <3> QED BY <3>5, <3>6
        <2>2. CASE DrainDone
            <3>1. TryAdmit(batch.frames) /\ wasKicked' = wasKicked
                BY <2>2, <1>k DEF DrainDone, KickArm
            <3>2. Len(batch.frames) <= Limit /\ batch.frames \in Seq(Frame)
                BY <1>t, <1>c, <1>b
            <3> QED BY <2>0, <3>1, <3>2
        <2>3. CASE NotifyArm
            <3>1. /\ notices # <<>> /\ TryAdmit(<<Head(notices)>>)
                  /\ wasKicked' = wasKicked
                BY <2>3 DEF NotifyArm, NotifyReady, PushOrAdmit
            <3>2. Head(notices) \in Frame
                BY <1>t, <3>1, HeadTailProperties
            <3>3. <<Head(notices)>> \in Seq(Frame) /\ Len(<<Head(notices)>>) = 1
                BY <3>2
            <3>4. Len(<<Head(notices)>>) <= Limit
                BY <1>c, <3>3
            <3> QED BY <2>0, <3>1, <3>3, <3>4
        <2>4. CASE LaggedArm
            <3>1. TryAdmit(Resync) /\ wasKicked' = wasKicked
                BY <2>4 DEF LaggedArm, NotifyReady, PushOrAdmit
            <3>2. Resync \in Seq(Frame)
                BY ResyncType DEF TypeOK
            <3>3. Len(Resync) = Windows
                BY <1>c DEF Resync, Window
            <3>4. Len(Resync) <= Limit
                BY <1>c, <3>3
            <3> QED BY <2>0, <3>1, <3>2, <3>4
        <2>5. ASSUME ~KickArm, remainder' \in {remainder, <<>>} \/ remainder' = Tail(remainder),
                     remainder # <<>> \/ remainder' \in {remainder, <<>>}
              PROVE  Len(remainder') <= Limit + (IF wasKicked' THEN 1 ELSE 0)
            <3>1. Len(remainder') <= Len(remainder)
                <4>1. CASE remainder' = remainder
                    BY <1>t, <4>1
                <4>2. CASE remainder' = <<>>
                    BY <1>t, <4>2
                <4>3. CASE remainder # <<>> /\ remainder' = Tail(remainder)
                    BY <1>t, <4>3, HeadTailProperties
                <4> QED BY <2>5, <4>1, <4>2, <4>3
            <3> QED BY <1>t, <1>c, <1>b, <1>k, <2>5, <3>1
        <2>6. CASE PermitArm \/ BlockingSend \/ BlockingFails \/ TeardownSend
            <3>1. reserve => remainder # <<>>
                BY DEF DeliveryInv, HeldWhere
            <3>2. /\ remainder' \in {remainder, <<>>} \/ remainder' = Tail(remainder)
                  /\ remainder # <<>> \/ remainder' \in {remainder, <<>>}
                <4>1. CASE PermitArm
                    <5>1. reserve
                        BY <4>1 DEF PermitArm, PermitReady
                    <5>2. remainder # <<>>
                        BY <3>1, <5>1, Zenon
                    <5>3. remainder' \in {<<>>, Tail(remainder)}
                        BY <4>1 DEF PermitArm
                    <5> QED BY <5>2, <5>3
                <4>2. CASE BlockingSend \/ BlockingFails \/ TeardownSend
                    BY <4>2 DEF BlockingSend, BlockingFails, TeardownSend
                <4> QED BY <2>6, <4>1, <4>2
            <3>3. ~KickArm
                <4>1. CASE PermitArm
                    BY <4>1 DEF PermitArm, KickArm
                <4>2. CASE BlockingSend \/ BlockingFails \/ TeardownSend
                    BY <4>2 DEF BlockingSend, BlockingFails, TeardownSend, KickArm
                <4> QED BY <2>6, <4>1, <4>2
            <3> QED BY <2>5, <3>2, <3>3
        <2>7. CASE /\ ~KickArm
                   /\ \/ Outside \/ Top \/ ClientArm \/ BlockingDone \/ WriterArm \/ FairArm
                      \/ DrainArm \/ DrainMore \/ Break \/ TeardownDone \/ Join \/ Timeout
                      \/ Writer \/ WriterFails \/ Terminated \/ UNCHANGED vars
            <3>1. remainder' \in {remainder, <<>>}
                BY <2>7 DEF Outside, ReaderReserve, ReaderRelease, Produce, TitleSet,
                  OtherRename, TitleSend, OtherBroadcast, ClientSends, Kick, Top, ClientArm,
                  MessageQuiet, MessageRename, MessageSnapshot, MessageError, MessageAttach,
                  MessageDetach, Answer, ClientEnd, BlockingDone, WriterArm, FairArm, DrainArm,
                  DrainMore, Break, TeardownDone, Join, Timeout, Writer, WriterRecv, WriterMore,
                  WriterWrite, WriterExit, WriterFails, Terminated, vars, admitVars
            <3> QED BY <2>5, <2>7, <3>1
        <2> QED BY <2>1, <2>2, <2>3, <2>4, <2>6, <2>7
                DEF Next, Loop, Blocking, Drain, Notify, Teardown
    <1>2. Len(batch'.frames) <= batch'.n
        <2>1. CASE DrainArm
            <3>1. pending # <<>> /\ batch' = [n |-> 1, frames |-> Merge(<<>>, Head(pending))]
                BY <2>1 DEF DrainArm, DrainReady
            <3>2. Head(pending) \in Frame /\ Head(pending).type \in ChunkKind
                BY <1>t, <3>1, HeadTailProperties, KindKept DEF KindInv
            <3>3. <<>> \in Seq(Frame) /\ OfKind(<<>>, ChunkKind) /\ Len(<<>>) = 0
                BY DEF OfKind
            <3>4. Len(Merge(<<>>, Head(pending))) <= 0 + 1
                BY <3>2, <3>3, MergeKind
            <3> QED BY <3>1, <3>4
        <2>2. CASE DrainMore
            <3>1. /\ pending # <<>>
                  /\ batch' = [n |-> batch.n + 1, frames |-> Merge(batch.frames, Head(pending))]
                BY <2>2 DEF DrainMore
            <3>2. Head(pending) \in Frame /\ Head(pending).type \in ChunkKind
                BY <1>t, <3>1, HeadTailProperties, KindKept DEF KindInv
            <3> DEFINE m == Merge(batch.frames, Head(pending))
            <3>3. Len(m) <= Len(batch.frames) + 1
                BY <1>t, <3>2, MergeKind DEF KindInv
            <3>4. m \in Seq(Frame)
                BY <1>t, <3>2, MergeType
            <3> HIDE DEF m
            <3>5. Len(m) \in Nat
                BY <3>4, LenProperties
            <3>6. Len(m) <= batch.n + 1
                BY <1>t, <1>b, <3>3, <3>5
            <3>7. batch'.n = batch.n + 1 /\ batch'.frames = m
                BY <3>1 DEF m
            <3> QED BY <3>6, <3>7
        <2>3. CASE DrainDone
            <3>1. batch' = [n |-> 0, frames |-> <<>>]
                BY <2>3 DEF DrainDone
            <3> QED BY <3>1
        <2>4. CASE ~(DrainArm \/ DrainMore \/ DrainDone)
            <3>1. batch' = batch
                BY <2>4 DEF Next, Outside, ReaderReserve, ReaderRelease, Produce, TitleSet,
                  OtherRename, TitleSend, OtherBroadcast, ClientSends, Kick, Loop, Top,
                  PermitArm, ClientArm, MessageQuiet, MessageRename, MessageSnapshot,
                  MessageError, MessageAttach, MessageDetach, Answer, ClientEnd, Blocking,
                  BlockingSend, BlockingDone, BlockingFails, KickArm, WriterArm, FairArm, Drain,
                  Notify, NotifyArm, LaggedArm, Teardown, Break, TeardownSend, TeardownDone,
                  Join, Timeout, Writer, WriterRecv, WriterMore, WriterWrite, WriterExit,
                  WriterFails, Terminated, vars, loopVars
            <3> QED BY <1>b, <3>1
        <2> QED BY <2>1, <2>2, <2>3, <2>4
    <1> QED BY <1>1, <1>2 DEF BoundInv, Limit

-----------------------------------------------------------------------------
(* The names the client is told *)

\* Of a window that no message has renamed since: the last rename on its way gives it its
\* name; without one on its way, and
\* unless notifications have been lost, the last one handed over does.
Told(w) ==
    IF Named(title, w) THEN Says(title, w, name[w])
    ELSE IF Named(notices, w) THEN Says(notices, w, name[w])
    ELSE Running /\ ~lagged =>
           IF Named(accepted, w) THEN Says(accepted, w, name[w]) ELSE name[w] = 0

NameInv == \A w \in Window \ renamed : Told(w)

\* A concatenation names what one of its parts names.
LEMMA ConcatNamed ==
    ASSUME NEW s \in Seq(Frame), NEW t \in Seq(Frame), NEW w
    PROVE  Named(s \o t, w) <=> Named(s, w) \/ Named(t, w)
    <1> DEFINE u == s \o t
    <1>1. /\ Len(u) = Len(s) + Len(t) /\ Len(s) \in Nat /\ Len(t) \in Nat
          /\ \A i \in 1 .. Len(s) : u[i] = s[i]
          /\ \A i \in 1 .. Len(t) : u[Len(s) + i] = t[i]
          /\ \A i \in 1 .. Len(u) :
                 \/ i \in 1 .. Len(s) /\ u[i] = s[i]
                 \/ i - Len(s) \in 1 .. Len(t) /\ u[i] = t[i - Len(s)]
        BY ConcatElements
    <1> HIDE DEF u
    <1>2. ASSUME Named(u, w) PROVE Named(s, w) \/ Named(t, w)
        BY <1>1, <1>2 DEF Named, RenameAt
    <1>3. ASSUME Named(s, w) PROVE Named(u, w)
        <2>1. PICK i \in 1 .. Len(s) : RenameAt(s, w, i)
            BY <1>3 DEF Named
        <2>2. i \in 1 .. Len(u) /\ u[i] = s[i]
            BY <1>1
        <2> QED BY <2>1, <2>2 DEF Named, RenameAt
    <1>4. ASSUME Named(t, w) PROVE Named(u, w)
        <2>1. PICK i \in 1 .. Len(t) : RenameAt(t, w, i)
            BY <1>4 DEF Named
        <2>2. Len(s) + i \in 1 .. Len(u) /\ u[Len(s) + i] = t[i]
            BY <1>1
        <2> QED BY <2>1, <2>2 DEF Named, RenameAt
    <1> QED BY <1>2, <1>3, <1>4 DEF u

\* Its last rename is that of its second part, if that has one.
LEMMA ConcatSays ==
    ASSUME NEW s \in Seq(Frame), NEW t \in Seq(Frame), NEW w, NEW v
    PROVE  Says(s \o t, w, v) <=> IF Named(t, w) THEN Says(t, w, v) ELSE Says(s, w, v)
    <1> DEFINE u == s \o t
    <1>1. /\ Len(u) = Len(s) + Len(t) /\ Len(s) \in Nat /\ Len(t) \in Nat
          /\ \A i \in 1 .. Len(s) : u[i] = s[i]
          /\ \A i \in 1 .. Len(t) : u[Len(s) + i] = t[i]
          /\ \A i \in 1 .. Len(u) :
                 \/ i \in 1 .. Len(s) /\ u[i] = s[i]
                 \/ /\ i > Len(s) /\ i - Len(s) \in 1 .. Len(t)
                    /\ u[i] = t[i - Len(s)]
        BY ConcatElements
    <1> HIDE DEF u
    <1>2. ASSUME Named(t, w), Says(t, w, v) PROVE Says(u, w, v)
        <2>1. PICK i \in 1 .. Len(t) : /\ RenameAt(t, w, i) /\ t[i].data = <<v>>
                                       /\ \A j \in 1 .. Len(t) : RenameAt(t, w, j) => j <= i
            BY <1>2 DEF Says
        <2>2. /\ Len(s) + i \in 1 .. Len(u) /\ u[Len(s) + i] = t[i]
            BY <1>1
        <2>3. ASSUME NEW j \in 1 .. Len(u), RenameAt(u, w, j) PROVE j <= Len(s) + i
            <3>1. CASE j \in 1 .. Len(s)
                BY <1>1, <3>1
            <3>2. CASE j - Len(s) \in 1 .. Len(t) /\ u[j] = t[j - Len(s)]
                <4>1. j - Len(s) <= i
                    BY <2>1, <2>3, <3>2 DEF RenameAt
                <4> QED BY <1>1, <4>1
            <3> QED BY <1>1, <3>1, <3>2
        <2> QED BY <2>1, <2>2, <2>3 DEF Says, RenameAt
    <1>3. ASSUME Named(t, w), Says(u, w, v) PROVE Says(t, w, v)
        <2>1. PICK i \in 1 .. Len(u) : /\ RenameAt(u, w, i) /\ u[i].data = <<v>>
                                       /\ \A j \in 1 .. Len(u) : RenameAt(u, w, j) => j <= i
            BY <1>3 DEF Says
        <2>2. PICK k \in 1 .. Len(t) : RenameAt(t, w, k)
            BY <1>3 DEF Named
        <2>3. Len(s) + k \in 1 .. Len(u) /\ u[Len(s) + k] = t[k]
            BY <1>1
        <2>4. Len(s) + k <= i
            BY <2>1, <2>2, <2>3 DEF RenameAt
        <2>5. i - Len(s) \in 1 .. Len(t) /\ u[i] = t[i - Len(s)]
            BY <1>1, <2>4
        <2>6. ASSUME NEW j \in 1 .. Len(t), RenameAt(t, w, j) PROVE j <= i - Len(s)
            <3>1. Len(s) + j \in 1 .. Len(u) /\ u[Len(s) + j] = t[j]
                BY <1>1
            <3>2. Len(s) + j <= i
                BY <2>1, <2>6, <3>1 DEF RenameAt
            <3> QED BY <1>1, <3>2
        <2> QED BY <2>1, <2>5, <2>6 DEF Says, RenameAt
    <1>4. ASSUME ~Named(t, w), Says(s, w, v) PROVE Says(u, w, v)
        <2>1. PICK i \in 1 .. Len(s) : /\ RenameAt(s, w, i) /\ s[i].data = <<v>>
                                       /\ \A j \in 1 .. Len(s) : RenameAt(s, w, j) => j <= i
            BY <1>4 DEF Says
        <2>2. i \in 1 .. Len(u) /\ u[i] = s[i]
            BY <1>1
        <2>3. ASSUME NEW j \in 1 .. Len(u), RenameAt(u, w, j) PROVE j <= i
            BY <1>1, <1>4, <2>1, <2>3 DEF Named, RenameAt
        <2> QED BY <2>1, <2>2, <2>3 DEF Says, RenameAt
    <1>5. ASSUME ~Named(t, w), Says(u, w, v) PROVE Says(s, w, v)
        <2>1. PICK i \in 1 .. Len(u) : /\ RenameAt(u, w, i) /\ u[i].data = <<v>>
                                       /\ \A j \in 1 .. Len(u) : RenameAt(u, w, j) => j <= i
            BY <1>5 DEF Says
        <2>2. i \in 1 .. Len(s) /\ u[i] = s[i]
            BY <1>1, <1>5, <2>1 DEF Named, RenameAt
        <2>3. ASSUME NEW j \in 1 .. Len(s), RenameAt(s, w, j) PROVE j <= i
            <3>1. j \in 1 .. Len(u) /\ u[j] = s[j]
                BY <1>1
            <3> QED BY <2>1, <2>3, <3>1 DEF RenameAt
        <2> QED BY <2>1, <2>2, <2>3 DEF Says, RenameAt
    <1> QED BY <1>2, <1>3, <1>4, <1>5 DEF u

\* A sequence is its first frame and the rest.
LEMMA FirstAndRest ==
    ASSUME NEW s \in Seq(Frame), s # <<>>
    PROVE  /\ Head(s) \in Frame /\ Tail(s) \in Seq(Frame) /\ s = <<Head(s)>> \o Tail(s)
           /\ Len(s) <= 1 => s = <<Head(s)>>
    <1> DEFINE h == Head(s)
               r == Tail(s)
               e == <<>>
    <1>1. h \in Frame /\ r \in Seq(Frame) /\ Len(r) = Len(s) - 1 /\ Len(s) \in Nat
        BY HeadTailProperties, LenProperties
    <1>2. Append(e, h) \o r = e \o s
        BY MoveHead
    <1>3. e \o s = s
        BY ConcatEmptySeq
    <1>4. Append(e, h) = <<h>>
        BY <1>1
    <1>5. <<h>> \o r = s
        BY <1>2, <1>3, <1>4
    <1> HIDE DEF h, r
    <1>6. ASSUME Len(s) <= 1 PROVE s = <<h>>
        <2>1. r = <<>>
            BY <1>1, <1>6, EmptySeq
        <2>2. <<h>> \in Seq(Frame)
            BY <1>1
        <2>3. <<h>> \o r = <<h>>
            BY <2>1, <2>2, ConcatEmptySeq
        <2> QED BY <1>5, <2>3
    <1> QED BY <1>1, <1>5, <1>6 DEF h, r

\* One frame, and frames of other kinds.
LEMMA OneNamed ==
    ASSUME NEW f \in Frame, NEW w, NEW v
    PROVE  /\ <<f>> \in Seq(Frame)
           /\ Named(<<f>>, w) <=> f.type = "rename" /\ f.id = w
           /\ Named(<<f>>, w) /\ f.data = <<v>> => Says(<<f>>, w, v)
    <1>1. Len(<<f>>) = 1 /\ <<f>>[1] = f /\ <<f>> \in Seq(Frame)
        OBVIOUS
    <1> QED BY <1>1 DEF Named, Says, RenameAt

LEMMA NotNamed ==
    ASSUME NEW K, NEW s, OfKind(s, K), "rename" \notin K, NEW w
    PROVE  ~Named(s, w)
    BY DEF OfKind, Named, RenameAt

\* What a broadcast does to the renames on their way.
LEMMA BroadcastNames ==
    ASSUME TypeOK, NEW m \in Frame, Broadcast(m), NEW w, NEW v
    PROVE  /\ Named(<<m>>, w) => /\ Named(notices', w)
                                 /\ Says(<<m>>, w, v) => Says(notices', w, v)
           /\ ~Named(<<m>>, w) =>
                 /\ Named(notices', w) => /\ Named(notices, w)
                                          /\ Says(notices, w, v) => Says(notices', w, v)
                 /\ ~Named(notices', w) => lagged' \/ ~Named(notices, w)
           /\ ~lagged' => ~lagged
    <1>t. /\ notices \in Seq(Frame) /\ <<m>> \in Seq(Frame) /\ Len(notices) \in Nat
          /\ NotifyCap \in Nat \ {0}
        BY ConnectionLoopAssumption, LenProperties DEF TypeOK, NoticeType
    <1>1. CASE Len(notices) < NotifyCap
        <2>1. notices' = notices \o <<m>> /\ lagged' = lagged
            BY <1>t, <1>1 DEF Broadcast
        <2>2. Named(notices \o <<m>>, w) <=> Named(notices, w) \/ Named(<<m>>, w)
            BY <1>t, ConcatNamed
        <2>3. Says(notices \o <<m>>, w, v)
                <=> IF Named(<<m>>, w) THEN Says(<<m>>, w, v) ELSE Says(notices, w, v)
            BY <1>t, ConcatSays
        <2> QED BY ONLY <2>1, <2>2, <2>3
    <1>2. CASE ~(Len(notices) < NotifyCap)
        <2> DEFINE h == Head(notices)
                   r == Tail(notices)
        <2>0. notices # <<>>
            BY <1>t, <1>2
        <2>1. h \in Frame /\ r \in Seq(Frame) /\ notices = <<h>> \o r
            BY <1>t, <2>0, FirstAndRest
        <2>a. notices' = Append(r, m) /\ lagged' = TRUE
            BY <1>2 DEF Broadcast
        <2> HIDE DEF h, r
        <2>b. Append(r, m) = r \o <<m>>
            BY <2>1
        <2>2. notices' = r \o <<m>> /\ lagged' = TRUE
            BY <2>a, <2>b
        <2>3. <<h>> \in Seq(Frame)
            BY <2>1
        <2>4. Named(r \o <<m>>, w) <=> Named(r, w) \/ Named(<<m>>, w)
            BY <1>t, <2>1, ConcatNamed
        <2>5. Says(r \o <<m>>, w, v)
                <=> IF Named(<<m>>, w) THEN Says(<<m>>, w, v) ELSE Says(r, w, v)
            BY <1>t, <2>1, ConcatSays
        <2>6. Named(<<h>> \o r, w) <=> Named(<<h>>, w) \/ Named(r, w)
            BY <2>1, <2>3, ConcatNamed
        <2>7. Says(<<h>> \o r, w, v)
                <=> IF Named(r, w) THEN Says(r, w, v) ELSE Says(<<h>>, w, v)
            BY <2>1, <2>3, ConcatSays
        <2> QED BY ONLY <2>1, <2>2, <2>4, <2>5, <2>6, <2>7
    <1> QED BY <1>1, <1>2

\* The resync says every window's name.
LEMMA ResyncSays ==
    ASSUME TypeOK, NEW w \in Window
    PROVE  Named(Resync, w) /\ Says(Resync, w, name[w])
    <1>1. Resync \in Seq(Frame) /\ Windows \in Nat
        BY ResyncType, ConnectionLoopAssumption DEF TypeOK
    <1>2. Len(Resync) = Windows
        BY <1>1 DEF Resync, Window
    <1>3. ASSUME NEW i \in 1 .. Windows
          PROVE  Resync[i].type = "rename" /\ Resync[i].id = i /\ Resync[i].data = <<name[i]>>
        BY DEF Resync, Rename, Msg, Window
    <1>4. w \in 1 .. Windows
        BY DEF Window
    <1> HIDE DEF Resync
    <1> QED BY <1>1, <1>2, <1>3, <1>4 DEF Named, Says, RenameAt

\* A loop that has been left is not entered again.
LEMMA RunningLasts ==
    ASSUME TypeOK, TypeOK', [Next]_vars
    PROVE  Running' => Running
    <1>1. (Over <=> ~Running) /\ (Over <=> ~Running)'
        BY DEF TypeOK, LoopType, Over, Running
    <1> QED BY <1>1, EndingLasts, Zenon

\* Every step keeps the names.
LEMMA StepNames ==
    ASSUME TypeOK, TypeOK', KindInv, NameInv, [Next]_vars
    PROVE  NameInv'
    <1>t. /\ accepted \in Seq(Frame) /\ notices \in Seq(Frame) /\ title \in Seq(Frame)
          /\ notices' \in Seq(Frame)
        BY DEF TypeOK, AcceptedType, NoticeType
    <1>r. Running' => Running
        BY RunningLasts
    <1> SUFFICES ASSUME NEW w \in Window \ renamed' PROVE Told(w)'
        BY DEF NameInv
    <1>w. w \notin renamed => Told(w)
        BY DEF NameInv
    <1>0. ~Named(<<>>, w)
        BY DEF Named
    <1>1. ASSUME NEW u \in Window, TitleSet(u) PROVE Told(w)'
        <2>0. renamed' = renamed \ {u}
            BY <1>1 DEF TitleSet
        <2> DEFINE m == Msg("rename", u, <<name[u] + 1>>)
        <2>1. /\ title = <<>> /\ title' = <<m>> /\ name' = [name EXCEPT ![u] = @ + 1]
              /\ UNCHANGED <<notices, lagged, accepted, loop>>
            BY <1>1 DEF TitleSet, loopVars
        <2>2. m \in Frame /\ m.type = "rename" /\ m.id = u /\ m.data = <<name[u] + 1>>
            <3>1. <<name[u] + 1>> \in Seq(Nat)
                BY DEF TypeOK, NoticeType
            <3> QED BY <3>1, MsgType DEF FrameKind, Msg
        <2> HIDE DEF m
        <2>3. name \in [Window -> Nat]
            BY DEF TypeOK, NoticeType
        <2>4. CASE u = w
            <3>1. Named(<<m>>, w) /\ Says(<<m>>, w, name[w] + 1)
                BY <2>2, <2>4, OneNamed
            <3>2. name'[w] = name[w] + 1
                BY <2>1, <2>3, <2>4
            <3> QED BY <2>1, <3>1, <3>2 DEF Told
        <2>5. CASE u # w
            <3>1. ~Named(<<m>>, w)
                BY <2>2, <2>5, OneNamed
            <3>2. name'[w] = name[w]
                BY <2>1, <2>3, <2>5
            <3> QED BY <1>w, <1>0, <2>0, <2>1, <2>5, <3>1, <3>2 DEF Told, Running
        <2> QED BY <2>4, <2>5
    <1>2. CASE TitleSend
        <2> DEFINE h == Head(title)
        <2>1. /\ title # <<>> /\ Broadcast(h) /\ title' = <<>>
              /\ UNCHANGED <<name, renamed, accepted, loop>>
            BY <1>2 DEF TitleSend, loopVars
        <2>2. h \in Frame /\ title = <<h>>
            BY <1>t, <2>1, FirstAndRest DEF KindInv
        <2> HIDE DEF h
        <2>4. /\ Named(<<h>>, w) =>
                    /\ Named(notices', w)
                    /\ Says(<<h>>, w, name[w]) => Says(notices', w, name[w])
              /\ ~Named(<<h>>, w) =>
                     /\ Named(notices', w) =>
                           /\ Named(notices, w)
                           /\ Says(notices, w, name[w]) => Says(notices', w, name[w])
                     /\ ~Named(notices', w) => lagged' \/ ~Named(notices, w)
              /\ ~lagged' => ~lagged
            BY <2>1, <2>2, BroadcastNames
        <2>5. /\ ~Named(title', w) /\ (Named(title, w) <=> Named(<<h>>, w))
              /\ Says(title, w, name[w]) <=> Says(<<h>>, w, name[w])
            BY ONLY <1>0, <2>1, <2>2
        <2>6. name'[w] = name[w] /\ accepted' = accepted /\ (Running' <=> Running)
            BY <2>1 DEF Running
        <2>7. CASE Named(<<h>>, w)
            <3>1. Says(title, w, name[w])
                BY <1>w, <2>1, <2>5, <2>7 DEF Told
            <3>2. ~Named(title', w) /\ Named(notices', w) /\ Says(notices', w, name[w])
                BY <2>4, <2>5, <2>7, <3>1
            <3> QED BY <2>6, <3>2 DEF Told
        <2>8. CASE ~Named(<<h>>, w) /\ Named(notices', w)
            <3>1. ~Named(title, w) /\ Named(notices, w)
                BY <2>4, <2>5, <2>8
            <3>2. Says(notices, w, name[w])
                BY <1>w, <2>1, <3>1 DEF Told
            <3>3. ~Named(title', w) /\ Says(notices', w, name[w])
                BY <2>4, <2>5, <2>8, <3>2
            <3> QED BY <2>6, <2>8, <3>3 DEF Told
        <2>9. CASE ~Named(<<h>>, w) /\ ~Named(notices', w)
            <3>1. ~Named(title', w) /\ ~Named(title, w) /\ (lagged' \/ ~Named(notices, w))
                BY <2>4, <2>5, <2>9
            <3> QED BY <1>w, <2>1, <2>4, <2>6, <2>9, <3>1 DEF Told
        <2> QED BY <2>7, <2>8, <2>9
    <1>3. ASSUME NEW t \in {"upgrading", "notify"}, OtherBroadcast(t) PROVE Told(w)'
        <2> DEFINE m == Control(t)
        <2>1. Broadcast(m) /\ UNCHANGED <<name, renamed, title, accepted, loop>>
            BY <1>3 DEF OtherBroadcast, loopVars
        <2>2. m \in Frame /\ m.type # "rename"
            BY ControlType DEF FrameKind, Control, Msg
        <2> HIDE DEF m
        <2>3. ~Named(<<m>>, w)
            BY <2>2, OneNamed
        <2>4. /\ Named(notices', w) =>
                     /\ Named(notices, w)
                     /\ Says(notices, w, name[w]) => Says(notices', w, name[w])
              /\ ~Named(notices', w) => lagged' \/ ~Named(notices, w)
              /\ ~lagged' => ~lagged
            BY <2>1, <2>2, <2>3, BroadcastNames
        <2> QED BY <1>w, <2>1, <2>4 DEF Told, Running
    <1>4. CASE NotifyArm
        <2> DEFINE h == Head(notices)
        <2>1. /\ notices # <<>> /\ notices' = Tail(notices) /\ accepted' = accepted \o <<h>>
              /\ UNCHANGED <<name, renamed, title, lagged>>
            BY <1>4 DEF NotifyArm, NotifyReady, Accepted
        <2>2. h \in Frame /\ notices = <<h>> \o notices'
            BY <1>t, <2>1, FirstAndRest
        <2> HIDE DEF h
        <2>3. <<h>> \in Seq(Frame)
            BY <2>2
        <2>4. Named(<<h>> \o notices', w) <=> Named(<<h>>, w) \/ Named(notices', w)
            BY <1>t, <2>3, ConcatNamed
        <2>5. Says(<<h>> \o notices', w, name[w])
                <=> IF Named(notices', w) THEN Says(notices', w, name[w])
                    ELSE Says(<<h>>, w, name[w])
            BY <1>t, <2>3, ConcatSays
        <2>6. Named(accepted \o <<h>>, w) <=> Named(accepted, w) \/ Named(<<h>>, w)
            BY <1>t, <2>3, ConcatNamed
        <2>7. Says(accepted \o <<h>>, w, name[w])
                <=> IF Named(<<h>>, w) THEN Says(<<h>>, w, name[w])
                    ELSE Says(accepted, w, name[w])
            BY <1>t, <2>3, ConcatSays
        <2>8. /\ Named(notices, w) <=> Named(<<h>>, w) \/ Named(notices', w)
              /\ Says(notices, w, name[w])
                   <=> IF Named(notices', w) THEN Says(notices', w, name[w])
                       ELSE Says(<<h>>, w, name[w])
              /\ Named(accepted', w) <=> Named(accepted, w) \/ Named(<<h>>, w)
              /\ Says(accepted', w, name[w])
                   <=> IF Named(<<h>>, w) THEN Says(<<h>>, w, name[w])
                       ELSE Says(accepted, w, name[w])
            BY ONLY <2>1, <2>2, <2>4, <2>5, <2>6, <2>7
        <2> QED BY <1>w, <1>r, <2>1, <2>8 DEF Told
    <1>5. CASE LaggedArm
        <2> DEFINE s == Resync
        <2>1. /\ accepted' = accepted \o s /\ UNCHANGED <<name, title, notices>>
              /\ renamed' = {u \in renamed : Named(notices, u) \/ Named(title, u)}
            BY <1>5 DEF LaggedArm, Accepted
        <2>2. s \in Seq(Frame) /\ Named(s, w) /\ Says(s, w, name[w])
            BY ResyncType, ResyncSays DEF TypeOK
        <2> HIDE DEF s
        <2>3. Named(accepted \o s, w) /\ Says(accepted \o s, w, name[w])
            BY <1>t, <2>2, ConcatNamed, ConcatSays
        <2>4. w \in renamed => ~Named(notices, w) /\ ~Named(title, w)
            BY <2>1
        <2> QED BY <1>w, <2>1, <2>3, <2>4 DEF Told
    <1>6. CASE \/ KickArm \/ MessageDetach \/ MessageError \/ MessageAttach \/ DrainDone
        <2>1. UNCHANGED <<name, renamed, title, notices, lagged>>
            BY <1>6 DEF KickArm, MessageDetach, MessageError, MessageAttach, Answer, DrainDone,
                  noticeVars
        <2> DEFINE K == ChunkKind \cup {"reply", "created", "restore", "detached"}
        <2>2. PICK fs \in Seq(Frame) : accepted' = accepted \o fs /\ OfKind(fs, K)
            <3>1. CASE KickArm \/ MessageDetach
                <4>1. /\ <<Control("detached")>> \in Seq(Frame)
                      /\ accepted' = accepted \o <<Control("detached")>>
                    BY <3>1, ControlType DEF KickArm, MessageDetach, Answer, Accepted, FrameKind
                <4>2. OfKind(<<Control("detached")>>, K)
                    BY DEF OfKind, Control, Msg
                <4> QED BY <4>1, <4>2
            <3>2. CASE MessageError
                <4>1. /\ <<Control("reply")>> \in Seq(Frame)
                      /\ accepted' = accepted \o <<Control("reply")>>
                    BY <3>2, ControlType DEF MessageError, Answer, Accepted, FrameKind
                <4>2. OfKind(<<Control("reply")>>, K)
                    BY DEF OfKind, Control, Msg
                <4> QED BY <4>1, <4>2
            <3>3. CASE MessageAttach
                <4> DEFINE fs == <<Control("created"), Control("restore")>>
                <4>1. Control("created") \in Frame /\ Control("restore") \in Frame
                    BY ControlType DEF FrameKind
                <4>2. fs \in Seq(Frame) /\ accepted' = accepted \o fs
                    BY <3>3, <4>1 DEF MessageAttach, Answer, Accepted
                <4>3. OfKind(fs, K)
                    BY DEF OfKind, Control, Msg
                <4> HIDE DEF fs
                <4> QED BY <4>2, <4>3
            <3>4. CASE DrainDone
                <4>1. batch.frames \in Seq(Frame) /\ OfKind(batch.frames, K)
                    BY DEF TypeOK, LoopType, KindInv, OfKind
                <4>2. accepted' = accepted \o batch.frames
                    BY <3>4 DEF DrainDone, Accepted
                <4> QED BY <4>1, <4>2
            <3> QED BY <1>6, <3>1, <3>2, <3>3, <3>4
        <2>3. ~Named(fs, w)
            <3>1. "rename" \notin K
                BY DEF ChunkKind
            <3> HIDE DEF K
            <3> QED BY <2>2, <3>1, NotNamed
        <2>4. Named(accepted \o fs, w) <=> Named(accepted, w) \/ Named(fs, w)
            BY <1>t, ConcatNamed
        <2>5. Says(accepted \o fs, w, name[w])
                <=> IF Named(fs, w) THEN Says(fs, w, name[w]) ELSE Says(accepted, w, name[w])
            BY <1>t, ConcatSays
        <2>6. /\ Named(accepted', w) <=> Named(accepted, w)
              /\ Says(accepted', w, name[w]) <=> Says(accepted, w, name[w])
            BY ONLY <2>2, <2>3, <2>4, <2>5
        <2> QED BY <1>w, <1>r, <2>1, <2>6 DEF Told
    <1>7. CASE \/ ReaderReserve \/ ReaderRelease
               \/ (\E p \in Pane, t \in {"output", "exited"} : Produce(p, t))
               \/ (\E s \in {"some", "eof"} : ClientSends(s)) \/ Kick
               \/ Top \/ PermitArm \/ MessageQuiet
               \/ (\E p \in Pane : MessageSnapshot(p))
               \/ ClientEnd \/ Blocking \/ WriterArm \/ FairArm \/ DrainArm \/ DrainMore
               \/ Teardown \/ Timeout \/ Writer \/ WriterFails \/ Terminated \/ UNCHANGED vars
        <2>1. UNCHANGED <<name, renamed, title, notices, lagged, accepted>>
            BY <1>7 DEF ReaderReserve, ReaderRelease, Produce, ClientSends, Kick, Top,
                  PermitArm, MessageQuiet, MessageRename, MessageSnapshot, ClientEnd, Blocking,
                  BlockingSend, BlockingDone, BlockingFails, WriterArm, FairArm, DrainArm,
                  DrainMore, Teardown, Break, TeardownSend, TeardownDone, Join, Timeout, Writer,
                  WriterRecv, WriterMore, WriterWrite, WriterExit, WriterFails, Terminated,
                  vars, noticeVars
        <2> QED BY <1>w, <1>r, <2>1 DEF Told
    <1>8. ASSUME NEW u \in Window, OtherRename(u) \/ MessageRename(u) PROVE Told(w)'
        <2>1. /\ name' = [name EXCEPT ![u] = @ + 1] /\ renamed' = renamed \cup {u}
              /\ UNCHANGED <<title, notices, lagged, accepted>>
            BY <1>8 DEF OtherRename, MessageRename, RenameSilently
        <2>2. w # u /\ w \notin renamed
            BY <2>1
        <2>3. name'[w] = name[w]
            BY <2>1, <2>2 DEF TypeOK, NoticeType
        <2> QED BY <1>w, <1>r, <2>1, <2>2, <2>3 DEF Told
    <1> QED BY <1>1, <1>2, <1>3, <1>4, <1>5, <1>6, <1>7, <1>8
            DEF Next, Outside, Loop, ClientArm, Drain, Notify

\* The invariant in terms of all that has been or will be handed over.
LEMMA NamesAreFresh ==
    ASSUME TypeOK, NameInv
    PROVE  NamesFresh
    <1>t. /\ accepted \in Seq(Frame) /\ notices \in Seq(Frame) /\ title \in Seq(Frame)
        BY DEF TypeOK, AcceptedType, NoticeType
    <1> DEFINE a == accepted \o notices
               told == a \o title
    <1> SUFFICES ASSUME Running, ~lagged, NEW w \in Window \ renamed
                 PROVE  IF Named(told, w) THEN Says(told, w, name[w]) ELSE name[w] = 0
        BY DEF NamesFresh, NameIsTold
    <1>1. a \in Seq(Frame)
        BY <1>t, ConcatProperties
    <1>2. Named(a, w) <=> Named(accepted, w) \/ Named(notices, w)
        BY <1>t, ConcatNamed
    <1>3. Says(a, w, name[w]) <=> IF Named(notices, w) THEN Says(notices, w, name[w])
                                  ELSE Says(accepted, w, name[w])
        BY <1>t, ConcatSays
    <1> HIDE DEF a
    <1>4. Named(told, w) <=> Named(a, w) \/ Named(title, w)
        BY <1>t, <1>1, ConcatNamed
    <1>5. Says(told, w, name[w]) <=> IF Named(title, w) THEN Says(title, w, name[w])
                                     ELSE Says(a, w, name[w])
        BY <1>t, <1>1, ConcatSays
    <1>6. Told(w)
        BY DEF NameInv
    <1> HIDE DEF told
    <1> QED BY <1>2, <1>3, <1>4, <1>5, <1>6 DEF Told

-----------------------------------------------------------------------------
(* The theorems *)

\* Everything a step needs of the state before it.
KeptInv == HeldIsArmed /\ AckAfterFlush /\ KindInv /\ EndInv /\ BoundInv /\ NameInv

LEMMA InitKept == Init => KeptInv
    <1> SUFFICES ASSUME Init PROVE KeptInv
        OBVIOUS
    <1>1. HeldIsArmed /\ AckAfterFlush
        <2>1. wire \in Seq(Frame)
            BY DEF Init
        <2>2. Upgradings(wire) \in Nat
            BY <2>1, UpgradingFinite
        <2> QED BY <2>2 DEF Init, HeldIsArmed, AckAfterFlush
    <1>2. KindInv /\ EndInv
        BY DEF Init, KindInv, OfKind, EndInv
    <1>3. BoundInv
        BY ConnectionLoopAssumption DEF Init, BoundInv, Limit
    <1>4. NameInv
        BY DEF Init, NameInv, Told, Named
    <1> QED BY <1>1, <1>2, <1>3, <1>4 DEF KeptInv

LEMMA KeptInductive == Spec => [](TypeOK /\ DeliveryInv /\ KeptInv)
    <1>1. TypeOK /\ DeliveryInv /\ TypeOK' /\ KeptInv /\ [Next]_vars => KeptInv'
        BY StepArmed, StepAck, StepKind, StepEnd, StepBound, StepNames DEF KeptInv
    <1> QED BY <1>1, InitKept, Inductive, PTL DEF Spec

\* Whatever the sizes are, in the loop of handle_connection a reservation is armed exactly
\* while a remainder is held, Detached is the last frame on the wire, no upgrade is
\* acknowledged before its frame has been written, and the last name of a window, unless a
\* RenameWindow set it since the last title or resync, is on its way or told, also after
\* notifications were lost.
THEOREM KeptCorrect == Spec => []ConnectionKept
    <1>1. TypeOK /\ DeliveryInv /\ KeptInv => ConnectionKept
        BY EndIsLast, NamesAreFresh DEF KeptInv, ConnectionKept
    <1> QED BY <1>1, KeptInductive, PTL

\* A client that does not read makes the OutboundAdmission hold one batch of output or one
\* resync at most, and its Detached.
THEOREM BoundCorrect == Spec => []HeldBounded
    <1>1. KeptInv => HeldBounded
        BY DEF KeptInv, BoundInv, HeldBounded, Limit
    <1> QED BY <1>1, KeptInductive, PTL

=============================================================================
