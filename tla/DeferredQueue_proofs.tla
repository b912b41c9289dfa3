------------------------- MODULE DeferredQueue_proofs -------------------------
(***************************************************************************)
(* Proofs about DeferredQueue, for any set of panes, any capacity of the   *)
(* channel and any limit on the queued chunks: the queue stays coalesced   *)
(* and bounded, no client gets an older snapshot after a newer one, every  *)
(* newest request is answered or its chunk was evicted, an eviction has    *)
(* its reason, and no resume is lost.                                      *)
(***************************************************************************)
EXTENDS DeferredQueue, FiniteSetTheorems, SequenceTheorems, WellFoundedInduction, TLAPS

\* The entries of a queue; those of one queue are all different, so their set says it all
\* except for their order.
Entry == [k : {"chunk", "resume"}, pane : Pane, v : 0 .. MaxVersion]

\* The panes that have a chunk queued.
Waiting(q) == {e.pane : e \in {x \in Range(q) : x.k = "chunk"}}

-----------------------------------------------------------------------------
(* The inductive invariant. *)

\* Of two entries of one pane the first is its chunk and the second its resume.
Ordered(q) ==
    \A i, j \in DOMAIN q : (i < j /\ q[i].pane = q[j].pane) =>
        q[i].k = "chunk" /\ q[j].k = "resume"

\* A resume carries nothing but its pane.
Bare(q) == \A i \in DOMAIN q : q[i].k = "resume" => q[i] = Resume(q[i].pane)

QueueOK(q) == q \in Seq(Entry) /\ Ordered(q) /\ Bare(q)

\* The handler that runs knows its pane.
ConnInv ==
    /\ conn \in [at : {"idle", "flush", "handle", "show"},
                 msg : {"none", "snapshot", "show", "hide"},
                 pane : {conn.pane}, todo : SUBSET Pane]
    /\ conn.msg # "none" => conn.pane \in Pane

\* The flush before a handler leaves nothing queued or nothing free, and no slot comes
\* free before the handler ends: what a handler sends at once overtakes nothing.
FlushInv == conn.at \in {"handle", "show"} => items = <<>> \/ ~Free

\* A queued chunk answers the newest request of its pane and is no older than what the
\* client has and no newer than the pane.
ValueInv ==
    /\ \A p \in Pane : got[p] <= version[p] /\ asked[p] <= version[p]
    /\ \A e \in Range(items) :
          e.k = "chunk" => e.v = asked[e.pane] /\ got[e.pane] <= e.v

\* The newest request of a pane is answered, queued or lost: NewestDelivered in terms of
\* the entries.
Answered == \A p \in Pane : (p \notin Waiting(items) /\ p \notin lost) => got[p] >= asked[p]

\* A hidden pane of a client that looks has a resume queued or is yet to be shown.
ShownInv ==
    visible => \A p \in off :
        Resume(p) \in Range(items) \/ (conn.at = "show" /\ p \in conn.todo)

QueueInv == QueueOK(items) /\ Cardinality(Waiting(items)) <= MaxItems

IInv == TypeOK /\ QueueInv /\ ConnInv /\ FlushInv /\ ValueInv /\ Answered /\ ShownInv

-----------------------------------------------------------------------------
(* Lemmas about sequences and sets. *)

\* A set of naturals that is not empty has a first element.
LEMMA FirstIsFirst ==
    ASSUME NEW is \in SUBSET Nat, is # {}
    PROVE  First(is) \in is /\ \A j \in is : First(is) <= j
<1>1. IsWellFoundedOn(OpToRel(<, Nat), Nat)
    BY NatLessThanWellFounded
<1>2. PICK i \in is : \A j \in is : ~(<<j, i>> \in OpToRel(<, Nat))
    BY <1>1, WFMin
<1>3. \A j \in is : i <= j
  <2>1. SUFFICES ASSUME NEW j \in is, j < i PROVE FALSE
      OBVIOUS
  <2>2. <<j, i>> \in Nat \X Nat /\ <<j, i>>[1] < <<j, i>>[2]
      BY <2>1
  <2> QED BY <1>2, <2>1, <2>2 DEF OpToRel
<1> QED BY <1>3 DEF First

\* Taking the k-th entry out keeps the others in their order.
LEMMA RemoveAtIs ==
    ASSUME NEW S, NEW q \in Seq(S), NEW k \in 1 .. Len(q)
    PROVE  /\ RemoveAt(q, k) \in Seq(S) /\ Len(RemoveAt(q, k)) = Len(q) - 1
           /\ \A i \in 1 .. Len(RemoveAt(q, k)) :
                 RemoveAt(q, k)[i] = IF i < k THEN q[i] ELSE q[i + 1]
<1> DEFINE a == SubSeq(q, 1, k - 1)
           b == SubSeq(q, k + 1, Len(q))
<1>1. a \in Seq(S) /\ Len(a) = k - 1 /\ \A i \in 1 .. k - 1 : a[i] = q[i]
    OBVIOUS
<1>2. b \in Seq(S) /\ Len(b) = Len(q) - k /\ \A i \in 1 .. Len(q) - k : b[i] = q[k + i]
    OBVIOUS
<1>3. RemoveAt(q, k) = a \o b
    BY DEF RemoveAt
<1> HIDE DEF a, b
<1>4. a \o b \in Seq(S) /\ Len(a \o b) = Len(q) - 1
  <2>1. a \o b \in Seq(S) /\ Len(a \o b) = Len(a) + Len(b)
      BY <1>1, <1>2, ConcatProperties
  <2> QED BY <1>1, <1>2, <2>1
<1>5. ASSUME NEW i \in 1 .. Len(q) - 1
      PROVE  (a \o b)[i] = IF i < k THEN q[i] ELSE q[i + 1]
  <2>1. CASE i < k
      BY <1>1, <1>2, <2>1
  <2>2. CASE ~(i < k)
    <3>1. (a \o b)[i] = b[i - (k - 1)] /\ i - (k - 1) \in 1 .. Len(q) - k
        BY <1>1, <1>2, <2>2
    <3> QED BY <1>2, <2>2, <3>1
  <2> QED BY <2>1, <2>2
<1> QED BY <1>3, <1>4, <1>5

\* What stands where after the insertion of e at k.
HasInserted(r, q, k, e) ==
    /\ Len(r) = Len(q) + 1
    /\ \A i \in 1 .. Len(r) : r[i] = IF i < k THEN q[i] ELSE IF i = k THEN e ELSE q[i - 1]

\* An entry put at k stands between those before and those from there on.
LEMMA InsertAtIs ==
    ASSUME NEW S, NEW q \in Seq(S), NEW k \in 1 .. Len(q), NEW e \in S
    PROVE  InsertAt(q, k, e) \in Seq(S) /\ HasInserted(InsertAt(q, k, e), q, k, e)
<1> DEFINE a == SubSeq(q, 1, k - 1)
           b == SubSeq(q, k, Len(q))
           c == a \o <<e>>
<1>1. a \in Seq(S) /\ Len(a) = k - 1 /\ \A i \in 1 .. k - 1 : a[i] = q[i]
    OBVIOUS
<1>2. /\ b \in Seq(S) /\ Len(b) = Len(q) - k + 1
      /\ \A i \in 1 .. Len(q) - k + 1 : b[i] = q[k - 1 + i]
    OBVIOUS
<1>3. InsertAt(q, k, e) = c \o b
    BY DEF InsertAt
<1> HIDE DEF a, b
<1>4. c \in Seq(S) /\ Len(c) = k /\ c[k] = e /\ \A i \in 1 .. k - 1 : c[i] = q[i]
    BY <1>1
<1> HIDE DEF c
<1>5. /\ c \o b \in Seq(S) /\ Len(c \o b) = Len(c) + Len(b)
      /\ \A i \in 1 .. Len(c) + Len(b) :
            (c \o b)[i] = IF i <= Len(c) THEN c[i] ELSE b[i - Len(c)]
    BY <1>2, <1>4, ConcatProperties
<1>6. Len(c) = k /\ Len(b) = Len(q) - k + 1 /\ Len(q) \in Nat
    BY <1>2, <1>4
<1>7. ASSUME NEW i \in 1 .. Len(q) + 1
      PROVE  (c \o b)[i] = IF i < k THEN q[i] ELSE IF i = k THEN e ELSE q[i - 1]
  <2>1. (c \o b)[i] = IF i <= k THEN c[i] ELSE b[i - k]
      BY <1>5, <1>6
  <2>2. i > k => b[i - k] = q[k - 1 + (i - k)]
      BY <1>2, <1>6
  <2> QED BY <1>4, <2>1, <2>2
<1> QED BY <1>3, <1>5, <1>6, <1>7 DEF HasInserted

\* The tail is what is left when the first entry is taken out.
LEMMA TailIsRemoved ==
    ASSUME NEW S, NEW q \in Seq(S), q # <<>>
    PROVE  Tail(q) = RemoveAt(q, 1) /\ 1 \in 1 .. Len(q) /\ Head(q) = q[1]
<1>1. 1 \in 1 .. Len(q) /\ Head(q) = q[1]
    OBVIOUS
<1>2. Tail(q) \in Seq(S) /\ Len(Tail(q)) = Len(q) - 1
      /\ \A i \in 1 .. Len(Tail(q)) : Tail(q)[i] = q[i + 1]
    BY HeadTailProperties
<1>3. RemoveAt(q, 1) \in Seq(S) /\ Len(RemoveAt(q, 1)) = Len(q) - 1
      /\ \A i \in 1 .. Len(RemoveAt(q, 1)) : RemoveAt(q, 1)[i] = q[i + 1]
    BY <1>1, RemoveAtIs
<1> QED BY <1>1, <1>2, <1>3, SeqEqual

-----------------------------------------------------------------------------
(* Lemmas about the queue. *)

\* A sequence of entries as a function.
LEMMA EntriesOf ==
    ASSUME NEW q, QueueOK(q)
    PROVE  /\ DOMAIN q = 1 .. Len(q) /\ Len(q) \in Nat
           /\ \A i \in DOMAIN q : /\ q[i] \in Entry /\ q[i] \in Range(q)
                                  /\ q[i].k \in {"chunk", "resume"} /\ q[i].pane \in Pane
           /\ \A e \in Range(q) : e \in Entry /\ \E i \in DOMAIN q : q[i] = e
<1>1. q \in Seq(Entry)
    BY DEF QueueOK
<1>2. DOMAIN q = 1 .. Len(q) /\ Len(q) \in Nat /\ \A i \in DOMAIN q : q[i] \in Entry
    BY <1>1
<1>3. \A e \in Entry : e.k \in {"chunk", "resume"} /\ e.pane \in Pane
    BY DEF Entry
<1> HIDE DEF Entry
<1> QED BY <1>2, <1>3 DEF Range

\* No entry occurs twice, nor do two of one kind for one pane.
LEMMA EntriesDiffer ==
    ASSUME NEW q, QueueOK(q), NEW i \in DOMAIN q, NEW j \in DOMAIN q,
           q[i].pane = q[j].pane, q[i].k = q[j].k
    PROVE  i = j
<1>1. i \in Nat /\ j \in Nat
    BY EntriesOf
<1>2. CASE i < j
    BY <1>2 DEF QueueOK, Ordered
<1>3. CASE j < i
    BY <1>3 DEF QueueOK, Ordered
<1> QED BY <1>1, <1>2, <1>3

\* The set of the chunks' panes says what is queued, and counts the chunks.
LEMMA WaitingIs ==
    ASSUME NEW q, QueueOK(q)
    PROVE  /\ Waiting(q) \subseteq Pane /\ IsFiniteSet(Waiting(q))
           /\ Cardinality(Waiting(q)) \in Nat
           /\ Cardinality(Waiting(q)) = Cardinality(Chunks(q))
           /\ \A p \in Pane : (ChunkOf(q, p) # {}) <=> p \in Waiting(q)
           /\ \A p \in Pane : (ResumeOf(q, p) # {}) <=> Resume(p) \in Range(q)
<1> DEFINE f == [i \in Chunks(q) |-> q[i].pane]
<1>1. \A p \in Pane : (ChunkOf(q, p) # {}) <=> p \in Waiting(q)
    BY EntriesOf DEF ChunkOf, Chunks, Waiting
<1>2. \A p \in Pane : (ResumeOf(q, p) # {}) <=> Resume(p) \in Range(q)
    BY EntriesOf DEF ResumeOf
<1>3. Waiting(q) \subseteq Pane
    BY EntriesOf DEF Waiting, Entry
<1>4. IsFiniteSet(Chunks(q))
  <2>1. Len(q) \in Int /\ Chunks(q) \subseteq 1 .. Len(q)
      BY EntriesOf DEF Chunks
  <2>2. IsFiniteSet(1 .. Len(q))
      BY <2>1, FS_Interval
  <2> QED BY <2>1, <2>2, FS_Subset
<1>5. f \in Bijection(Chunks(q), Waiting(q))
  <2>1. f \in [Chunks(q) -> Waiting(q)]
      BY EntriesOf DEF Chunks, Waiting
  <2>2. \A i, j \in Chunks(q) : f[i] = f[j] => i = j
      BY EntriesDiffer DEF Chunks
  <2>3. \A p \in Waiting(q) : \E i \in Chunks(q) : f[i] = p
      BY EntriesOf DEF Chunks, Waiting
  <2>4. DOMAIN f = Chunks(q)
      OBVIOUS
  <2> HIDE DEF f
  <2> QED BY <2>1, <2>2, <2>3, <2>4 DEF Bijection, Injection, Surjection, IsInjective
<1>6. IsFiniteSet(Waiting(q)) /\ Cardinality(Waiting(q)) = Cardinality(Chunks(q))
    BY <1>4, <1>5, FS_Bijection DEF ExistsBijection
<1> QED BY <1>1, <1>2, <1>3, <1>6, FS_CardinalityType

\* Taking one entry out leaves a queue with the others.
LEMMA Removed ==
    ASSUME NEW q, QueueOK(q), NEW k \in DOMAIN q
    PROVE  QueueOK(RemoveAt(q, k)) /\ Range(RemoveAt(q, k)) = Range(q) \ {q[k]}
<1> DEFINE r == RemoveAt(q, k)
<1>1. q \in Seq(Entry) /\ k \in 1 .. Len(q) /\ DOMAIN q = 1 .. Len(q) /\ Len(q) \in Nat
    BY EntriesOf DEF QueueOK
<1>2. /\ r \in Seq(Entry) /\ Len(r) = Len(q) - 1 /\ DOMAIN r = 1 .. Len(q) - 1
      /\ \A i \in DOMAIN r : r[i] = IF i < k THEN q[i] ELSE q[i + 1]
  <2>1. /\ r \in Seq(Entry) /\ Len(r) = Len(q) - 1
        /\ \A i \in 1 .. Len(r) : r[i] = IF i < k THEN q[i] ELSE q[i + 1]
      BY <1>1, RemoveAtIs
  <2> HIDE DEF r
  <2>2. DOMAIN r = 1 .. Len(r)
      BY <2>1
  <2> QED BY <2>1, <2>2
<1> HIDE DEF r
<1> DEFINE h(i) == IF i < k THEN i ELSE i + 1
<1>3. \A i \in DOMAIN r : h(i) \in DOMAIN q /\ h(i) # k /\ r[i] = q[h(i)]
    BY <1>1, <1>2
<1>4. \A i, j \in DOMAIN r : i < j => h(i) < h(j)
    BY <1>1, <1>2
<1>5. \A j \in DOMAIN q : j # k => \E i \in DOMAIN r : h(i) = j
  <2> SUFFICES ASSUME NEW j \in DOMAIN q, j # k
               PROVE  \E i \in DOMAIN r : h(i) = j
      OBVIOUS
  <2>1. CASE j < k
      BY <1>1, <1>2, <2>1
  <2>2. CASE j > k
    <3>1. j - 1 \in DOMAIN r /\ h(j - 1) = j
        BY <1>1, <1>2, <2>2
    <3> QED BY <3>1
  <2> QED BY <1>1, <2>1, <2>2
<1> HIDE DEF h
<1>6. Ordered(r) /\ Bare(r)
    BY <1>3, <1>4 DEF QueueOK, Ordered, Bare
<1>7. Range(r) = Range(q) \ {q[k]}
  <2>1. \A i \in DOMAIN r : r[i] \in Range(q) /\ r[i] # q[k]
      BY <1>3, EntriesDiffer, EntriesOf
  <2>2. \A e \in Range(q) : e # q[k] => e \in Range(r)
      BY <1>3, <1>5 DEF Range
  <2>3. \A e \in Range(r) : \E i \in DOMAIN r : e = r[i]
      BY DEF Range
  <2> QED BY <2>1, <2>2, <2>3
<1> QED BY <1>2, <1>6, <1>7 DEF QueueOK, r

\* A chunk and a resume are entries.
LEMMA NewEntries ==
    ASSUME QueueAssumption, NEW p \in Pane, NEW v \in 0 .. MaxVersion
    PROVE  Chunk(p, v) \in Entry /\ Resume(p) \in Entry
BY DEF QueueAssumption, Chunk, Resume, Entry

\* A new entry goes to the end of a queue that has none of its kind for its pane, and
\* no resume of its pane.
LEMMA Appended ==
    ASSUME NEW q, QueueOK(q), NEW e \in Entry, Resume(e.pane) \notin Range(q),
           e.k = "resume" => e = Resume(e.pane),
           e.k = "chunk" => e.pane \notin Waiting(q)
    PROVE  QueueOK(Append(q, e)) /\ Range(Append(q, e)) = Range(q) \cup {e}
<1> DEFINE r == Append(q, e)
<1>1. q \in Seq(Entry) /\ DOMAIN q = 1 .. Len(q) /\ Len(q) \in Nat
    BY EntriesOf DEF QueueOK
<1>2. /\ r \in Seq(Entry) /\ DOMAIN r = 1 .. Len(q) + 1
      /\ \A i \in 1 .. Len(q) : r[i] = q[i]
      /\ r[Len(q) + 1] = e
  <2>1. /\ r \in Seq(Entry) /\ Len(r) = Len(q) + 1
        /\ \A i \in 1 .. Len(q) : r[i] = q[i]
        /\ r[Len(q) + 1] = e
      BY <1>1, AppendProperties
  <2> HIDE DEF r
  <2>2. DOMAIN r = 1 .. Len(r)
      BY <2>1
  <2> QED BY <2>1, <2>2
<1> HIDE DEF r
<1>3. e.k \in {"chunk", "resume"}
    BY DEF Entry
<1>4. \A i \in DOMAIN q : q[i].pane = e.pane => q[i].k = "chunk" /\ e.k = "resume"
  <2> SUFFICES ASSUME NEW i \in DOMAIN q, q[i].pane = e.pane
               PROVE  q[i].k = "chunk" /\ e.k = "resume"
      OBVIOUS
  <2>1. q[i].k # "resume"
      BY EntriesOf DEF QueueOK, Bare
  <2>2. q[i].k = "chunk" /\ e.pane \in Waiting(q)
      BY <2>1, EntriesOf DEF Waiting
  <2> QED BY <1>3, <2>2
<1>5. Ordered(r)
  <2> SUFFICES ASSUME NEW i \in DOMAIN r, NEW j \in DOMAIN r, i < j, r[i].pane = r[j].pane
               PROVE  r[i].k = "chunk" /\ r[j].k = "resume"
      BY DEF Ordered
  <2>1. i \in DOMAIN q /\ r[i] = q[i]
      BY <1>1, <1>2
  <2>2. CASE j \in DOMAIN q
      BY <1>1, <1>2, <2>1, <2>2 DEF QueueOK, Ordered
  <2>3. CASE j = Len(q) + 1
      BY <1>2, <1>4, <2>1, <2>3
  <2> QED BY <1>1, <1>2, <2>2, <2>3
<1>6. Bare(r)
  <2> SUFFICES ASSUME NEW i \in DOMAIN r, r[i].k = "resume" PROVE r[i] = Resume(r[i].pane)
      BY DEF Bare
  <2>1. CASE i \in DOMAIN q
      BY <1>1, <1>2, <2>1 DEF QueueOK, Bare
  <2>2. CASE i = Len(q) + 1
      BY <1>2, <2>2
  <2> QED BY <1>1, <1>2, <2>1, <2>2
<1>7. Range(r) = Range(q) \cup {e}
  <2>1. \A i \in DOMAIN r : r[i] \in Range(q) \cup {e}
      BY <1>1, <1>2 DEF Range
  <2>2. \A i \in DOMAIN q : i \in DOMAIN r /\ r[i] = q[i]
      BY <1>1, <1>2
  <2>3. Len(q) + 1 \in DOMAIN r
      BY <1>1, <1>2
  <2> QED BY <1>2, <2>1, <2>2, <2>3 DEF Range
<1> QED BY <1>2, <1>5, <1>6, <1>7 DEF QueueOK, r

\* A chunk goes before the resume of its pane.
LEMMA Inserted ==
    ASSUME NEW q, QueueOK(q), NEW k \in DOMAIN q, NEW e \in Entry, e.k = "chunk",
           q[k] = Resume(e.pane), e.pane \notin Waiting(q)
    PROVE  QueueOK(InsertAt(q, k, e)) /\ Range(InsertAt(q, k, e)) = Range(q) \cup {e}
<1> DEFINE r == InsertAt(q, k, e)
<1>1. q \in Seq(Entry) /\ k \in 1 .. Len(q) /\ DOMAIN q = 1 .. Len(q) /\ Len(q) \in Nat
    BY EntriesOf DEF QueueOK
<1>2. /\ r \in Seq(Entry) /\ DOMAIN r = 1 .. Len(q) + 1
      /\ \A i \in DOMAIN r : r[i] = IF i < k THEN q[i] ELSE IF i = k THEN e ELSE q[i - 1]
  <2>1. /\ r \in Seq(Entry) /\ Len(r) = Len(q) + 1
        /\ \A i \in 1 .. Len(r) :
              r[i] = IF i < k THEN q[i] ELSE IF i = k THEN e ELSE q[i - 1]
    <3>1. r \in Seq(Entry) /\ HasInserted(r, q, k, e)
        BY <1>1, InsertAtIs
    <3> HIDE DEF r
    <3> QED BY <3>1 DEF HasInserted
  <2> HIDE DEF r
  <2>2. DOMAIN r = 1 .. Len(r)
      BY <2>1
  <2> QED BY <2>1, <2>2
<1> HIDE DEF r
<1> DEFINE h(i) == IF i < k THEN i ELSE i - 1
<1>3. /\ k \in DOMAIN r /\ r[k] = e
      /\ \A i \in DOMAIN r : i # k => h(i) \in DOMAIN q /\ r[i] = q[h(i)]
      /\ \A i \in DOMAIN r : i < k => h(i) < k
      /\ \A i \in DOMAIN r : i > k => h(i) >= k
    BY <1>1, <1>2
<1>4. \A i, j \in DOMAIN r : (i # k /\ j # k /\ i < j) => h(i) < h(j)
    BY <1>1, <1>2
<1>5. \A j \in DOMAIN q : \E i \in DOMAIN r : i # k /\ h(i) = j
  <2> TAKE j \in DOMAIN q
  <2>1. CASE j < k
      BY <1>1, <1>2, <2>1
  <2>2. CASE ~(j < k)
    <3>1. j + 1 \in DOMAIN r /\ j + 1 # k /\ h(j + 1) = j
        BY <1>1, <1>2, <2>2
    <3> QED BY <3>1
  <2> QED BY <2>1, <2>2
<1> HIDE DEF h
<1>6. \A i \in DOMAIN q : q[i].pane = e.pane => i = k
  <2> SUFFICES ASSUME NEW i \in DOMAIN q, q[i].pane = e.pane PROVE i = k
      OBVIOUS
  <2>1. q[i].k = "resume"
      BY EntriesOf DEF Waiting
  <2>2. q[k].k = "resume" /\ q[k].pane = e.pane
      BY DEF Resume
  <2> QED BY <2>1, <2>2, EntriesDiffer
<1>7. Ordered(r)
  <2> SUFFICES ASSUME NEW i \in DOMAIN r, NEW j \in DOMAIN r, i < j, r[i].pane = r[j].pane
               PROVE  r[i].k = "chunk" /\ r[j].k = "resume"
      BY DEF Ordered
  <2>1. CASE i # k /\ j # k
      BY <1>3, <1>4, <2>1 DEF QueueOK, Ordered
  <2>2. CASE i = k
    <3>1. j # k /\ q[h(j)].pane = e.pane /\ r[j] = q[h(j)] /\ h(j) \in DOMAIN q
        BY <1>1, <1>2, <1>3, <2>2
    <3>2. r[j] = Resume(e.pane)
        BY <1>6, <3>1
    <3> QED BY <1>3, <2>2, <3>2 DEF Resume
  <2>3. CASE j = k
    <3>1. i # k /\ i < k /\ q[h(i)].pane = e.pane /\ h(i) \in DOMAIN q /\ h(i) < k
        BY <1>1, <1>2, <1>3, <2>3
    <3> QED BY <1>1, <1>6, <3>1
  <2> QED BY <2>1, <2>2, <2>3
<1>8. Bare(r)
  <2> SUFFICES ASSUME NEW i \in DOMAIN r, r[i].k = "resume" PROVE r[i] = Resume(r[i].pane)
      BY DEF Bare
  <2>1. i # k
      BY <1>3
  <2> QED BY <1>3, <2>1 DEF QueueOK, Bare
<1>9. Range(r) = Range(q) \cup {e}
  <2>1. \A i \in DOMAIN r : r[i] \in Range(q) \cup {e}
      BY <1>3 DEF Range
  <2>2. \A x \in Range(q) : x \in Range(r)
      BY <1>3, <1>5 DEF Range
  <2> QED BY <1>3, <2>1, <2>2 DEF Range
<1> QED BY <1>2, <1>7, <1>8, <1>9 DEF QueueOK, r

\* A newer chunk takes the place of the one queued for its pane.
LEMMA Replaced ==
    ASSUME NEW q, QueueOK(q), NEW k \in DOMAIN q, NEW e \in Entry, e.k = "chunk",
           q[k].k = "chunk", q[k].pane = e.pane
    PROVE  /\ QueueOK(ReplaceAt(q, k, e))
           /\ Range(ReplaceAt(q, k, e)) = (Range(q) \ {q[k]}) \cup {e}
<1> DEFINE r == [q EXCEPT ![k] = e]
<1>1. q \in Seq(Entry) /\ DOMAIN q = 1 .. Len(q) /\ Len(q) \in Nat
    BY EntriesOf DEF QueueOK
<1>2. r \in Seq(Entry) /\ DOMAIN r = DOMAIN q
    BY <1>1
<1>3. r[k] = e /\ \A i \in DOMAIN q : i # k => r[i] = q[i]
    BY <1>1
<1> HIDE DEF r
<1>4. \A i \in DOMAIN q : r[i].pane = q[i].pane /\ r[i].k = q[i].k
    BY <1>3
<1>5. Ordered(r)
    BY <1>2, <1>4 DEF QueueOK, Ordered
<1>6. Bare(r)
  <2> SUFFICES ASSUME NEW i \in DOMAIN r, r[i].k = "resume" PROVE r[i] = Resume(r[i].pane)
      BY DEF Bare
  <2>1. i # k
      BY <1>3
  <2> QED BY <1>2, <1>3, <2>1 DEF QueueOK, Bare
<1>7. Range(r) = (Range(q) \ {q[k]}) \cup {e}
  <2>1. \A i \in DOMAIN q : i # k => q[i] # q[k]
      BY EntriesDiffer
  <2> QED BY <1>2, <1>3, <2>1 DEF Range
<1> QED BY <1>2, <1>5, <1>6, <1>7 DEF QueueOK, r, ReplaceAt

\* Below the limit evict does nothing, at the limit it takes one chunk out.
LEMMA Evicted ==
    ASSUME QueueAssumption, NEW q, QueueOK(q), Cardinality(Waiting(q)) <= MaxItems
    PROVE  LET e == evict(q)
           IN /\ QueueOK(e)
              /\ Cardinality(Waiting(e)) <= MaxItems - 1
              /\ \/ Range(e) = Range(q)
                 \/ /\ Cardinality(Waiting(q)) = MaxItems
                    /\ \E x \in Range(q) : x.k = "chunk" /\ Range(e) = Range(q) \ {x}
<1> DEFINE n == Cardinality(Waiting(q))
           k == First(Chunks(q))
<1>1. n = Cardinality(Chunks(q)) /\ n \in Nat /\ MaxItems \in Nat \ {0}
    BY WaitingIs DEF QueueAssumption
<1>2. CASE ~(n >= MaxItems)
    BY <1>1, <1>2 DEF evict
<1>3. CASE n >= MaxItems
  <2>1. n = MaxItems /\ evict(q) = RemoveAt(q, k)
      BY <1>1, <1>3 DEF evict
  <2>2. Chunks(q) # {}
      BY <1>1, <1>3, FS_EmptySet
  <2>3. Chunks(q) \in SUBSET Nat
      BY EntriesOf DEF Chunks
  <2>4. k \in DOMAIN q /\ q[k].k = "chunk"
      BY <2>2, <2>3, FirstIsFirst DEF Chunks
  <2> HIDE DEF k
  <2>5. QueueOK(RemoveAt(q, k)) /\ Range(RemoveAt(q, k)) = Range(q) \ {q[k]}
      BY <2>4, Removed
  <2>6. q[k] \in Range(q) /\ q[k].pane \in Waiting(q)
      BY <2>4, EntriesOf DEF Waiting
  <2>7. Waiting(RemoveAt(q, k)) = Waiting(q) \ {q[k].pane}
    <3>1. \A x \in Range(q) : (x.k = "chunk" /\ x.pane = q[k].pane) => x = q[k]
        BY <2>4, EntriesOf, EntriesDiffer
    <3> QED BY <2>4, <2>5, <3>1 DEF Waiting
  <2>8. Cardinality(Waiting(RemoveAt(q, k))) = n - 1
      BY <2>6, <2>7, WaitingIs, FS_RemoveElement
  <2>9. Cardinality(Waiting(RemoveAt(q, k))) <= MaxItems - 1
      BY <1>1, <2>1, <2>8
  <2> QED BY <2>1, <2>4, <2>5, <2>6, <2>9
<1> QED BY <1>2, <1>3

\* What defer_chunk makes of the queue: the chunk is in it, no resume is lost, and the chunk
\* of another pane only where the queue stays full.
LEMMA Deferred ==
    ASSUME QueueAssumption, NEW q, QueueOK(q), Cardinality(Waiting(q)) <= MaxItems,
           NEW p \in Pane, NEW v \in 0 .. MaxVersion
    PROVE  LET d == defer_chunk(q, p, v)
           IN /\ QueueOK(d) /\ Cardinality(Waiting(d)) <= MaxItems
              /\ Chunk(p, v) \in Range(d) /\ Range(d) \subseteq Range(q) \cup {Chunk(p, v)}
              /\ \A x \in Range(q) : x.k = "resume" => x \in Range(d)
              /\ \A x \in Range(q) : x.k = "chunk" /\ x \notin Range(d) /\ x.pane # p =>
                    Cardinality(Waiting(d)) = MaxItems
<1> DEFINE c == Chunk(p, v)
           e == evict(q)
<1>1. c \in Entry /\ c.k = "chunk" /\ c.pane = p
    BY NewEntries DEF Chunk
<1>2. CASE ChunkOf(q, p) # {}
  <2> DEFINE k == First(ChunkOf(q, p))
             d == ReplaceAt(q, k, c)
  <2>1. ChunkOf(q, p) \in SUBSET Nat
      BY EntriesOf DEF ChunkOf, Chunks
  <2>2. k \in DOMAIN q /\ q[k].k = "chunk" /\ q[k].pane = p
      BY <1>2, <2>1, FirstIsFirst DEF ChunkOf, Chunks
  <2>3. defer_chunk(q, p, v) = d
      BY <1>2 DEF defer_chunk, ReplaceAt
  <2> HIDE DEF k, c
  <2>4. QueueOK(d) /\ Range(d) = (Range(q) \ {q[k]}) \cup {c}
      BY <1>1, <2>2, Replaced
  <2> HIDE DEF d
  <2>5. Waiting(d) = Waiting(q)
      BY <1>1, <2>2, <2>4, EntriesOf DEF Waiting
  <2> QED BY <1>1, <2>2, <2>3, <2>4, <2>5 DEF c
<1>3. CASE ChunkOf(q, p) = {}
  <2>1. /\ QueueOK(e) /\ Cardinality(Waiting(e)) <= MaxItems - 1
        /\ \/ Range(e) = Range(q)
           \/ /\ Cardinality(Waiting(q)) = MaxItems
              /\ \E x \in Range(q) : x.k = "chunk" /\ Range(e) = Range(q) \ {x}
      BY Evicted
  <2> HIDE DEF e
  <2>2. p \notin Waiting(e)
    <3>1. p \notin Waiting(q)
        BY <1>3, WaitingIs
    <3> QED BY <2>1, <3>1 DEF Waiting
  <2>3. /\ QueueOK(defer_chunk(q, p, v))
        /\ Range(defer_chunk(q, p, v)) = Range(e) \cup {c}
    <3>1. CASE ResumeOf(e, p) # {}
      <4> DEFINE k == First(ResumeOf(e, p))
      <4>1. ResumeOf(e, p) \in SUBSET Nat
          BY <2>1, EntriesOf DEF ResumeOf
      <4>2. k \in DOMAIN e /\ e[k] = Resume(p)
          BY <3>1, <4>1, FirstIsFirst DEF ResumeOf
      <4>3. defer_chunk(q, p, v) = InsertAt(e, k, c)
          BY <1>3, <3>1 DEF defer_chunk, e
      <4> HIDE DEF k, c
      <4> QED BY <1>1, <2>1, <2>2, <4>2, <4>3, Inserted
    <3>2. CASE ResumeOf(e, p) = {}
      <4>1. Resume(p) \notin Range(e)
          BY <2>1, <3>2, WaitingIs
      <4>2. defer_chunk(q, p, v) = Append(e, c)
          BY <1>3, <3>2 DEF defer_chunk, e
      <4> HIDE DEF c
      <4> QED BY <1>1, <2>1, <2>2, <4>1, <4>2, Appended
    <3> QED BY <3>1, <3>2
  <2> DEFINE d == defer_chunk(q, p, v)
  <2> HIDE DEF c, d
  <2>4. QueueOK(d) /\ Range(d) = Range(e) \cup {c}
      BY <2>3 DEF d
  <2>5. Waiting(d) = Waiting(e) \cup {p}
      BY <1>1, <2>4 DEF Waiting
  <2>6. Cardinality(Waiting(d)) = Cardinality(Waiting(e)) + 1
      BY <2>1, <2>2, <2>5, WaitingIs, FS_AddElement
  <2>7. Cardinality(Waiting(d)) <= MaxItems
      BY <2>1, <2>6, WaitingIs DEF QueueAssumption
  <2>8. ASSUME NEW x \in Range(q), x \notin Range(e)
        PROVE  x.k = "chunk" /\ Cardinality(Waiting(d)) = MaxItems
    <3>1. PICK y \in Range(q) : /\ y.k = "chunk" /\ Range(e) = Range(q) \ {y}
                                /\ Cardinality(Waiting(q)) = MaxItems
        BY <2>1, <2>8
    <3>2. x = y
        BY <2>8, <3>1
    <3>3. y.pane \in Waiting(q) /\ Waiting(e) = Waiting(q) \ {y.pane}
      <4>1. \A z \in Range(q) : (z.k = "chunk" /\ z.pane = y.pane) => z = y
          BY <3>1, EntriesOf, EntriesDiffer
      <4> QED BY <3>1, <4>1 DEF Waiting
    <3>4. Cardinality(Waiting(e)) = MaxItems - 1
        BY <3>1, <3>3, WaitingIs, FS_RemoveElement
    <3> QED BY <2>6, <3>1, <3>2, <3>4 DEF QueueAssumption
  <2>9. \A x \in Range(e) : x \in Range(q)
      BY <2>1
  <2>10. ~(\A x \in Range(q) : x.k = "resume" => x \in Range(d)) => FALSE
      BY <2>4, <2>8
  <2> QED BY <2>4, <2>7, <2>8, <2>9, <2>10 DEF c, d
<1> QED BY <1>2, <1>3

\* A resume is queued once.
LEMMA ResumeDeferred ==
    ASSUME QueueAssumption, NEW q, QueueOK(q), NEW p \in Pane
    PROVE  LET d == defer_visibility_resume(q, p)
           IN /\ QueueOK(d) /\ Waiting(d) = Waiting(q)
              /\ Range(d) = Range(q) \cup {Resume(p)}
<1>1. CASE ResumeOf(q, p) # {}
    BY <1>1, WaitingIs DEF defer_visibility_resume
<1>2. CASE ResumeOf(q, p) = {}
  <2> DEFINE r == Resume(p)
  <2>1. r \in Entry /\ r.pane = p /\ r.k = "resume"
      BY NewEntries DEF Resume, QueueAssumption
  <2>2. defer_visibility_resume(q, p) = Append(q, r) /\ r = Resume(p) /\ r \notin Range(q)
      BY <1>2, WaitingIs DEF defer_visibility_resume
  <2> HIDE DEF r
  <2>3. QueueOK(Append(q, r)) /\ Range(Append(q, r)) = Range(q) \cup {r}
      BY <2>1, <2>2, Appended
  <2>4. Waiting(Append(q, r)) = Waiting(q)
      BY <2>1, <2>3 DEF Waiting
  <2> QED BY <2>2, <2>3, <2>4
<1> QED BY <1>1, <1>2

\* Flushing the first entry: nothing else of its kind for its pane, and no chunk behind a
\* resume, is queued.
LEMMA Flushed ==
    ASSUME NEW q, QueueOK(q), Cardinality(Waiting(q)) <= MaxItems, MaxItems \in Nat, q # <<>>
    PROVE  /\ Head(q) \in Range(q) /\ Head(q) \in Entry
           /\ QueueOK(Tail(q)) /\ Cardinality(Waiting(Tail(q))) <= MaxItems
           /\ Range(Tail(q)) = Range(q) \ {Head(q)}
           /\ \A x \in Range(Tail(q)) : x.pane = Head(q).pane => x.k = "resume"
           /\ Head(q).k = "resume" =>
                 /\ Head(q) = Resume(Head(q).pane)
                 /\ \A x \in Range(q) : x.pane = Head(q).pane => x = Head(q)
<1>1. q \in Seq(Entry)
    BY DEF QueueOK
<1>2. Tail(q) = RemoveAt(q, 1) /\ 1 \in DOMAIN q /\ Head(q) = q[1]
    BY <1>1, TailIsRemoved, EntriesOf
<1>3. QueueOK(Tail(q)) /\ Range(Tail(q)) = Range(q) \ {Head(q)}
    BY <1>2, Removed
<1>4. Head(q) \in Range(q) /\ Head(q) \in Entry
    BY <1>2, EntriesOf
<1>5. Cardinality(Waiting(Tail(q))) <= MaxItems
  <2>1. Waiting(Tail(q)) \subseteq Waiting(q)
      BY <1>3 DEF Waiting
  <2>2. Cardinality(Waiting(Tail(q))) <= Cardinality(Waiting(q))
      BY <2>1, WaitingIs, FS_Subset
  <2> QED BY <1>3, <2>2, WaitingIs
<1>6. \A i \in DOMAIN q : i # 1 /\ q[i].pane = q[1].pane =>
         q[1].k = "chunk" /\ q[i].k = "resume"
  <2>1. \A i \in DOMAIN q : i # 1 => 1 < i
      BY EntriesOf
  <2> QED BY <1>2, <2>1 DEF QueueOK, Ordered
<1>7. Head(q).k = "resume" => Head(q) = Resume(Head(q).pane)
    BY <1>2 DEF QueueOK, Bare
<1>8. \A x \in Range(Tail(q)) : x.pane = Head(q).pane => x.k = "resume"
    BY <1>2, <1>3, <1>6, EntriesOf
<1>9. Head(q).k = "resume" => \A x \in Range(q) : x.pane = Head(q).pane => x = Head(q)
    BY <1>2, <1>6, EntriesOf
<1> QED BY <1>3, <1>4, <1>5, <1>7, <1>8, <1>9

-----------------------------------------------------------------------------
(* The steps. *)

\* What every step keeps, the invariant and the two action properties.
Kept == IInv' /\ NeverOlder /\ EvictionIsForced

\* Of a step that takes no chunk, no entry and no snapshot in hand the invariant asks little.
LEMMA QuietStep ==
    ASSUME QueueAssumption, IInv, TypeOK', ConnInv', FlushInv', ShownInv',
           UNCHANGED <<items, got, history>>, \A p \in Pane : version[p] <= version'[p]
    PROVE  Kept
<1>1. QueueInv' /\ Answered' /\ NeverOlder /\ EvictionIsForced
    BY DEF IInv, TypeOK, QueueInv, Answered, NeverOlder, EvictionIsForced, history,
           QueueAssumption, QueueOK, Ordered, Bare
<1>2. ValueInv'
    BY DEF IInv, TypeOK, ValueInv, history, QueueAssumption
<1> QED BY <1>1, <1>2 DEF IInv, Kept

\* New content only makes a pane newer.
LEMMA PaneOutputKeeps ==
    ASSUME QueueAssumption, IInv, NEW p \in Pane, PaneOutput(p)
    PROVE  Kept
<1>1. TypeOK' /\ \A o \in Pane : version[o] <= version'[o]
  <2>1. version \in [Pane -> 1 .. MaxVersion] /\ MaxVersion \in Nat
      BY DEF IInv, TypeOK, QueueAssumption
  <2>2. version' \in [Pane -> 1 .. MaxVersion] /\ \A o \in Pane : version[o] <= version'[o]
      BY <2>1 DEF PaneOutput
  <2> QED BY <2>2 DEF IInv, TypeOK, PaneOutput, history
<1>2. ConnInv' /\ FlushInv' /\ ShownInv'
    BY DEF IInv, ConnInv, FlushInv, ShownInv, PaneOutput, Free
<1> QED BY <1>1, <1>2, QuietStep DEF PaneOutput

\* A reader thread takes a slot of the channel.
LEMMA ReaderSendKeeps ==
    ASSUME QueueAssumption, IInv, ReaderSend
    PROVE  Kept
<1>1. TypeOK' /\ \A o \in Pane : version[o] <= version'[o]
    BY DEF IInv, TypeOK, ReaderSend, Free, history, QueueAssumption
<1>2. ConnInv' /\ FlushInv' /\ ShownInv'
    BY DEF IInv, ConnInv, FlushInv, ShownInv, ReaderSend, Free
<1> QED BY <1>1, <1>2, QuietStep DEF ReaderSend

\* route_message starts with the flush.
LEMMA ReceiveKeeps ==
    ASSUME QueueAssumption, IInv, Receive
    PROVE  Kept
<1>1. PICK m \in {"snapshot", "show", "hide"}, p \in Pane :
         conn' = [conn EXCEPT !.at = "flush", !.msg = m, !.pane = p]
    BY DEF Receive
<1>2. ConnInv' /\ conn'.at = "flush" /\ conn'.todo = conn.todo
    BY <1>1 DEF IInv, ConnInv
<1>3. TypeOK' /\ \A o \in Pane : version[o] <= version'[o]
    BY <1>2 DEF IInv, TypeOK, Receive, history, QueueAssumption
<1>4. FlushInv' /\ ShownInv'
    BY <1>2 DEF IInv, FlushInv, ShownInv, Receive
<1> QED BY <1>2, <1>3, <1>4, QuietStep DEF Receive

\* The flush stops where nothing is queued or nothing is free: FlushInv begins.
LEMMA FlushEndKeeps ==
    ASSUME QueueAssumption, IInv, FlushEnd
    PROVE  Kept
<1>1. ConnInv' /\ conn'.todo = conn.todo /\ conn'.at \in {"idle", "handle"}
    BY DEF IInv, ConnInv, FlushEnd
<1>2. TypeOK' /\ \A o \in Pane : version[o] <= version'[o]
    BY <1>1 DEF IInv, TypeOK, FlushEnd, history, QueueAssumption
<1>3. FlushInv' /\ ShownInv'
    BY <1>1 DEF IInv, FlushInv, ShownInv, FlushEnd, Free
<1> QED BY <1>1, <1>2, <1>3, QuietStep DEF FlushEnd

\* Nothing is promised to a client that does not look.
LEMMA HandleHideKeeps ==
    ASSUME QueueAssumption, IInv, HandleHide
    PROVE  Kept
<1>1. ConnInv' /\ conn'.todo = conn.todo /\ conn'.at = "idle"
    BY DEF IInv, ConnInv, HandleHide
<1>2. TypeOK' /\ \A o \in Pane : version[o] <= version'[o]
  <2>1. visible' \in BOOLEAN /\ off' \subseteq Pane
      BY DEF IInv, TypeOK, HandleHide
  <2>2. version' = version /\ \A o \in Pane : version[o] \in Int
      BY DEF IInv, TypeOK, HandleHide, QueueAssumption
  <2> QED BY <1>1, <2>1, <2>2 DEF IInv, TypeOK, HandleHide, history
<1>3. FlushInv' /\ ShownInv'
    BY <1>1 DEF IInv, FlushInv, ShownInv, HandleHide
<1> QED BY <1>1, <1>2, <1>3, QuietStep DEF HandleHide

\* The visible edge owes every pane a resume.
LEMMA HandleShowKeeps ==
    ASSUME QueueAssumption, IInv, HandleShow
    PROVE  Kept
<1>1. ConnInv' /\ conn'.todo = (IF visible THEN {} ELSE Pane) /\ conn'.at = "show"
    BY DEF IInv, ConnInv, HandleShow
<1>2. TypeOK' /\ \A o \in Pane : version[o] <= version'[o]
    BY <1>1 DEF IInv, TypeOK, HandleShow, history, QueueAssumption
<1>3. FlushInv'
    BY DEF IInv, FlushInv, HandleShow, Free
<1>4. ShownInv'
    BY <1>1 DEF IInv, TypeOK, ShownInv, HandleShow
<1> QED BY <1>1, <1>2, <1>3, <1>4, QuietStep DEF HandleShow

\* Nothing is left to show.
LEMMA ShowEndKeeps ==
    ASSUME QueueAssumption, IInv, ShowEnd
    PROVE  Kept
<1>1. ConnInv' /\ conn'.todo = conn.todo /\ conn'.at = "idle"
    BY DEF IInv, ConnInv, ShowEnd
<1>2. TypeOK' /\ \A o \in Pane : version[o] <= version'[o]
    BY <1>1 DEF IInv, TypeOK, ShowEnd, history, QueueAssumption
<1>3. FlushInv' /\ ShownInv'
    BY <1>1 DEF IInv, FlushInv, ShownInv, ShowEnd
<1> QED BY <1>1, <1>2, <1>3, QuietStep DEF ShowEnd

\* The reservation takes a slot.
LEMMA ReserveArmKeeps ==
    ASSUME QueueAssumption, IInv, ReserveArm
    PROVE  Kept
<1>1. TypeOK' /\ \A o \in Pane : version[o] <= version'[o]
    BY DEF IInv, TypeOK, ReserveArm, Free, history, QueueAssumption
<1>2. ConnInv' /\ FlushInv' /\ ShownInv'
    BY DEF IInv, ConnInv, FlushInv, ShownInv, ReserveArm
<1> QED BY <1>1, <1>2, QuietStep DEF ReserveArm

\* The drain arm frees slots between handlers only; a flush follows.
LEMMA DrainKeeps ==
    ASSUME QueueAssumption, IInv, DrainArm
    PROVE  Kept
<1>1. PICK n \in 1 .. Cap, r \in 0 .. Cap, f \in BOOLEAN : Drain(n, r, f)
    BY DEF DrainArm
<1>2. ConnInv' /\ conn'.todo = conn.todo /\ conn'.at = "flush"
    BY <1>1 DEF IInv, ConnInv, Drain
<1>3. used' \in 0 .. Cap /\ fair' \in BOOLEAN /\ (fair' => used' > 0)
  <2>1. used \in 0 .. Cap /\ fair \in BOOLEAN /\ (fair => used > 0) /\ Cap \in Nat
      BY DEF IInv, TypeOK, QueueAssumption
  <2>2. CASE fair
      BY <1>1, <2>1, <2>2 DEF Drain
  <2>3. CASE ~fair
      BY <1>1, <2>1, <2>3 DEF Drain
  <2> QED BY <2>1, <2>2, <2>3
<1>4. TypeOK' /\ \A o \in Pane : version[o] <= version'[o]
  <2>1. version' = version /\ \A o \in Pane : version[o] \in Int
      BY <1>1 DEF IInv, TypeOK, Drain, QueueAssumption
  <2> QED BY <1>1, <1>2, <1>3, <2>1 DEF IInv, TypeOK, Drain, history
<1>5. FlushInv' /\ ShownInv'
    BY <1>1, <1>2 DEF IInv, FlushInv, ShownInv, Drain
<1> QED BY <1>1, <1>2, <1>4, <1>5, QuietStep DEF Drain

\* The part of it about the entries, the snapshots sent and those lost.
DataKept ==
    /\ QueueInv' /\ ValueInv' /\ Answered' /\ NeverOlder /\ EvictionIsForced
    /\ got' \in [Pane -> 0 .. MaxVersion] /\ items' \in Seq(Entry)

\* Sending the chunk at the front.
LEMMA ChunkSent ==
    ASSUME QueueAssumption, IInv, items # <<>>, Head(items).k = "chunk", items' = Tail(items),
           got' = [got EXCEPT ![Head(items).pane] = Head(items).v],
           UNCHANGED <<version, history>>
    PROVE  /\ DataKept
           /\ \A p \in Pane : Resume(p) \in Range(items) => Resume(p) \in Range(items')
<1> DEFINE h == Head(items)
<1>1. /\ h \in Range(items) /\ h \in Entry
      /\ QueueInv' /\ Range(items') = Range(items) \ {h}
      /\ \A x \in Range(items') : x.pane = h.pane => x.k = "resume"
    BY Flushed DEF IInv, QueueInv, QueueAssumption
<1>2. /\ h.k = "chunk" /\ h.pane \in Pane /\ h.v \in 0 .. MaxVersion
      /\ got' = [got EXCEPT ![h.pane] = h.v] /\ MaxVersion \in Nat
    BY <1>1 DEF Entry, QueueAssumption
<1> HIDE DEF h
<1>3. /\ got \in [Pane -> 0 .. MaxVersion] /\ asked \in [Pane -> 0 .. MaxVersion]
      /\ version \in [Pane -> 1 .. MaxVersion]
    BY DEF IInv, TypeOK
<1>4. /\ got' \in [Pane -> 0 .. MaxVersion] /\ got'[h.pane] = h.v
      /\ \A o \in Pane : o # h.pane => got'[o] = got[o]
    BY <1>2, <1>3
<1>5. h.v = asked[h.pane] /\ got[h.pane] <= h.v /\ h.v <= version[h.pane]
    BY <1>1, <1>2 DEF IInv, ValueInv
<1>6. NeverOlder /\ EvictionIsForced
    BY <1>3, <1>4, <1>5 DEF NeverOlder, EvictionIsForced, history
<1>7. ValueInv'
  <2>1. \A p \in Pane : got'[p] <= version'[p] /\ asked'[p] <= version'[p]
      BY <1>4, <1>5 DEF IInv, ValueInv, history
  <2>2. ASSUME NEW x \in Range(items'), x.k = "chunk"
        PROVE  x.v = asked'[x.pane] /\ got'[x.pane] <= x.v
    <3>1. x.pane # h.pane /\ x \in Range(items)
        BY <1>1, <2>2
    <3>2. x.pane \in Pane
        BY <3>1, EntriesOf DEF IInv, QueueInv, Entry
    <3> QED BY <1>4, <2>2, <3>1, <3>2 DEF IInv, ValueInv, history
  <2> QED BY <2>1, <2>2 DEF ValueInv
<1>8. Answered'
  <2> SUFFICES ASSUME NEW p \in Pane, p \notin Waiting(items'), p \notin lost'
               PROVE  got'[p] >= asked'[p]
      BY DEF Answered
  <2>1. CASE p = h.pane
      BY <1>2, <1>3, <1>4, <1>5, <2>1 DEF history
  <2>2. CASE p # h.pane
    <3>1. p \notin Waiting(items)
        BY <1>1, <2>2 DEF Waiting
    <3> QED BY <1>4, <2>2, <3>1 DEF IInv, Answered, history
  <2> QED BY <2>1, <2>2
<1>9. \A p \in Pane : Resume(p) \in Range(items) => Resume(p) \in Range(items')
    BY <1>1, <1>2 DEF Resume
<1> QED BY <1>1, <1>4, <1>6, <1>7, <1>8, <1>9 DEF DataKept, QueueInv, QueueOK

\* A snapshot of a pane that has no chunk queued is sent, as it is now.
LEMMA SnapshotSent ==
    ASSUME QueueAssumption, IInv, QueueInv', NEW p \in Pane, p \notin Waiting(items),
           \A x : x.k = "chunk" => (x \in Range(items') <=> x \in Range(items)),
           got' = [got EXCEPT ![p] = version[p]], UNCHANGED <<version, lost>>,
           asked' \in {asked, [asked EXCEPT ![p] = version[p]]}
    PROVE  DataKept
<1>1. /\ got \in [Pane -> 0 .. MaxVersion] /\ asked \in [Pane -> 0 .. MaxVersion]
      /\ version \in [Pane -> 1 .. MaxVersion] /\ MaxVersion \in Nat
    BY DEF IInv, TypeOK, QueueAssumption
<1>2. /\ got' \in [Pane -> 0 .. MaxVersion] /\ got'[p] = version[p]
      /\ \A o \in Pane : o # p => got'[o] = got[o] /\ asked'[o] = asked[o]
      /\ asked'[p] <= version[p]
    BY <1>1 DEF IInv, ValueInv
<1>3. NeverOlder /\ EvictionIsForced
    BY <1>1, <1>2 DEF IInv, ValueInv, NeverOlder, EvictionIsForced
<1>4. Waiting(items') = Waiting(items)
    BY DEF Waiting
<1>5. ValueInv'
  <2>1. \A o \in Pane : got'[o] <= version'[o] /\ asked'[o] <= version'[o]
      BY <1>1, <1>2 DEF IInv, ValueInv
  <2>2. ASSUME NEW x \in Range(items'), x.k = "chunk"
        PROVE  x.v = asked'[x.pane] /\ got'[x.pane] <= x.v
    <3>1. x \in Range(items) /\ x.pane # p
        BY <2>2 DEF Waiting
    <3>2. x.pane \in Pane
        BY <3>1, EntriesOf DEF IInv, QueueInv, Entry
    <3> QED BY <1>2, <2>2, <3>1, <3>2 DEF IInv, ValueInv
  <2> QED BY <2>1, <2>2 DEF ValueInv
<1>6. Answered'
    BY <1>1, <1>2, <1>4 DEF IInv, Answered
<1> QED BY <1>2, <1>3, <1>5, <1>6 DEF DataKept, QueueInv, QueueOK

\* Taking the resume at the front, whether it sends a snapshot or not.
LEMMA ResumeTaken ==
    ASSUME QueueAssumption, IInv, items # <<>>, Head(items).k = "resume", items' = Tail(items),
           got' \in {got, [got EXCEPT ![Head(items).pane] = version[Head(items).pane]]},
           UNCHANGED <<version, history>>
    PROVE  /\ DataKept
           /\ \A p \in Pane : p # Head(items).pane /\ Resume(p) \in Range(items) =>
                 Resume(p) \in Range(items')
<1> DEFINE h == Head(items)
           p == h.pane
<1>1. /\ h \in Range(items) /\ h \in Entry
      /\ QueueInv' /\ Range(items') = Range(items) \ {h} /\ h = Resume(p)
      /\ \A x \in Range(items) : x.pane = h.pane => x = h
    BY Flushed DEF IInv, QueueInv, QueueAssumption
<1>2. p \in Pane /\ h.k = "resume"
    BY <1>1 DEF Entry
<1>3. got' \in {got, [got EXCEPT ![p] = version[p]]}
    OBVIOUS
<1> HIDE DEF h
<1>4. \A x : x.k = "chunk" => (x \in Range(items') <=> x \in Range(items))
    BY <1>1, <1>2
<1>5. p \notin Waiting(items)
    BY <1>1, <1>2 DEF Waiting
<1>6. UNCHANGED <<version, lost, asked>>
    BY DEF history
<1>7. ASSUME got' = [got EXCEPT ![p] = version[p]] PROVE DataKept
  <2>1. asked' \in {asked, [asked EXCEPT ![p] = version[p]]} /\ QueueInv'
      BY <1>1, <1>6
  <2> HIDE DEF p
  <2> QED BY <1>2, <1>4, <1>5, <1>6, <1>7, <2>1, SnapshotSent
<1>8. ASSUME got' = got PROVE DataKept
  <2>1. Waiting(items') = Waiting(items)
      BY <1>4 DEF Waiting
  <2>2. ValueInv' /\ Answered'
      BY <1>4, <1>6, <1>8, <2>1 DEF IInv, ValueInv, Answered
  <2>3. NeverOlder /\ EvictionIsForced
      BY <1>6, <1>8 DEF IInv, TypeOK, NeverOlder, EvictionIsForced, QueueAssumption
  <2>4. got' \in [Pane -> 0 .. MaxVersion]
      BY <1>8 DEF IInv, TypeOK
  <2>5. items' \in Seq(Entry)
      BY <1>1 DEF QueueInv, QueueOK
  <2> QED BY <1>1, <2>2, <2>3, <2>4, <2>5 DEF DataKept
<1>9. \A o \in Pane : o # p /\ Resume(o) \in Range(items) => Resume(o) \in Range(items')
    BY <1>1 DEF Resume
<1> QED BY <1>3, <1>7, <1>8, <1>9 DEF h

\* An empty queue has no entry and nothing waiting.
LEMMA NothingQueued == items = <<>> => Range(items) = {} /\ Waiting(items) = {}
BY DEF Range, Waiting

\* The flush sends the chunk at the front.
LEMMA FlushChunkKeeps ==
    ASSUME QueueAssumption, IInv, FlushChunk
    PROVE  Kept
<1>1. /\ items # <<>> /\ Head(items).k = "chunk" /\ items' = Tail(items) /\ Free
      /\ got' = [got EXCEPT ![Head(items).pane] = Head(items).v] /\ used' = used + 1
      /\ UNCHANGED <<version, off, visible, fair, conn, history, msgs>> /\ conn.at = "flush"
    BY DEF FlushChunk, Insert
<1>2. DataKept /\ \A p \in Pane : Resume(p) \in Range(items) => Resume(p) \in Range(items')
    BY <1>1, ChunkSent
<1>3. TypeOK'
    BY <1>1, <1>2 DEF IInv, TypeOK, DataKept, Entry, Free, history,
         QueueAssumption
<1>4. ConnInv' /\ FlushInv' /\ ShownInv'
    BY <1>1, <1>2 DEF IInv, TypeOK, ConnInv, FlushInv, ShownInv
<1> QED BY <1>2, <1>3, <1>4 DEF Kept, IInv, DataKept

\* The flush takes the resume at the front, and sends if the pane is still hidden.
LEMMA FlushResumeKeeps ==
    ASSUME QueueAssumption, IInv, FlushResume
    PROVE  Kept
<1> DEFINE p == Head(items).pane
<1>1. /\ items # <<>> /\ Head(items).k = "resume" /\ items' = Tail(items) /\ conn.at = "flush"
      /\ UNCHANGED <<version, visible, fair, conn, history, msgs>>
      /\ \/ visible /\ Free /\ resume_pane_with_permit(p)
         \/ ~visible /\ UNCHANGED <<used, got, off>>
    BY DEF FlushResume
<1>2. /\ got' \in {got, [got EXCEPT ![p] = version[p]]}
      /\ used' = used \/ (Free /\ used' = used + 1)
      /\ off' \subseteq off /\ (visible => p \notin off')
    BY <1>1 DEF resume_pane_with_permit, Insert
<1>3. /\ DataKept
      /\ \A o \in Pane : o # p /\ Resume(o) \in Range(items) => Resume(o) \in Range(items')
    BY <1>1, <1>2, ResumeTaken
<1> HIDE DEF p
<1>4. TypeOK'
  <2>1. used \in 0 .. Cap /\ Cap \in Nat /\ (fair => used > 0)
      BY DEF IInv, TypeOK, QueueAssumption
  <2>2. used' \in 0 .. Cap /\ (fair => used' > 0)
      BY <1>2, <2>1 DEF Free
  <2> QED BY <1>1, <1>2, <1>3, <2>2 DEF IInv, TypeOK, DataKept, Entry, history
<1>5. ConnInv' /\ FlushInv' /\ ShownInv'
    BY <1>1, <1>2, <1>3 DEF IInv, TypeOK, ConnInv, FlushInv, ShownInv
<1> QED BY <1>3, <1>4, <1>5 DEF Kept, IInv, DataKept

\* apply_fair_permit_to_front_deferred_item, with the slot it holds.
LEMMA FairArmKeeps ==
    ASSUME QueueAssumption, IInv, FairArm
    PROVE  Kept
<1>1. /\ conn.at = "idle" /\ fair /\ fair' = FALSE
      /\ UNCHANGED <<version, visible, conn, history, msgs>>
    BY DEF FairArm
<1>2. used \in 0 .. Cap /\ used > 0 /\ used - 1 \in 0 .. Cap
    BY <1>1 DEF IInv, TypeOK, QueueAssumption
<1>3. CASE items = <<>>
  <2>1. items' = items /\ got' = got /\ off' = off /\ used' = used - 1
      BY <1>3 DEF FairArm
  <2>2. TypeOK' /\ \A o \in Pane : version[o] <= version'[o]
    <3>1. \A o \in Pane : version[o] <= version'[o]
        BY <1>1 DEF IInv, TypeOK, QueueAssumption
    <3> QED BY <1>1, <1>2, <2>1, <3>1 DEF IInv, TypeOK, history
  <2>3. ConnInv' /\ FlushInv' /\ ShownInv'
      BY <1>1, <2>1 DEF IInv, ConnInv, FlushInv, ShownInv
  <2> QED BY <1>1, <2>1, <2>2, <2>3, QuietStep
<1>4. CASE items # <<>> /\ Head(items).k = "chunk"
  <2>1. /\ items' = Tail(items) /\ used' = used /\ off' = off
        /\ got' = [got EXCEPT ![Head(items).pane] = Head(items).v]
      BY <1>4 DEF FairArm
  <2>2. DataKept /\ \A p \in Pane : Resume(p) \in Range(items) => Resume(p) \in Range(items')
      BY <1>1, <1>4, <2>1, ChunkSent
  <2>3. TypeOK'
      BY <1>1, <1>2, <2>1, <2>2 DEF IInv, TypeOK, DataKept, Entry, history
  <2>4. ConnInv' /\ FlushInv' /\ ShownInv'
      BY <1>1, <2>1, <2>2 DEF IInv, TypeOK, ConnInv, FlushInv, ShownInv
  <2> QED BY <2>2, <2>3, <2>4 DEF Kept, IInv, DataKept
<1>5. CASE items # <<>> /\ Head(items).k # "chunk"
  <2> DEFINE p == Head(items).pane
  <2>1. Head(items).k = "resume"
      BY <1>5, Flushed DEF IInv, QueueInv, Entry, QueueAssumption
  <2>2. /\ items' = Tail(items)
        /\ got' \in {got, [got EXCEPT ![p] = version[p]]}
        /\ used' \in {used, used - 1}
        /\ off' \subseteq off /\ (visible => p \notin off')
      BY <1>5, <2>1 DEF FairArm
  <2>3. /\ DataKept
        /\ \A o \in Pane : o # p /\ Resume(o) \in Range(items) => Resume(o) \in Range(items')
      BY <1>1, <1>5, <2>1, <2>2, ResumeTaken
  <2> HIDE DEF p
  <2>4. TypeOK'
      BY <1>1, <1>2, <2>2, <2>3 DEF IInv, TypeOK, DataKept, Entry, history
  <2>5. ConnInv' /\ FlushInv' /\ ShownInv'
      BY <1>1, <2>2, <2>3 DEF IInv, TypeOK, ConnInv, FlushInv, ShownInv
  <2> QED BY <2>3, <2>4, <2>5 DEF Kept, IInv, DataKept
<1> QED BY <1>3, <1>4, <1>5

\* The visible edge shows a pane at once or queues its resume.
LEMMA ShowPaneKeeps ==
    ASSUME QueueAssumption, IInv, NEW p \in Pane, ShowPane(p)
    PROVE  Kept
<1>1. /\ conn.at = "show" /\ UNCHANGED <<version, visible, fair, history, msgs>>
      /\ conn' = [conn EXCEPT !.todo = @ \ {p}]
    BY DEF ShowPane
<1>2. ConnInv' /\ conn'.at = "show" /\ conn'.todo = conn.todo \ {p}
    BY <1>1 DEF IInv, ConnInv
<1>3. CASE Free /\ p \in off
  <2>1. /\ items' = items /\ used' = used + 1 /\ off' = off \ {p}
        /\ got' = [got EXCEPT ![p] = version[p]]
      BY <1>3 DEF ShowPane, resume_pane_with_permit, Insert
  <2>2. items = <<>>
      BY <1>1, <1>3 DEF IInv, FlushInv
  <2>3. DataKept
    <3>1. QueueInv' /\ p \notin Waiting(items)
        BY <2>1, <2>2, NothingQueued DEF IInv, QueueInv, QueueOK, Ordered, Bare
    <3>2. UNCHANGED <<version, lost>> /\ asked' \in {asked, [asked EXCEPT ![p] = version[p]]}
        BY <1>1 DEF history
    <3>3. \A x : x.k = "chunk" => (x \in Range(items') <=> x \in Range(items))
        BY <2>1
    <3> QED BY <2>1, <3>1, <3>2, <3>3, SnapshotSent
  <2>4. TypeOK'
      BY <1>1, <1>2, <1>3, <2>1, <2>3 DEF IInv, TypeOK, DataKept, Entry, Free, history,
         QueueAssumption
  <2>5. FlushInv' /\ ShownInv'
      BY <1>1, <1>2, <2>1, <2>2 DEF IInv, TypeOK, FlushInv, ShownInv
  <2> QED BY <1>2, <2>3, <2>4, <2>5 DEF Kept, IInv, DataKept
<1>4. CASE Free /\ p \notin off
  <2>1. UNCHANGED <<items, used, got, off>>
      BY <1>4 DEF ShowPane, resume_pane_with_permit
  <2>2. TypeOK' /\ \A o \in Pane : version[o] <= version'[o]
    <3>1. \A o \in Pane : version[o] <= version'[o]
        BY <1>1 DEF IInv, TypeOK, QueueAssumption
    <3> QED BY <1>1, <1>2, <2>1, <3>1 DEF IInv, TypeOK, history
  <2>3. FlushInv' /\ ShownInv'
      BY <1>1, <1>2, <1>4, <2>1 DEF IInv, TypeOK, FlushInv, ShownInv, Free
  <2> QED BY <1>1, <1>2, <2>1, <2>2, <2>3, QuietStep
<1>5. CASE ~Free
  <2>1. items' = defer_visibility_resume(items, p) /\ UNCHANGED <<used, got, off>>
      BY <1>5 DEF ShowPane
  <2>2. /\ QueueOK(items') /\ Waiting(items') = Waiting(items)
        /\ Range(items') = Range(items) \cup {Resume(p)}
      BY <2>1, ResumeDeferred DEF IInv, QueueInv
  <2>3. DataKept
    <3>1. QueueInv' /\ Answered' /\ items' \in Seq(Entry)
        BY <1>1, <2>1, <2>2 DEF IInv, QueueInv, QueueOK, Answered, history
    <3>2. ValueInv'
        BY <1>1, <2>1, <2>2 DEF IInv, ValueInv, Resume, history
    <3>3. NeverOlder /\ EvictionIsForced /\ got' \in [Pane -> 0 .. MaxVersion]
        BY <1>1, <2>1 DEF IInv, TypeOK, NeverOlder, EvictionIsForced, history, QueueAssumption
    <3> QED BY <3>1, <3>2, <3>3 DEF DataKept
  <2>4. TypeOK'
      BY <1>1, <1>2, <2>1, <2>3 DEF IInv, TypeOK, DataKept, Entry, history
  <2>5. FlushInv' /\ ShownInv'
      BY <1>1, <1>2, <1>5, <2>1, <2>2 DEF IInv, TypeOK, FlushInv, ShownInv, Free
  <2> QED BY <1>2, <2>3, <2>4, <2>5 DEF Kept, IInv, DataKept
<1> QED BY <1>3, <1>4, <1>5

\* A request is answered at once, over an empty queue, or its chunk is queued.
LEMMA HandleSnapshotKeeps ==
    ASSUME QueueAssumption, IInv, HandleSnapshot
    PROVE  Kept
<1> DEFINE p == conn.pane
           v == version[p]
           new == defer_chunk(items, p, v)
<1>1. /\ conn.at = "handle" /\ conn.msg = "snapshot"
      /\ UNCHANGED <<version, off, visible, fair, msgs>>
      /\ conn' = [conn EXCEPT !.at = "idle", !.msg = "none"]
      /\ asked' = [asked EXCEPT ![p] = v]
    BY DEF HandleSnapshot
<1>2. ConnInv' /\ conn'.at = "idle" /\ conn'.todo = conn.todo
    BY <1>1 DEF IInv, ConnInv
<1>3. p \in Pane /\ v \in 0 .. MaxVersion /\ v \in Nat
    BY <1>1 DEF IInv, TypeOK, ConnInv, QueueAssumption
<1>4. FlushInv'
    BY <1>2 DEF FlushInv
<1>5. asked' \in [Pane -> 0 .. MaxVersion]
    BY <1>1, <1>3 DEF IInv, TypeOK
<1>6. CASE Free
  <2>1. /\ used' = used + 1 /\ got' = [got EXCEPT ![p] = v]
        /\ UNCHANGED <<items, passed, lost>>
      BY <1>6 DEF HandleSnapshot, Insert
  <2>2. items = <<>>
      BY <1>1, <1>6 DEF IInv, FlushInv
  <2>3. DataKept
    <3>1. QueueInv' /\ p \notin Waiting(items)
        BY <2>1, <2>2, NothingQueued DEF IInv, QueueInv, QueueOK, Ordered, Bare
    <3>2. UNCHANGED <<version, lost>> /\ asked' \in {asked, [asked EXCEPT ![p] = version[p]]}
        BY <1>1, <2>1
    <3>3. \A x : x.k = "chunk" => (x \in Range(items') <=> x \in Range(items))
        BY <2>1
    <3>4. got' = [got EXCEPT ![p] = version[p]]
        BY <2>1
    <3> HIDE DEF p
    <3> QED BY <1>3, <3>1, <3>2, <3>3, <3>4, SnapshotSent
  <2>4. TypeOK'
    <3>1. used' \in 0 .. Cap /\ (fair => used' > 0)
        BY <1>6, <2>1 DEF IInv, TypeOK, Free, QueueAssumption
    <3> HIDE DEF p, v
    <3> QED BY <1>1, <1>2, <1>5, <2>1, <2>3, <3>1 DEF IInv, TypeOK, DataKept, Entry
  <2>5. ShownInv'
      BY <1>1, <2>1 DEF IInv, ShownInv
  <2> QED BY <1>2, <1>4, <2>3, <2>4, <2>5 DEF Kept, IInv, DataKept
<1>7. CASE ~Free
  <2> DEFINE fresh == ChunkOf(items, p) = {}
  <2>1. /\ items' = new /\ UNCHANGED <<used, got>>
        /\ lost' = (lost \cup {o \in Pane : ChunkOf(items, o) # {} /\ ChunkOf(new, o) = {}}) \ {p}
        /\ passed' = [o \in Pane |-> CASE o = p /\ fresh -> {}
                                       [] o # p /\ fresh -> passed[o] \cup {p}
                                       [] OTHER -> passed[o]]
      BY <1>7 DEF HandleSnapshot
  <2> HIDE DEF p, v
  <2>2. /\ QueueOK(items') /\ Cardinality(Waiting(items')) <= MaxItems
        /\ Chunk(p, v) \in Range(items') /\ Range(items') \subseteq Range(items) \cup {Chunk(p, v)}
        /\ \A x \in Range(items) : x.k = "resume" => x \in Range(items')
        /\ \A x \in Range(items) : x.k = "chunk" /\ x \notin Range(items') /\ x.pane # p =>
              Cardinality(Waiting(items')) = MaxItems
      BY <1>3, <2>1, Deferred DEF IInv, QueueInv
  <2>3. lost' = (lost \cup {o \in Pane : o \in Waiting(items) /\ o \notin Waiting(items')}) \ {p}
      BY <2>1, <2>2, WaitingIs DEF IInv, QueueInv
  <2> HIDE DEF new
  <2>4. passed' \in [Pane -> SUBSET Pane]
      BY <1>3, <2>1 DEF IInv, TypeOK
  <2>5. Chunk(p, v).k = "chunk" /\ Chunk(p, v).pane = p /\ Chunk(p, v).v = v
      BY DEF Chunk
  <2>6. p \in Waiting(items')
      BY <2>2, <2>5 DEF Waiting
  <2>7. got[p] <= v /\ asked'[p] = v /\ \A o \in Pane : o # p => asked'[o] = asked[o]
      BY <1>1, <1>3 DEF IInv, TypeOK, ValueInv, v
  <2>8. ValueInv'
    <3>1. \A o \in Pane : got'[o] <= version'[o] /\ asked'[o] <= version'[o]
        BY <1>1, <1>3, <2>1, <2>7 DEF IInv, ValueInv, v
    <3>2. ASSUME NEW x \in Range(items'), x.k = "chunk"
          PROVE  x.v = asked'[x.pane] /\ got'[x.pane] <= x.v
      <4>1. CASE x.pane = p
        <5>1. x = Chunk(p, v)
            BY <2>2, <2>5, <3>2, <4>1, EntriesOf, EntriesDiffer
        <5> QED BY <2>1, <2>5, <2>7, <5>1
      <4>2. CASE x.pane # p
        <5>1. x \in Range(items) /\ x.pane \in Pane
            BY <2>2, <2>5, <4>2, EntriesOf DEF Entry
        <5> QED BY <2>1, <2>7, <3>2, <4>2, <5>1 DEF IInv, ValueInv
      <4> QED BY <4>1, <4>2
    <3> QED BY <3>1, <3>2 DEF ValueInv
  <2>9. Answered'
      BY <2>1, <2>3, <2>6, <2>7 DEF IInv, Answered
  <2>10. NeverOlder
      BY <2>1 DEF IInv, TypeOK, NeverOlder, QueueAssumption
  <2>11. EvictionIsForced
    <3> SUFFICES ASSUME NEW o \in lost' \ lost
                 PROVE  Cardinality({q \in Pane \ {o} : ChunkOf(items', q) # {}}) >= MaxItems
        BY DEF EvictionIsForced
    <3>1. o \in Waiting(items) /\ o \notin Waiting(items') /\ o # p /\ o \in Pane
        BY <2>3
    <3>2. PICK x \in Range(items) : x.k = "chunk" /\ x.pane = o
        BY <3>1 DEF Waiting
    <3>3. x \notin Range(items')
        BY <3>1, <3>2 DEF Waiting
    <3>4. Cardinality(Waiting(items')) = MaxItems
        BY <2>2, <3>1, <3>2, <3>3
    <3>5. {q \in Pane \ {o} : ChunkOf(items', q) # {}} = Waiting(items')
        BY <2>2, <3>1, WaitingIs
    <3> QED BY <3>4, <3>5 DEF QueueAssumption
  <2>12. TypeOK'
    <3>1. lost' \subseteq Pane
        BY <2>3 DEF IInv, TypeOK
    <3>2. items' \in Seq([k : {"chunk", "resume"}, pane : Pane, v : 0 .. MaxVersion])
        BY <2>2 DEF QueueOK, Entry
    <3> QED BY <1>1, <1>2, <1>5, <2>1, <2>4, <3>1, <3>2 DEF IInv, TypeOK
  <2>13. ShownInv'
    <3>1. \A o \in Pane : Resume(o) \in Range(items) => Resume(o) \in Range(items')
        BY <2>2 DEF Resume
    <3> QED BY <1>1, <3>1 DEF IInv, TypeOK, ShownInv
  <2> QED BY <1>2, <1>4, <2>2, <2>8, <2>9, <2>10, <2>11, <2>12, <2>13 DEF Kept, IInv, QueueInv
<1> QED BY <1>6, <1>7

-----------------------------------------------------------------------------
(* The theorems. *)

\* The invariant holds at first.
LEMMA InitOK == ASSUME QueueAssumption, Init PROVE IInv
<1>1. TypeOK
  <2>1. conn.at = "idle" /\ conn.todo = {}
      BY DEF Init
  <2>2. /\ version \in [Pane -> 1 .. MaxVersion] /\ asked \in [Pane -> 0 .. MaxVersion]
        /\ got \in [Pane -> 0 .. MaxVersion] /\ passed \in [Pane -> SUBSET Pane]
      BY DEF Init, QueueAssumption
  <2>3. items \in Seq([k : {"chunk", "resume"}, pane : Pane, v : 0 .. MaxVersion])
      BY DEF Init
  <2>4. /\ off = {} /\ visible = TRUE /\ used = 0 /\ fair = FALSE /\ lost = {} /\ msgs = 0
        /\ Cap \in Nat /\ MaxMsgs \in Nat
      BY DEF Init, QueueAssumption
  <2>5. used \in 0 .. Cap /\ msgs \in 0 .. MaxMsgs
      BY <2>4
  <2>6. fair \in BOOLEAN /\ (fair => used > 0) /\ visible \in BOOLEAN
      BY <2>4
  <2>7. off \subseteq Pane /\ lost \subseteq Pane /\ conn.todo \subseteq Pane
        /\ conn.at \in {"idle", "flush", "handle", "show"}
      BY <2>1, <2>4
  <2> QED BY <2>2, <2>3, <2>5, <2>6, <2>7, Zenon DEF TypeOK
<1>2. QueueInv /\ Answered
  <2>1. items = <<>> /\ Range(items) = {} /\ Waiting(items) = {}
      BY NothingQueued DEF Init
  <2>2. QueueOK(items)
      BY <2>1 DEF QueueOK, Ordered, Bare
  <2>3. Cardinality(Waiting(items)) <= MaxItems
      BY <2>1, FS_EmptySet DEF QueueAssumption
  <2> QED BY <2>2, <2>3 DEF Init, QueueInv, Answered
<1>3. ConnInv /\ FlushInv /\ ShownInv
    BY DEF Init, ConnInv, FlushInv, ShownInv
<1>4. ValueInv
    BY NothingQueued DEF Init, ValueInv
<1> QED BY <1>1, <1>2, <1>3, <1>4 DEF IInv

\* Every step keeps it.
LEMMA StepOK == ASSUME QueueAssumption, IInv, [Next]_vars PROVE Kept
<1>1. CASE UNCHANGED vars
  <2>1. TypeOK' /\ ConnInv' /\ FlushInv' /\ ShownInv'
      BY <1>1 DEF vars, IInv, TypeOK, ConnInv, FlushInv, ShownInv, Free
  <2>2. \A p \in Pane : version[p] <= version'[p]
      BY <1>1 DEF vars, IInv, TypeOK, QueueAssumption
  <2> QED BY <1>1, <2>1, <2>2, QuietStep DEF vars, history
<1>2. CASE Next
    BY <1>2, PaneOutputKeeps, ShowPaneKeeps, ReaderSendKeeps, ReceiveKeeps, FlushChunkKeeps,
       FlushResumeKeeps, FlushEndKeeps, HandleSnapshotKeeps, HandleHideKeeps, HandleShowKeeps,
       ShowEndKeeps, DrainKeeps, ReserveArmKeeps, FairArmKeeps DEF Next
<1> QED BY <1>1, <1>2

\* The invariant says of the entries what the properties say of the positions.
LEMMA InvSays == ASSUME IInv PROVE TypeOK /\ Coalesced /\ NewestDelivered /\ ResumeNotLost
<1>1. Coalesced
    BY WaitingIs DEF IInv, QueueInv, QueueOK, Ordered, Coalesced
<1>2. NewestDelivered
    BY WaitingIs DEF IInv, QueueInv, Answered, NewestDelivered
<1>3. ResumeNotLost
    BY WaitingIs DEF IInv, TypeOK, QueueInv, ShownInv, ResumeNotLost
<1> QED BY <1>1, <1>2, <1>3 DEF IInv

\* Type correctness.
THEOREM TypeCorrect == ASSUME QueueAssumption PROVE Spec => []TypeOK
<1>1. Init => IInv
    BY InitOK
<1>2. IInv /\ [Next]_vars => IInv'
    BY StepOK DEF Kept
<1>3. IInv => TypeOK
    BY InvSays
<1> QED BY <1>1, <1>2, <1>3, PTL DEF Spec

\* defer_chunk and defer_visibility_resume keep one chunk and one resume per pane, the
\* chunk first, and no more chunks than the limit, whatever the client asks.
THEOREM CoalescedCorrect == ASSUME QueueAssumption PROVE Spec => []Coalesced
<1>1. Init => IInv
    BY InitOK
<1>2. IInv /\ [Next]_vars => IInv'
    BY StepOK DEF Kept
<1>3. IInv => Coalesced
    BY InvSays
<1> QED BY <1>1, <1>2, <1>3, PTL DEF Spec

\* FR3: the newest request of every pane is answered by the flush, the fair reservation, or
\* a fresher resume, unless its chunk was evicted; and every pane of a client that looks is
\* connected or has its resume queued.
THEOREM DeliveryCorrect ==
    ASSUME QueueAssumption
    PROVE  Spec => [](NewestDelivered /\ ResumeNotLost)
<1>1. Init => IInv
    BY InitOK
<1>2. IInv /\ [Next]_vars => IInv'
    BY StepOK DEF Kept
<1>3. IInv => NewestDelivered /\ ResumeNotLost
    BY InvSays
<1> QED BY <1>1, <1>2, <1>3, PTL DEF Spec

\* No step gives the client an older snapshot of a pane after a newer one, nor takes a
\* chunk out of a queue that has room.
THEOREM StepsCorrect ==
    ASSUME QueueAssumption
    PROVE  Spec => [][NeverOlder /\ EvictionIsForced]_vars
<1>1. Init => IInv
    BY InitOK
<1>2. IInv /\ [Next]_vars => IInv' /\ [NeverOlder /\ EvictionIsForced]_vars
    BY StepOK DEF Kept
<1> QED BY <1>1, <1>2, PTL DEF Spec
=============================================================================
