------------------------------- MODULE Images -------------------------------
(***************************************************************************)
(* Images of terminal programs: the Kitty and SIXEL handlers of each tab   *)
(* (crates/term_images), Tab::drain_and_decode_images, the one             *)
(* ImageViewerRouter of the application with its store, and the thread     *)
(* that hands images to viewer processes in files (viewer/image.rs).       *)
(***************************************************************************)
EXTENDS Naturals, Sequences, FiniteSets, SequencesExt, FiniteSetsExt

CONSTANTS
    Tabs, Ids,     \* tabs; image ids that programs choose
    Uploads,       \* images that programs send, each once
    Of,            \* of an upload: [tab, id (0: none), act, chunks, size]; act "t", "T", "sixel"
    Later,         \* what chunks after the first repeat: "all", "id", "none"
    Quota, MaxCount, QueueDepth, MaxChildren,
    Batch,         \* bound: commands a tab has not drained
    MaxFiles,      \* bound: viewer processes started
    Requests,      \* what else programs ask: "put", "delete"
    Faults         \* "abandon": a program stops in an upload; "write", "spawn", "quit"

ImagesAssumption ==
    /\ Ids \subseteq Nat \ {0} /\ {Quota, MaxCount, QueueDepth, MaxChildren, Batch, MaxFiles} \subseteq Nat
    /\ Later \in {"all", "id", "none"} /\ Faults \subseteq {"abandon", "write", "spawn", "quit"}
    /\ \A u \in Uploads : Of[u].tab \in Tabs /\ Of[u].id \in Ids \cup {0} /\ Of[u].chunks \in {1, 2}

VARIABLES
    sent,      \* chunks sent of each upload, 3 once it was given up
    out,       \* commands of each tab that wait for the pump
    handler,   \* per tab: images by id, transfers by id, the next id to assign
    store,     \* the router: image by id, order of use, bytes in use
    places,    \* history: what the last batch showed or failed to show
    queue, alive,               \* jobs of the worker; does the router exist
    children, files, started    \* viewer processes, payload files, how many were started

imageVars == <<sent, out, handler, store, places>>
workerVars == <<children, files, started>>
vars == <<imageVars, queue, alive, workerVars>>

AllIds == Ids \cup 1 .. 2 * Cardinality(Uploads) + 1
Without(f, id) == [f EXCEPT ![id] = 0]
NoImage == [id \in AllIds |-> 0]

Init ==
    /\ sent = [u \in Uploads |-> 0] /\ out = [t \in Tabs |-> <<>>]
    /\ handler = [t \in Tabs |-> [images |-> NoImage, transfers |-> [id \in AllIds |-> <<>>], next |-> 1]]
    /\ store = [images |-> NoImage, lru |-> <<>>, used |-> 0] /\ places = <<>>
    /\ queue = <<>> /\ alive = TRUE /\ children = {} /\ files = {} /\ started = 0
-----------------------------------------------------------------------------
(* Programs. *)
Write(t, c) == Len(out[t]) < Batch /\ out' = [out EXCEPT ![t] = Append(@, c)]

\* The keys that a later chunk does not repeat are absent; a command without a= displays.
Chunk(u, k) ==
    LET keep == k = 1 \/ Later = "all" IN
    [kind |-> IF Of[u].act = "sixel" THEN "sixel" ELSE "upload", up |-> u, part |-> k,
     show |-> ~keep \/ Of[u].act = "T", more |-> k < Of[u].chunks,
     id |-> IF k = 1 \/ Later # "none" THEN Of[u].id ELSE 0]

Busy(u) == \E v \in Uploads \ {u} : Of[v].tab = Of[u].tab /\ Of[v].id = Of[u].id /\ sent[v] = 1 /\ Of[v].chunks = 2
Send(u) ==
    /\ sent[u] < Of[u].chunks /\ ~Busy(u) /\ Write(Of[u].tab, Chunk(u, sent[u] + 1))
    /\ sent' = [sent EXCEPT ![u] = @ + 1]
    /\ UNCHANGED <<handler, store, places, queue, alive, workerVars>>
Abandon(u) ==
    /\ "abandon" \in Faults /\ sent[u] = 1 /\ Of[u].chunks = 2 /\ sent' = [sent EXCEPT ![u] = 3]
    /\ UNCHANGED <<out, handler, store, places, queue, alive, workerVars>>
Ask(t) ==
    /\ \E c \in [kind : {"put", "delete"}, id : Ids] \cup [kind : {"delete"}, id : {0}, hidden : BOOLEAN] :
          c.kind \in Requests /\ Write(t, c)
    /\ UNCHANGED <<sent, handler, store, places, queue, alive, workerVars>>
-----------------------------------------------------------------------------
(* The handlers of a tab: a state and a command give a state and events. *)
Whole(parts) ==
    \E u \in Uploads : parts = [k \in 1 .. Of[u].chunks |-> [up |-> u, part |-> k]]

Ready(id, u) == [kind |-> "ready", id |-> id, up |-> u]
\* own: the image the tab itself has under the id
Place(id, u, put) == [kind |-> "place", id |-> id, own |-> u, put |-> put]

\* handle_transmit, handle_transmit_and_display
Transmit(h, c) ==
    LET id == IF c.id = 0 THEN h.next ELSE c.id
        parts == Append(h.transfers[id], [up |-> c.up, part |-> c.part])
        known == [h EXCEPT !.next = IF c.id = 0 THEN @ + 1 ELSE @]
        ended == [known EXCEPT !.transfers[id] = <<>>]
    IN  IF c.more THEN <<[known EXCEPT !.transfers[id] = parts], <<>> >>
        ELSE IF ~Whole(parts) THEN <<ended, <<>> >>
        ELSE <<[ended EXCEPT !.images[id] = c.up],
               <<Ready(id, c.up)>> \o IF c.show THEN <<Place(id, c.up, FALSE)>> ELSE <<>> >>

\* handle_put: an unknown id is answered ENOENT.
Put(h, c) ==
    <<h, IF h.images[c.id] = 0 THEN <<>> ELSE <<Place(c.id, h.images[c.id], TRUE)>> >>

\* handle_delete, by id, all, all including hidden
Delete(h, c) ==
    IF c.id # 0 THEN <<[h EXCEPT !.images[c.id] = 0, !.transfers[c.id] = <<>>], <<[kind |-> "drop", id |-> c.id]>> >>
    ELSE <<[h EXCEPT !.images = NoImage, !.transfers = IF c.hidden THEN [id \in AllIds |-> <<>>] ELSE @],
           <<[kind |-> "clear"]>> >>

\* SixelHandler::process
Sixel(h, c) == <<[h EXCEPT !.next = @ + 1], <<Ready(h.next, c.up), Place(h.next, c.up, FALSE)>> >>

\* A plausible slip: an upload that ends keeps its transfer.
ProcessKeeps(h, c) ==
    CASE c.kind = "upload" -> LET r == Transmit(h, c) IN
                              IF c.more THEN r
                              ELSE <<[r[1] EXCEPT !.transfers = [h.transfers EXCEPT ![c.id] = Append(@, [up |-> c.up, part |-> c.part])]], r[2]>>
      [] c.kind = "put" -> Put(h, c)
      [] c.kind = "delete" -> Delete(h, c)
      [] c.kind = "sixel" -> Sixel(h, c)
Process(h, c) ==
    CASE c.kind = "upload" -> Transmit(h, c)
      [] c.kind = "put" -> Put(h, c)
      [] c.kind = "delete" -> Delete(h, c)
      [] c.kind = "sixel" -> Sixel(h, c)

\* drain_and_decode_images: Kitty commands first, then SIXEL
Decode(t) ==
    LET IsApc(c) == c.kind # "sixel"
        IsDcs(c) == c.kind = "sixel"
        Step(acc, c) == LET r == Process(acc[1], c) IN <<r[1], acc[2] \o r[2]>>
    IN  FoldLeft(Step, <<handler[t], <<>> >>, SelectSeq(out[t], IsApc) \o SelectSeq(out[t], IsDcs))
-----------------------------------------------------------------------------
(* The router. *)
Size(u) == IF u = 0 THEN 0 ELSE Of[u].size
Known(s) == {id \in AllIds : s.images[id] # 0}
Touch(s, id) == [s EXCEPT !.lru = Append(Remove(@, id), id)]

\* evict_over_limits
RECURSIVE Evict(_)
Evict(s) ==
    IF (s.used > Quota \/ Cardinality(Known(s)) > MaxCount) /\ s.lru # <<>>
    THEN LET v == Head(s.lru) IN
         Evict([images |-> Without(s.images, v), lru |-> Tail(s.lru), used |-> s.used - Size(s.images[v])])
    ELSE s

\* A plausible slip: the bytes of the image that is replaced stay counted.
RecordTwice(s, id, u) ==
    Evict([images |-> [s.images EXCEPT ![id] = u], lru |-> Append(Remove(s.lru, id), id), used |-> s.used + Size(u)])
Record(s, id, u) ==
    Evict([images |-> [s.images EXCEPT ![id] = u], lru |-> Append(Remove(s.lru, id), id),
           used |-> s.used - Size(s.images[id]) + Size(u)])

Forget(s, id) ==
    [images |-> Without(s.images, id), lru |-> Remove(s.lru, id), used |-> s.used - Size(s.images[id])]

\* route, on store, queue and history
Route(acc, e) ==
    CASE e.kind = "ready" -> [acc EXCEPT !.store = Record(@, e.id, e.up)]
      [] e.kind = "drop" -> [acc EXCEPT !.store = Forget(@, e.id)]
      [] e.kind = "clear" -> [acc EXCEPT !.store = [images |-> NoImage, lru |-> <<>>, used |-> 0]]
      [] e.kind = "place" ->
           LET u == acc.store.images[e.id]
               p == [id |-> e.id, own |-> e.own, put |-> e.put, up |-> u]
           IN  IF u = 0 THEN [acc EXCEPT !.places = Append(@, p)]
               ELSE [store |-> Touch(acc.store, e.id), places |-> Append(acc.places, p),
                     queue |-> IF Len(acc.queue) < QueueDepth THEN Append(acc.queue, u) ELSE acc.queue]

\* Tab::pump, then App::pump_all
Pump(t) ==
    /\ out[t] # <<>> /\ alive /\ out' = [out EXCEPT ![t] = <<>>]
    /\ LET d == Decode(t)
           r == FoldLeft(Route, [store |-> store, places |-> <<>>, queue |-> queue], d[2])
       IN  handler' = [handler EXCEPT ![t] = d[1]] /\ store' = r.store /\ places' = r.places /\ queue' = r.queue
    /\ UNCHANGED <<sent, alive, workerVars>>
-----------------------------------------------------------------------------
(* The worker and the viewers.  A child: its file, and "new", "open" or "exited". *)
Kept == {c \in children : c.state # "exited"}
FilesKept == files \ {c.file : c \in children \ Kept}

Reap ==
    /\ alive /\ children # Kept /\ children' = Kept /\ files' = FilesKept
    /\ UNCHANGED <<imageVars, queue, alive, started>>

\* A job: reap, the cap, write_image_payload, spawn
Spawn ==
    /\ alive /\ queue # <<>> /\ queue' = Tail(queue) /\ UNCHANGED <<imageVars, alive>>
    /\ \/ Cardinality(Kept) >= MaxChildren /\ children' = Kept /\ files' = FilesKept /\ UNCHANGED started
       \/ /\ Cardinality(Kept) < MaxChildren /\ started < MaxFiles /\ started' = started + 1
          /\ \/ children' = Kept \cup {[file |-> started', state |-> "new"]} /\ files' = FilesKept \cup {started'}
             \/ "spawn" \in Faults /\ children' = Kept /\ files' = FilesKept
             \/ "write" \in Faults /\ children' = Kept /\ files' = FilesKept \cup {started'}

Becomes(c, s) == children' = (children \ {c}) \cup {[c EXCEPT !.state = s]}
\* A plausible slip: a viewer leaves the file it has read.
ReadOnly == \E c \in children : c.state = "new" /\ Becomes(c, "open")
                                /\ UNCHANGED <<imageVars, queue, alive, files, started>>
\* read_image_payload
ReadFile ==
    \E c \in children :
        /\ c.state = "new" /\ Becomes(c, "open") /\ files' = files \ {c.file}
        /\ UNCHANGED <<imageVars, queue, alive, started>>
Exit ==
    \E c \in children :
        /\ c.state # "exited" /\ Becomes(c, "exited")
        /\ UNCHANGED <<imageVars, queue, alive, files, started>>
\* The application ends, the viewers live on.
Quit ==
    /\ "quit" \in Faults /\ alive /\ alive' = FALSE /\ queue' = <<>>
    /\ UNCHANGED <<imageVars, workerVars>>

Program == (\E u \in Uploads : Send(u) \/ Abandon(u)) \/ \E t \in Tabs : Ask(t)
Next == Program \/ (\E t \in Tabs : Pump(t)) \/ Reap \/ Spawn \/ ReadFile \/ Exit \/ Quit

Spec == Init /\ [][Next]_vars
\* The worker wakes every five seconds; a viewer reads its file first.
FairSpec == Spec /\ WF_vars(Reap) /\ WF_vars(Spawn) /\ WF_vars(ReadFile)
-----------------------------------------------------------------------------
(* The store's order of use lists exactly its images, its bytes are theirs, and both    *)
(* limits hold after every batch.                                                       *)
StoreAccounted ==
    /\ ToSet(store.lru) = Known(store) /\ Len(store.lru) = Cardinality(Known(store))
    /\ store.used = MapThenSumSet(LAMBDA id : Size(store.images[id]), Known(store))
    /\ store.used <= Quota /\ Cardinality(Known(store)) <= MaxCount

(* With one tab and room for all its images, the router keeps what the tab's Kitty      *)
(* handler keeps, and the SIXEL images: no event is lost, doubled or applied out of order between the two stores.     *)
StoresAgree ==
    \A t \in Tabs, id \in AllIds :
        LET u == store.images[id] IN
        handler[t].images[id] = IF u \in Uploads /\ Of[u].act = "sixel" THEN 0 ELSE u

(* A put shows the image that its tab has under the id: "Display a previously           *)
(* transmitted image".                                                                  *)
ShownIsTransmitted == \A i \in DOMAIN places : places[i].put /\ places[i].up # 0 => places[i].up = places[i].own

(* A placement that the tab answered OK is shown: the router still has the image.       *)
OkIsShown == \A i \in DOMAIN places : places[i].up # 0

(* When the last chunk of an upload is decoded, the handler stores that upload, under   *)
(* whatever id, whether or not its first chunk came in an earlier batch.                *)
UploadStored ==
    \A u \in Uploads :
        (\E i \in DOMAIN out[Of[u].tab] :
            LET c == out[Of[u].tab][i] IN c.kind = "upload" /\ c.up = u /\ ~c.more)
        /\ out'[Of[u].tab] = <<>>
        /\ (\A i \in DOMAIN out[Of[u].tab] : LET c == out[Of[u].tab][i] IN
               c.kind = "upload" /\ c.up # u => c.id # Of[u].id)
        => \E id \in AllIds : handler'[Of[u].tab].images[id] = u

(* An image that a program transmitted without asking to display it is displayed only   *)
(* by a put: "Store image data for later display".                                      *)
TransmitOnlyStores ==
    \A i \in DOMAIN places :
        ~places[i].put /\ places[i].own \in Uploads => Of[places[i].own].act # "t"

(* While the application runs, each payload file belongs to a tracked viewer; no viewer *)
(* beyond the limit is open.                                                            *)
FilesOwned ==
    /\ files \subseteq {c.file : c \in children}
    /\ Cardinality(children) <= MaxChildren

(* Every payload file goes away: its viewer reads it or the worker reaps the viewer.    *)
FilesGo == \A f \in 1 .. MaxFiles : [](f \in files => <>(f \notin files))
=============================================================================
