------------------------------ MODULE MCTerminal ------------------------------
(* The components of the terminal side for TLC: the character grid, the reflow, the
   images and the rebuild of a pane from a snapshot. They share no state, so a
   behaviour runs one of them, with one choice of constants: a record of Grids,
   Reflows, Stores or Replays, named by `part`. The others rest at Idle. *)
EXTENDS Naturals, Sequences, FiniteSets

VARIABLES part, term, scr, typed, lines, resizes,
    sent, out, handler, store, places, jobs, alive, children, files, viewers,
    payload, segments, stage, queue, resized, core, base, rebuilt, whole, live

Grid(c) == INSTANCE TermGrid WITH
    Rows <- c.Rows, Cols <- c.Cols, Glyphs <- c.Glyphs, Ops <- c.Ops, Counts <- c.Counts,
    InlineMax <- 1, MergedMax <- 2, BufferMax <- 2, Transcribes <- c.Transcribes
\* Clusters, wide characters, late selectors and erasing on one line.
Edit == [part |-> "edit", Rows |-> 1, Cols |-> 4, Counts |-> {1, 2}, Transcribes |-> FALSE,
         Glyphs |-> {"ascii", "wide", "comb", "vs16", "pict"},
         Ops |-> {"CR", "BS", "HT", "CHA", "CUF", "CUB", "EL", "ECH", "ICH", "DCH", "AWM", "RIS"}]
\* The line edge, a widening that moves the base down, line feeds that rotate the ring.
Wrap == [part |-> "wrap", Rows |-> 2, Cols |-> 3, Counts |-> {1}, Transcribes |-> FALSE,
         Glyphs |-> {"ascii", "wide", "text", "vs16", "comb"},
         Ops |-> {"CR", "LF", "CUU", "CUD", "ED", "EL"}]
\* Scroll regions with the scroll that transcribes the long contents.
Region == [part |-> "region", Rows |-> 3, Cols |-> 2, Counts |-> {1, 2}, Transcribes |-> TRUE,
           Glyphs |-> {"wide", "comb"},
           Ops |-> {"STBM", "SU", "SD", "IL", "DL", "LF", "RI", "VPA", "CNL"}]
\* The saved cursor around a pending wrap, under origin mode.
Saved == [part |-> "saved", Rows |-> 2, Cols |-> 2, Counts |-> {1, 2}, Transcribes |-> FALSE,
          Glyphs |-> {"ascii", "wide", "comb"},
          Ops |-> {"SC", "RC", "IND", "RI", "CHA", "OM", "VPA", "CPL"}]
\* Clusters that wait in the buffer: regional indicators, joiners, text selectors.
Clusters == [part |-> "clusters", Rows |-> 1, Cols |-> 3, Counts |-> {1}, Transcribes |-> FALSE,
             Glyphs |-> {"flag", "pict", "text", "vs15", "vs16", "joiner", "comb", "holder"}, Ops |-> {"CR", "CUF"}]
Grids == {Edit, Wrap, Region, Saved, Clusters}

Screen(c) == INSTANCE Reflow WITH
    Dims <- {<<2, 2>>, <<3, 2>>, <<4, 1>>, <<3, 3>>}, FirstDim <- <<3, 2>>, Widths <- c.Widths,
    Capacity <- c.Capacity, Capacities <- {0, 1, c.Capacity}, Homes <- c.Homes,
    MaxTyped <- c.MaxTyped, MaxLines <- 2, MaxResizes <- 2, started <- lines
\* Room for every line.
Roomy == [part |-> "roomy", Widths |-> {1, 2}, Capacity |-> 12, Homes |-> FALSE, MaxTyped |-> 4]
\* One line of scrollback, and a cursor that may be at the top.
Evict == [Roomy EXCEPT !.part = "evict", !.Capacity = 1, !.Homes = TRUE, !.MaxTyped = 3]
\* Narrow characters only, where the cursor must keep its place.
Narrow == [Roomy EXCEPT !.part = "narrow", !.Widths = {1}, !.MaxTyped = 6]
Reflows == {Roomy, Evict, Narrow}

Image(c) == INSTANCE Images WITH
    Tabs <- {"A"}, Ids <- c.Ids, Uploads <- 1 .. Len(c.Of), Of <- c.Of, Later <- "all",
    Quota <- c.Quota, MaxCount <- c.MaxCount, QueueDepth <- c.Viewers, MaxChildren <- c.Viewers,
    Batch <- c.Batch, MaxFiles <- c.MaxFiles, Requests <- c.Requests, Faults <- c.Faults,
    queue <- jobs, started <- viewers
Up(id, act, chunks, size) == [tab |-> "A", id |-> id, act |-> act, chunks |-> chunks, size |-> size]
\* Three uploads, one replaced, over a store with room for three bytes and two images.
Small == [part |-> "small", Ids |-> {7}, Of |-> <<Up(7, "t", 2, 1), Up(7, "T", 1, 2), Up(0, "T", 2, 1)>>,
          Quota |-> 3, MaxCount |-> 2, Viewers |-> 1, Batch |-> 2, MaxFiles |-> 0,
          Requests |-> {"put", "delete"}, Faults |-> {}]
\* Kitty uploads and a SIXEL image of one tab, with room for all of them.
Mixed == [Small EXCEPT !.part = "mixed", !.Quota = 9, !.MaxCount = 9,
            !.Of = <<Up(7, "t", 2, 1), Up(0, "sixel", 1, 1), Up(7, "T", 1, 1)>>]
\* Two uploads in chunks, interleaved with each other and with the pump.
Chunks == [Mixed EXCEPT !.part = "chunks", !.Ids = {7, 8}, !.Batch = 3, !.Requests = {"put"},
             !.Of = <<Up(7, "t", 2, 1), Up(8, "t", 2, 1), Up(7, "T", 1, 1)>>]
\* Viewers that fail to start or exit before they read their file, a full queue.
Viewers == [Mixed EXCEPT !.part = "viewers", !.Of = <<Up(7, "t", 2, 1), Up(7, "T", 1, 2)>>,
              !.Viewers = 2, !.Batch = 1, !.MaxFiles = 2, !.Faults = {"spawn", "abandon"}]
Stores == {Small, Mixed, Chunks, Viewers}

Replay(c) == INSTANCE SnapshotReplay WITH
    Sizes <- c.Sizes, Target <- <<2, 2>>, Capacity <- c.Capacity, SuffixMin <- 1, PrefixMax <- 2,
    FoldedMax <- c.FoldedMax, UnfoldedMax <- 1, Ops <- c.Ops, LiveOps <- c.LiveOps,
    DeferSizes <- c.DeferSizes, LiveSizes <- c.LiveSizes, Gap <- FALSE,
    MaxPayload <- c.MaxPayload, MaxSegments <- c.MaxSegments, MaxLive <- c.MaxLive
Heights == {<<2, 1>>, <<2, 2>>, <<2, 3>>}
LowAndWide == {<<2, 1>>, <<2, 2>>, <<3, 2>>}
\* A pane that changed its height up to twice, five outputs, no live output.
Picture == [part |-> "picture", Sizes |-> Heights, Capacity |-> 9, FoldedMax |-> 2,
            Ops |-> {"line", "home"}, LiveOps |-> {}, DeferSizes |-> {}, LiveSizes |-> {},
            MaxPayload |-> 5, MaxSegments |-> 3, MaxLive |-> 0]
\* A change of width, and sizes below the size the client asks for.
Wide == [Picture EXCEPT !.part = "wide", !.Sizes = LowAndWide,
           !.Ops = {"line", "text", "home"}, !.MaxPayload = 4]
\* Marks of a snapshot without a folded head, over a history of two rows.
Marks == [Wide EXCEPT !.part = "marks", !.Capacity = 2, !.FoldedMax = 0, !.Ops = {"line", "mark"},
            !.MaxPayload = 5]
\* Output while the workers build, a history of three rows.
Restore == [Picture EXCEPT !.part = "restore", !.Capacity = 3, !.Ops = {"line", "home"},
              !.LiveOps = {"line", "mark"}, !.MaxSegments = 2, !.MaxLive = 3]
\* The client resizes while the second worker builds.
Resized == [Picture EXCEPT !.part = "resized", !.Ops = {"line"}, !.LiveOps = {"line"},
              !.LiveSizes = {<<2, 3>>, <<2, 1>>}, !.MaxPayload = 4, !.MaxSegments = 2, !.MaxLive = 2]
\* The client resizes while the first worker builds.
Lands == [Picture EXCEPT !.part = "lands", !.Sizes = LowAndWide, !.Capacity = 3, !.Ops = {"line", "text"},
            !.LiveOps = {"line"}, !.DeferSizes = LowAndWide, !.MaxPayload = 3, !.MaxSegments = 2,
            !.MaxLive = 2]
Replays == {Picture, Wide, Marks, Restore, Resized, Lands}

ASSUME GridAssumption == \A c \in Grids : Grid(c)!GridAssumption
ASSUME ReflowAssumption == \A c \in Reflows : Screen(c)!ReflowAssumption
ASSUME ImagesAssumption == \A c \in Stores : Image(c)!ImagesAssumption
ASSUME ReplayAssumption == \A c \in Replays : Replay(c)!SnapshotReplayAssumption
-----------------------------------------------------------------------------
Idle == 0
GridIdle == term = Idle
ReflowIdle == scr = Idle /\ typed = Idle /\ lines = Idle /\ resizes = Idle
ImagesIdle ==
    /\ sent = Idle /\ out = Idle /\ handler = Idle /\ store = Idle /\ places = Idle
    /\ jobs = Idle /\ alive = Idle /\ children = Idle /\ files = Idle /\ viewers = Idle
ReplayIdle ==
    /\ payload = Idle /\ segments = Idle /\ stage = Idle /\ queue = Idle /\ resized = Idle
    /\ core = Idle /\ base = Idle /\ rebuilt = Idle /\ whole = Idle /\ live = Idle

reflowVars == <<scr, typed, lines, resizes>>
imageVars == <<sent, out, handler, store, places, jobs, alive, children, files, viewers>>
replayVars == <<payload, segments, stage, queue, resized, core, base, rebuilt, whole, live>>
vars == <<part, term, reflowVars, imageVars, replayVars>>

Init ==
    \/ \E c \in Grids : part = c.part /\ Grid(c)!Init /\ ReflowIdle /\ ImagesIdle /\ ReplayIdle
    \/ \E c \in Reflows : part = c.part /\ Screen(c)!Init /\ GridIdle /\ ImagesIdle /\ ReplayIdle
    \/ \E c \in Stores : part = c.part /\ Image(c)!Init /\ GridIdle /\ ReflowIdle /\ ReplayIdle
    \/ \E c \in Replays : part = c.part /\ Replay(c)!Init /\ GridIdle /\ ReflowIdle /\ ImagesIdle

Next ==
    \/ /\ \E c \in Grids : part = c.part /\ Grid(c)!Next
       /\ UNCHANGED <<part, reflowVars, imageVars, replayVars>>
    \/ /\ \E c \in Reflows : part = c.part /\ Screen(c)!Next
       /\ UNCHANGED <<part, term, imageVars, replayVars>>
    \/ /\ \E c \in Stores : part = c.part /\ Image(c)!Next
       /\ UNCHANGED <<part, term, reflowVars, replayVars>>
    \/ /\ \E c \in Replays : part = c.part /\ Replay(c)!Next
       /\ UNCHANGED <<part, term, reflowVars, imageVars>>

Spec == Init /\ [][Next]_vars
-----------------------------------------------------------------------------
\* Printing and control functions, in every order: wide pairs stay whole, a long
\* content belongs to the cell that shows it and to no other, a pending wrap is at the
\* edge (print_handler.rs, terminal_cells.rs, terminal_rows.rs).
\* Contents are kept where no character is inserted or deleted; a joiner printed alone
\* (Clusters only) leaves a spacer without a base.
GridWhole ==
    \A c \in Grids : part = c.part =>
       /\ Grid(c)!TypeOK
       /\ c # Clusters => Grid(c)!PairsWhole /\ Grid(c)!LastIsBase
       /\ c # Wrap => Grid(c)!EntriesOwned
       /\ c # Edit => Grid(c)!ContentKept
       /\ c \in {Wrap, Saved} => Grid(c)!PendingAtEdge

\* A scroll moves the lines of the region, with their long contents, and no other
\* (scroll_up_internal and scroll_up_region_transcribing).
RegionScrolls == [][part = "region" => Grid(Region)!RegionScrolls]_vars

\* A resize keeps the text in its order, drops lines at the ends only when it must, and
\* keeps the cursor near its text; the same-width fast path gives what the reference
\* path gives (reflow.rs).
ResizeKeepsText ==
    [][\A c \in Reflows : part = c.part =>
         /\ Screen(c)!TypeOK /\ Screen(c)!FastIsReference /\ Screen(c)!TextHasNoGap
         /\ c # Evict => Screen(c)!TextKept
         /\ c = Narrow => Screen(c)!CursorNearText]_vars

\* The handler of a tab and the router hold the same images, the quota is accounted, a
\* put shows what the program transmitted, and a payload file belongs to a viewer or to
\* a job (tabs/images.rs, viewer/image.rs, viewer/image_payload.rs).
ImagesAgree ==
    \A c \in Stores : part = c.part =>
       /\ Image(c)!StoreAccounted /\ Image(c)!FilesOwned
       /\ c = Mixed => /\ Image(c)!StoresAgree /\ Image(c)!ShownIsTransmitted
                       /\ Image(c)!TransmitOnlyStores /\ Image(c)!OkIsShown

\* The chunks of an upload are joined under its id whatever other uploads and requests
\* come between (image_proc/kitty.rs, image_proc/mod.rs).
UploadStored == [][part = "chunks" => Image(Chunks)!UploadStored]_vars

\* The build without history shows and counts what a replay of the whole snapshot
\* does, and the build with history that replaces it agrees with the output that came
\* in between (terminal_core/replay.rs, replay_plan.rs, tabs/replay.rs).
RebuiltIsReplayed ==
    \A c \in Replays : part = c.part =>
       /\ Replay(c)!WithinCapacity
       /\ c \in {Picture, Wide} => Replay(c)!PictureSame /\ Replay(c)!CountsSame
       /\ c = Marks => Replay(c)!MarksSame
       /\ c \in {Restore, Resized} => Replay(c)!HistoryRestored
       /\ c = Lands => Replay(c)!ResizeLands
=============================================================================
