------------------------------- MODULE Bridge -------------------------------
(***************************************************************************)
(* The bridge process (src/src-tauri/src/mux/bridge/mod.rs, forward.rs):   *)
(* it carries the messages of the GUI from its stdin to the daemon's       *)
(* socket and the daemon's frames to its stdout.  One forwarding call      *)
(* serves one connection and races three futures: stdin to daemon, daemon  *)
(* to stdout, and the writer pump on its own thread.  When the connection  *)
(* drops after the daemon announced an upgrade, the bridge reconnects with *)
(* bounded attempts, repeats the last capacity report and the last Attach, *)
(* and forwards again; otherwise it writes a synthetic Detached and exits. *)
(* The GUI and the daemon are the environment: the GUI may stop reading    *)
(* its terminal or close it, the daemon may close, crash, or exec.         *)
(***************************************************************************)
EXTENDS Naturals, Sequences, SequencesExt, FiniteSets, FiniteSetsExt

CONSTANTS
    MaxConns,     \* bound on the connections of one bridge process
    MaxFrames,    \* bound on the frames the daemon sends on a connection
    MaxMsgs,      \* bound on the messages of the GUI
    Kinds,        \* what the GUI sends: attach, cap, badcap, input
    Transports,   \* the encodings of its messages: apc, osc, plaintext
    QueueCap,     \* STDOUT_WRITER_CAPACITY
    SockCap,      \* frames the socket towards the daemon buffers
    MaxAttempts,  \* RECONNECT_MAX_ATTEMPTS
    Faults        \* subset of {"stall", "hangup", "crash", "close"}

BridgeAssumption ==
    /\ {MaxConns, QueueCap, SockCap, MaxAttempts} \subseteq Nat \ {0}
    /\ {MaxFrames, MaxMsgs} \subseteq Nat
    /\ Kinds \subseteq {"attach", "cap", "badcap", "input"}
    /\ Transports \subseteq {"apc", "osc", "plaintext"}
    /\ Faults \subseteq {"stall", "hangup", "crash", "close"}

Conns == 1 .. MaxConns
None == [conn |-> 0, id |-> 0]
Upgrading == [conn |-> 0, id |-> 1]
NoMsg == [n |-> 0, kind |-> "none", t |-> "none"]
Msgs == [n : 1 .. MaxMsgs, kind : Kinds, t : Transports]
Frame(c, i) == [conn |-> c, id |-> i]
Detached == Frame(MaxConns + 1, 0)
Encodings == {{"osc"}, {"apc"}, {"osc", "apc"}}
IdlePump == [q |-> <<>>, cur |-> None, on |-> FALSE]

VARIABLES
    stdin, sent,     \* unread messages of the GUI, and how many it has sent
    eof,             \* the GUI has closed the terminal
    reading,         \* the GUI reads its terminal; FALSE: the terminal's buffer is full
    screen,          \* what it read: frames and the encodings each came in
    phase,           \* start, forward, quiesce, reconnect, capacity, attach, exit, leaving, done
    conn,            \* the current connection, 0 before the first
    acts,            \* messages of one read still to be written (local to the call)
    captured,        \* the first of them has been captured, its write is under way
    transport, lastCapacity, lastAttach,
    announced,       \* this call saw Upgrading
    held,            \* the frame the daemon-to-stdout future waits to admit
    pump,            \* the writer pump of each connection's call
    ended,           \* which future ended the call
    attempt,         \* reconnect attempts made
    up,              \* "up", "exec" or "dead"
    open,            \* the daemon's end of each connection is open
    c2d, d2c,        \* the two directions of the current connection
    nframes,         \* history: frames the daemon sent per connection
    warned,          \* history: connections on which it announced the upgrade
    got,             \* history: what the daemon read, per connection
    dropped          \* history: messages the bridge parsed and threw away

gui == <<stdin, sent, eof, reading>>
slots == <<transport, lastCapacity, lastAttach>>
daemon == <<up, open, nframes, warned>>
call == <<acts, captured, announced, held, ended>>
vars == <<gui, screen, phase, conn, call, slots, pump, attempt, daemon, c2d, d2c,
          got, dropped>>

Init ==
    /\ stdin = <<>> /\ sent = 0 /\ eof = FALSE /\ reading = TRUE /\ screen = <<>>
    /\ phase = "start" /\ conn = 0 /\ acts = <<>> /\ captured = FALSE
    /\ transport = "undetected" /\ lastCapacity = NoMsg /\ lastAttach = NoMsg
    /\ announced = FALSE /\ held = None /\ pump = [c \in Conns |-> IdlePump]
    /\ ended = "none" /\ attempt = 0 /\ up = "up" /\ open = [c \in Conns |-> FALSE]
    /\ c2d = <<>> /\ d2c = <<>> /\ nframes = [c \in Conns |-> 0] /\ warned = {}
    /\ got = [c \in Conns |-> <<>>] /\ dropped = {}
-----------------------------------------------------------------------------
\* The encodings a frame is written in, resolved when it is written.
EncodingOf(t) ==
    CASE t = "undetected" -> {"osc", "apc"}
      [] t \in {"osc", "plaintext"} -> {"osc"}
      [] OTHER -> {"apc"}

\* A plausible slip: any message is remembered for the re-attach.
CaptureAnything(m) == TRUE

CaptureIfAttach(m) == m.kind = "attach"

CaptureIfCapacity(m) == m.kind = "cap"

\* The forwarding call starts on a fresh connection.
Forward(c) ==
    /\ phase' = "forward" /\ announced' = FALSE /\ ended' = "none"
    /\ pump' = [pump EXCEPT ![c] = [IdlePump EXCEPT !.on = TRUE]]

Start ==
    /\ phase = "start" /\ ~eof
    /\ \/ /\ up = "up" /\ reading /\ conn' = 1 /\ open' = [open EXCEPT ![1] = TRUE]
          /\ screen' = Append(screen, [frame |-> Frame(1, 0), enc |-> {"osc", "apc"}])
          /\ Forward(1)
       \/ /\ up = "dead" /\ phase' = "done"
          /\ UNCHANGED <<conn, open, screen, announced, ended, pump>>
    /\ UNCHANGED <<gui, acts, captured, held, slots, attempt, up, c2d, d2c, nframes,
                   warned, got, dropped>>
-----------------------------------------------------------------------------
(* stdin to daemon. *)

\* One read returns any run of the bytes that wait; an unfinished message stays in
\* the parser, which outlives the call.
ReadStdin ==
    /\ phase = "forward" /\ acts = <<>> /\ stdin # <<>>
    /\ \E k \in 1 .. Len(stdin) :
          /\ acts' = SubSeq(stdin, 1, k) /\ stdin' = SubSeq(stdin, k + 1, Len(stdin))
    /\ UNCHANGED <<sent, eof, reading, screen, phase, conn, captured, announced, held,
                   ended, slots, pump, attempt, daemon, c2d, d2c, got, dropped>>

Capture ==
    /\ phase = "forward" /\ acts # <<>> /\ ~captured /\ captured' = TRUE
    /\ LET m == Head(acts) IN
       /\ transport' = IF transport = "undetected" THEN m.t ELSE transport
       /\ lastCapacity' = IF CaptureIfCapacity(m) THEN m ELSE lastCapacity
       /\ lastAttach' = IF CaptureIfAttach(m) THEN m ELSE lastAttach
    /\ UNCHANGED <<gui, screen, phase, conn, acts, announced, held, ended, pump, attempt,
                   daemon, c2d, d2c, got, dropped>>

WriteFrame ==
    /\ phase = "forward" /\ captured /\ open[conn] /\ Len(c2d) < SockCap
    /\ c2d' = Append(c2d, Head(acts)) /\ acts' = Tail(acts) /\ captured' = FALSE
    /\ UNCHANGED <<gui, screen, phase, conn, announced, held, ended, slots, pump, attempt,
                   daemon, d2c, got, dropped>>
-----------------------------------------------------------------------------
(* The end of a call: whatever the losing futures hold is dropped with them. *)
EndCall(why) ==
    /\ phase' = "quiesce" /\ ended' = why /\ acts' = <<>> /\ captured' = FALSE
    /\ held' = None /\ dropped' = dropped \cup {acts[i].n : i \in DOMAIN acts}
    /\ UNCHANGED <<gui, screen, conn, slots, pump, attempt, announced, daemon, c2d, d2c,
                   got>>

StdinEnds ==
    /\ phase = "forward"
    /\ \/ eof /\ stdin = <<>> /\ acts = <<>>
       \/ captured /\ ~open[conn]
    /\ EndCall("stdin")

StdoutEnds ==
    /\ phase = "forward"
    /\ \/ held = None /\ d2c = <<>> /\ ~open[conn]
       \/ held # None /\ ~pump[conn].on
    /\ EndCall("stdout")

WriterEnds == phase = "forward" /\ ~pump[conn].on /\ EndCall("writer")
-----------------------------------------------------------------------------
(* Daemon to stdout. *)

ReadFrame ==
    /\ phase = "forward" /\ held = None /\ d2c # <<>>
    /\ d2c' = Tail(d2c)
    /\ IF Head(d2c) = Upgrading THEN announced' = TRUE /\ held' = held
                                ELSE held' = Head(d2c) /\ announced' = announced
    /\ UNCHANGED <<gui, screen, phase, conn, acts, captured, ended, slots, pump, attempt,
                   daemon, c2d, got, dropped>>

Admit ==
    /\ phase = "forward" /\ held # None /\ pump[conn].on /\ Len(pump[conn].q) < QueueCap
    /\ held' = None /\ pump' = [pump EXCEPT ![conn].q = Append(@, held)]
    /\ UNCHANGED <<gui, screen, phase, conn, acts, captured, announced, ended, slots,
                   attempt, daemon, c2d, d2c, got, dropped>>
-----------------------------------------------------------------------------
(* stdout_writer_pump, on its own thread; an abandoned one goes on. *)
PumpTake(c) ==
    /\ pump[c].on /\ pump[c].cur = None /\ pump[c].q # <<>> /\ phase # "done"
    /\ pump' = [pump EXCEPT ![c].cur = Head(pump[c].q), ![c].q = Tail(@)]
    /\ UNCHANGED <<gui, screen, phase, conn, call, slots, attempt, daemon, c2d, d2c, got,
                   dropped>>

PumpWrite(c) ==
    /\ pump[c].cur # None /\ phase # "done"
    /\ \/ /\ ~eof /\ reading /\ pump' = [pump EXCEPT ![c].cur = None]
          /\ screen' = Append(screen, [frame |-> pump[c].cur, enc |-> EncodingOf(transport)])
       \/ /\ eof /\ pump' = [pump EXCEPT ![c] = IdlePump] /\ UNCHANGED screen
    /\ UNCHANGED <<gui, phase, conn, call, slots, attempt, daemon, c2d, d2c, got, dropped>>

\* The channel is closed and drained.
PumpEnds(c) ==
    /\ pump[c].on /\ pump[c].cur = None /\ pump[c].q = <<>>
    /\ c < conn \/ phase \notin {"forward", "done"}
    /\ pump' = [pump EXCEPT ![c].on = FALSE]
    /\ UNCHANGED <<gui, screen, phase, conn, call, slots, attempt, daemon, c2d, d2c, got,
                   dropped>>
-----------------------------------------------------------------------------
\* conclude_connection
Conclude == phase' = IF announced THEN "reconnect" ELSE "exit"

Unmoved == UNCHANGED <<gui, screen, conn, call, slots, pump, daemon, c2d, d2c, got, dropped>>

\* The join of the writer, when it ends by itself.
Quiesced ==
    /\ phase = "quiesce" /\ (ended = "writer" \/ ~pump[conn].on)
    /\ Conclude /\ attempt' = 0 /\ Unmoved

\* STDOUT_WRITER_QUIESCE_TIMEOUT: the GUI does not read; the pump is abandoned.
QuiesceTimeout ==
    /\ phase = "quiesce" /\ pump[conn].on /\ ~reading /\ ended # "writer"
    /\ Conclude /\ attempt' = 0 /\ Unmoved
-----------------------------------------------------------------------------
(* reconnect_with_backoff: an attempt succeeds or the next one waits. *)
Reconnect ==
    /\ phase = "reconnect" /\ up = "up" /\ conn < MaxConns
    /\ conn' = conn + 1 /\ open' = [open EXCEPT ![conn] = FALSE, ![conn + 1] = TRUE]
    /\ c2d' = <<>> /\ d2c' = <<>> /\ phase' = "capacity"
    /\ UNCHANGED <<gui, screen, call, slots, pump, attempt, up, nframes, warned, got, dropped>>

ReconnectFails ==
    /\ phase = "reconnect" /\ up # "up" /\ attempt' = attempt + 1
    /\ phase' = IF attempt + 1 = MaxAttempts THEN "exit" ELSE "reconnect"
    /\ Unmoved

\* resend_frame: what cannot be written is only logged.
Resend(m) ==
    /\ c2d' = IF m # NoMsg /\ open[conn] THEN Append(c2d, m) ELSE c2d

ResendAttach ==
    /\ phase = "attach" /\ Forward(conn) /\ Resend(lastAttach)
    /\ UNCHANGED <<gui, screen, conn, acts, captured, held, slots, attempt, daemon, d2c,
                   got, dropped>>

ResendCapacity ==
    /\ phase = "capacity" /\ phase' = "attach" /\ Resend(lastCapacity)
    /\ UNCHANGED <<gui, screen, conn, call, slots, pump, attempt, daemon, d2c, got, dropped>>
-----------------------------------------------------------------------------
\* finish_bridge_exit: the Detached is written once no pump is blocked in a write, with
\* the lock of stdout held.
FinishBridgeExit ==
    /\ phase = "exit" /\ phase' = "leaving"
    /\ reading \/ eof \/ \A c \in Conns : pump[c].cur = None
    /\ screen' = IF eof THEN screen
                 ELSE Append(screen, [frame |-> Detached, enc |-> EncodingOf(transport)])
    /\ open' = [c \in Conns |-> FALSE]
    /\ UNCHANGED <<gui, conn, call, slots, pump, attempt, up, nframes, warned, c2d, d2c,
                   got, dropped>>

\* process::exit, 50 ms later; every pump dies with the process.
ProcessExit ==
    /\ phase = "leaving" /\ phase' = "done"
    /\ UNCHANGED <<gui, screen, conn, call, slots, pump, attempt, daemon, c2d, d2c, got,
                   dropped>>
-----------------------------------------------------------------------------
(* The GUI. *)
GuiUnmoved == UNCHANGED <<screen, phase, conn, call, slots, pump, attempt, daemon, c2d, d2c,
                          got, dropped>>

GuiSends ==
    /\ conn > 0 /\ sent < MaxMsgs /\ ~eof /\ sent' = sent + 1
    /\ \E m \in [n : {sent + 1}, kind : Kinds, t : Transports] : stdin' = Append(stdin, m)
    /\ UNCHANGED <<eof, reading>> /\ GuiUnmoved

GuiCloses ==
    /\ "hangup" \in Faults /\ conn > 0 /\ ~eof /\ eof' = TRUE
    /\ UNCHANGED <<stdin, sent, reading>> /\ GuiUnmoved

GuiStalls ==
    /\ "stall" \in Faults /\ conn > 0 /\ reading /\ reading' = FALSE
    /\ UNCHANGED <<stdin, sent, eof>> /\ GuiUnmoved

GuiReadsAgain ==
    /\ ~reading /\ reading' = TRUE /\ UNCHANGED <<stdin, sent, eof>> /\ GuiUnmoved
-----------------------------------------------------------------------------
(* The daemon. *)
DaemonUnmoved == UNCHANGED <<gui, screen, phase, conn, call, slots, pump, attempt, dropped>>

DaemonSends ==
    /\ conn > 0 /\ open[conn] /\ up = "up" /\ nframes[conn] < MaxFrames
    /\ nframes' = [nframes EXCEPT ![conn] = @ + 1]
    /\ d2c' = Append(d2c, Frame(conn, nframes[conn] + 1))
    /\ UNCHANGED <<up, open, warned, c2d, got>> /\ DaemonUnmoved

DaemonReads ==
    /\ c2d # <<>> /\ open[conn] /\ up = "up"
    /\ c2d' = Tail(c2d) /\ got' = [got EXCEPT ![conn] = Append(@, Head(c2d))]
    /\ UNCHANGED <<daemon, d2c>> /\ DaemonUnmoved

DaemonAnnounces ==
    /\ conn > 0 /\ conn < MaxConns /\ open[conn] /\ up = "up" /\ conn \notin warned
    /\ warned' = warned \cup {conn} /\ d2c' = Append(d2c, Upgrading)
    /\ UNCHANGED <<up, open, nframes, c2d, got>> /\ DaemonUnmoved

DaemonExecs ==
    /\ conn \in warned /\ open[conn] /\ up = "up" /\ up' = "exec"
    /\ open' = [open EXCEPT ![conn] = FALSE]
    /\ UNCHANGED <<nframes, warned, c2d, d2c, got>> /\ DaemonUnmoved

DaemonResumes ==
    /\ up = "exec" /\ up' = "up"
    /\ UNCHANGED <<open, nframes, warned, c2d, d2c, got>> /\ DaemonUnmoved

DaemonDies ==
    /\ "crash" \in Faults /\ up # "dead" /\ up' = "dead" /\ open' = [c \in Conns |-> FALSE]
    /\ UNCHANGED <<nframes, warned, c2d, d2c, got>> /\ DaemonUnmoved

\* Detached, kicked or shut down: this connection ends, the daemon goes on.
DaemonCloses ==
    /\ "close" \in Faults /\ conn > 0 /\ open[conn] /\ open' = [open EXCEPT ![conn] = FALSE]
    /\ UNCHANGED <<up, nframes, warned, c2d, d2c, got>> /\ DaemonUnmoved
-----------------------------------------------------------------------------
Pumps == \E c \in Conns : PumpTake(c) \/ PumpWrite(c) \/ PumpEnds(c)

Bridge ==
    \/ Start \/ ReadStdin \/ Capture \/ WriteFrame \/ StdinEnds \/ ReadFrame \/ Admit
    \/ StdoutEnds \/ WriterEnds \/ Quiesced \/ QuiesceTimeout \/ Reconnect
    \/ ReconnectFails \/ ResendCapacity \/ ResendAttach \/ FinishBridgeExit \/ ProcessExit

Gui == GuiSends \/ GuiCloses \/ GuiStalls \/ GuiReadsAgain

Daemon ==
    \/ DaemonSends \/ DaemonReads \/ DaemonAnnounces \/ DaemonExecs \/ DaemonResumes
    \/ DaemonDies \/ DaemonCloses

Next == Bridge \/ Pumps \/ Gui \/ Daemon

Spec == Init /\ [][Next]_vars

\* Each future of the select is polled, the pump has a thread of its own, the timers
\* fire, a write to the terminal completes if the GUI reads again and again, and the
\* daemon reads its connections; nothing is asked of the GUI.
FairSpec ==
    /\ Spec
    /\ WF_vars(Start) /\ WF_vars(ReadStdin) /\ WF_vars(Capture) /\ WF_vars(WriteFrame)
    /\ WF_vars(ReadFrame) /\ WF_vars(Admit)
    /\ WF_vars(StdinEnds) /\ WF_vars(StdoutEnds) /\ WF_vars(WriterEnds)
    /\ WF_vars(Quiesced) /\ WF_vars(QuiesceTimeout) /\ WF_vars(Reconnect)
    /\ WF_vars(ReconnectFails) /\ WF_vars(ResendCapacity) /\ WF_vars(ResendAttach)
    /\ SF_vars(FinishBridgeExit) /\ WF_vars(ProcessExit)
    /\ \A c \in Conns : WF_vars(PumpTake(c)) /\ SF_vars(PumpWrite(c)) /\ WF_vars(PumpEnds(c))
    /\ WF_vars(DaemonReads) /\ WF_vars(DaemonResumes)
-----------------------------------------------------------------------------
(* The state is well formed. *)
TypeOK ==
    /\ stdin \in Seq(Msgs) /\ acts \in Seq(Msgs) /\ c2d \in Seq(Msgs)
    /\ sent \in 0 .. MaxMsgs /\ conn \in 0 .. MaxConns
    /\ {eof, reading, captured, announced} \subseteq BOOLEAN
    /\ \A i \in DOMAIN screen : screen[i].enc \in Encodings
    /\ phase \in {"start", "forward", "quiesce", "reconnect", "capacity", "attach", "exit",
                  "leaving", "done"}
    /\ transport \in Transports \cup {"undetected"}
    /\ {lastCapacity, lastAttach} \subseteq Msgs \cup {NoMsg}
    /\ \A c \in Conns : Len(pump[c].q) <= QueueCap
    /\ attempt \in 0 .. MaxAttempts /\ up \in {"up", "exec", "dead"}
    /\ dropped \subseteq 1 .. MaxMsgs

Frames(s) == [i \in DOMAIN s |-> s[i].frame]
Later(f, g) == f.conn > g.conn \/ (f.conn = g.conn /\ f.id > g.id)

(* stdout_writer_pump and the quiesce at the end of forward_loop_inner: the GUI sees *)
(* the frames in the order the daemon sent them, those of a connection after those of *)
(* the one before, and nothing after the Detached the bridge writes last.             *)
ScreenInOrder ==
    \A i \in 2 .. Len(screen) : Later(screen[i].frame, screen[i - 1].frame)

(* forward_loop_inner: when the daemon's side ended a call while the GUI was reading, *)
(* every frame it had sent on that connection is on the screen before the bridge goes *)
(* on to reconnect or to exit.                                                        *)
NothingLostBeforeTheEnd ==
    (phase \in {"reconnect", "exit"} /\ ended = "stdout" /\ reading /\ ~eof
        /\ \A c \in Conns : pump[c].cur = None /\ ~pump[c].on) =>
      \A i \in 1 .. nframes[conn] :
         Frame(conn, i) \in {screen[j].frame : j \in DOMAIN screen}

Inputs(s) == SelectSeq(s, LAMBDA m : m.kind = "input")

(* reconnect_and_reattach repeats the capacity and the Attach only: across every      *)
(* reconnect the daemon gets each other message at most once and in the order typed.  *)
InputInOrder ==
    LET all == Inputs(FlattenSeq([c \in Conns |-> got[c]])) IN
    \A i \in 2 .. Len(all) : all[i - 1].n < all[i].n

Received(c) == {got[c][i] : i \in DOMAIN got[c]}
Known(kind, n) == {m \in UNION {Received(c) : c \in Conns} : m.kind = kind /\ m.n < n}
Latest(S) == CHOOSE m \in S : \A k \in S : m.n >= k.n

(* A reconnected daemon knows the session and the capacity of the GUI before it gets  *)
(* anything typed: the last Attach and the last valid report it ever got on an        *)
(* earlier connection come first (or newer ones did), and the report precedes the     *)
(* Attach.                                                                            *)
ResumesWhereItWas ==
    \A c \in 2 .. MaxConns : \A i \in DOMAIN got[c] :
       got[c][i].kind = "input" =>
         \A kind \in {"attach", "cap"} :
            Known(kind, got[c][i].n) # {} =>
              \E j \in 1 .. i - 1 :
                 got[c][j].kind = kind /\ got[c][j].n >= Latest(Known(kind, got[c][i].n)).n

CapacityBeforeAttach ==
    \A c \in 2 .. MaxConns : \A i \in DOMAIN got[c] :
       (got[c][i].kind = "attach" /\ \A j \in 1 .. i - 1 : got[c][j].kind # "attach") =>
         \A m \in Known("cap", got[c][i].n) :
            \E j \in 1 .. i - 1 : got[c][j].kind = "cap" /\ got[c][j].n >= m.n

(* write_all resolves the encoding at write time: once a frame went out in the one    *)
(* encoding the GUI was seen to use, no later frame goes out in another or in both.   *)
EncodingSettles ==
    \A i, j \in DOMAIN screen :
       (i < j /\ Cardinality(screen[i].enc) = 1) => screen[j].enc = screen[i].enc

(* bridge_main_loop: with the terminal still there, the bridge gives up after an      *)
(* announced upgrade only when the daemon cannot be reached, or when what ended the   *)
(* call was a message of the GUI that could not be written.                           *)
UpgradeReconnects ==
    (phase \in {"exit", "leaving"} /\ ~eof /\ conn \in warned /\ ~open[conn]) =>
       (attempt = MaxAttempts \/ ended = "stdin")

(* mod.rs: "After the daemon sends the upgrade announcement and the connection then   *)
(* drops, this loop reconnects instead of exiting".                                   *)
AnnouncedNeverExits ==
    (phase \in {"exit", "leaving"} /\ ~eof /\ conn \in warned /\ ~open[conn]) =>
       attempt = MaxAttempts

(* forward.rs: "bytes typed while a connection is dropping still reach the daemon     *)
(* after the reconnect": nothing the bridge read is thrown away by a reconnect.       *)
TypedSurvives == phase = "reconnect" => dropped = {}

(* The daemon is gone: the bridge tells the GUI and exits, whatever the GUI does.     *)
Exits == (up = "dead") ~> (phase = "done")

(* daemon_to_stdout never performs the write itself: a GUI that does not read its     *)
(* terminal does not keep what it types from the daemon.                              *)
=============================================================================
