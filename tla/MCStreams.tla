------------------------------ MODULE MCStreams ------------------------------
(* The streams between a client and a host for TLC: the bridge, the parser of its
   standard input, the SFTP service and the drops that start uploads. They share no
   state here, so a behaviour runs one of them, with one choice of constants: a record
   of Bridges, Parsers or Services, named by `part`. The others rest at Idle. *)
EXTENDS Naturals, Sequences, FiniteSets

VARIABLES part,
    stdin, sent, eof, reading, screen, phase, conn, acts, captured, transport, lastCapacity,
    lastAttach, announced, held, pump, ended, attempt, up, open, c2d, d2c, nframes, warned, got,
    dropped,
    state, body, text, digits, accum, isOsc, matched, swallow, input, out, msgs, ground,
    tabs, sessionTab, owner, queue, slot, limit, cancelled, disp, work, result, wasCancelled,
    procs, child, guard, todo, marked, early, stopped, missed, guarded, events,
    shown, active, drops, uploadDialog, overwriteDialog, nextRequest, pendingCheck, listing,
    results, started, confirmed, found, settled

Pipe(c) == INSTANCE Bridge WITH
    MaxConns <- 2, MaxFrames <- c.MaxFrames, MaxMsgs <- c.MaxMsgs, Kinds <- c.Kinds,
    Transports <- c.Transports, QueueCap <- 1, SockCap <- c.SockCap, MaxAttempts <- 2,
    Faults <- {"crash"}
\* An upgrade or a crash between two connections, two frames on each, two transports.
Frames == [part |-> "frames", MaxFrames |-> 2, MaxMsgs |-> 2, Kinds |-> {"attach", "input"},
           Transports |-> {"apc", "plaintext"}, SockCap |-> 1]
\* Three messages of every kind across an upgrade.
Resume == [Frames EXCEPT !.part = "resume", !.MaxFrames = 0, !.MaxMsgs = 3,
             !.Kinds = {"attach", "cap", "badcap", "input"}, !.Transports = {"apc"}]
Bridges == {Frames, Resume}

Parser(c) == INSTANCE StdinParser WITH
    Bytes <- c.Bytes, MaxInput <- c.MaxInput, MaxBody <- c.MaxBody, OscParam <- 9, Start <- c.Start
\* Plaintext lines.
Plain == [part |-> "plain", Bytes |-> {"E", "X", "b", "CR", "LF", "x"}, MaxInput |-> 6,
          MaxBody |-> 3, Start |-> <<>>]
\* The APC encoding, foreign sequences, an ESC inside a body.
Apc == [Plain EXCEPT !.part = "apc", !.Bytes = {"ESC", "us", "bs", "m", "b", "E"},
          !.MaxBody = 6]
\* Inputs that begin with an OSC, its parameter scaled to one digit.
Osc == [Plain EXCEPT !.part = "osc", !.Bytes = {"ESC", "rb", "9", "1", "semi", "m", "b", "BEL"},
          !.MaxInput = 7, !.MaxBody = 4, !.Start = <<"ESC", "rb">>]
Parsers == {Plain, Apc, Osc}

Service(c) == INSTANCE SftpService WITH
    Tabs <- c.Tabs, MaxSessions <- 2, Limits <- c.Limits, Ops <- c.Ops
\* Two uploads of one tab under a limit of one, cancelled at any moment.
Pool == [part |-> "pool", Tabs |-> {"t1"}, Limits |-> {1}, Ops |-> {"cancel"}]
\* Two tabs, a limit that changes, tabs closed with and without the question.
Closing == [part |-> "closing", Tabs |-> {"t1", "t2"}, Limits |-> {0, 2}, Ops |-> {"close", "key"}]
Services == {Pool, Closing}

Drops == INSTANCE SftpFlow WITH
    Ssh <- {"s1", "s2"}, Plain <- {"p"}, MaxDrops <- 3, tabs <- shown, dropped <- drops

ASSUME BridgesAssumption == \A c \in Bridges : Pipe(c)!BridgeAssumption
ASSUME ParsersAssumption == \A c \in Parsers : Parser(c)!ParserAssumption
ASSUME ServicesAssumption == \A c \in Services : Service(c)!SftpAssumption
ASSUME DropsAssumption == Drops!FlowAssumption
-----------------------------------------------------------------------------
Idle == 0
bridgeVars == <<stdin, sent, eof, reading, screen, phase, conn, acts, captured, transport,
                lastCapacity, lastAttach, announced, held, pump, ended, attempt, up, open, c2d,
                d2c, nframes, warned, got, dropped>>
parserVars == <<state, body, text, digits, accum, isOsc, matched, swallow, input, out, msgs, ground>>
serviceVars == <<tabs, sessionTab, owner, queue, slot, limit, cancelled, disp, work, result,
                 wasCancelled, procs, child, guard, todo, marked, early, stopped, missed, guarded, events>>
dropVars == <<shown, active, drops, uploadDialog, overwriteDialog, nextRequest, pendingCheck,
              listing, results, started, confirmed, found, settled>>
vars == <<part, bridgeVars, parserVars, serviceVars, dropVars>>

BridgeIdle ==
    /\ stdin = Idle /\ sent = Idle /\ eof = Idle /\ reading = Idle /\ screen = Idle /\ phase = Idle
    /\ conn = Idle /\ acts = Idle /\ captured = Idle /\ transport = Idle /\ lastCapacity = Idle
    /\ lastAttach = Idle /\ announced = Idle /\ held = Idle /\ pump = Idle /\ ended = Idle
    /\ attempt = Idle /\ up = Idle /\ open = Idle /\ c2d = Idle /\ d2c = Idle /\ nframes = Idle
    /\ warned = Idle /\ got = Idle /\ dropped = Idle
ParserIdle ==
    /\ state = Idle /\ body = Idle /\ text = Idle /\ digits = Idle /\ accum = Idle /\ isOsc = Idle
    /\ matched = Idle /\ swallow = Idle /\ input = Idle /\ out = Idle /\ msgs = Idle /\ ground = Idle
ServiceIdle ==
    /\ tabs = Idle /\ sessionTab = Idle /\ owner = Idle /\ queue = Idle /\ slot = Idle
    /\ limit = Idle /\ cancelled = Idle /\ disp = Idle /\ work = Idle /\ result = Idle
    /\ wasCancelled = Idle /\ procs = Idle /\ child = Idle /\ guard = Idle /\ todo = Idle
    /\ marked = Idle /\ early = Idle /\ stopped = Idle
    /\ missed = Idle /\ guarded = Idle /\ events = Idle
DropsIdle ==
    /\ shown = Idle /\ active = Idle /\ drops = Idle /\ uploadDialog = Idle
    /\ overwriteDialog = Idle /\ nextRequest = Idle /\ pendingCheck = Idle /\ listing = Idle
    /\ results = Idle /\ started = Idle /\ confirmed = Idle /\ found = Idle /\ settled = Idle

Init ==
    \/ \E c \in Bridges : part = c.part /\ Pipe(c)!Init /\ ParserIdle /\ ServiceIdle /\ DropsIdle
    \/ \E c \in Parsers : part = c.part /\ Parser(c)!Init /\ BridgeIdle /\ ServiceIdle /\ DropsIdle
    \/ \E c \in Services : part = c.part /\ Service(c)!Init /\ BridgeIdle /\ ParserIdle /\ DropsIdle
    \/ part = "drops" /\ Drops!Init /\ BridgeIdle /\ ParserIdle /\ ServiceIdle

Next ==
    \/ /\ \E c \in Bridges : part = c.part /\ Pipe(c)!Next
       /\ UNCHANGED <<part, parserVars, serviceVars, dropVars>>
    \/ /\ \E c \in Parsers : part = c.part /\ Parser(c)!Next
       /\ UNCHANGED <<part, bridgeVars, serviceVars, dropVars>>
    \/ /\ \E c \in Services : part = c.part /\ Service(c)!Next
       /\ UNCHANGED <<part, bridgeVars, parserVars, dropVars>>
    \/ /\ part = "drops" /\ Drops!Next
       /\ UNCHANGED <<part, bridgeVars, parserVars, serviceVars>>

Spec == Init /\ [][Next]_vars
-----------------------------------------------------------------------------
\* The GUI sees every frame in order across connections, the daemon gets input at most
\* once and in order, and a new connection starts with the last valid capacity and the
\* last attach (mux/bridge/forward.rs, mux/bridge/mod.rs).
BridgeKeepsOrder ==
    \A c \in Bridges : part = c.part =>
       /\ Pipe(c)!TypeOK
       /\ c = Frames => /\ Pipe(c)!ScreenInOrder /\ Pipe(c)!NothingLostBeforeTheEnd
                        /\ Pipe(c)!EncodingSettles /\ Pipe(c)!UpgradeReconnects
       /\ c = Resume => /\ Pipe(c)!InputInOrder /\ Pipe(c)!ResumesWhereItWas
                        /\ Pipe(c)!CapacityBeforeAttach

\* Every byte is passed on, decoded or dropped; only what begins as a message and fails,
\* or is too long, is dropped, so that foreign sequences reach the daemon; a message that
\* begins in Ground is found, and nothing else is decoded, in inputs too short for the number
\* of an OSC to wrap (mux/bridge/stdin_parser.rs: feed, complete_mux_sequence).
MessagesFound ==
    \A c \in Parsers : part = c.part =>
       /\ Parser(c)!TypeOK /\ Parser(c)!NothingVanishes /\ Parser(c)!NoneMissed
       /\ Parser(c)!OnlyOwnDropped /\ Parser(c)!OnlyMessages
       /\ c = Plain => Parser(c)!BodyBounded

\* Transfers stay below the limit; every upload ends once and leaves nothing in the pool,
\* the map or the registry.  One cancelled before the dispatcher's second look never starts
\* a child, one whose child was registered when its cancel looked runs no longer, and a
\* killed one is reported as cancelled.  A tab closed through request_close_tab or the
\* answer to its question runs no upload once its cancels have returned.  Excepted are the
\* cancels that fall between that second look and the registration, which miss the child,
\* and the tabs closed by the Close Tab key (sftp/service.rs, app/sftp.rs).
UploadsEnd ==
    \A c \in Services : part = c.part =>
       /\ Service(c)!TypeOK /\ Service(c)!NothingLeftBehind /\ Service(c)!TransfersBounded
       /\ Service(c)!QueuedCancelNeverTransfers /\ Service(c)!CancelReaches
       /\ Service(c)!OneTerminalStatus /\ Service(c)!KilledIsCancelled
       /\ Service(c)!GuardedTabsAreQuiet

\* A drop is uploaded to the tab it was dropped on, after its check, and settled once
\* (app/sftp.rs).
DropsGoHome ==
    part = "drops" =>
       /\ Drops!TypeOK /\ Drops!UploadsGoWhereDropped
       /\ Drops!NoUnverifiedUpload /\ Drops!SettledOnce
=============================================================================
