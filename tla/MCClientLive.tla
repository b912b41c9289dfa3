---------------------------- MODULE MCClientLive ----------------------------
(* The progress of the client side for TLC: the bridge, the uploads and the drops of
   MCStreams, and besides them the switching of windows and the image viewers, each in
   one small choice of constants named by `part`. *)
EXTENDS MCStreams

VARIABLES session, wins, front, gone, core, pending, redispatch, restore, grid, told, pumping, live,
    output, streaming, asked, chan, ops, lost,
    chunks, commands, handler, store, places, jobs, alive, children, files, viewers

Ending(c) == INSTANCE Bridge WITH
    MaxConns <- c.MaxConns, MaxFrames <- c.MaxFrames, MaxMsgs <- 1, Kinds <- {"input"},
    Transports <- {"apc"}, QueueCap <- 1, SockCap <- 1, MaxAttempts <- 2, Faults <- c.Faults
\* The daemon crashes, hangs up or closes, on two connections.
Exits == [part |-> "exits", MaxConns |-> 2, MaxFrames |-> 1, Faults |-> {"crash", "hangup", "close"}]
\* The GUI stops reading its terminal.
Stalls == [part |-> "stalls", MaxConns |-> 1, MaxFrames |-> 3, Faults |-> {"crash", "stall", "close"}]
Endings == {Exits, Stalls}

\* Tabs are closed while their uploads wait and run.
Uploads == [Pool EXCEPT !.part = "uploads", !.Ops = {"close"}]

Answers == INSTANCE SftpFlow WITH
    Ssh <- {"s1"}, Plain <- {"p"}, MaxDrops <- 2, tabs <- shown, dropped <- drops

\* Panics of workers and threads that do not start, while windows open, switch and end.
Screen == INSTANCE ClientReplay WITH
    MaxPane <- 2, NumWindows <- 1, MaxOut <- 1, MaxOps <- 4, QueueCap <- 1, Dims <- {80},
    Kinds <- {"big"}, Ops <- {"connect", "create", "switch", "exit"}, Faults <- {"panic", "spawn"},
    active <- front, out <- output

Up(id, act, n, size) == [tab |-> "A", id |-> id, act |-> act, chunks |-> n, size |-> size]
\* Two images, two viewers at a time, starts that fail.
Viewers == INSTANCE Images WITH
    Tabs <- {"A"}, Ids <- {7}, Uploads <- {1, 2}, Of <- <<Up(7, "T", 1, 1), Up(0, "T", 1, 2)>>,
    Later <- "all", Quota <- 9, MaxCount <- 9, QueueDepth <- 2, MaxChildren <- 2, Batch <- 1,
    MaxFiles <- 3, Requests <- {"put"}, Faults <- {"spawn"},
    sent <- chunks, out <- commands, queue <- jobs, started <- viewers

screenVars == <<session, wins, front, gone, core, pending, redispatch, restore, grid, told,
                pumping, live, output, streaming, asked, chan, ops, lost>>
imageVars == <<chunks, commands, handler, store, places, jobs, alive, children, files, viewers>>

ScreenIdle ==
    /\ session = Idle /\ wins = Idle /\ front = Idle /\ gone = Idle /\ core = Idle
    /\ pending = Idle /\ redispatch = Idle /\ restore = Idle /\ grid = Idle /\ told = Idle
    /\ pumping = Idle /\ live = Idle /\ output = Idle /\ streaming = Idle /\ asked = Idle
    /\ chan = Idle /\ ops = Idle /\ lost = Idle
ImagesIdle ==
    /\ chunks = Idle /\ commands = Idle /\ handler = Idle /\ store = Idle /\ places = Idle
    /\ jobs = Idle /\ alive = Idle /\ children = Idle /\ files = Idle /\ viewers = Idle

LiveInit ==
    /\ ParserIdle
    /\ \/ /\ \E c \in Endings : part = c.part /\ Ending(c)!Init
          /\ ServiceIdle /\ DropsIdle /\ ScreenIdle /\ ImagesIdle
       \/ /\ part = "uploads" /\ Service(Uploads)!Init
          /\ BridgeIdle /\ DropsIdle /\ ScreenIdle /\ ImagesIdle
       \/ /\ part = "answers" /\ Answers!Init
          /\ BridgeIdle /\ ServiceIdle /\ ScreenIdle /\ ImagesIdle
       \/ /\ part = "screen" /\ Screen!Init
          /\ BridgeIdle /\ ServiceIdle /\ DropsIdle /\ ImagesIdle
       \/ /\ part = "viewers" /\ Viewers!Init
          /\ BridgeIdle /\ ServiceIdle /\ DropsIdle /\ ScreenIdle

LiveNext ==
    /\ UNCHANGED <<part, parserVars>>
    /\ \/ /\ \E c \in Endings : part = c.part /\ Ending(c)!Next
          /\ UNCHANGED <<serviceVars, dropVars, screenVars, imageVars>>
       \/ /\ part = "uploads" /\ Service(Uploads)!Next
          /\ UNCHANGED <<bridgeVars, dropVars, screenVars, imageVars>>
       \/ /\ part = "answers" /\ Answers!Next
          /\ UNCHANGED <<bridgeVars, serviceVars, screenVars, imageVars>>
       \/ /\ part = "screen" /\ Screen!Next
          /\ UNCHANGED <<bridgeVars, serviceVars, dropVars, imageVars>>
       \/ /\ part = "viewers" /\ Viewers!Next
          /\ UNCHANGED <<bridgeVars, serviceVars, dropVars, screenVars>>

\* A step of the bridge in one of its parts.
OfEnding(c, A) == part = c.part /\ A
EndingFairness(c) ==
    /\ WF_bridgeVars(OfEnding(c, Ending(c)!Start)) /\ WF_bridgeVars(OfEnding(c, Ending(c)!ReadStdin))
    /\ WF_bridgeVars(OfEnding(c, Ending(c)!Capture))
    /\ WF_bridgeVars(OfEnding(c, Ending(c)!WriteFrame))
    /\ WF_bridgeVars(OfEnding(c, Ending(c)!ReadFrame)) /\ WF_bridgeVars(OfEnding(c, Ending(c)!Admit))
    /\ WF_bridgeVars(OfEnding(c, Ending(c)!StdinEnds))
    /\ WF_bridgeVars(OfEnding(c, Ending(c)!StdoutEnds))
    /\ WF_bridgeVars(OfEnding(c, Ending(c)!WriterEnds))
    /\ WF_bridgeVars(OfEnding(c, Ending(c)!Quiesced))
    /\ WF_bridgeVars(OfEnding(c, Ending(c)!QuiesceTimeout))
    /\ WF_bridgeVars(OfEnding(c, Ending(c)!Reconnect))
    /\ WF_bridgeVars(OfEnding(c, Ending(c)!ReconnectFails))
    /\ WF_bridgeVars(OfEnding(c, Ending(c)!ResendCapacity))
    /\ WF_bridgeVars(OfEnding(c, Ending(c)!ResendAttach))
    /\ SF_bridgeVars(OfEnding(c, Ending(c)!FinishBridgeExit))
    /\ WF_bridgeVars(OfEnding(c, Ending(c)!ProcessExit))
    /\ \A n \in 1 .. c.MaxConns :
          /\ WF_bridgeVars(OfEnding(c, Ending(c)!PumpTake(n)))
          /\ SF_bridgeVars(OfEnding(c, Ending(c)!PumpWrite(n)))
          /\ WF_bridgeVars(OfEnding(c, Ending(c)!PumpEnds(n)))
    /\ WF_bridgeVars(OfEnding(c, Ending(c)!DaemonReads))
    /\ WF_bridgeVars(OfEnding(c, Ending(c)!DaemonResumes))

\* The fairness of each component, for the part it runs in.
LiveSpec ==
    /\ LiveInit /\ [][LiveNext]_<<vars, screenVars, imageVars>>
    /\ EndingFairness(Exits) /\ EndingFairness(Stalls)
    /\ WF_serviceVars(part = "uploads" /\ Service(Uploads)!Dispatcher)
    /\ WF_serviceVars(part = "uploads" /\ Service(Uploads)!CancelMark)
    /\ WF_serviceVars(part = "uploads" /\ Service(Uploads)!CancelKill)
    /\ \A s \in 1 .. 2 : WF_serviceVars(part = "uploads" /\ Service(Uploads)!Thread(s))
    /\ WF_dropVars(part = "answers" /\ Answers!PumpResult)
    /\ \A r \in Answers!Batches : WF_dropVars(part = "answers" /\ Answers!ListingEnds(r))
    /\ WF_screenVars(part = "screen" /\ Screen!ApplyMuxMessage)
    /\ WF_screenVars(part = "screen" /\ Screen!Poll)
    /\ WF_screenVars(part = "screen" /\ Screen!DaemonAnswers)
    /\ WF_screenVars(part = "screen" /\ Screen!SwitchWorker)
    /\ WF_screenVars(part = "screen" /\ Screen!RestoreWorker)
    /\ WF_imageVars(part = "viewers" /\ Viewers!Reap)
    /\ WF_imageVars(part = "viewers" /\ Viewers!Spawn)
    /\ WF_imageVars(part = "viewers" /\ Viewers!ReadFile)
-----------------------------------------------------------------------------
\* What must happen in the end (the progress properties of Bridge, SftpService, SftpFlow,
\* ClientReplay and Images, said of their parts): a bridge whose daemon is gone exits, and
\* a stopped terminal keeps no input from the daemon; every upload ends; every confirmed
\* batch is answered; the screen shows the active pane; every payload file goes away
\* (mux/bridge/forward.rs, sftp/service.rs, app/sftp.rs, tabs/replay.rs, viewer/image.rs).
ClientProgress ==
    /\ (part = "exits" /\ up = "dead") ~> (part = "exits" /\ phase = "done")
    /\ (part = "stalls" /\ stdin # <<>> /\ phase = "forward") ~>
          (part = "stalls" /\ (stdin = <<>> \/ phase # "forward"))
    /\ \A s \in 1 .. 2 :
          (part = "uploads" /\ owner[s] # Service(Uploads)!NoTab) ~>
             (part = "uploads" /\ work[s] = "done")
    /\ \A r \in Answers!Batches :
          (part = "answers" /\ r \in DOMAIN pendingCheck) ~>
             (part = "answers" /\ r \notin DOMAIN pendingCheck)
    /\ <>[](part = "screen" =>
               gone \/ front \notin live \/ lost # {} \/ (pending = Screen!NoSwitch /\ core.pane = front))
    /\ \A f \in 1 .. 3 : (part = "viewers" /\ f \in files) ~> (part = "viewers" /\ f \notin files)
=============================================================================
