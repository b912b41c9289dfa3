---------------------------- MODULE MCOutputLive ----------------------------
(* The progress of the panes' output for TLC: one pane with one connection that hides and
   shows it (part "toggle") or hides it and asks for a snapshot ("ask"), the loop of a
   connection whose client reads ("flow") and of one whose client need not, which nobody
   kicks ("input"). PaneOutput and ConnectionLoop share no state here; the one that does
   not run rests at Idle. *)
EXTENDS Naturals, Sequences, FiniteSets, SequencesExt

VARIABLES part,
    captured, entry, nextGen, target, reader, queue, wait, held, conn, job, visible, deferred,
    reserve, wire, kicker, kicked, exited, exitNotice, attaches, requests, toggles,
    pending, granted, later, origin, pane, name, renamed, title, notices, lagged, broadcasts,
    inbox, served, answers, kick, loop, guard, count, batch, todo, then, remainder, asking, outbound, closed,
    writer, wbatch, acked, sent, wasKicked, cut, accepted

Output(c) == INSTANCE PaneOutput WITH
    Conn <- {"c"}, Cap <- 1, MaxChunk <- 1, MaxAttach <- 1, MaxRequest <- c.MaxRequest,
    MaxToggle <- c.MaxToggle, Oversize <- FALSE
Toggle == [part |-> "toggle", MaxRequest |-> 0, MaxToggle |-> 2]
Ask == [part |-> "ask", MaxRequest |-> 1, MaxToggle |-> 1]
Outputs == {Toggle, Ask}
Loop(c) == INSTANCE ConnectionLoop WITH
    Pane <- {"p"}, Windows <- 0, Cap <- 1, WriterBatch <- 1, BatchLimit <- 2, Quota <- 1,
    ChanCap <- 2, NotifyCap <- 1, MaxOutput <- c.MaxOutput, MaxReply <- c.MaxReply, MaxNotice <- 0, MaxName <- 0,
    deferred <- later, reserve <- asking, queue <- outbound, wire <- sent
Flow == [part |-> "flow", MaxOutput |-> 2, MaxReply |-> 0]
Input == [part |-> "input", MaxOutput |-> 3, MaxReply |-> 0]
Loops == {Flow, Input}

Idle == 0
paneVars == <<captured, entry, nextGen, target, reader, queue, wait, held, conn, job, visible,
              deferred, reserve, wire, kicker, kicked, exited, exitNotice, attaches, requests,
              toggles>>
loopVars == <<pending, granted, later, origin, pane, name, renamed, title, notices, lagged, broadcasts,
              inbox, served, answers, kick, loop, guard, count, batch, todo, then, remainder,
              asking, outbound, closed, writer, wbatch, acked, sent, wasKicked, cut, accepted>>
vars == <<part, paneVars, loopVars>>

PaneIdle ==
    /\ captured = Idle /\ entry = Idle /\ nextGen = Idle /\ target = Idle /\ reader = Idle
    /\ queue = Idle /\ wait = Idle /\ held = Idle /\ conn = Idle /\ job = Idle /\ visible = Idle
    /\ deferred = Idle /\ reserve = Idle /\ wire = Idle /\ kicker = Idle /\ kicked = Idle
    /\ exited = Idle /\ exitNotice = Idle /\ attaches = Idle /\ requests = Idle /\ toggles = Idle
LoopIdle ==
    /\ pending = Idle /\ granted = Idle /\ later = Idle /\ origin = Idle /\ pane = Idle
    /\ name = Idle /\ renamed = Idle /\ title = Idle /\ notices = Idle /\ lagged = Idle /\ broadcasts = Idle
    /\ inbox = Idle /\ served = Idle /\ answers = Idle /\ kick = Idle /\ loop = Idle
    /\ guard = Idle /\ count = Idle /\ batch = Idle /\ todo = Idle /\ then = Idle
    /\ remainder = Idle /\ asking = Idle /\ outbound = Idle /\ closed = Idle /\ writer = Idle
    /\ wbatch = Idle /\ acked = Idle /\ sent = Idle /\ wasKicked = Idle /\ cut = Idle
    /\ accepted = Idle

PaneRuns == part \in {c.part : c \in Outputs}

Init ==
    \/ (\E c \in Outputs : part = c.part /\ Output(c)!Init) /\ LoopIdle
    \/ (\E c \in Loops : part = c.part /\ Loop(c)!Init) /\ PaneIdle
Next ==
    \/ (\E c \in Outputs : part = c.part /\ Output(c)!Next) /\ UNCHANGED <<part, loopVars>>
    \/ part = "flow" /\ Loop(Flow)!Next /\ UNCHANGED <<part, paneVars>>
    \/ part = "input" /\ Loop(Input)!Next /\ ~kick' /\ UNCHANGED <<part, paneVars>>

\* The fairness of PaneOutput; a loop that is scheduled; a writer whose client reads, in
\* "flow" only. (PaneOutput's fair actions do not depend on the bounds that Toggle and Ask
\* differ in.)
Spec ==
    /\ Init /\ [][Next]_vars
    /\ WF_paneVars(PaneRuns /\ Output(Toggle)!ReaderProgress)
    /\ WF_paneVars(PaneRuns /\ Output(Toggle)!Task("c"))
    /\ SF_paneVars(PaneRuns /\ Output(Toggle)!OutputArms("c"))
    /\ WF_paneVars(PaneRuns /\ Output(Toggle)!ExitTask)
    /\ WF_loopVars(part = "flow" /\ Loop(Flow)!Loop)
    /\ WF_loopVars(part = "flow" /\ Loop(Flow)!Writer)
    /\ WF_loopVars(part = "input" /\ Loop(Input)!Loop)
-----------------------------------------------------------------------------
\* What must happen in the end (the progress properties of PaneOutput and ConnectionLoop,
\* said of their parts): a reader thread that waits for a slot goes on; a deferred snapshot
\* leaves its queue; a visible client gets its hidden pane back; output is handed to a
\* client that reads, whatever it sends; one that does not read is still listened to; a
\* kicked one that reads is told (pty_reader_loop, flush_deferred_output,
\* handle_set_visibility, CLIENT_MSG_STARVATION_QUOTA, excludable_work, teardown_flush).
OutputProgress ==
    /\ (PaneRuns /\ reader.pc \in {"needSlot", "suppressed", "eofSend"}) ~>
          (PaneRuns /\ reader.pc \in {"read", "notify", "done"})
    /\ (PaneRuns /\ deferred["c"] # <<>>) ~> (PaneRuns /\ deferred["c"] = <<>>)
    /\ LET Hidden == target = Output(Toggle)!Detached(Output(Toggle)!HiddenByVisibility, "c")
       IN  (PaneRuns /\ visible["c"] /\ Hidden /\ ~Output(Toggle)!Leaving("c")) ~>
              (PaneRuns /\ (~Hidden \/ ~visible["c"] \/ Output(Toggle)!Leaving("c") \/ exited))
    /\ \A n \in 1 .. Flow.MaxOutput :
          (part = "flow" /\ Loop(Flow)!Running /\ Len(origin) >= n) ~>
             (part = "flow" /\ (~Loop(Flow)!Running \/ n \in Range(Loop(Flow)!Carried(accepted))))
    /\ \A b \in 0 .. 1 :
          (part = "input" /\ Loop(Input)!Running /\ inbox # "none" /\ served = b) ~>
             (part = "input" /\ (served # b \/ ~Loop(Input)!Running \/ loop = "blocking"))
    /\ (part = "flow" /\ wasKicked) ~>
          (part = "flow" /\ (cut \/ (sent # <<>> /\ Last(sent).type = "detached")))
=============================================================================
