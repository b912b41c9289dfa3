---------------------------- MODULE DaemonStart ----------------------------
(***************************************************************************)
(* One socket path, many processes (mux/daemon/connect.rs,                 *)
(* control_client.rs, identity.rs, run_daemon, cli/admin.rs): commands     *)
(* find a daemon, start one, replace a daemon of the previous protocol,    *)
(* ask one to replace itself or stop it, all through the file system and   *)
(* short connections.  What happens inside an upgrade is HotUpgrade.       *)
(***************************************************************************)
EXTENDS Naturals, FiniteSets

CONSTANTS
    Clients, Cmd,  \* commands that run, what each is: "start", "attach", "upgrade", "kill"
    Bins,          \* 1 .. n, the executables in the order they are installed
    Previous,      \* those that speak the previous protocol
    CanUpgrade,    \* those that know the Upgrade message
    First,         \* what is found at first: "nothing", "stale", "serving"
    MaxDaemon,     \* bound: daemon processes
    Faults         \* "split", "crash", "exec", "refuse", "late"

\* split: a socket is bound before it listens; exec: execve fails; refuse: validation or
\* probe of a candidate fails; late: an answer or a start takes longer than is waited.
DaemonStartAssumption ==
    /\ MaxDaemon \in Nat \ {0} /\ Bins = 1 .. Cardinality(Bins)
    /\ Previous \subseteq Bins /\ CanUpgrade \subseteq Bins
    /\ Cmd \in [Clients -> {"start", "attach", "upgrade", "kill"}]
    /\ First \in {"nothing", "stale", "serving"}
    /\ Faults \subseteq {"split", "crash", "exec", "refuse", "late"}

VARIABLES
    disk,      \* the executable at the installed path
    sock,      \* the daemon whose socket the path names, 0 for no file
    identity,  \* what the identity file records, 0 for no file
    dpc, image, open, rec,  \* per daemon: where it is, its executable, does it listen,
                            \* the identity it recorded
    stop, asks,             \* per daemon: a Shutdown arrived, clients that sent Upgrade
    pc, conn, reply,        \* per client: where it is, its connection, the answer to Upgrade
    asked, said,            \* history: daemon and executable asked to upgrade; the claim made
    failed                  \* history: per daemon, executables it could not replace itself by

daemonVars == <<dpc, image, open, rec, stop, asks>>
clientVars == <<pc, conn, reply, asked, said>>
vars == <<disk, sock, identity, daemonVars, clientVars, failed>>

Daemon == 1 .. MaxDaemon
Protocol(b) == IF b \in Previous THEN 1 ELSE 2
Connectable == sock # 0 /\ open[sock]

Init ==
    /\ disk = 1 /\ sock = (IF First = "nothing" THEN 0 ELSE 1)
    /\ identity = (IF First = "nothing" \/ 1 \in Previous THEN 0 ELSE 1)
    /\ dpc = [d \in Daemon |-> IF d > 1 \/ First = "nothing" THEN "unborn"
                               ELSE IF First = "stale" THEN "gone" ELSE "serve"]
    /\ image = [d \in Daemon |-> 1] /\ open = [d \in Daemon |-> d = 1 /\ First = "serving"]
    /\ rec = [d \in Daemon |-> IF d = 1 /\ First = "serving" THEN 1 ELSE 0]
    /\ stop = [d \in Daemon |-> FALSE] /\ asks = [d \in Daemon |-> {}]
    /\ pc = [c \in Clients |-> "idle"] /\ conn = [c \in Clients |-> 0]
    /\ reply = [c \in Clients |-> "none"] /\ asked = [c \in Clients |-> <<0, 0>>]
    /\ said = [c \in Clients |-> "nothing"] /\ failed = [d \in Daemon |-> {}]
-----------------------------------------------------------------------------
(* The daemon. *)
Moves(d, to) == dpc' = [dpc EXCEPT ![d] = to]
Dies(d) == Moves(d, "gone") /\ open' = [open EXCEPT ![d] = FALSE]
\* What was said over its accepted connections is lost.
Accepted == {"verdict", "fire", "reply", "upAsk", "upReply", "ask", "shut"}
DropsConnections(d) ==
    conn' = [c \in Clients |-> IF conn[c] = d /\ pc[c] \in Accepted THEN 0 ELSE conn[c]]

\* bind_fresh_listener: cleanup_stale_socket, bind, listen, the permissions of the path
StaleCheck(d) ==
    /\ dpc[d] = "check" /\ Moves(d, IF sock # 0 /\ ~Connectable THEN "unlink" ELSE "bind")
    /\ UNCHANGED <<disk, sock, identity, image, open, rec, stop, asks, clientVars, failed>>

StaleUnlink(d) ==
    /\ dpc[d] = "unlink" /\ sock' = 0 /\ Moves(d, IF sock = 0 THEN "gone" ELSE "bind")
    /\ UNCHANGED <<disk, identity, image, open, rec, stop, asks, clientVars, failed>>

Bind(d) ==
    /\ dpc[d] = "bind"
    /\ IF sock # 0 THEN Dies(d) /\ UNCHANGED sock
       ELSE sock' = d /\ Moves(d, "listen") /\ open' = [open EXCEPT ![d] = "split" \notin Faults]
    /\ UNCHANGED <<disk, identity, image, rec, stop, asks, clientVars, failed>>

Listen(d) ==
    /\ dpc[d] = "listen"
    /\ IF sock = 0 THEN Dies(d) ELSE Moves(d, "record") /\ open' = [open EXCEPT ![d] = TRUE]
    /\ UNCHANGED <<disk, sock, identity, image, rec, stop, asks, clientVars, failed>>

\* current_exe of a replaced executable names no file.
Recorded(d) == IF image[d] = disk THEN disk ELSE 0

\* record_or_invalidate, before the first connection is accepted
Record(d) ==
    /\ dpc[d] = "record" /\ Moves(d, "serve")
    /\ identity' = Recorded(d) /\ rec' = [rec EXCEPT ![d] = identity']
    /\ UNCHANGED <<disk, sock, image, open, stop, asks, clientVars, failed>>

Answers(c, d, r) == IF conn[c] = d THEN reply' = [reply EXCEPT ![c] = r] ELSE UNCHANGED reply

\* The upgrade branch of run_daemon; nothing else is accepted until it is through.
TakeUpgrade(d, c) ==
    /\ dpc[d] = "serve" /\ c \in asks[d] /\ asks' = [asks EXCEPT ![d] = @ \ {c}]
    /\ CASE image[d] \notin CanUpgrade -> UNCHANGED <<dpc, reply>>
         [] rec[d] = 0 -> Answers(c, d, "refused") /\ UNCHANGED dpc
         [] OTHER -> Moves(d, "prepare") /\ reply' = [reply EXCEPT ![c] = "pending"]
    /\ UNCHANGED <<disk, sock, identity, image, open, rec, stop, pc, conn, asked, said, failed>>

Prepare(d) ==
    /\ dpc[d] = "prepare"
    /\ \/ Moves(d, "exec") /\ DropsConnections(d) /\ UNCHANGED reply
       \/ /\ "refuse" \in Faults /\ Moves(d, "serve") /\ UNCHANGED conn
          /\ reply' = [c \in Clients |->
                         IF reply[c] = "pending" /\ conn[c] = d THEN "refused" ELSE reply[c]]
    /\ UNCHANGED <<disk, sock, identity, image, open, rec, stop, asks, pc, asked, said, failed>>

\* perform_upgrade_replacement: the listener stays open, the startup runs again.
Exec(d) ==
    /\ dpc[d] = "exec" /\ Moves(d, "record") /\ asks' = [asks EXCEPT ![d] = {}]
    /\ stop' = [stop EXCEPT ![d] = FALSE]
    /\ \/ image' = [image EXCEPT ![d] = disk] /\ UNCHANGED failed
       \/ "exec" \in Faults /\ failed' = [failed EXCEPT ![d] = @ \cup {disk}] /\ UNCHANGED image
    /\ UNCHANGED <<disk, sock, identity, open, rec, clientVars>>

\* The loop ends; panes are closed; the path is removed; the listener goes last.
LoopEnds(d) ==
    /\ dpc[d] = "serve" /\ stop[d] /\ Moves(d, "grace") /\ DropsConnections(d)
    /\ UNCHANGED <<disk, sock, identity, image, open, rec, stop, asks, pc, reply, asked, said, failed>>
RemoveSocket(d) ==
    /\ dpc[d] = "grace" /\ sock' = 0 /\ Moves(d, "close")
    /\ UNCHANGED <<disk, identity, image, open, rec, stop, asks, clientVars, failed>>
Close(d) ==
    /\ dpc[d] = "close" /\ Dies(d)
    /\ UNCHANGED <<disk, sock, identity, image, rec, stop, asks, clientVars, failed>>
Crash(d) ==
    /\ "crash" \in Faults /\ dpc[d] \notin {"unborn", "gone"} /\ Dies(d) /\ DropsConnections(d)
    /\ UNCHANGED <<disk, sock, identity, image, rec, stop, asks, pc, reply, asked, said, failed>>
-----------------------------------------------------------------------------
(* The commands. *)
Goto(c, to) == pc' = [pc EXCEPT ![c] = to]
Stays == UNCHANGED <<disk, identity, daemonVars, failed>>
Quiet == Stays /\ UNCHANGED <<sock, reply, asked, said>>

Begin(c) ==
    /\ pc[c] = "idle" /\ Quiet /\ UNCHANGED conn
    /\ Goto(c, CASE Cmd[c] = "start" -> "look" [] Cmd[c] = "attach" -> "exists"
                 [] Cmd[c] = "upgrade" -> IF Connectable THEN "up" ELSE "err"
                 [] Cmd[c] = "kill" -> IF Connectable THEN "kill" ELSE "ok")

\* A plausible slip: a file at the path counts as stale.
LookBlind(c) ==
    /\ pc[c] = "look" /\ Quiet /\ UNCHANGED conn /\ Goto(c, IF sock # 0 THEN "unlink" ELSE "exists")
\* ensure_daemon_running: cleanup_stale_socket, then the file decides; attach starts nothing.
Look(c) ==
    /\ pc[c] = "look" /\ Quiet /\ UNCHANGED conn
    /\ Goto(c, IF sock # 0 /\ ~Connectable THEN "unlink" ELSE "exists")
Exists(c) ==
    /\ pc[c] = "exists" /\ Quiet /\ UNCHANGED conn
    /\ Goto(c, IF sock # 0 THEN "probe" ELSE IF Cmd[c] = "attach" THEN "err" ELSE "spawn")

\* The three places where a command removes the file: cleanup_stale_socket,
\* wait_for_daemon_exit, shutdown_daemon_any_version.
AfterUnlink(c) ==
    [unlink |-> IF sock = 0 THEN "err" ELSE "exists", unlinkOld |-> "spawn", killUnlink |-> "ok"]
Unlink(c) ==
    /\ pc[c] \in {"unlink", "unlinkOld", "killUnlink"} /\ Goto(c, AfterUnlink(c)[pc[c]]) /\ sock' = 0
    /\ Stays /\ UNCHANGED <<conn, reply, asked, said>>

\* connect_daemon: where it is called, what follows, what follows a failure
Connects ==
    [probe |-> <<"hello", "err">>, legacy |-> <<"helloOld", "err">>, again |-> <<"helloEnd", "err">>,
     up |-> <<"upHello", "err">>, upOld |-> <<"upHelloOld", "err">>,
     kill |-> <<"killHello", "killUnlink">>, killOld |-> <<"killHelloOld", "err">>]
Connect(c) ==
    /\ pc[c] \in DOMAIN Connects /\ Goto(c, Connects[pc[c]][IF Connectable THEN 1 ELSE 2])
    /\ conn' = [conn EXCEPT ![c] = IF Connectable THEN sock ELSE 0] /\ Quiet

\* handshake_with_version: the version, what follows acceptance and rejection
Hellos ==
    [hello |-> <<2, "verdict", "legacy">>, helloOld |-> <<1, "ask", "err">>,
     helloEnd |-> <<1, "shut", "err">>, upHello |-> <<2, "upAsk", "upOld">>,
     upHelloOld |-> <<1, "upAsk", "err">>, killHello |-> <<2, "shut", "killOld">>,
     killHelloOld |-> <<1, "shut", "err">>]

Accepts(b, v) == Protocol(b) = v

Hello(c) ==
    /\ pc[c] \in DOMAIN Hellos /\ conn[c] # 0 /\ dpc[conn[c]] = "serve"
    /\ LET h == Hellos[pc[c]]
           yes == Accepts(image[conn[c]], h[1])
       IN Goto(c, h[IF yes THEN 2 ELSE 3]) /\ conn' = [conn EXCEPT ![c] = IF yes THEN @ ELSE 0]
    /\ Quiet
HelloFails(c) ==
    /\ pc[c] \in DOMAIN Hellos /\ conn[c] # 0 /\ dpc[conn[c]] # "serve"
    /\ open[conn[c]] => "late" \in Faults
    /\ Goto(c, "err") /\ conn' = [conn EXCEPT ![c] = 0] /\ Quiet

\* identity::check
Verdict == IF identity = 0 THEN "undecidable" ELSE IF identity = disk THEN "unchanged" ELSE "updated"

\* trigger_binary_update_if_detected
Detect(c) ==
    /\ pc[c] = "verdict" /\ Goto(c, IF Verdict = "updated" THEN "fire" ELSE "ok")
    /\ Quiet /\ UNCHANGED conn

\* send_upgrade; a legacy daemon is not listened to afterwards.
Asks == [fire |-> "reply", upAsk |-> "upReply", ask |-> "lpoll"]
SendUpgrade(c) ==
    /\ pc[c] \in DOMAIN Asks
    /\ IF conn[c] # 0 /\ dpc[conn[c]] \in {"serve", "prepare"}
       THEN /\ asks' = [asks EXCEPT ![conn[c]] = @ \cup {c}] /\ Goto(c, Asks[pc[c]])
            /\ asked' = [asked EXCEPT ![c] = <<conn[c], image[conn[c]]>>]
       ELSE /\ Goto(c, CASE pc[c] = "fire" -> "ok" [] pc[c] = "upAsk" -> "err" [] OTHER -> "again")
            /\ UNCHANGED <<asks, asked>>
    /\ conn' = [conn EXCEPT ![c] = IF pc[c] = "ask" THEN 0 ELSE @]
    /\ UNCHANGED <<disk, sock, identity, dpc, image, open, rec, stop, reply, said, failed>>

\* read_upgrade_response: refused, or closed or nothing in time
ReadReply(c) ==
    /\ pc[c] \in {"reply", "upReply"}
    /\ \/ reply[c] = "refused" /\ Goto(c, IF pc[c] = "reply" THEN "ok" ELSE "err")
       \/ /\ conn[c] # 0 => "late" \in Faults \/ image[conn[c]] \notin CanUpgrade
          /\ reply[c] # "refused" /\ Goto(c, IF pc[c] = "reply" THEN "poll" ELSE "upPoll")
    /\ conn' = [conn EXCEPT ![c] = 0] /\ Quiet

\* The identity is checked again.
Notice == IF Verdict = "unchanged" THEN "upgraded" ELSE "unconfirmed"

\* wait_for_daemon_reachable_at_current_version, and what each caller concludes
Reachable(c) ==
    /\ pc[c] \in {"poll", "lpoll", "upPoll"}
    /\ Connectable /\ dpc[sock] = "serve" /\ Accepts(image[sock], 2) /\ Goto(c, "ok")
    /\ said' = [said EXCEPT ![c] = CASE pc[c] = "poll" -> Notice [] pc[c] = "upPoll" -> "upgraded"
                                     [] OTHER -> @]
    /\ Stays /\ UNCHANGED <<sock, conn, reply, asked>>
Unreachable(c) ==
    /\ pc[c] \in {"poll", "lpoll", "upPoll"}
    /\ Goto(c, CASE pc[c] = "poll" -> "ok" [] pc[c] = "upPoll" -> "err" [] OTHER -> "again")
    /\ Quiet /\ UNCHANGED conn

\* send_shutdown, over an accepted connection
SendShutdown(c) ==
    /\ pc[c] = "shut" /\ Goto(c, IF Cmd[c] = "kill" THEN "ok" ELSE "waitExit")
    /\ stop' = IF conn[c] # 0 /\ dpc[conn[c]] \in {"serve", "prepare"} THEN [stop EXCEPT ![conn[c]] = TRUE] ELSE stop
    /\ conn' = [conn EXCEPT ![c] = 0]
    /\ UNCHANGED <<disk, sock, identity, dpc, image, open, rec, asks, reply, asked, said, failed>>

\* wait_for_daemon_exit
WaitExit(c) ==
    /\ pc[c] = "waitExit"
    /\ \/ ~Connectable /\ Goto(c, "unlinkOld")
       \/ Connectable /\ "late" \in Faults /\ Goto(c, "err")
    /\ Quiet /\ UNCHANGED conn

\* spawn_daemon: the executable at the path is started, then waited for.
Spawn(c, d) ==
    /\ pc[c] = "spawn" /\ dpc[d] = "unborn" /\ (\A e \in 1 .. d - 1 : dpc[e] # "unborn")
    /\ Moves(d, "check") /\ image' = [image EXCEPT ![d] = disk] /\ Goto(c, "ready")
    /\ UNCHANGED <<disk, sock, identity, open, rec, stop, asks, conn, reply, asked, said, failed>>
Ready(c) ==
    /\ pc[c] = "ready"
    /\ \/ Connectable /\ Goto(c, "ok")
       \/ ~Connectable /\ "late" \in Faults /\ Goto(c, "err")
    /\ Quiet /\ UNCHANGED conn

\* The package manager replaces the executable.
Install ==
    /\ disk + 1 \in Bins /\ disk' = disk + 1
    /\ UNCHANGED <<sock, identity, daemonVars, clientVars, failed>>

DaemonStep(d) ==
    \/ StaleCheck(d) \/ StaleUnlink(d) \/ Bind(d) \/ Listen(d) \/ Record(d)
    \/ (\E c \in Clients : TakeUpgrade(d, c)) \/ Prepare(d) \/ Exec(d)
    \/ LoopEnds(d) \/ RemoveSocket(d) \/ Close(d)
ClientStep(c) ==
    \/ Begin(c) \/ Look(c) \/ Exists(c) \/ Unlink(c) \/ Connect(c) \/ Hello(c) \/ HelloFails(c)
    \/ Detect(c) \/ SendUpgrade(c) \/ ReadReply(c) \/ Reachable(c) \/ Unreachable(c)
    \/ SendShutdown(c) \/ WaitExit(c) \/ (\E d \in Daemon : Spawn(c, d)) \/ Ready(c)
Next ==
    \/ \E d \in Daemon : DaemonStep(d) \/ Crash(d)
    \/ \E c \in Clients : ClientStep(c)
    \/ Install

Spec == Init /\ [][Next]_vars
-----------------------------------------------------------------------------
(* Who serves listens, who is not bound yet or gone does not, and a daemon's own record *)
(* is of an executable that was installed.                                             *)
TypeOK ==
    /\ sock \in 0 .. MaxDaemon /\ identity \in 0 .. disk
    /\ \A d \in Daemon :
         /\ dpc[d] \in {"record", "serve", "prepare", "exec", "grace", "close"} => open[d]
         /\ dpc[d] \in {"unborn", "check", "unlink", "bind", "gone"} => ~open[d]
         /\ rec[d] <= image[d]
    /\ \A c \in Clients : conn[c] # 0 => dpc[conn[c]] # "unborn"

(* A daemon that serves is the one the path names: no two serve, none is out of reach   *)
(* with its panes.                                                                      *)
NoOrphan == \A d \in Daemon : dpc[d] = "serve" => sock = d

(* connect.rs: "Remove stale socket file if daemon is not running": no command and no   *)
(* starting daemon removes the file of a daemon that listens.                           *)
OnlyStaleRemoved ==
    sock # 0 /\ sock' = 0 /\ open[sock] => dpc[sock] = "grace" /\ dpc'[sock] = "close"

(* run_daemon: a competing process "never overwrites the active daemon's identity       *)
(* sidecar": the recorded identity is of the daemon at the path.                        *)
IdentityOfActive ==
    \A d \in Daemon : dpc[d] = "record" /\ dpc'[d] = "serve" => sock = d

(* recover_from_legacy_daemon: a daemon that speaks the current protocol, and one that  *)
(* was upgraded while the recovery waited, keeps its panes: only kill stops it.         *)
RecoveryKeepsCurrent ==
    \A d \in Daemon : stop'[d] /\ ~stop[d] /\ image[d] \notin Previous
          => \E c \in Clients : Cmd[c] = "kill" /\ pc[c] = "shut"

(* UpgradeResponse::ProceededOrUnknown: "reports success only after observing evidence  *)
(* that the replacement actually happened": who claims an upgrade is answered by        *)
(* another executable than the one that was asked.                                      *)
ClaimIsTrue ==
    \A c \in Clients : said'[c] = "upgraded" /\ said[c] # "upgraded"
          => asked[c] # <<sock, image[sock]>>

(* The same of the automatic trigger, which looks at the identity a second time.        *)
NoticeIsTrue ==
    \A c \in Clients : Cmd[c] # "upgrade" /\ said'[c] = "upgraded" /\ said[c] # "upgraded"
          => asked[c] # <<sock, image[sock]>>

(* record_or_invalidate, "the fire-loop breaker for a failed-exec re-entry": no command *)
(* asks a daemon again to become what it failed to become.                              *)
NoFireLoop ==
    \A c \in Clients, d \in Daemon : pc[c] = "verdict" /\ pc'[c] = "fire" /\ conn[c] = d
          => disk \notin failed[d]
=============================================================================
