----------------------------- MODULE HotUpgrade -----------------------------
(***************************************************************************)
(* The daemon replaces its own image and keeps the shells of its panes     *)
(* (mux/upgrade.rs, mux/daemon/handoff.rs, the upgrade branch of           *)
(* run_daemon, perform_upgrade_replacement).                               *)
(*                                                                         *)
(* The upgrade branch admits a candidate binary, probes it, writes the     *)
(* session tree and its descriptor numbers to the handoff file, announces  *)
(* the upgrade and waits for acknowledgements, refreshes the file, shuts   *)
(* the runtime down and calls execve.  Connection tasks go on working      *)
(* until the runtime is down, reader threads until execve succeeds.  The   *)
(* next image, or this one when execve fails, restores the tree.           *)
(*                                                                         *)
(* A pty is one spawned shell with its terminal, numbered as spawned; a    *)
(* pane is an entry of the tree under its pane id.  Which number a new     *)
(* descriptor gets depends on descriptors the model does not hold: any     *)
(* free one.  A reader and a writer handle count as one duplicate.         *)
(***************************************************************************)
EXTENDS Integers, FiniteSets

CONSTANTS
    Fd,          \* descriptor numbers
    Sub,         \* client connections other than the requesting one
    Cand,        \* binaries that may stand at the recorded path
    BadSchema,   \* those whose handoff range does not contain our version
    Faults,      \* what may go wrong or interfere, see FaultKinds
    MaxPty,      \* bound: spawned shells
    MaxOpen,     \* bound: panes at a time
    MaxRev,      \* bound: status changes per pane
    MaxTry       \* bound: upgrade requests

\* create, close, join: a client does so while an upgrade is prepared; exec:
\* execve or the validation before it fails; snapshot, rewrite, read: that file
\* operation fails; probe: the probe times out; crash: the daemon is killed.
FaultKinds == {"create", "close", "join", "exec", "snapshot", "rewrite", "read",
               "probe", "crash"}

HotUpgradeAssumption ==
    /\ BadSchema \subseteq Cand
    /\ Faults \subseteq FaultKinds
    /\ {MaxPty, MaxOpen, MaxRev, MaxTry} \subseteq Nat
    /\ IsFiniteSet(Sub)

Ids == 1 .. MaxPty
NoFile == <<>>

VARIABLES
    phase,     \* program counter of the upgrade branch and of the startup
    tree,      \* pane id -> pane of the session manager
    next,      \* SessionManager::next_pane_id
    spawned,   \* shells spawned so far
    alive,     \* shells neither ended nor hung up
    fdOf,      \* per descriptor: the pty behind it, or 0
    cloexec,   \* descriptors with FD_CLOEXEC
    readers,   \* reader threads of this process per pty
    disk,      \* the handoff file
    todo,      \* document entries not restored yet
    cand, valid, last_refused,
    subs, pending, expected, acked, slot,
               \* pending: connections that have yet to flush the announcement
    late,      \* the acknowledgement deadline has passed
    tries,
    \* ghosts
    wanted,    \* ptys whose panes no client has closed and whose shells have not ended
    kept,      \* those of them that are in the last snapshot
    written,   \* revision of each pane id in the last file written
    aborted,   \* a snapshot failed in this image
    probed     \* candidates refused after their validation

treeVars == <<tree, next, spawned, alive>>
fdVars == <<fdOf, cloexec, readers>>
fileVars == <<disk, todo, written>>
candVars == <<cand, valid, last_refused, probed>>
ackVars == <<subs, pending, expected, acked, slot, late>>
ghostVars == <<wanted, kept, aborted>>
vars == <<phase, treeVars, fdVars, fileVars, candVars, ackVars, tries, ghostVars>>

Open(f) == fdOf[f] # 0
Free == {f \in Fd : ~Open(f)}

\* Connection tasks and the daemon's tasks run.
Running == phase \in {"serve", "probe", "snapshot", "count", "announce", "wait",
                      "refresh", "leave"}
Idle == phase = "serve"
May(fault) == Idle \/ fault \in Faults

-----------------------------------------------------------------------------
(* What clients do meanwhile *)

Without(f, k) == [x \in DOMAIN f \ {k} |-> f[x]]
With(f, k, v) == [x \in DOMAIN f \cup {k} |-> IF x = k THEN v ELSE f[x]]

\* A window with a pane: spawn_pty opens its descriptors close-on-exec.
CreatePane(m, d) ==
    /\ Running /\ May("create")
    /\ spawned < MaxPty /\ Cardinality(DOMAIN tree) < MaxOpen
    /\ m \in Free /\ d \in Free \ {m}
    /\ LET t == spawned + 1 IN
       /\ spawned' = t
       /\ alive' = alive \cup {t}
       /\ tree' = With(tree, next, [pty |-> t, fd |-> m, dup |-> d, rev |-> 0, live |-> TRUE])
       /\ fdOf' = [fdOf EXCEPT ![m] = t, ![d] = t]
       /\ cloexec' = cloexec \cup {m, d}
       /\ readers' = [readers EXCEPT ![t] = 1]
       /\ wanted' = wanted \cup {t}
    /\ next' = next + 1
    /\ UNCHANGED <<phase, fileVars, candVars, ackVars, tries, kept, aborted>>

\* The pane is destroyed, or its shell has ended and it is reaped.
ClosePane(i) ==
    /\ Running /\ May("close")
    /\ LET e == tree[i] IN
       /\ alive' = alive \ {e.pty}
       /\ kept' = kept \ {e.pty}
       /\ wanted' = wanted \ {e.pty}
       /\ fdOf' = [f \in Fd |-> IF e.live /\ f \in {e.fd, e.dup} THEN 0 ELSE fdOf[f]]
       /\ cloexec' = IF e.live THEN cloexec \ {e.fd, e.dup} ELSE cloexec
       /\ readers' = [readers EXCEPT ![e.pty] = 0]
    /\ tree' = Without(tree, i)
    /\ UNCHANGED <<phase, next, spawned, fileVars, candVars, ackVars, tries, aborted>>

\* The agent-status task applies a report.
StatusChange(i) ==
    /\ Running
    /\ tree[i].rev < MaxRev
    /\ tree' = [tree EXCEPT ![i].rev = @ + 1]
    /\ UNCHANGED <<phase, next, spawned, alive, fdVars, fileVars, candVars, ackVars, tries,
                   ghostVars>>

Join(s) ==
    /\ Running /\ (phase # "announce" \/ "join" \in Faults)
    /\ s \notin subs
    /\ subs' = subs \cup {s}
    /\ UNCHANGED <<phase, treeVars, fdVars, fileVars, candVars, pending, expected, acked, slot,
                   late, tries, ghostVars>>

Leave(s) ==
    /\ Running
    /\ s \in subs
    /\ subs' = subs \ {s}
    /\ pending' = pending \ {s}
    /\ UNCHANGED <<phase, treeVars, fdVars, fileVars, candVars, expected, acked, slot, late,
                   tries, ghostVars>>

\* The operator installs another binary at the path, or changes its mode.
Install(c, v) ==
    /\ Idle
    /\ <<c, v>> # <<cand, valid>>
    /\ cand' = c /\ valid' = v
    /\ UNCHANGED <<phase, treeVars, fdVars, fileVars, last_refused, probed, ackVars, tries,
                   ghostVars>>

-----------------------------------------------------------------------------
(* admit_upgrade_candidate and record_post_probe_refusal *)

\* The same candidate was refused at this stage by the last decision.
Repeat(stage) == last_refused = <<cand, stage>>

Request ==
    /\ Idle
    /\ tries < MaxTry
    /\ tries' = tries + 1

\* Validation comes first, so that a record of a candidate that has been
\* repaired does not stand in its way.
RefuseInvalid ==
    /\ Request
    /\ ~valid
    /\ last_refused' = <<cand, "validation">>
    /\ UNCHANGED <<phase, treeVars, fdVars, fileVars, cand, valid, probed, ackVars, ghostVars>>

Suppresses == valid /\ Repeat("postprobe")

RefuseRepeat ==
    /\ Request
    /\ Suppresses
    /\ UNCHANGED <<phase, treeVars, fdVars, fileVars, candVars, ackVars, ghostVars>>

Admit ==
    /\ Request
    /\ valid /\ ~Suppresses
    /\ last_refused' = <<>>
    /\ phase' = "probe"
    /\ UNCHANGED <<treeVars, fdVars, fileVars, cand, valid, probed, ackVars, ghostVars>>

\* The error reply of the upgrade branch.
Refuse(reason) ==
    /\ phase' = "serve"
    /\ last_refused' = <<cand, "postprobe">>
    /\ probed' = [probed EXCEPT ![reason] = @ \cup {cand}]
    /\ UNCHANGED <<cand, valid>>

-----------------------------------------------------------------------------
(* prepare_upgrade *)

ProbeOk ==
    /\ phase = "probe"
    /\ cand \notin BadSchema
    /\ phase' = "snapshot"
    /\ UNCHANGED <<treeVars, fdVars, fileVars, candVars, ackVars, tries, ghostVars>>

\* The probe fails or times out, or the schema gate rejects its range.
ProbeRefused ==
    /\ phase = "probe"
    /\ cand \in BadSchema \/ "probe" \in Faults
    /\ Refuse("probe")
    /\ UNCHANGED <<treeVars, fdVars, fileVars, ackVars, tries, ghostVars>>

LiveFds == {tree[i].fd : i \in {j \in DOMAIN tree : tree[j].live}}

Document == [panes |-> [i \in DOMAIN tree |->
                          [pty |-> tree[i].pty, rev |-> tree[i].rev, live |-> tree[i].live,
                           fd |-> tree[i].fd]],
             next |-> next]
Revisions(doc) == [i \in DOMAIN doc.panes |-> doc.panes[i].rev]

\* Under the manager's lock: the flags are cleared, the file is created fresh.
snapshot ==
    /\ phase = "snapshot"
    /\ disk = NoFile
    /\ cloexec' = cloexec \ LiveFds
    /\ disk' = Document
    /\ written' = Revisions(Document)
    /\ kept' = {tree[i].pty : i \in DOMAIN tree} \cap alive
    /\ phase' = "count"
    /\ UNCHANGED <<treeVars, fdOf, readers, todo, candVars, ackVars, tries, wanted, aborted>>

\* A file is in the way, or it cannot be written; the flags stay cleared.
snapshot_fails ==
    /\ phase = "snapshot"
    /\ disk # NoFile \/ "snapshot" \in Faults
    /\ cloexec' = cloexec \ LiveFds
    /\ aborted' = TRUE
    /\ Refuse("snapshot")
    /\ UNCHANGED <<treeVars, fdOf, readers, fileVars, ackVars, tries, wanted, kept>>

\* receiver_count less the requesting connection, and the acknowledgement slot.
CountAcks ==
    /\ phase = "count"
    /\ expected' = Cardinality(subs)
    /\ acked' = 0
    /\ slot' = TRUE
    /\ late' = FALSE
    /\ phase' = "announce"
    /\ UNCHANGED <<treeVars, fdVars, fileVars, candVars, subs, pending, tries, ghostVars>>

Announce ==
    /\ phase = "announce"
    /\ pending' = subs
    /\ phase' = "wait"
    /\ UNCHANGED <<treeVars, fdVars, fileVars, candVars, subs, expected, acked, slot, late,
                   tries, ghostVars>>

\* A connection has flushed its Upgrading frame and acknowledges it.
Flushed(s) ==
    /\ phase \in {"wait", "refresh", "leave"}
    /\ s \in pending
    /\ pending' = pending \ {s}
    /\ acked' = IF slot THEN acked + 1 ELSE acked
    /\ UNCHANGED <<phase, treeVars, fdVars, fileVars, candVars, subs, expected, slot, late,
                   tries, ghostVars>>

EndWait ==
    /\ slot' = FALSE
    /\ phase' = "refresh"
    /\ UNCHANGED <<treeVars, fdVars, fileVars, candVars, subs, pending, expected, acked, tries,
                   ghostVars>>

AllAcked ==
    /\ phase = "wait"
    /\ acked >= expected
    /\ EndWait
    /\ UNCHANGED late

\* UPGRADE_ANNOUNCE_ACK_TIMEOUT.
AckTimeout ==
    /\ phase = "wait"
    /\ acked < expected
    /\ EndWait
    /\ late' = TRUE

\* refresh_live_agent_state: the status of panes that are still there; the
\* descriptors keep their recorded numbers.
Refreshed(doc) ==
    [doc EXCEPT !.panes = [i \in DOMAIN doc.panes |->
        IF i \in DOMAIN tree THEN [doc.panes[i] EXCEPT !.rev = tree[i].rev]
                             ELSE doc.panes[i]]]

\* The file is replaced by rename.
rewrite_handoff_file ==
    /\ phase = "refresh"
    /\ disk' = Refreshed(disk)
    /\ written' = [i \in DOMAIN disk.panes |->
                     IF i \in DOMAIN tree THEN tree[i].rev ELSE written[i]]
    /\ phase' = "leave"
    /\ UNCHANGED <<treeVars, fdVars, todo, candVars, ackVars, tries, ghostVars>>

\* A failure is logged; the file of the snapshot stands.
rewrite_fails ==
    /\ phase = "refresh"
    /\ "rewrite" \in Faults
    /\ phase' = "leave"
    /\ UNCHANGED <<treeVars, fdVars, fileVars, candVars, ackVars, tries, ghostVars>>

-----------------------------------------------------------------------------
(* execute_daemon: the runtime is shut down, then the image is replaced *)

RuntimeDown ==
    /\ phase = "leave"
    /\ phase' = "down"
    /\ subs' = {} /\ pending' = {}
    /\ UNCHANGED <<treeVars, fdVars, fileVars, candVars, expected, acked, slot, late,
                   tries, ghostVars>>

\* execve closes what is marked so and ends every thread; a shell whose master
\* is closed is hung up.
Exec ==
    /\ phase = "down"
    /\ fdOf' = [f \in Fd |-> IF f \in cloexec THEN 0 ELSE fdOf[f]]
    /\ alive' = alive \cap {fdOf[f] : f \in Fd \ cloexec}
    /\ cloexec' = {}
    /\ readers' = [t \in Ids |-> 0]
    /\ tree' = <<>>
    /\ last_refused' = <<>>
    /\ aborted' = FALSE
    /\ phase' = "read"
    /\ UNCHANGED <<next, spawned, fileVars, cand, valid, probed, ackVars, tries, wanted,
                   kept>>

\* execve, or the validation before it, fails: service starts again in this
\* process.  The old manager is leaked with its descriptors, and the reader
\* threads are no part of the runtime.
ExecFails ==
    /\ phase = "down"
    /\ "exec" \in Faults
    /\ tree' = <<>>
    /\ last_refused' = <<>>
    /\ aborted' = FALSE
    /\ phase' = "read"
    /\ UNCHANGED <<next, spawned, alive, fdVars, fileVars, cand, valid, probed, ackVars, tries,
                   wanted, kept>>

-----------------------------------------------------------------------------
(* startup, start_from_handoff, restore *)

\* Fault: the file stays.
read_and_keep_handoff_file ==
    /\ phase = "read"
    /\ disk # NoFile
    /\ todo' = disk.panes
    /\ next' = disk.next
    /\ phase' = "restore"
    /\ UNCHANGED <<tree, spawned, alive, fdVars, disk, written, candVars, ackVars, tries, ghostVars>>

read_and_remove_handoff_file ==
    /\ phase = "read"
    /\ disk # NoFile
    /\ disk' = NoFile
    /\ todo' = disk.panes
    /\ next' = disk.next
    /\ phase' = "restore"
    /\ UNCHANGED <<tree, spawned, alive, fdVars, written, candVars, ackVars, tries, ghostVars>>

\* The handoff start fails: a fresh socket and an empty tree.
bind_fresh_listener ==
    /\ phase = "read"
    /\ disk = NoFile \/ "read" \in Faults
    /\ disk' = NoFile
    /\ next' = 1
    /\ phase' = "serve"
    /\ UNCHANGED <<tree, spawned, alive, fdVars, todo, written, candVars, ackVars, tries,
                   ghostVars>>

FirstTodo(i) == i \in DOMAIN todo /\ \A j \in DOMAIN todo : i <= j

\* The descriptor of a pane recorded live is a terminal: InheritedMasterPty::new
\* asks no more than isatty.
Adoptable(i) == todo[i].live /\ Open(todo[i].fd)

adopt_master(f, d) == cloexec' = cloexec \cup {f, d}

restore_pane(i, d) ==
    /\ phase = "restore"
    /\ FirstTodo(i)
    /\ Adoptable(i)
    /\ d \in Free
    /\ LET f == todo[i].fd
           t == fdOf[f] IN
       /\ tree' = With(tree, i, [pty |-> todo[i].pty, fd |-> f, dup |-> d,
                                 rev |-> todo[i].rev, live |-> TRUE])
       /\ fdOf' = [fdOf EXCEPT ![d] = t]
       /\ readers' = [readers EXCEPT ![t] = @ + 1]
       /\ adopt_master(f, d)
    /\ todo' = Without(todo, i)
    /\ UNCHANGED <<phase, next, spawned, alive, disk, written, candVars, ackVars, tries, ghostVars>>

\* No descriptor, or not a terminal: the pane is rebuilt without a shell.
build_exited_pane(i) ==
    /\ phase = "restore"
    /\ FirstTodo(i)
    /\ ~Adoptable(i)
    /\ tree' = With(tree, i, [pty |-> todo[i].pty, fd |-> todo[i].fd, dup |-> todo[i].fd,
                              rev |-> todo[i].rev, live |-> FALSE])
    /\ todo' = Without(todo, i)
    /\ UNCHANGED <<phase, next, spawned, alive, fdVars, disk, written, candVars, ackVars,
                   tries, ghostVars>>

\* Adopted, but there is no descriptor left for a reader and a writer: the master
\* is dropped again, and with the last master the terminal hangs up.
restore_without_reader(i) ==
    /\ phase = "restore"
    /\ FirstTodo(i)
    /\ Adoptable(i) /\ Free = {}
    /\ LET f == todo[i].fd IN
       /\ tree' = With(tree, i, [pty |-> todo[i].pty, fd |-> f, dup |-> f,
                                 rev |-> todo[i].rev, live |-> FALSE])
       /\ fdOf' = [fdOf EXCEPT ![f] = 0]
       /\ cloexec' = cloexec \ {f}
       /\ alive' = alive \cap {fdOf[g] : g \in Fd \ {f}}
    /\ todo' = Without(todo, i)
    /\ UNCHANGED <<phase, next, spawned, readers, disk, written, candVars, ackVars, tries,
                   ghostVars>>

Serve ==
    /\ phase = "restore"
    /\ DOMAIN todo = {}
    /\ phase' = "serve"
    /\ UNCHANGED <<treeVars, fdVars, fileVars, candVars, ackVars, tries, ghostVars>>

\* The daemon is killed and somebody starts another: all that stays is the file.
Crash ==
    /\ "crash" \in Faults
    /\ tries < MaxTry
    /\ tries' = tries + 1
    /\ tree' = <<>> /\ next' = 1 /\ alive' = {} /\ wanted' = {} /\ kept' = {}
    /\ fdOf' = [f \in Fd |-> 0] /\ cloexec' = {} /\ readers' = [t \in Ids |-> 0]
    /\ last_refused' = <<>>
    /\ todo' = <<>>
    /\ subs' = {} /\ pending' = {}
    /\ slot' = FALSE
    /\ aborted' = FALSE
    /\ phase' = "serve"
    /\ UNCHANGED <<spawned, disk, written, cand, valid, probed, expected,
                   acked, late>>

-----------------------------------------------------------------------------

Init ==
    /\ phase = "serve"
    /\ tree = <<>> /\ next = 1 /\ spawned = 0 /\ alive = {}
    /\ fdOf = [f \in Fd |-> 0] /\ cloexec = {} /\ readers = [t \in Ids |-> 0]
    /\ disk = NoFile /\ todo = <<>> /\ written = <<>>
    /\ cand \in Cand /\ valid \in BOOLEAN /\ last_refused = <<>>
    /\ probed = [r \in {"probe", "snapshot"} |-> {}]
    /\ subs = {} /\ pending = {} /\ expected = 0 /\ acked = 0 /\ slot = FALSE /\ late = FALSE
    /\ tries = 0 /\ wanted = {} /\ kept = {} /\ aborted = FALSE

Clients ==
    \/ \E m, d \in Fd : CreatePane(m, d)
    \/ \E i \in DOMAIN tree : ClosePane(i) \/ StatusChange(i)
    \/ \E s \in Sub : Join(s) \/ Leave(s) \/ Flushed(s)
    \/ \E c \in Cand, v \in BOOLEAN : Install(c, v)

Requests == RefuseInvalid \/ RefuseRepeat \/ Admit

Prepare ==
    \/ ProbeOk \/ ProbeRefused
    \/ snapshot \/ snapshot_fails
    \/ CountAcks \/ Announce \/ AllAcked \/ AckTimeout
    \/ rewrite_handoff_file \/ rewrite_fails

Replace ==
    \/ RuntimeDown \/ Exec \/ ExecFails
    \/ read_and_remove_handoff_file \/ bind_fresh_listener
    \/ \E i \in DOMAIN todo : build_exited_pane(i) \/ restore_without_reader(i) \/ \E d \in Fd : restore_pane(i, d)
    \/ Serve

Next == Clients \/ Requests \/ Prepare \/ Replace \/ Crash

Spec == Init /\ [][Next]_vars

\* The daemon's own steps are taken: the probe and the wait have deadlines, the
\* rest is straight-line code.  Nothing is asked of clients.
LiveSpec == Spec /\ WF_vars(Prepare) /\ WF_vars(Replace)

-----------------------------------------------------------------------------
(* Properties *)

\* Every variable has its type.
TypeOK ==
    /\ phase \in {"serve", "probe", "snapshot", "count", "announce", "wait", "refresh",
                  "leave", "down", "read", "restore"}
    /\ DOMAIN tree \subseteq Ids /\ next \in 1 .. MaxPty + 1 /\ spawned \in 0 .. MaxPty
    /\ \A i \in DOMAIN tree : /\ tree[i].pty \in Ids /\ tree[i].rev \in 0 .. MaxRev
                              /\ {tree[i].fd, tree[i].dup} \subseteq Fd
                              /\ tree[i].live \in BOOLEAN
    /\ alive \subseteq 1 .. spawned /\ wanted \subseteq 1 .. spawned /\ kept \subseteq wanted
    /\ fdOf \in [Fd -> 0 .. MaxPty] /\ cloexec \subseteq {f \in Fd : Open(f)}
    /\ readers \in [Ids -> Nat]
    /\ pending \subseteq subs /\ subs \subseteq Sub
    /\ cand \in Cand /\ tries \in 0 .. MaxTry

Owns(i, t) == tree[i].pty = t /\ tree[i].live /\ fdOf[tree[i].fd] = t

\* Whatever else clients do meanwhile and whether or not execve succeeds, a pane
\* that was in the snapshot and has not been closed since is served again with its
\* own shell (snapshot, execve and restore together), as long as no pane has
\* adopted another's terminal: two panes that own one number close it twice.
KeptPanesSurvive ==
    Idle => \A t \in kept : t \in alive /\ \E i \in DOMAIN tree : Owns(i, t)

\* No shell that nobody closed is hung up or left without a pane (the objective
\* of the upgrade, prepare_upgrade to restore).
NoShellLost ==
    Idle => \A t \in wanted : t \in alive /\ \E i \in DOMAIN tree : Owns(i, t)

\* The master a live pane has adopted is its own terminal (adopt_master takes
\* whatever terminal stands at the recorded number).
AdoptsOwn ==
    Idle => \A i \in DOMAIN tree : tree[i].live => fdOf[tree[i].fd] = tree[i].pty

\* One reader thread reads a pane's terminal; two would share its output out
\* between them (spawn_restored_reader_thread).
OneReader ==
    Idle => \A i \in DOMAIN tree : tree[i].live => readers[tree[i].pty] = 1

\* The descriptors of a served pane are close-on-exec again, so that no later
\* shell inherits them; only a failed snapshot leaves them open to that
\* (adopt_master's set_cloexec).
CloexecIsBack ==
    (Idle /\ ~aborted) =>
       \A i \in DOMAIN tree : tree[i].live =>
          \A f \in {tree[i].fd, tree[i].dup} : Open(f) => f \in cloexec

\* No handoff file survives the upgrade that wrote it, whose presence would make
\* every later one fail (create_handoff_file, read_and_remove_handoff_file).
FileIsConsumed == Idle => disk = NoFile

\* A restored pane's revision is at least the one of the last file written: a
\* failed rewrite loses the refresh, never the file (rewrite_handoff_file).
StatusIsKept ==
    Idle => \A i \in DOMAIN tree \cap DOMAIN written : tree[i].rev >= written[i]

\* A wait that ended by acknowledgements, not by its deadline, leaves no
\* connection that was sent the announcement without it (prepare_upgrade).
AllTold == (phase \in {"refresh", "leave"} /\ ~late) => pending = {}

\* A valid candidate is turned away unseen only if it was itself refused after
\* its validation before: repairing a binary's mode is enough
\* (admit_upgrade_candidate).
RepairedIsAdmitted ==
    (tries' # tries /\ valid /\ \A r \in DOMAIN probed : cand \notin probed[r])
       => phase' = "probe"

\* What suppresses a candidate is a refusal by its probe or the schema gate
\* (record_post_probe_refusal).
SuppressedByProbe ==
    (last_refused # <<>> /\ last_refused[2] = "postprobe") => last_refused[1] \in probed["probe"]

=============================================================================
