----------------------------- MODULE AgentStatus -----------------------------
(***************************************************************************)
(* The agent status of one mux pane: the feed from the PTY reader to the   *)
(* agent-status task, the pane's record (OSC 777 state, OSC 7501 table,    *)
(* revision, inferred-clear latch), the waiters of `mux wait`, the         *)
(* broadcast to an attached GUI and the GUI's own entry for the pane.      *)
(*                                                                         *)
(* A report is applied and its waiters re-evaluated under the manager      *)
(* lock, and the update is sent after the lock is dropped; a connection    *)
(* that has just replayed a snapshot reads the status under the same lock  *)
(* and also sends after dropping it.  A wait resolves the pane under the   *)
(* lock, drops it and then checks and registers under the status lock.     *)
(***************************************************************************)
EXTENDS Integers, Sequences, FiniteSets, SequencesExt

CONSTANTS
    State777,    \* states an OSC 777 report carries here
    State7501,   \* states an OSC 7501 record carries here
    Ids,         \* record ids, as sequences of path segments; <<>> is the root
    Kinds,       \* the kinds of sequences the child prints
    Waiter,      \* concurrent `mux wait` requests
    Attached,    \* a GUI connection subscribes to the broadcast
    Faults,      \* which environment events may happen
    MaxRecords,  \* MAX_RECORDS of the OSC 7501 table
    FeedCap,     \* capacity of the reader -> task channel
    NoteCap,     \* capacity of the broadcast channel
    MaxItems,    \* bound: sequences the child prints
    MaxOther,    \* bound: notifications about other things
    MaxSync      \* bound: snapshot replays

States == {"blocked", "working", "error", "done", "idle"}
None == "none"
AllKinds == {"set", "clear", "bad", "D", "A", "record", "remove", "promptstart", "reset"}
AllFaults == {"exit", "window", "late", "noise"}

StatusAssumption ==
    /\ State777 \subseteq States \ {"error"} /\ State7501 \subseteq States
    /\ Ids \subseteq Seq(STRING) /\ Kinds \subseteq AllKinds /\ Faults \subseteq AllFaults
    /\ Attached \in BOOLEAN
    /\ MaxRecords \in Nat \ {0} /\ FeedCap \in Nat \ {0} /\ NoteCap \in Nat \ {0}
    /\ MaxItems \in Nat /\ MaxOther \in Nat /\ MaxSync \in Nat

VARIABLES
    printed,     \* number of sequences printed so far
    feed,        \* agent_status channel, in the order the reader sent
    log,         \* history: the items applied to the pane
    status,      \* the pane's AgentStatus: OSC 777 state, OSC 7501 table, revision
    latch,       \* AgentStatusExitLatch (the generation decides nothing)
    alive,       \* the pane is in the session tree
    eof,         \* "open" | "queued" (exit chunk on its way) | "done"
    task,        \* the agent-status task: where it is and the update it holds
    sync,        \* a connection task replaying a snapshot, likewise
    waiter,      \* one record per wait request
    notes,       \* the GUI connection's backlog of the broadcast
    lost,        \* history: an update was overwritten and none came through since
    inbox,       \* what the tab latched since the last pump
    entry,       \* the GUI's AgentStatusModel entry of the pane
    notified,    \* history: transitions handed to the notification layer
    changes      \* history: changes of the composite state in the daemon

daemonVars == <<status, latch, log, changes>>
guiVars == <<inbox, entry, notified>>
vars == <<printed, feed, log, status, latch, alive, eof, task, sync, waiter,
          notes, lost, inbox, entry, notified, changes>>

NoEntry == [s777 |-> None, s7501 |-> None, rev |-> 0, known |-> FALSE]
Items ==
    [k : {"set"}, s : State777] \cup [k : {"clear", "bad", "D", "A", "promptstart", "reset"}]
        \cup [k : {"record"}, id : Ids, s : State7501] \cup [k : {"remove"}, id : Ids]
Updates == [s777 : States \cup {None}, s7501 : States \cup {None}, rev : Nat, replay : BOOLEAN]
Other == [other |-> TRUE]
NoUpdate == [s777 |-> None, s7501 |-> None, rev |-> 0, replay |-> FALSE]

-----------------------------------------------------------------------------
(* Pure parts: composition, the OSC 7501 table, the latch, the wait check. *)

compose_rank(s) ==
    CASE s = "blocked" -> 4 [] s = "working" -> 3 [] s = "error" -> 2 [] s = "done" -> 1 [] OTHER -> 0

compose(a, b) ==
    CASE a = None -> b [] b = None -> a
      [] OTHER -> IF compose_rank(b) >= compose_rank(a) THEN b ELSE a

in_subtree(id, root) == IsPrefix(root, id)

\* Table::put: an updated record moves to the end; a new one evicts the first of a full table
put(t, id, s) ==
    LET others == SelectSeq(t, LAMBDA e : e.id # id)
        room == IF Len(others) = Len(t) /\ Len(t) >= MaxRecords THEN Tail(t) ELSE others
    IN Append(room, [id |-> id, s |-> s])

remove(t, id) == SelectSeq(t, LAMBDA e : ~in_subtree(e.id, id))

prompt_start(t) == SelectSeq(t, LAMBDA e : e.s \in {"done", "error"})

summary(t) ==
    IF t = <<>> THEN None
    ELSE LET shown == {t[i].s : i \in DOMAIN t}
         IN CHOOSE s \in shown : \A o \in shown : compose_rank(o) <= compose_rank(s)

composite_state(st) == compose(st.s777, summary(st.table))

record_set(l) == [armed |-> TRUE, ended |-> FALSE]
record_clear(l) == [armed |-> FALSE, ended |-> FALSE]
fires(l, mark) == mark = "A" /\ l.armed /\ l.ended
record_mark(l, mark) ==
    CASE mark = "D" -> [l EXCEPT !.ended = l.ended \/ l.armed]
      [] fires(l, mark) -> record_clear(l)
      [] OTHER -> l

\* mutant of check_wait: the watermark itself is accepted
check_wait_at(st, w) == composite_state(st) \in w.states /\ st.rev >= w.after

check_wait(st, w) ==
    /\ composite_state(st) \in w.states
    /\ st.rev > w.after

-----------------------------------------------------------------------------
(* One item applied to the pane: the new status and latch.  Every report   *)
(* that is accepted, and every other item that changed something, moves    *)
(* the revision once.                                                      *)

bump(st) == [st EXCEPT !.rev = @ + 1]

apply_agent_status_change(st, event, promptStart) ==
    LET t == IF promptStart THEN prompt_start(st.table) ELSE st.table
        new == [st EXCEPT !.s777 = IF event = "keep" THEN @ ELSE event, !.table = t]
    IN IF event # "keep" \/ t # st.table THEN bump(new) ELSE st

apply(st, l, it) ==
    CASE it.k = "set" -> apply_agent_status_change(st, it.s, FALSE)
      [] it.k = "clear" -> apply_agent_status_change(st, None, FALSE)
      [] it.k = "bad" \/ it.k = "D" -> st
      [] it.k = "A" -> apply_agent_status_change(st, IF fires(l, "A") THEN None ELSE "keep", TRUE)
      [] it.k = "promptstart" -> apply_agent_status_change(st, "keep", TRUE)
      [] it.k = "record" -> bump([st EXCEPT !.table = put(@, it.id, it.s)])
      [] it.k = "remove" -> bump([st EXCEPT !.table = remove(@, it.id)])
      [] it.k = "reset" -> IF st.table = <<>> THEN st ELSE bump([st EXCEPT !.table = <<>>])

latched(l, it) ==
    CASE it.k = "set" -> record_set(l)
      [] it.k = "clear" -> record_clear(l)
      [] it.k \in {"D", "A"} -> record_mark(l, it.k)
      [] OTHER -> l

UpdateOf(st, replay) ==
    [s777 |-> st.s777, s7501 |-> summary(st.table), rev |-> st.rev, replay |-> replay]

-----------------------------------------------------------------------------
Init ==
    /\ printed = 0 /\ feed = <<>> /\ log = <<>>
    /\ status = [s777 |-> None, table |-> <<>>, rev |-> 0]
    /\ latch = [armed |-> FALSE, ended |-> FALSE]
    /\ alive = TRUE /\ eof = "open"
    /\ task = [at |-> "recv", msg |-> NoUpdate]
    /\ sync = [at |-> "idle", msg |-> NoUpdate, left |-> MaxSync]
    /\ waiter = [w \in Waiter |-> [at |-> "idle", states |-> {}, after |-> -1, sentAt |-> -1]]
    /\ notes = <<>> /\ lost = FALSE
    /\ inbox = [updates |-> <<>>, closed |-> FALSE]
    /\ entry = NoEntry /\ notified = 0 /\ changes = 0

\* the manager lock is held by the task between applying a report and building its update
ManagerFree == task.at # "reevaluate"

(* The reader thread: an item is never dropped; a full channel blocks it. *)
forward_agent_status_items ==
    /\ eof = "open" /\ printed < MaxItems /\ Len(feed) < FeedCap
    /\ \E it \in Items : it.k \in Kinds /\ feed' = Append(feed, it)
    /\ printed' = printed + 1
    /\ UNCHANGED <<daemonVars, alive, eof, task, sync, waiter, notes, lost, guiVars>>

ReaderEof ==
    /\ "exit" \in Faults /\ eof = "open" /\ eof' = "queued"
    /\ UNCHANGED <<printed, feed, daemonVars, alive, task, sync, waiter, notes, lost, guiVars>>

(* run_agent_status_task: one item at a time, in receive order. *)
TaskApply ==
    /\ task.at = "recv" /\ feed # <<>>
    /\ feed' = Tail(feed)
    /\ IF alive
       THEN LET new == apply(status, latch, Head(feed))
            IN /\ status' = new
               /\ latch' = latched(latch, Head(feed))
               /\ log' = Append(log, Head(feed))
               /\ task' = IF new.rev > status.rev THEN [task EXCEPT !.at = "reevaluate"] ELSE task
               /\ changes' = changes + (IF composite_state(new) # composite_state(status) THEN 1 ELSE 0)
       ELSE UNCHANGED <<daemonVars, task>>
    /\ UNCHANGED <<printed, alive, eof, sync, waiter, notes, lost, guiVars>>

reevaluate_agent_waiters(ws, st) ==
    [w \in Waiter |->
        IF ws[w].at = "registered" /\ check_wait(st, ws[w]) THEN [ws[w] EXCEPT !.at = "matched"] ELSE ws[w]]

build_agent_status_update_message ==
    /\ task.at = "reevaluate"
    /\ waiter' = reevaluate_agent_waiters(waiter, status)
    /\ task' = [at |-> "send", msg |-> UpdateOf(status, FALSE)]
    /\ UNCHANGED <<printed, feed, daemonVars, alive, eof, sync, notes, lost, guiVars>>

\* a full broadcast channel overwrites the oldest message the receiver has not read
Broadcast(m) ==
    IF ~Attached THEN UNCHANGED <<notes, lost>>
    ELSE IF Len(notes) < NoteCap THEN notes' = Append(notes, m) /\ UNCHANGED lost
    ELSE /\ notes' = Append(Tail(notes), m)
         /\ lost' = (lost \/ Head(notes) # Other)

TaskSend ==
    /\ task.at = "send"
    /\ Broadcast(task.msg)
    /\ task' = [at |-> "recv", msg |-> NoUpdate]
    /\ UNCHANGED <<printed, feed, daemonVars, alive, eof, sync, waiter, guiVars>>

(* sync_agent_status_after_pane_snapshot, on a connection task. *)
SyncRead ==
    /\ sync.at = "idle" /\ sync.left > 0 /\ alive /\ status.rev > 0 /\ ManagerFree
    /\ sync' = [at |-> "send", msg |-> UpdateOf(status, TRUE), left |-> sync.left - 1]
    /\ UNCHANGED <<printed, feed, daemonVars, alive, eof, task, waiter, notes, lost, guiVars>>

SyncSend ==
    /\ sync.at = "send"
    /\ Broadcast(sync.msg)
    /\ sync' = [sync EXCEPT !.at = "idle", !.msg = NoUpdate]
    /\ UNCHANGED <<printed, feed, daemonVars, alive, eof, task, waiter, guiVars>>

OtherNotification ==
    /\ "noise" \in Faults /\ Attached
    /\ Cardinality({i \in DOMAIN notes : notes[i] = Other}) < MaxOther
    /\ Broadcast(Other)
    /\ UNCHANGED <<printed, feed, daemonVars, alive, eof, task, sync, waiter, guiVars>>

-----------------------------------------------------------------------------
(* Waiting and destroying. *)

\* handle_send_text: the watermark is read before the write
handle_send_text(w) ==
    /\ waiter[w].at = "idle" /\ alive /\ ManagerFree
    /\ waiter' = [waiter EXCEPT ![w] = [@ EXCEPT !.at = "sent", !.after = status.rev, !.sentAt = Len(log)]]
    /\ UNCHANGED <<printed, feed, daemonVars, alive, eof, task, sync, notes, lost, guiVars>>

WaitResolve(w) ==
    /\ waiter[w].at \in {"idle", "sent"} /\ alive /\ ManagerFree
    /\ \E ss \in SUBSET (State777 \cup State7501) :
          ss # {} /\ waiter' = [waiter EXCEPT ![w] = [@ EXCEPT !.at = "resolved", !.states = ss]]
    /\ UNCHANGED <<printed, feed, daemonVars, alive, eof, task, sync, notes, lost, guiVars>>

\* the check and the registration, both under the status lock
WaitRegister(w) ==
    /\ waiter[w].at = "resolved"
    /\ alive \/ "late" \in Faults
    /\ waiter' = [waiter EXCEPT ![w].at = IF check_wait(status, waiter[w]) THEN "matched" ELSE "registered"]
    /\ UNCHANGED <<printed, feed, daemonVars, alive, eof, task, sync, notes, lost, guiVars>>

WaitTimeout(w) ==
    /\ waiter[w].at = "registered"
    /\ waiter' = [waiter EXCEPT ![w].at = "timeout"]
    /\ UNCHANGED <<printed, feed, daemonVars, alive, eof, task, sync, notes, lost, guiVars>>

\* mutant of fail_agent_waiters_pane_gone: the waiters are left alone
fail_nobody(ws) == ws

fail_agent_waiters_pane_gone(ws) ==
    [w \in Waiter |-> IF ws[w].at = "registered" THEN [ws[w] EXCEPT !.at = "gone"] ELSE ws[w]]

\* the connection loop consumes the exit chunk: it destroys the pane and tells the GUI
handle_destroy_pane ==
    /\ eof = "queued" /\ ManagerFree
    /\ \A w \in Waiter : waiter[w].at = "resolved" => "late" \in Faults
    /\ eof' = "done" /\ alive' = FALSE
    /\ waiter' = IF alive THEN fail_agent_waiters_pane_gone(waiter) ELSE waiter
    /\ inbox' = IF Attached THEN [inbox EXCEPT !.closed = TRUE] ELSE inbox
    /\ UNCHANGED <<printed, feed, daemonVars, task, sync, notes, lost, entry, notified>>

\* a CLI DestroyWindow: the panes are marked exited and dropped
handle_destroy_window ==
    /\ "window" \in Faults /\ alive /\ ManagerFree
    /\ alive' = FALSE
    /\ UNCHANGED <<printed, feed, daemonVars, eof, task, sync, waiter, notes, lost, guiVars>>

-----------------------------------------------------------------------------
(* The GUI: the connection forwards the broadcast, the tab latches, the    *)
(* pump applies all updates and then discards the closed panes.            *)

handle_agent_status_update ==
    /\ notes # <<>>
    /\ notes' = Tail(notes)
    /\ IF Head(notes) = Other
       THEN UNCHANGED <<inbox, lost>>
       ELSE inbox' = [inbox EXCEPT !.updates = Append(@, Head(notes))] /\ lost' = FALSE
    /\ UNCHANGED <<printed, feed, daemonVars, alive, eof, task, sync, waiter, entry, notified>>

Shown(e) == compose(e.s777, e.s7501)

\* the GUI state after one update: the update is stored as it comes
apply_report(g, u) ==
    LET new == [s777 |-> u.s777, s7501 |-> u.s7501, rev |-> u.rev, known |-> TRUE]
        changed == ~g.entry.known \/ Shown(g.entry) # Shown(new)
        tells == changed /\ ~u.replay /\ Shown(new) # None
    IN [entry |-> new, told |-> g.told + (IF tells THEN 1 ELSE 0)]

apply_agent_status_batch ==
    /\ inbox.updates # <<>> \/ inbox.closed
    /\ LET g == FoldLeft(apply_report, [entry |-> entry, told |-> notified], inbox.updates)
       IN /\ entry' = IF inbox.closed THEN NoEntry ELSE g.entry
          /\ notified' = g.told
    /\ inbox' = [updates |-> <<>>, closed |-> FALSE]
    /\ UNCHANGED <<printed, feed, daemonVars, alive, eof, task, sync, waiter, notes, lost>>

-----------------------------------------------------------------------------
Next ==
    \/ forward_agent_status_items \/ ReaderEof
    \/ TaskApply \/ build_agent_status_update_message \/ TaskSend
    \/ SyncRead \/ SyncSend \/ OtherNotification
    \/ \E w \in Waiter :
          handle_send_text(w) \/ WaitResolve(w) \/ WaitRegister(w) \/ WaitTimeout(w)
    \/ handle_destroy_pane \/ handle_destroy_window
    \/ handle_agent_status_update \/ apply_agent_status_batch

Spec == Init /\ [][Next]_vars

\* the tasks of the daemon and the GUI's pump run whenever they have work
Fairness ==
    /\ WF_vars(TaskApply) /\ WF_vars(build_agent_status_update_message) /\ WF_vars(TaskSend)
    /\ WF_vars(handle_agent_status_update) /\ WF_vars(apply_agent_status_batch)

FairSpec == Spec /\ Fairness

-----------------------------------------------------------------------------
(* Properties. *)

\* Every variable has the shape of the state it models.
TypeOK ==
    /\ printed \in 0..MaxItems /\ feed \in Seq(Items) /\ Len(feed) <= FeedCap
    /\ log \in Seq(Items) /\ Len(log) <= printed
    /\ status.s777 \in State777 \cup {None} /\ status.rev \in Nat
    /\ status.table \in Seq([id : Ids, s : State7501]) /\ Len(status.table) <= MaxRecords
    /\ latch \in [armed : BOOLEAN, ended : BOOLEAN]
    /\ alive \in BOOLEAN /\ eof \in {"open", "queued", "done"} /\ lost \in BOOLEAN
    /\ task.at \in {"recv", "reevaluate", "send"} /\ task.msg \in Updates
    /\ sync.at \in {"idle", "send"} /\ sync.msg \in Updates /\ sync.left \in 0..MaxSync
    /\ \A w \in Waiter :
          /\ waiter[w].at \in {"idle", "sent", "resolved", "registered", "matched", "gone", "timeout"}
          /\ waiter[w].states \subseteq States
    /\ Len(notes) <= NoteCap /\ \A i \in DOMAIN notes : notes[i] = Other \/ notes[i] \in Updates
    /\ inbox.updates \in Seq(Updates) /\ inbox.closed \in BOOLEAN
    /\ entry.known \in BOOLEAN /\ notified \in Nat /\ changes \in Nat

\* The OSC 777 state is what the whole history of the pane implies: the last Set, unless an
\* explicit Clear or a command end followed by a prompt start came after that very Set.  The
\* two-flag latch of agent_status_exit_latch.rs must compute exactly that.
InferredState ==
    LET reports == {i \in DOMAIN log : log[i].k \in {"set", "clear"}}
        last == CHOOSE i \in reports : \A j \in reports : j <= i
        ended == \E i, j \in DOMAIN log : last < i /\ i < j /\ log[i].k = "D" /\ log[j].k = "A"
    IN status.s777 = IF reports = {} THEN None
                     ELSE IF log[last].k = "clear" \/ ended THEN None ELSE log[last].s

\* The OSC 7501 table holds exactly the records no later report, removal, prompt start or reset
\* took away, except those evicted; a record is evicted only when at least MAX_RECORDS other ids
\* were reported after it (Table::put evicts the least recently updated).
RecordsAreRecent ==
    LET Ended(i, j) ==
            \/ log[j].k = "record" /\ log[j].id = log[i].id
            \/ log[j].k = "remove" /\ in_subtree(log[i].id, log[j].id)
            \/ log[j].k = "reset"
            \/ log[j].k \in {"A", "promptstart"} /\ log[i].s \notin {"done", "error"}
        standing == {i \in DOMAIN log : log[i].k = "record" /\ \A j \in i+1..Len(log) : ~Ended(i, j)}
        kept == {i \in standing : \E n \in DOMAIN status.table :
                    status.table[n] = [id |-> log[i].id, s |-> log[i].s]}
        Newer(i) == {log[j].id : j \in {k \in i+1..Len(log) : log[k].k = "record"}}
    IN /\ Len(status.table) = Cardinality(kept)
       /\ \A i \in standing \ kept : Cardinality(Newer(i)) >= MaxRecords

\* No waiter stays registered while the pane satisfies it, whenever the task is not between
\* applying a report and re-evaluating: the check and the registration cannot miss a change
\* (handle_wait_agent_state takes no manager lock while it registers).
WaiterNotMissed ==
    ManagerFree => \A w \in Waiter : waiter[w].at = "registered" => ~check_wait(status, waiter[w])

\* A wait that gives the watermark of a send is matched only after a report that reached the
\* pane after the watermark was read (handle_send_text, then handle_wait_agent_state).
MatchIsAfterWrite ==
    \A w \in Waiter : (waiter[w].at = "matched" /\ waiter[w].sentAt >= 0) =>
        \E i \in waiter[w].sentAt + 1..Len(log) : log[i].k \notin {"bad", "D"}

\* A registered wait whose pane is destroyed ends with pane_gone, never with a timeout.
GoneIsTold ==
    \A w \in Waiter : (waiter[w].at = "registered" /\ waiter'[w].at = "timeout") => alive

Settled ==
    /\ feed = <<>> /\ task.at = "recv" /\ sync.at = "idle" /\ notes = <<>>
    /\ inbox.updates = <<>> /\ ~inbox.closed

\* When nothing is under way the GUI shows what the daemon holds, unless the broadcast
\* overwrote the pane's last update: a Lagged receiver is the only way to lose one.
ClientConverges ==
    (Settled /\ Attached /\ alive /\ ~lost /\ status.rev > 0) =>
        /\ entry.known /\ entry.rev = status.rev
        /\ entry.s777 = status.s777 /\ entry.s7501 = summary(status.table)

\* The notification layer hears of no more transitions than the pane's composite state made:
\* same-state reports and loss of intermediate updates never produce one (FR9).
OneNotification == notified <= changes

\* The revision the GUI holds for a pane never goes back while it keeps the entry.
MonotonicRevision == (entry.known /\ entry'.known) => entry'.rev >= entry.rev

\* Once the tab has handled the pane's PtyExited and everything has arrived, the GUI keeps
\* no agent-status entry of the pane.
ClosedHasNoEntry == (eof = "done" /\ Settled) => ~entry.known

=============================================================================
