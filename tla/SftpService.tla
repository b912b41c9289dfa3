---------------------------- MODULE SftpService ----------------------------
(***************************************************************************)
(* Uploads of dropped files (src/src-tauri/src/sftp/service.rs, pool.rs,   *)
(* process.rs, with the callers in app/sftp.rs and app/tab_lifecycle.rs).  *)
(* The UI thread starts and cancels uploads; one dispatcher thread takes   *)
(* them from a queue and waits for a slot of the pool; a thread per upload *)
(* runs the sftp child and cleans up.  They share the pool, the map from   *)
(* session to tab, the set of cancelled sessions and the registry of       *)
(* children, each behind a lock of its own.                                *)
(***************************************************************************)
EXTENDS Naturals, Sequences, SequencesExt, FiniteSets, FiniteSetsExt

CONSTANTS
    Tabs,         \* stable_ids of the SSH tabs
    MaxSessions,  \* bound on the uploads
    Limits,       \* values of sftp_max_concurrent_uploads, 0 included
    Ops           \* what the UI does: "cancel", "close", "key"

SftpAssumption ==
    /\ Tabs # {} /\ MaxSessions \in Nat \ {0} /\ Limits # {} /\ Limits \subseteq Nat
    /\ Ops \subseteq {"cancel", "close", "key"}

Sessions == 1 .. MaxSessions
NoTab == "none"
Terminal == {"Completed", "Failed", "Cancelled"}
Statuses == {"Preparing", "Uploading"} \cup Terminal
\* set_max_concurrent
AtLeastOne(n) == IF n = 0 THEN 1 ELSE n

VARIABLES
    tabs,        \* open tabs
    sessionTab,  \* session_tab
    owner,       \* history: the tab each session was started for
    queue,       \* the job channel
    slot, limit, \* the pool: active sessions, max_concurrent
    cancelled,   \* sessions asked to stop
    disp,        \* the dispatcher: what it does, with which session
    work,        \* the thread of each session, or of the dispatcher for it
    result,      \* what spawn_upload returned
    wasCancelled,
    procs,       \* SftpProcessManager: children that a cancel can find
    child,       \* none, running, done, failed, killed
    guard,       \* close_guard
    todo,        \* sessions the UI thread is cancelling, and whether the first is marked
    marked,
    early,       \* history: marked before the dispatcher's second look
    stopped,     \* history: their cancel has returned
    missed,      \* history: it was too late for that look, too soon for the registry
    guarded,     \* history: tabs closed by request_close_tab or the answer to its question
    events       \* history: the statuses sent for each session

ui == <<tabs, guard, todo, marked>>
shared == <<sessionTab, slot, limit, cancelled, procs>>
hist == <<owner, early, stopped, missed, guarded, events>>
vars == <<ui, shared, queue, disp, work, result, wasCancelled, child, hist>>

Idle == [at |-> "idle", s |-> 0]

Init ==
    /\ tabs = Tabs /\ sessionTab = [s \in Sessions |-> NoTab]
    /\ owner = [s \in Sessions |-> NoTab] /\ queue = <<>> /\ slot = {}
    /\ limit \in {AtLeastOne(n) : n \in Limits} /\ cancelled = {} /\ disp = Idle
    /\ work = [s \in Sessions |-> "none"] /\ result = [s \in Sessions |-> "none"]
    /\ wasCancelled = [s \in Sessions |-> FALSE] /\ procs = {}
    /\ child = [s \in Sessions |-> "none"] /\ guard = NoTab /\ todo = <<>> /\ marked = FALSE
    /\ early = {} /\ stopped = {} /\ missed = {} /\ guarded = {}
    /\ events = [s \in Sessions |-> <<>>]
-----------------------------------------------------------------------------
\* send_progress
Send(s, status) == events' = [events EXCEPT ![s] = Append(@, status)]

StartUpload(t) ==
    /\ todo = <<>> /\ t \in tabs
    /\ \E s \in Sessions :
          /\ owner[s] = NoTab /\ \A r \in 1 .. s - 1 : owner[r] # NoTab
          /\ owner' = [owner EXCEPT ![s] = t] /\ sessionTab' = [sessionTab EXCEPT ![s] = t]
          /\ Send(s, "Preparing") /\ queue' = Append(queue, s)
    /\ UNCHANGED <<ui, slot, limit, cancelled, procs, disp, work, result, wasCancelled,
                   child, early, stopped, missed, guarded>>

SetMaxConcurrent ==
    /\ todo = <<>> /\ \E n \in Limits : limit' = AtLeastOne(n)
    /\ UNCHANGED <<ui, sessionTab, slot, cancelled, procs, queue, disp, work, result,
                   wasCancelled, child, hist>>
-----------------------------------------------------------------------------
(* Cancelling: the UI thread records the session, then looks for its child. *)

\* Its toast shows what the last frame pumped, which any of its statuses may follow.
CancelClicked(s) ==
    /\ "cancel" \in Ops /\ todo = <<>> /\ owner[s] # NoTab /\ todo' = <<s>>
    /\ UNCHANGED <<tabs, guard, marked, shared, queue, disp, work, result, wasCancelled,
                   child, hist>>

BeforeSecondLook(s) ==
    work[s] = "none" /\ ~(disp.s = s /\ disp.at = "size")

CancelMark ==
    /\ todo # <<>> /\ ~marked /\ marked' = TRUE
    /\ LET s == Head(todo) IN
       /\ cancelled' = cancelled \cup {s}
       /\ early' = IF BeforeSecondLook(s) THEN early \cup {s} ELSE early
    /\ UNCHANGED <<tabs, guard, todo, sessionTab, slot, limit, procs, queue, disp,
                   work, result, wasCancelled, child, owner, stopped, missed, guarded, events>>

\* SftpProcessManager::cancel
CancelKill ==
    /\ marked /\ marked' = FALSE /\ todo' = Tail(todo)
    /\ LET s == Head(todo) IN
       /\ procs' = procs \ {s}
       /\ child' = IF s \in procs /\ child[s] = "running" THEN [child EXCEPT ![s] = "killed"]
                                                          ELSE child
       /\ stopped' = stopped \cup {s}
       /\ missed' = IF s \notin early \cup procs /\ work[s] \in {"none", "spawn", "register"}
                    THEN missed \cup {s} ELSE missed
    /\ UNCHANGED <<tabs, guard, sessionTab, slot, limit, cancelled, queue, disp,
                   work, result, wasCancelled, owner, early, guarded, events>>
-----------------------------------------------------------------------------
(* Closing a tab. *)
ActiveForTab(t) == {s \in Sessions : sessionTab[s] = t}

CloseTab(t) == tabs' = tabs \ {t}

RequestCloseTab(t) ==
    /\ "close" \in Ops /\ todo = <<>> /\ t \in tabs
    /\ \/ ActiveForTab(t) # {} /\ guard' = t /\ UNCHANGED <<tabs, guarded>>
       \/ ActiveForTab(t) = {} /\ CloseTab(t) /\ guarded' = guarded \cup {t} /\ UNCHANGED guard
    /\ UNCHANGED <<todo, marked, shared, queue, disp, work, result, wasCancelled,
                   child, owner, early, stopped, missed, events>>

\* confirm_close_guard: the tab's sessions are cancelled, then it closes.
ConfirmCloseGuard ==
    /\ todo = <<>> /\ guard # NoTab /\ guard' = NoTab
    /\ IF guard \in tabs THEN /\ todo' = SetToSeq(ActiveForTab(guard)) /\ CloseTab(guard)
                              /\ guarded' = guarded \cup {guard}
                         ELSE UNCHANGED <<tabs, todo, guarded>>
    /\ UNCHANGED <<marked, shared, queue, disp, work, result, wasCancelled, child,
                   owner, early, stopped, missed, events>>

CancelCloseGuard ==
    /\ todo = <<>> /\ guard # NoTab /\ guard' = NoTab
    /\ UNCHANGED <<tabs, todo, marked, shared, queue, disp, work, result,
                   wasCancelled, child, hist>>

\* The Close Tab key: close_tab without a question.
CloseTabKey(t) ==
    /\ "key" \in Ops /\ todo = <<>> /\ t \in tabs /\ CloseTab(t)
    /\ UNCHANGED <<guard, todo, marked, shared, queue, disp, work, result,
                   wasCancelled, child, hist>>
-----------------------------------------------------------------------------
(* The dispatcher. *)
DispUnmoved == UNCHANGED <<ui, sessionTab, limit, cancelled, procs, result, wasCancelled,
                           child, owner, early, stopped, missed, guarded>>

DispatchRecv ==
    /\ disp.at = "idle" /\ queue # <<>>
    /\ disp' = [at |-> "look", s |-> Head(queue)] /\ queue' = Tail(queue)
    /\ UNCHANGED <<slot, work, events>> /\ DispUnmoved

\* A cancelled session is finished by the dispatcher itself.
DispatchLook ==
    /\ disp.at = "look"
    /\ IF disp.s \in cancelled THEN
          disp' = [disp EXCEPT !.at = "finish"] /\ work' = [work EXCEPT ![disp.s] = "untab"]
       ELSE disp' = [disp EXCEPT !.at = "acquire"] /\ UNCHANGED work
    /\ UNCHANGED <<slot, queue, events>> /\ DispUnmoved

AcquireSlot ==
    /\ disp.at = "acquire" /\ Cardinality(slot) < limit
    /\ slot' = slot \cup {disp.s} /\ disp' = [disp EXCEPT !.at = "again"]
    /\ UNCHANGED <<queue, work, events>> /\ DispUnmoved

\* A plausible slip: a session cancelled while it waited keeps its slot.
DispatchAgainKeepsSlot ==
    /\ disp.at = "again"
    /\ IF disp.s \in cancelled THEN
          disp' = [disp EXCEPT !.at = "finish"] /\ work' = [work EXCEPT ![disp.s] = "untab"]
       ELSE disp' = [disp EXCEPT !.at = "size"] /\ UNCHANGED work
    /\ UNCHANGED <<slot, queue, events>> /\ DispUnmoved

DispatchAgain ==
    /\ disp.at = "again"
    /\ IF disp.s \in cancelled THEN
          disp' = [disp EXCEPT !.at = "finish"] /\ work' = [work EXCEPT ![disp.s] = "release"]
       ELSE disp' = [disp EXCEPT !.at = "size"] /\ UNCHANGED work
    /\ UNCHANGED <<slot, queue, events>> /\ DispUnmoved

\* The size is computed, Uploading is sent, the thread of the session starts.
DispatchTransfer ==
    /\ disp.at = "size" /\ Send(disp.s, "Uploading")
    /\ work' = [work EXCEPT ![disp.s] = "spawn"] /\ disp' = Idle
    /\ UNCHANGED <<slot, queue>> /\ DispUnmoved

DispatchFinished ==
    /\ disp.at = "finish" /\ work[disp.s] = "done" /\ disp' = Idle
    /\ UNCHANGED <<slot, queue, work, events>> /\ DispUnmoved
-----------------------------------------------------------------------------
(* spawn_upload, on the thread of the session. *)
ThreadUnmoved == UNCHANGED <<ui, sessionTab, limit, queue, disp, hist>>

Spawn(s) ==
    /\ work[s] = "spawn"
    /\ \/ /\ child' = [child EXCEPT ![s] = "running"] /\ work' = [work EXCEPT ![s] = "register"]
          /\ UNCHANGED result
       \/ /\ result' = [result EXCEPT ![s] = "error"] /\ work' = [work EXCEPT ![s] = "release"]
          /\ UNCHANGED child
    /\ UNCHANGED <<slot, cancelled, wasCancelled, procs>> /\ ThreadUnmoved

Register(s) ==
    /\ work[s] = "register" /\ procs' = procs \cup {s} /\ work' = [work EXCEPT ![s] = "read"]
    /\ UNCHANGED <<slot, cancelled, result, wasCancelled, child>> /\ ThreadUnmoved

ChildExits(s) ==
    /\ child[s] = "running" /\ \E how \in {"done", "failed"} : child' = [child EXCEPT ![s] = how]
    /\ UNCHANGED <<slot, cancelled, work, result, wasCancelled, procs>> /\ ThreadUnmoved

\* stderr is at its end: the child is taken from the registry, if a cancel left it there.
Reap(s) ==
    /\ work[s] = "read" /\ child[s] # "running" /\ procs' = procs \ {s}
    /\ result' = [result EXCEPT ![s] = CASE s \notin procs -> "cancelled"
                                         [] child[s] = "done" -> "ok"
                                         [] OTHER -> "error"]
    /\ work' = [work EXCEPT ![s] = "release"]
    /\ UNCHANGED <<slot, cancelled, wasCancelled, child>> /\ ThreadUnmoved

ReleaseSlot(s) ==
    /\ work[s] = "release" /\ slot' = slot \ {s} /\ work' = [work EXCEPT ![s] = "untab"]
    /\ UNCHANGED <<cancelled, result, wasCancelled, procs, child>> /\ ThreadUnmoved

ForgetTab(s) ==
    /\ work[s] = "untab" /\ sessionTab' = [sessionTab EXCEPT ![s] = NoTab]
    /\ work' = [work EXCEPT ![s] = "uncancel"]
    /\ UNCHANGED <<ui, slot, limit, cancelled, procs, queue, disp, result, wasCancelled,
                   child, hist>>

ForgetCancelled(s) ==
    /\ work[s] = "uncancel" /\ cancelled' = cancelled \ {s}
    /\ wasCancelled' = [wasCancelled EXCEPT ![s] = s \in cancelled]
    /\ work' = [work EXCEPT ![s] = "report"]
    /\ UNCHANGED <<slot, result, procs, child>> /\ ThreadUnmoved

\* finish_cancelled, or the end of the session's thread.
Outcome(s) ==
    CASE result[s] = "ok" -> "Completed"
      [] result[s] = "none" \/ wasCancelled[s] \/ result[s] = "cancelled" -> "Cancelled"
      [] OTHER -> "Failed"

Report(s) ==
    /\ work[s] = "report" /\ Send(s, Outcome(s)) /\ work' = [work EXCEPT ![s] = "done"]
    /\ UNCHANGED <<ui, shared, queue, disp, result, wasCancelled, child, owner, early,
                   stopped, missed, guarded>>
-----------------------------------------------------------------------------
Ui ==
    \/ SetMaxConcurrent \/ CancelMark \/ CancelKill
    \/ ConfirmCloseGuard \/ CancelCloseGuard
    \/ \E t \in Tabs : StartUpload(t) \/ RequestCloseTab(t) \/ CloseTabKey(t)
    \/ \E s \in Sessions : CancelClicked(s)

Dispatcher ==
    \/ DispatchRecv \/ DispatchLook \/ AcquireSlot \/ DispatchAgain \/ DispatchTransfer
    \/ DispatchFinished

Thread(s) ==
    \/ Spawn(s) \/ Register(s) \/ ChildExits(s) \/ Reap(s) \/ ReleaseSlot(s) \/ ForgetTab(s)
    \/ ForgetCancelled(s) \/ Report(s)

Next == Ui \/ Dispatcher \/ \E s \in Sessions : Thread(s)

Spec == Init /\ [][Next]_vars

\* Threads run, a child ends by itself or is killed, the UI thread finishes a cancel;
\* nobody has to start, cancel or close anything.
FairSpec ==
    /\ Spec /\ WF_vars(Dispatcher) /\ WF_vars(CancelMark) /\ WF_vars(CancelKill)
    /\ \A s \in Sessions : WF_vars(Thread(s))
-----------------------------------------------------------------------------
(* The state is well formed. *)
TypeOK ==
    /\ tabs \subseteq Tabs /\ slot \subseteq Sessions /\ cancelled \subseteq Sessions
    /\ procs \subseteq Sessions /\ limit \in Nat \ {0}
    /\ \A s \in Sessions :
          /\ {sessionTab[s], owner[s]} \subseteq Tabs \cup {NoTab}
          /\ child[s] \in {"none", "running", "done", "failed", "killed"}
    /\ todo \in Seq(Sessions) /\ disp.s \in 0 .. MaxSessions

(* ConcurrentUploadPool: no more children run than the largest limit there was, and    *)
(* each of them holds a slot.                                                          *)
TransfersBounded ==
    LET running == {s \in Sessions : child[s] = "running"} IN
    /\ running \subseteq slot
    /\ Cardinality(running) <= Max({AtLeastOne(n) : n \in Limits})

(* The worker owns its slot and its entries "through its terminal state": whatever     *)
(* way an upload ended, nothing of it is left in the pool, the map or the registry.    *)
NothingLeftBehind ==
    \A s \in Sessions : work[s] = "done" =>
       s \notin slot /\ sessionTab[s] = NoTab /\ s \notin procs /\ child[s] # "running"

(* cancel, the dispatcher's two looks: an upload cancelled before the second of them   *)
(* never starts a child.                                                               *)
QueuedCancelNeverTransfers ==
    \A s \in early : child[s] = "none" /\ work[s] \notin {"spawn", "register", "read"}

(* The statuses of a session, from two threads: Preparing first, Uploading at most     *)
(* once and before the end, one terminal status and nothing after it.                  *)
OneTerminalStatus ==
    \A s \in Sessions :
       events[s] \in {<<>>, <<"Preparing">>, <<"Preparing", "Uploading">>}
                     \cup {<<"Preparing", e>> : e \in Terminal}
                     \cup {<<"Preparing", "Uploading", e>> : e \in Terminal}

(* cancel against the dispatcher and the thread of the session: an upload whose cancel *)
(* has returned runs no child, then or later, unless it fell between the dispatcher's  *)
(* second look and the registration of the child.                                      *)
CancelReaches == \A s \in stopped \ missed : child[s] # "running"

(* request_close_tab, confirm_close_guard: once a tab is closed with their consent and *)
(* its cancels have returned, none of its uploads runs or is going to, but for those a *)
(* cancel missed.  What was not asked to stop was at its end already.                  *)
GuardedTabsAreQuiet ==
    \A s \in Sessions : (owner[s] \in guarded /\ todo = <<>>) =>
       \/ s \in missed
       \/ s \in stopped /\ child[s] # "running"
       \/ child[s] # "running" /\ work[s] \in {"uncancel", "report", "done"}

(* A session whose child was killed is reported as cancelled, not as failed.           *)
KilledIsCancelled ==
    \A s \in Sessions : (child[s] = "killed" /\ work[s] = "done") => Last(events[s]) = "Cancelled"

(* In no run, for the code does otherwise.  cancel: "a no-op for a queued upload whose *)
(* child has not spawned yet (the dispatcher will catch it)": it does not complete.    *)
CancelStops == \A s \in stopped : child[s] = "done" => s \notin missed

(* In no run, for the code does otherwise (the Close Tab key, a cancel that missed).   *)
(* The guard's question, "Closing will cancel them": no upload of a closed tab runs on *)
(* once its cancels are done.                                                          *)
ClosedTabsAreQuiet ==
    \A s \in Sessions :
       (owner[s] \notin tabs \cup {NoTab} /\ todo = <<>>) => child[s] # "running"
=============================================================================
