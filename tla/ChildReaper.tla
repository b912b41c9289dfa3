---------------------------- MODULE ChildReaper ----------------------------
(***************************************************************************)
(* How the daemon gets rid of the children of closed panes                 *)
(* (mux/session/child_reaper.rs, MuxPane::mark_exited): one reaper thread  *)
(* per closed pane polls its child for a grace period, escalates from a    *)
(* signal that may be ignored to SIGKILL, and waits for it.  A fresh pane  *)
(* holds a portable_pty handle, which remembers an exit status it has      *)
(* collected; a pane restored by a hot upgrade holds a bare process id.    *)
(*                                                                         *)
(* The process table is external: a process id is free again once the      *)
(* parent has collected its zombie, and may then be given to a new child   *)
(* or to a process of somebody else.                                       *)
(***************************************************************************)
EXTENDS Naturals

CONSTANTS
    Pane, Pid,
    Tries,        \* polls between the first signal and SIGKILL
    Reuse,        \* may a process id be given out a second time?
    MaxUpgrade    \* bound: hot upgrades

Other == "other"  \* a process that is not a child of the daemon

ChildReaperAssumption ==
    /\ {Tries, MaxUpgrade} \subseteq Nat
    /\ Reuse \in BOOLEAN
    /\ Other \notin Pane

VARIABLES
    proc,      \* per process id: free, alive or zombie
    owner,     \* the pane whose child last had this id, or Other
    doomed,    \* ids of processes that were sent SIGKILL
    used,      \* ids given out so far
    pane,      \* none, open, closed
    ref,       \* PaneChild: none, owned handle, pid
    pid,       \* the id in that reference
    reaped,    \* the pane's child has been collected
    reaper,    \* program counter of the pane's reaper thread
    late,      \* its grace period is over
    tries,     \* polls since the first signal
    cached,    \* its handle has the exit status
    upgrades

osVars == <<proc, owner, doomed, used>>
paneVars == <<pane, ref, pid>>
threadVars == <<reaper, late, tries, cached>>
vars == <<osVars, paneVars, reaped, threadVars, upgrades>>

NoPid == "nopid"

-----------------------------------------------------------------------------
(* Processes *)

Available(i) == proc[i] = "free" /\ (Reuse \/ i \notin used)
Begins(i, o) ==
    /\ proc' = [proc EXCEPT ![i] = "alive"]
    /\ owner' = [owner EXCEPT ![i] = o]
    /\ doomed' = doomed \ {i}
    /\ used' = used \cup {i}

\* spawn_pty and the registration of the pane.
Open(p, i) ==
    /\ pane[p] = "none"
    /\ Available(i)
    /\ Begins(i, p)
    /\ pane' = [pane EXCEPT ![p] = "open"]
    /\ ref' = [ref EXCEPT ![p] = "owned"]
    /\ pid' = [pid EXCEPT ![p] = i]
    /\ UNCHANGED <<reaped, threadVars, upgrades>>

OtherBegins(i) ==
    /\ Reuse
    /\ Available(i)
    /\ Begins(i, Other)
    /\ UNCHANGED <<paneVars, reaped, threadVars, upgrades>>

\* A process ends, by itself, by the hangup, or by a signal.
Ends(i) ==
    /\ proc[i] = "alive"
    /\ proc' = [proc EXCEPT ![i] = IF owner[i] = Other THEN "free" ELSE "zombie"]
    /\ UNCHANGED <<owner, doomed, used, paneVars, reaped, threadVars, upgrades>>

\* waitpid of the daemon on id i.
OurChild(i) == proc[i] # "free" /\ owner[i] # Other
Collect(i) ==
    /\ OurChild(i)
    /\ proc[i] = "zombie"
    /\ proc' = [proc EXCEPT ![i] = "free"]
    /\ reaped' = reaped \cup {owner[i]}
    /\ UNCHANGED <<owner, doomed, used>>

-----------------------------------------------------------------------------
(* mark_exited and the thread it spawns *)

\* The reference is taken out of the pane and handed to a thread.
mark_exited(p) ==
    /\ pane[p] = "open"
    /\ pane' = [pane EXCEPT ![p] = "closed"]
    /\ reaper' = [reaper EXCEPT ![p] = "poll"]
    /\ UNCHANGED <<osVars, ref, pid, reaped, late, tries, cached, upgrades>>

\* The grace period of the thread ends.
Deadline(p) ==
    /\ reaper[p] = "poll"
    /\ ~late[p]
    /\ late' = [late EXCEPT ![p] = TRUE]
    /\ UNCHANGED <<osVars, paneVars, reaped, reaper, tries, cached, upgrades>>

To(p, pc) == reaper' = [reaper EXCEPT ![p] = pc]

\* The poll finds the child dead and collects it.
PollCollects(p) ==
    /\ reaper[p] = "poll"
    /\ Collect(pid[p])
    /\ To(p, "done")
    /\ UNCHANGED <<paneVars, late, tries, cached, upgrades>>

\* The poll finds no child with this id: done with a bare id, an error with a
\* handle, which escalates at once.
PollGone(p) ==
    /\ reaper[p] = "poll"
    /\ ~OurChild(pid[p])
    /\ To(p, IF ref[p] = "pid" THEN "done" ELSE "term")
    /\ UNCHANGED <<osVars, paneVars, reaped, late, tries, cached, upgrades>>

\* Alive at the end of the grace period.
PollLate(p) ==
    /\ reaper[p] = "poll"
    /\ OurChild(pid[p]) /\ proc[pid[p]] = "alive"
    /\ late[p]
    /\ To(p, "term")
    /\ UNCHANGED <<osVars, paneVars, reaped, late, tries, cached, upgrades>>

-----------------------------------------------------------------------------
(* kill_pid and Child::kill: a first signal, polls, SIGKILL *)

\* Signals go to whatever has the id; one that has none is an error, after which
\* only the wait is left.
Terminate(p) ==
    /\ reaper[p] = "term"
    /\ To(p, IF proc[pid[p]] = "free" THEN "wait" ELSE "polled")
    /\ tries' = [tries EXCEPT ![p] = 0]
    /\ UNCHANGED <<osVars, paneVars, reaped, late, cached, upgrades>>

\* Fault: SIGKILL follows although the poll has collected the child.
KillPollGoesOn(p) ==
    /\ reaper[p] = "polled"
    /\ Collect(pid[p])
    /\ To(p, "kill")
    /\ UNCHANGED <<paneVars, late, tries, cached, upgrades>>

\* A handle remembers the status, a bare id has nothing to remember it in.
KillPollCollects(p) ==
    /\ reaper[p] = "polled"
    /\ Collect(pid[p])
    /\ cached' = [cached EXCEPT ![p] = ref[p] = "owned"]
    /\ To(p, "wait")
    /\ UNCHANGED <<paneVars, late, tries, upgrades>>

KillPollGone(p) ==
    /\ reaper[p] = "polled"
    /\ ref[p] = "pid"
    /\ ~OurChild(pid[p])
    /\ To(p, "wait")
    /\ UNCHANGED <<osVars, paneVars, reaped, late, tries, cached, upgrades>>

\* Still alive: another poll, or SIGKILL.  The error of a handle whose child is
\* gone counts as alive.
KillPollAgain(p) ==
    /\ reaper[p] = "polled"
    /\ IF OurChild(pid[p]) THEN proc[pid[p]] = "alive" ELSE ref[p] = "owned"
    /\ IF tries[p] < Tries
       THEN tries' = [tries EXCEPT ![p] = @ + 1] /\ UNCHANGED reaper
       ELSE To(p, "kill") /\ UNCHANGED tries
    /\ UNCHANGED <<osVars, paneVars, reaped, late, cached, upgrades>>

SigKill(p) ==
    /\ reaper[p] = "kill"
    /\ doomed' = IF proc[pid[p]] = "alive" THEN doomed \cup {pid[p]} ELSE doomed
    /\ To(p, "wait")
    /\ UNCHANGED <<proc, owner, used, paneVars, reaped, late, tries, cached, upgrades>>

-----------------------------------------------------------------------------
(* wait_pid_blocking and Child::wait *)

WaitCollects(p) ==
    /\ reaper[p] = "wait"
    /\ ~cached[p]
    /\ Collect(pid[p])
    /\ To(p, "done")
    /\ UNCHANGED <<paneVars, late, tries, cached, upgrades>>

\* The status is known already, or there is no such child.
WaitReturns(p) ==
    /\ reaper[p] = "wait"
    /\ cached[p] \/ ~OurChild(pid[p])
    /\ To(p, "done")
    /\ UNCHANGED <<osVars, paneVars, reaped, late, tries, cached, upgrades>>

\* execve replaces the image: children stay children, handles become ids, and
\* threads are gone.
Upgrade ==
    /\ upgrades < MaxUpgrade
    /\ upgrades' = upgrades + 1
    /\ ref' = [p \in Pane |-> IF pane[p] = "open" THEN "pid" ELSE ref[p]]
    /\ reaper' = [p \in Pane |-> IF reaper[p] \in {"none", "done"} THEN reaper[p] ELSE "gone"]
    /\ UNCHANGED <<osVars, pane, pid, reaped, late, tries, cached>>

\* No pane is open and no thread runs.
AllDone ==
    /\ \A p \in Pane : pane[p] # "open" /\ reaper[p] \in {"none", "done", "gone"}
    /\ UNCHANGED vars

-----------------------------------------------------------------------------

Init ==
    /\ proc = [i \in Pid |-> "free"]
    /\ owner = [i \in Pid |-> Other]
    /\ doomed = {}
    /\ used = {}
    /\ pane = [p \in Pane |-> "none"]
    /\ ref = [p \in Pane |-> "none"]
    /\ pid = [p \in Pane |-> NoPid]
    /\ reaped = {}
    /\ reaper = [p \in Pane |-> "none"]
    /\ late = [p \in Pane |-> FALSE]
    /\ tries = [p \in Pane |-> 0]
    /\ cached = [p \in Pane |-> FALSE]
    /\ upgrades = 0

Thread(p) ==
    \/ PollCollects(p) \/ PollGone(p) \/ PollLate(p)
    \/ Terminate(p) \/ KillPollCollects(p) \/ KillPollGone(p) \/ KillPollAgain(p)
    \/ SigKill(p) \/ WaitCollects(p) \/ WaitReturns(p)

Next ==
    \/ \E p \in Pane : \E i \in Pid : Open(p, i)
    \/ \E i \in Pid : OtherBegins(i) \/ Ends(i)
    \/ \E p \in Pane : mark_exited(p) \/ Deadline(p) \/ Thread(p)
    \/ Upgrade
    \/ AllDone

Spec == Init /\ [][Next]_vars

\* Threads run, deadlines pass, and SIGKILL kills.  No other process has to end.
Fairness ==
    /\ \A p \in Pane : WF_vars(Thread(p)) /\ WF_vars(Deadline(p))
    /\ \A i \in Pid : WF_vars(i \in doomed /\ Ends(i))

LiveSpec == Spec /\ Fairness

-----------------------------------------------------------------------------
(* Properties *)

\* Every variable has its type.
TypeOK ==
    /\ proc \in [Pid -> {"free", "alive", "zombie"}]
    /\ owner \in [Pid -> Pane \cup {Other}]
    /\ doomed \subseteq Pid
    /\ used \subseteq Pid
    /\ pane \in [Pane -> {"none", "open", "closed"}]
    /\ ref \in [Pane -> {"none", "owned", "pid"}]
    /\ pid \in [Pane -> Pid \cup {NoPid}]
    /\ reaped \subseteq Pane
    /\ reaper \in [Pane -> {"none", "poll", "term", "polled", "kill", "wait", "done", "gone"}]
    /\ late \in [Pane -> BOOLEAN]
    /\ tries \in [Pane -> 0 .. Tries]
    /\ cached \in [Pane -> BOOLEAN]
    /\ upgrades \in 0 .. MaxUpgrade

\* A reaper about to send a signal has its own pane's child at the id, alive or
\* dead but not collected: no signal reaches a process that merely inherited the
\* number (the polls of kill_pid and Child::kill stop at a collected child).
SignalsOwn ==
    \A p \in Pane : reaper[p] \in {"term", "kill"} =>
       proc[pid[p]] # "free" /\ owner[pid[p]] = p

\* A thread collects its own pane's child only, so that no other reaper finds
\* its child gone (reap_child_blocking and reap_pid_blocking).
CollectsOwn ==
    \A p \in Pane : p \in reaped' \ reaped => reaper'[p] # reaper[p]

\* A reaper thread that has ended leaves no child behind, even if another thread
\* took its child's status because it held a stale id (the postconditions of
\* reap_child_blocking and reap_pid_blocking).
DoneIsReaped == \A p \in Pane : reaper[p] = "done" => p \in reaped

\* A closed pane's child is collected, however it treats hangup and SIGTERM
\* (the module's promise that the daemon accumulates no zombies).
ClosedIsReaped == \A p \in Pane : pane[p] = "closed" ~> p \in reaped

\* The blocking wait after the escalation comes to an end (kill_pid's promise).
WaitEnds == \A p \in Pane : reaper[p] = "wait" ~> reaper[p] # "wait"

=============================================================================
