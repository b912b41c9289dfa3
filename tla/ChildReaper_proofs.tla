------------------------- MODULE ChildReaper_proofs -------------------------
(***************************************************************************)
(* What the reaper threads of ChildReaper promise, for any number of panes *)
(* and process ids, any number of polls and of hot upgrades: no thread     *)
(* ends with its child uncollected, and as long as no bare id can be given *)
(* out again a thread signals and collects its own child only.             *)
(***************************************************************************)
EXTENDS ChildReaper, TLAPS

-----------------------------------------------------------------------------
(* The invariant *)

\* A pane's child keeps its id until somebody has collected it.
Placed ==
    \A p \in Pane : pane[p] # "none" =>
        /\ pid[p] \in Pid
        /\ p \in reaped \/ (proc[pid[p]] # "free" /\ owner[pid[p]] = p)

\* A thread belongs to a closed pane; what a handle remembers, and what a thread
\* that is done has seen, is that the child was collected.
Seen ==
    \A p \in Pane :
        /\ reaper[p] # "none" => pane[p] = "closed"
        /\ cached[p] \/ reaper[p] = "done" => p \in reaped

\* Nobody but its own thread collects a child, and only its last wait can follow.
Kept ==
    \A p \in Pane : p \in reaped =>
        \/ reaper[p] \in {"done", "gone"}
        \/ reaper[p] = "wait" /\ (cached[p] \/ ~Reuse)

\* Without reuse an id stays with its pane.
Unshared ==
    ~Reuse => \A p \in Pane : pane[p] # "none" => pid[p] \in used /\ owner[pid[p]] = p

\* Without an upgrade every reference is a handle.
Handles == MaxUpgrade = 0 => \A p \in Pane : pane[p] # "none" => ref[p] = "owned"

ReapInv == TypeOK /\ Placed /\ Seen
OwnInv == Kept /\ Unshared /\ Handles

-----------------------------------------------------------------------------
(* Types *)

\* Initially no process runs and no pane is open.
LEMMA InitInv == ASSUME ChildReaperAssumption PROVE Init => ReapInv /\ OwnInv
    BY DEF ChildReaperAssumption, Init, ReapInv, TypeOK, Placed, Seen, OwnInv, Kept,
           Unshared, Handles

\* Every step keeps the types of the process table and the panes.
LEMMA StepType ==
    ASSUME ChildReaperAssumption, ReapInv, [Next]_vars
    PROVE  TypeOK'
    <1> USE DEF ReapInv, osVars, paneVars, threadVars, To
    <1>0. TypeOK /\ Tries \in Nat /\ MaxUpgrade \in Nat /\ Other \notin Pane
        BY DEF ChildReaperAssumption
    <1>1. ASSUME NEW p \in Pane, NEW i \in Pid, Open(p, i) PROVE TypeOK'
        BY <1>0, <1>1 DEF Open, Available, Begins, TypeOK
    <1>2. ASSUME NEW i \in Pid, OtherBegins(i) PROVE TypeOK'
        BY <1>0, <1>2 DEF OtherBegins, Available, Begins, TypeOK
    <1>3. ASSUME NEW i \in Pid, Ends(i) PROVE TypeOK'
        BY <1>0, <1>3 DEF Ends, TypeOK
    <1>4. ASSUME NEW p \in Pane, mark_exited(p) \/ Deadline(p) PROVE TypeOK'
        BY <1>0, <1>4 DEF mark_exited, Deadline, TypeOK
    <1>5. ASSUME NEW p \in Pane, Thread(p) PROVE TypeOK'
        <2>0. reaper[p] \notin {"none", "done", "gone"} /\ pid[p] \in Pid
            <3>1. reaper[p] \notin {"none", "done", "gone"}
                BY <1>5 DEF Thread, PollCollects, PollGone, PollLate, Terminate,
                   KillPollCollects, KillPollGone, KillPollAgain, SigKill, WaitCollects,
                   WaitReturns
            <3> QED BY <3>1 DEF Placed, Seen
        <2>1. owner[pid[p]] # Other => owner[pid[p]] \in Pane
            BY <1>0, <2>0 DEF TypeOK
        <2>2. CASE PollCollects(p) \/ WaitCollects(p)
            BY <1>0, <2>0, <2>1, <2>2 DEF PollCollects, WaitCollects, Collect, OurChild, TypeOK
        <2>3. CASE KillPollCollects(p)
            BY <1>0, <2>0, <2>1, <2>3 DEF KillPollCollects, Collect, OurChild, TypeOK
        <2>4. CASE PollGone(p) \/ PollLate(p) \/ KillPollGone(p) \/ WaitReturns(p)
            BY <1>0, <2>0, <2>4 DEF PollGone, PollLate, KillPollGone, WaitReturns, TypeOK
        <2>5. CASE Terminate(p)
            BY <1>0, <2>0, <2>5 DEF Terminate, TypeOK
        <2>6. CASE KillPollAgain(p)
            <3>1. CASE tries[p] < Tries
                <4>1. tries[p] + 1 \in 0 .. Tries
                    BY <1>0, <3>1 DEF TypeOK
                <4> QED BY <1>0, <2>6, <3>1, <4>1 DEF KillPollAgain, TypeOK
            <3>2. CASE ~(tries[p] < Tries)
                BY <1>0, <2>6, <3>2 DEF KillPollAgain, TypeOK
            <3> QED BY <3>1, <3>2
        <2>7. CASE SigKill(p)
            BY <1>0, <2>0, <2>7 DEF SigKill, TypeOK
        <2> QED BY <1>5, <2>2, <2>3, <2>4, <2>5, <2>6, <2>7 DEF Thread
    <1>6. CASE Upgrade
        BY <1>0, <1>6 DEF Upgrade, TypeOK
    <1>7. CASE AllDone \/ UNCHANGED vars
        BY <1>0, <1>7 DEF AllDone, vars, TypeOK
    <1> QED BY <1>1, <1>2, <1>3, <1>4, <1>5, <1>6, <1>7 DEF Next

-----------------------------------------------------------------------------
(* No child is left behind *)

\* What a thread's step does to the process table: nothing, or it collects the
\* process with its pane's id.
LEMMA ThreadSteps ==
    ASSUME ReapInv, NEW p \in Pane, Thread(p)
    PROVE  /\ pid[p] \in Pid /\ reaper[p] \notin {"none", "done", "gone"}
           /\ UNCHANGED <<pane, ref, pid, upgrades, used>> /\ owner' = owner
           /\ \A q \in Pane : q # p => reaper'[q] = reaper[q] /\ cached'[q] = cached[q]
           /\ \/ Collect(pid[p])
              \/ UNCHANGED <<proc, reaped, cached>>
    <1> USE DEF osVars, paneVars, threadVars, To
    <1>1. reaper[p] \notin {"none", "done", "gone"}
        BY DEF Thread, PollCollects, PollGone, PollLate, Terminate, KillPollCollects,
           KillPollGone, KillPollAgain, SigKill, WaitCollects, WaitReturns
    <1>2. pid[p] \in Pid
        BY <1>1 DEF ReapInv, Placed, Seen
    <1>3. reaper \in [Pane -> {"none", "poll", "term", "polled", "kill", "wait", "done",
                               "gone"}] /\ cached \in [Pane -> BOOLEAN]
        BY DEF ReapInv, TypeOK
    <1>4. CASE PollCollects(p) \/ WaitCollects(p) \/ KillPollCollects(p)
        BY <1>1, <1>2, <1>3, <1>4
        DEF PollCollects, WaitCollects, KillPollCollects, Collect
    <1>5. CASE ~(PollCollects(p) \/ WaitCollects(p) \/ KillPollCollects(p))
        BY <1>1, <1>2, <1>3, <1>5
        DEF Thread, PollGone, PollLate, Terminate, KillPollGone, KillPollAgain, SigKill,
            WaitReturns
    <1> QED BY <1>4, <1>5

\* A child keeps its id until it is collected, whoever collects it.
LEMMA StepPlaced ==
    ASSUME ChildReaperAssumption, ReapInv, [Next]_vars
    PROVE  Placed'
    <1> USE DEF osVars, paneVars, threadVars, To
    <1>0. TypeOK /\ Placed /\ Other \notin Pane
        BY DEF ReapInv, ChildReaperAssumption
    <1>1. ASSUME NEW p \in Pane, NEW i \in Pid, Open(p, i) PROVE Placed'
        BY <1>0, <1>1 DEF Open, Available, Begins, Placed, TypeOK
    <1>2. ASSUME NEW i \in Pid, OtherBegins(i) PROVE Placed'
        BY <1>0, <1>2 DEF OtherBegins, Available, Begins, Placed, TypeOK
    <1>3. ASSUME NEW i \in Pid, Ends(i) PROVE Placed'
        BY <1>0, <1>3 DEF Ends, Placed, TypeOK
    <1>4. ASSUME NEW p \in Pane, mark_exited(p) \/ Deadline(p) PROVE Placed'
        BY <1>0, <1>4 DEF mark_exited, Deadline, Placed, TypeOK
    <1>5. ASSUME NEW p \in Pane, Thread(p) PROVE Placed'
        <2>1. /\ UNCHANGED <<pane, pid, owner>>
              /\ \/ Collect(pid[p])
                 \/ UNCHANGED <<proc, reaped>>
            BY <1>5, ThreadSteps
        <2>2. CASE Collect(pid[p])
            BY <1>0, <2>1, <2>2 DEF Collect, Placed, TypeOK
        <2>3. CASE UNCHANGED <<proc, reaped>>
            BY <1>0, <2>1, <2>3 DEF Placed
        <2> QED BY <2>1, <2>2, <2>3
    <1>6. CASE Upgrade \/ AllDone \/ UNCHANGED vars
        BY <1>0, <1>6 DEF Upgrade, AllDone, vars, Placed
    <1> QED BY <1>1, <1>2, <1>3, <1>4, <1>5, <1>6 DEF Next

\* A thread that ends has seen its child collected.
LEMMA StepSeen ==
    ASSUME ChildReaperAssumption, ReapInv, [Next]_vars
    PROVE  Seen'
    <1> USE DEF osVars, paneVars, threadVars, To
    <1>0. TypeOK /\ Placed /\ Seen /\ Other \notin Pane
        BY DEF ReapInv, ChildReaperAssumption
    <1>1. ASSUME NEW p \in Pane, NEW i \in Pid, Open(p, i) PROVE Seen'
        BY <1>0, <1>1 DEF Open, Begins, Seen, TypeOK
    <1>2. ASSUME NEW i \in Pid, OtherBegins(i) \/ Ends(i) PROVE Seen'
        BY <1>0, <1>2 DEF OtherBegins, Ends, Seen
    <1>3. ASSUME NEW p \in Pane, mark_exited(p) \/ Deadline(p) PROVE Seen'
        BY <1>0, <1>3 DEF mark_exited, Deadline, Seen, TypeOK
    <1>4. ASSUME NEW p \in Pane, Thread(p) PROVE Seen'
        <2>1. /\ pid[p] \in Pid /\ reaper[p] \notin {"none", "done", "gone"}
              /\ UNCHANGED <<pane, pid, owner>>
              /\ \A q \in Pane : q # p => reaper'[q] = reaper[q] /\ cached'[q] = cached[q]
              /\ \/ Collect(pid[p])
                 \/ UNCHANGED <<proc, reaped, cached>>
            BY <1>4, ThreadSteps
        <2>2. pane[p] = "closed" /\ (cached[p] => p \in reaped)
            BY <1>0, <2>1 DEF Seen
        <2>3. p \in reaped \/ (OurChild(pid[p]) /\ owner[pid[p]] = p)
            BY <1>0, <2>1, <2>2 DEF Placed, OurChild
        <2>4. CASE Collect(pid[p])
            <3>1. p \in reaped' /\ reaped \subseteq reaped'
                BY <2>3, <2>4 DEF Collect
            <3> QED BY <1>0, <2>1, <2>2, <3>1 DEF Seen
        <2>5. CASE UNCHANGED <<proc, reaped, cached>>
            <3>1. reaper'[p] = "done" => p \in reaped
                <4>1. CASE Collect(pid[p])
                    BY <2>3, <2>5, <4>1 DEF Collect
                <4>2. CASE ~Collect(pid[p])
                    <5>1. reaper'[p] = "done" => cached[p] \/ ~OurChild(pid[p])
                        BY <1>0, <1>4, <4>2
                        DEF Thread, PollCollects, PollGone, PollLate, Terminate,
                            KillPollCollects, KillPollGone, KillPollAgain, SigKill,
                            WaitCollects, WaitReturns, TypeOK
                    <5> QED BY <2>2, <2>3, <5>1
                <4> QED BY <4>1, <4>2
            <3> QED BY <1>0, <2>1, <2>2, <2>5, <3>1 DEF Seen
        <2> QED BY <2>1, <2>4, <2>5
    <1>5. CASE Upgrade
        BY <1>0, <1>5 DEF Upgrade, Seen, TypeOK
    <1>6. CASE AllDone \/ UNCHANGED vars
        BY <1>0, <1>6 DEF AllDone, vars, Seen
    <1> QED BY <1>1, <1>2, <1>3, <1>4, <1>5, <1>6 DEF Next

\* Whatever other threads collect with stale ids, a reaper thread that has ended
\* leaves no child behind (reap_child_blocking, reap_pid_blocking, kill_pid).
THEOREM ReapedCorrect ==
    ASSUME ChildReaperAssumption
    PROVE  Spec => [](TypeOK /\ DoneIsReaped)
    <1>1. Init => ReapInv
        BY InitInv
    <1>2. ReapInv /\ [Next]_vars => ReapInv'
        BY StepType, StepPlaced, StepSeen DEF ReapInv
    <1>3. ReapInv => TypeOK /\ DoneIsReaped
        BY DEF ReapInv, Seen, DoneIsReaped
    <1> QED BY <1>1, <1>2, <1>3, PTL DEF Spec

-----------------------------------------------------------------------------
(* Every thread keeps to its own child *)

\* A thread that collects a process collects its own pane's child.
LEMMA CollectsItsOwn ==
    ASSUME ReapInv, OwnInv, NEW p \in Pane, Thread(p), Collect(pid[p])
    PROVE  owner[pid[p]] = p
    <1>1. /\ reaper[p] \notin {"none", "done", "gone"} /\ pane[p] = "closed"
          /\ reaper[p] = "wait" => ~cached[p]
        <2>1. reaper[p] \notin {"none", "done", "gone"}
            BY ThreadSteps
        <2>2. pane[p] = "closed"
            BY <2>1 DEF ReapInv, Seen
        <2>3. reaper[p] = "wait" => ~cached[p]
            <3>1. proc'[pid[p]] # proc[pid[p]]
                BY ThreadSteps DEF Collect, ReapInv, TypeOK
            <3>2. reaper[p] = "wait" => WaitCollects(p) \/ WaitReturns(p)
                BY DEF Thread, PollCollects, PollGone, PollLate, Terminate,
                   KillPollCollects, KillPollGone, KillPollAgain, SigKill
            <3>3. ~WaitReturns(p)
                BY <3>1 DEF WaitReturns, osVars
            <3> QED BY <3>2, <3>3 DEF WaitCollects
        <2> QED BY <2>1, <2>2, <2>3
    <1>2. CASE p \notin reaped
        BY <1>1, <1>2 DEF ReapInv, Placed
    <1>3. CASE p \in reaped
        <2>1. ~Reuse
            BY <1>1, <1>3 DEF OwnInv, Kept
        <2> QED BY <1>1, <2>1 DEF OwnInv, Unshared
    <1> QED BY <1>2, <1>3

\* If no bare id can be given out again, nobody but its own thread collects a
\* child.
LEMMA StepOwn ==
    ASSUME ChildReaperAssumption, ~Reuse \/ MaxUpgrade = 0, ReapInv, OwnInv, [Next]_vars
    PROVE  OwnInv'
    <1> USE DEF osVars, paneVars, threadVars, To
    <1>0. TypeOK /\ Seen /\ Kept /\ Unshared /\ Handles /\ Other \notin Pane
        BY DEF ReapInv, OwnInv, ChildReaperAssumption
    <1>1. ASSUME NEW p \in Pane, NEW i \in Pid, Open(p, i) PROVE OwnInv'
        <2>1. Kept'
            BY <1>0, <1>1 DEF Open, Begins, Kept
        <2>2. Unshared'
            BY <1>0, <1>1 DEF Open, Available, Begins, Unshared, TypeOK
        <2>3. Handles'
            BY <1>0, <1>1 DEF Open, Begins, Handles, TypeOK
        <2> QED BY <2>1, <2>2, <2>3 DEF OwnInv
    <1>2. ASSUME NEW i \in Pid, OtherBegins(i) \/ Ends(i) PROVE OwnInv'
        BY <1>0, <1>2 DEF OtherBegins, Begins, Ends, OwnInv, Kept, Unshared, Handles
    <1>3. ASSUME NEW p \in Pane, mark_exited(p) \/ Deadline(p) PROVE OwnInv'
        <2>1. Kept'
            <3>1. CASE mark_exited(p)
                <4>1. reaper[p] = "none"
                    BY <1>0, <3>1 DEF mark_exited, Seen
                <4>2. p \notin reaped
                    BY <1>0, <4>1 DEF Kept
                <4> QED BY <1>0, <3>1, <4>2 DEF mark_exited, Kept, TypeOK
            <3>2. CASE Deadline(p)
                BY <1>0, <3>2 DEF Deadline, Kept
            <3> QED BY <1>3, <3>1, <3>2
        <2>2. Unshared' /\ Handles'
            BY <1>0, <1>3 DEF mark_exited, Deadline, Unshared, Handles, TypeOK
        <2> QED BY <2>1, <2>2 DEF OwnInv
    <1>4. ASSUME NEW p \in Pane, Thread(p) PROVE OwnInv'
        <2>1. /\ pid[p] \in Pid /\ reaper[p] \notin {"none", "done", "gone"}
              /\ UNCHANGED <<pane, ref, pid, used>> /\ owner' = owner
              /\ \A q \in Pane : q # p => reaper'[q] = reaper[q] /\ cached'[q] = cached[q]
              /\ \/ Collect(pid[p])
                 \/ UNCHANGED <<proc, reaped, cached>>
            BY <1>4, ThreadSteps
        <2>2. Unshared' /\ Handles'
            BY <1>0, <2>1 DEF Unshared, Handles
        <2>3. pane[p] = "closed"
            BY <1>0, <2>1 DEF Seen
        <2>4. CASE Collect(pid[p])
            <3>1. reaped' = reaped \cup {p}
                BY <1>4, <2>4, CollectsItsOwn DEF Collect
            <3>2. proc'[pid[p]] # proc[pid[p]]
                BY <1>0, <2>1, <2>4 DEF Collect, TypeOK
            <3>3. PollCollects(p) \/ KillPollCollects(p) \/ WaitCollects(p)
                BY <1>4, <3>2 DEF Thread, PollGone, PollLate, Terminate, KillPollGone,
                   KillPollAgain, SigKill, WaitReturns
            <3>4. \/ reaper'[p] = "done"
                  \/ reaper'[p] = "wait" /\ (cached'[p] \/ ~Reuse)
                <4>1. CASE PollCollects(p) \/ WaitCollects(p)
                    BY <1>0, <4>1 DEF PollCollects, WaitCollects, TypeOK
                <4>2. CASE KillPollCollects(p)
                    <5>1. ref[p] = "owned" \/ ~Reuse
                        BY <1>0, <2>3 DEF Handles
                    <5>2. reaper'[p] = "wait" /\ (ref[p] = "owned" => cached'[p])
                        BY <1>0, <4>2 DEF KillPollCollects, TypeOK
                    <5> QED BY <5>1, <5>2
                <4> QED BY <3>3, <4>1, <4>2
            <3>5. Kept'
                BY <1>0, <2>1, <3>1, <3>4 DEF Kept
            <3> QED BY <2>2, <3>5 DEF OwnInv
        <2>5. CASE UNCHANGED <<proc, reaped, cached>>
            <3>1. ASSUME p \in reaped PROVE reaper'[p] \in {"wait", "done"} /\
                                            reaper[p] = "wait"
                <4>1. reaper[p] = "wait"
                    BY <1>0, <2>1, <3>1 DEF Kept
                <4>2. WaitCollects(p) \/ WaitReturns(p)
                    BY <1>4, <4>1 DEF Thread, PollCollects, PollGone, PollLate, Terminate,
                       KillPollCollects, KillPollGone, KillPollAgain, SigKill
                <4> QED BY <1>0, <4>1, <4>2 DEF WaitCollects, WaitReturns, TypeOK
            <3>2. Kept'
                BY <1>0, <2>1, <2>5, <3>1 DEF Kept
            <3> QED BY <2>2, <3>2 DEF OwnInv
        <2> QED BY <2>1, <2>4, <2>5
    <1>5. CASE Upgrade
        <2>1. Kept'
            BY <1>0, <1>5 DEF Upgrade, Kept, TypeOK
        <2>2. Unshared'
            BY <1>0, <1>5 DEF Upgrade, Unshared
        <2>3. Handles'
            BY <1>0, <1>5 DEF Upgrade, Handles, TypeOK
        <2> QED BY <2>1, <2>2, <2>3 DEF OwnInv
    <1>6. CASE AllDone \/ UNCHANGED vars
        BY <1>0, <1>6 DEF AllDone, vars, OwnInv, Kept, Unshared, Handles
    <1> QED BY <1>1, <1>2, <1>3, <1>4, <1>5, <1>6 DEF Next

\* With handles only, or as long as no id is given out twice: a thread that is
\* about to signal has its own pane's child at the id, alive or not yet collected
\* (the polls of kill_pid and Child::kill stop at a collected child).
THEOREM SignalsCorrect ==
    ASSUME ChildReaperAssumption, ~Reuse \/ MaxUpgrade = 0
    PROVE  Spec => []SignalsOwn
    <1>1. Init => ReapInv /\ OwnInv
        BY InitInv
    <1>2. ReapInv /\ OwnInv /\ [Next]_vars => ReapInv' /\ OwnInv'
        BY StepType, StepPlaced, StepSeen, StepOwn DEF ReapInv
    <1>3. ReapInv /\ OwnInv => SignalsOwn
        <2> SUFFICES ASSUME ReapInv, OwnInv, NEW p \in Pane, reaper[p] \in {"term", "kill"}
                     PROVE  proc[pid[p]] # "free" /\ owner[pid[p]] = p
            BY DEF SignalsOwn
        <2>1. p \notin reaped
            BY DEF OwnInv, Kept
        <2>2. pane[p] = "closed"
            BY DEF ReapInv, Seen
        <2> QED BY <2>1, <2>2 DEF ReapInv, Placed
    <1> QED BY <1>1, <1>2, <1>3, PTL DEF Spec

\* Under the same condition a child is collected by its own pane's thread and no
\* other (reap_child_blocking and reap_pid_blocking).
THEOREM CollectsCorrect ==
    ASSUME ChildReaperAssumption, ~Reuse \/ MaxUpgrade = 0
    PROVE  Spec => [][CollectsOwn]_vars
    <1>1. Init => ReapInv /\ OwnInv
        BY InitInv
    <1>2. ReapInv /\ OwnInv /\ [Next]_vars => ReapInv' /\ OwnInv'
        BY StepType, StepPlaced, StepSeen, StepOwn DEF ReapInv
    <1>3. ReapInv /\ OwnInv /\ [Next]_vars => [CollectsOwn]_vars
        <2> SUFFICES ASSUME ReapInv, OwnInv, [Next]_vars, NEW p \in Pane,
                            p \in reaped' \ reaped
                     PROVE  reaper'[p] # reaper[p]
            BY DEF CollectsOwn
        <2>1. PICK q \in Pane : Thread(q)
            BY DEF Next, Open, OtherBegins, Ends, mark_exited, Deadline, Upgrade, AllDone,
               vars
        <2>2. Collect(pid[q])
            BY <2>1, ThreadSteps
        <2>3. p = q
            BY <2>1, <2>2, CollectsItsOwn DEF Collect
        <2>4. reaper \in [Pane -> {"none", "poll", "term", "polled", "kill", "wait",
                                   "done", "gone"}] /\ proc \in [Pid -> {"free", "alive",
                                   "zombie"}] /\ pid[q] \in Pid
            BY <2>1, ThreadSteps DEF ReapInv, TypeOK
        <2>5. proc'[pid[q]] # proc[pid[q]]
            BY <2>2, <2>4 DEF Collect
        <2>6. PollCollects(q) \/ KillPollCollects(q) \/ WaitCollects(q)
            BY <2>1, <2>5 DEF Thread, PollGone, PollLate, Terminate, KillPollGone,
               KillPollAgain, SigKill, WaitReturns, osVars
        <2> QED BY <2>3, <2>4, <2>6 DEF PollCollects, KillPollCollects, WaitCollects, To
    <1> QED BY <1>1, <1>2, <1>3, PTL DEF Spec

=============================================================================
