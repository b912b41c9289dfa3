-------------------------- MODULE HotUpgrade_proofs --------------------------
(***************************************************************************)
(* What a hot upgrade promises for any number of shells, panes, clients,   *)
(* descriptors, status changes and upgrades, whether or not they fail:     *)
(* panes keep their shells, terminals, readers, flags and status, the      *)
(* handoff file is consumed, connections are told, and only a candidate    *)
(* that was refused before is turned away.                                 *)
(***************************************************************************)
EXTENDS HotUpgrade, FiniteSetTheorems, TLAPS

-----------------------------------------------------------------------------
(* Types *)

Phases == {"serve", "probe", "snapshot", "count", "announce", "wait", "refresh",
           "leave", "down", "read", "restore"}

\* The upgrade is past its snapshot and the image is not replaced yet.
Prepared == {"count", "announce", "wait", "refresh", "leave", "down"}

Entry == [pty : Ids, fd : Fd, dup : Fd, rev : 0 .. MaxRev, live : BOOLEAN]
Line == [pty : Ids, rev : 0 .. MaxRev, live : BOOLEAN, fd : Fd]

\* The lines of a document, under pane ids below n.
Lines(ps, n) == \A i \in DOMAIN ps : /\ i \in 1 .. n - 1 /\ ps[i] \in Line
                                     /\ ps[i].pty <= spawned

\* Pane ids and shells are numbered as they are created; a shell nobody closed may
\* still have ended.
TreeType ==
    /\ spawned \in 0 .. MaxPty /\ next \in 1 .. spawned + 1
    /\ \A i \in DOMAIN tree : /\ i \in 1 .. next - 1 /\ tree[i] \in Entry
                              /\ tree[i].pty <= spawned
    /\ alive \subseteq wanted /\ wanted \subseteq 1 .. spawned /\ kept \subseteq wanted

\* Only open descriptors have the flag.
FdType ==
    /\ fdOf \in [Fd -> 0 .. MaxPty]
    /\ cloexec \subseteq Fd /\ \A f \in cloexec : fdOf[f] # 0
    /\ readers \in [Ids -> Nat]

\* There is a document from the snapshot to its being read, and what was read is
\* restored before service starts.
FileType ==
    /\ disk # NoFile => /\ disk = [panes |-> disk.panes, next |-> disk.next]
                        /\ disk.next \in 1 .. spawned + 1
                        /\ Lines(disk.panes, disk.next)
    /\ Lines(todo, next)
    /\ phase # "restore" => DOMAIN todo = {}
    /\ phase = "read" => DOMAIN tree = {}
    /\ phase \in Prepared \cup {"read"} => disk # NoFile

CtlType ==
    /\ phase \in Phases
    /\ pending \subseteq subs /\ subs \subseteq Sub
    /\ cand \in Cand /\ tries \in 0 .. MaxTry

TypeInv == TreeType /\ FdType /\ FileType /\ CtlType

-----------------------------------------------------------------------------
(* What becomes of the shells *)

\* Replacing the image loses a shell in three ways only: the file cannot be read, no
\* descriptor is left for the reader of an adopted pane, and a recorded number is by
\* now that of another terminal.
Unread == bind_fresh_listener
NoReader == \E i \in DOMAIN todo : restore_without_reader(i)
Stranger(i) == todo[i].live /\ fdOf[todo[i].fd] \notin {0, todo[i].pty}
AdoptsStranger == \E i \in DOMAIN todo : Stranger(i) /\ \E d \in Fd : restore_pane(i, d)
Loses == Unread \/ NoReader \/ AdoptsStranger

\* A shell that is alive has its terminal at the number recorded for it.
Holds(e) == e.pty \in alive => e.live /\ fdOf[e.fd] = e.pty

\* No two entries are of one shell.
Apart(ps) == \A i, j \in DOMAIN ps : i # j => ps[i].pty # ps[j].pty

\* A live pane has its own terminal, and no shell has two panes.
TreeInv ==
    /\ \A i \in DOMAIN tree :
          /\ tree[i].pty \in alive => tree[i].live
          /\ tree[i].live => /\ fdOf[tree[i].fd] = tree[i].pty
                             /\ fdOf[tree[i].dup] = tree[i].pty
    /\ Apart(tree)

\* The document names the terminals of the shells that are still alive, and execve
\* keeps them open.
DocInv == phase \in Prepared \cup {"read"} =>
    /\ \A i \in DOMAIN disk.panes :
          /\ Holds(disk.panes[i])
          /\ phase \in Prepared /\ disk.panes[i].pty \in alive =>
                disk.panes[i].fd \notin cloexec
    /\ Apart(disk.panes)

\* What is left to restore is of other panes and shells than what has been restored.
TodoInv ==
    /\ \A i \in DOMAIN todo : Holds(todo[i])
    /\ Apart(todo)
    /\ \A i \in DOMAIN tree, j \in DOMAIN todo : i # j /\ tree[i].pty # todo[j].pty

\* The shells of T are alive and not forgotten.
In(ps, t) == \E i \in DOMAIN ps : ps[i].pty = t
Safe(T) == \A t \in T :
    /\ t \in alive
    /\ IF phase \in Prepared \cup {"read"} THEN In(disk.panes, t)
       ELSE In(tree, t) \/ In(todo, t)

ShellInv ==
    /\ TreeInv /\ DocInv /\ TodoInv
    /\ Safe(kept) /\ ("create" \notin Faults => Safe(wanted))

-----------------------------------------------------------------------------
(* Readers, flags, file, acknowledgements, status and refusals *)

\* A shell that waits to be restored has no reader, a restored one has one.
ReaderInv == "exec" \notin Faults =>
    /\ \A i \in DOMAIN tree : tree[i].live => readers[tree[i].pty] = 1
    /\ \A i \in DOMAIN todo : readers[todo[i].pty] = 0
    /\ phase = "read" => \A t \in Ids : readers[t] = 0

\* No number recorded for a live pane is that of a foreign terminal.
CloseInv == "close" \notin Faults =>
    /\ phase \in Prepared \cup {"read"} =>
          \A i \in DOMAIN disk.panes : disk.panes[i].live =>
             /\ fdOf[disk.panes[i].fd] = disk.panes[i].pty
             /\ phase \in Prepared => disk.panes[i].fd \notin cloexec
    /\ \A i \in DOMAIN todo : todo[i].live => fdOf[todo[i].fd] = todo[i].pty

\* CloexecIsBack, from the moment a pane is restored.
CloexecInv ==
    (phase \in {"serve", "probe", "snapshot", "restore"} /\ ~aborted) =>
       \A i \in DOMAIN tree : tree[i].live =>
          \A f \in {tree[i].fd, tree[i].dup} : Open(f) => f \in cloexec

\* The file exists from the snapshot to its being read.
FileInv == "crash" \notin Faults =>
    (phase \in {"serve", "probe", "snapshot", "restore"} => disk = NoFile)

\* Who has yet to flush the announcement is at most what is still expected.
AckInv == "join" \notin Faults =>
    /\ phase = "announce" => Cardinality(subs) <= expected /\ acked = 0
    /\ phase = "wait" => Cardinality(pending) + acked <= expected
    /\ phase \in {"refresh", "leave"} /\ ~late => pending = {}
    /\ acked \in Nat /\ expected \in Nat

\* What was written is in the document, in what was read of it or in the tree, or newer.
StatusInv == Faults \cap {"read", "crash"} = {} =>
    /\ phase \in Prepared \cup {"read"} =>
          /\ DOMAIN written = DOMAIN disk.panes
          /\ \A i \in DOMAIN written : /\ disk.panes[i].rev >= written[i]
                                       /\ i \in 1 .. disk.next - 1
    /\ \A i \in DOMAIN todo : i \in DOMAIN written /\ todo[i].rev >= written[i]
    /\ \A i \in DOMAIN tree \cap DOMAIN written : tree[i].rev >= written[i]
    /\ \A i \in DOMAIN written : written[i] \in 0 .. MaxRev /\ i \in 1 .. next - 1
    /\ disk # NoFile => disk.next <= next

\* A record that suppresses a candidate is of one that was refused.
RefusedInv ==
    /\ DOMAIN probed = {"probe", "snapshot"}
    /\ last_refused # <<>> /\ last_refused[2] = "postprobe" =>
          \E r \in DOMAIN probed : last_refused[1] \in probed[r]

-----------------------------------------------------------------------------
(* Every step keeps the types *)

\* Lemma by action: what is opened, numbered or written has its type.
LEMMA TypeStep ==
    ASSUME HotUpgradeAssumption
    PROVE  TypeInv /\ [Next]_vars => TypeInv'
    <1> SUFFICES ASSUME TypeInv, [Next]_vars PROVE TypeInv'
        OBVIOUS
    <1>0. {MaxPty, MaxOpen, MaxRev, MaxTry} \subseteq Nat
        BY DEF HotUpgradeAssumption
    <1> USE DEF TypeInv, TreeType, FdType, FileType, CtlType, Lines, Entry, Line, Phases,
                Prepared, treeVars, fdVars, fileVars, candVars, ackVars, ghostVars, Ids, Running,
                Idle
    <1>1. ASSUME NEW m \in Fd, NEW d \in Fd, CreatePane(m, d) PROVE TypeInv'
        <2> DEFINE t == spawned + 1
                   e == [pty |-> t, fd |-> m, dup |-> d, rev |-> 0, live |-> TRUE]
        <2>0. /\ t \in 1 .. MaxPty /\ spawned' = t /\ next' = next + 1
              /\ alive' = alive \cup {t} /\ wanted' = wanted \cup {t} /\ kept' = kept
              /\ tree' = [x \in DOMAIN tree \cup {next} |-> IF x = next THEN e ELSE tree[x]]
            BY <1>0, <1>1 DEF With, CreatePane
        <2>1. TreeType'
            <3>1. e \in Entry /\ e.pty = t
                BY <1>0, <2>0
            <3>2. \A x \in DOMAIN tree' :
                     \/ x = next /\ tree'[x] = e
                     \/ x \in DOMAIN tree /\ tree'[x] = tree[x] /\ x # next
                <4>1. next \notin DOMAIN tree
                    BY <1>0
                <4> HIDE DEF e, t
                <4>2. tree' = [x \in DOMAIN tree \cup {next} |-> IF x = next THEN e ELSE tree[x]]
                    BY <2>0
                <4>3. /\ DOMAIN tree' = DOMAIN tree \cup {next} /\ tree'[next] = e
                      /\ \A x \in DOMAIN tree : x # next => tree'[x] = tree[x]
                    BY <4>2
                <4> QED BY <4>1, <4>3
            <3>3. spawned' \in 0 .. MaxPty /\ next' \in 1 .. spawned' + 1
                BY <1>0, <2>0
            <3>4. \A x \in DOMAIN tree' : /\ x \in 1 .. next' - 1 /\ tree'[x] \in Entry
                                        /\ tree'[x].pty <= spawned'
                <4>1. ASSUME NEW x \in DOMAIN tree
                      PROVE  x \in 1 .. next' - 1 /\ tree[x] \in Entry /\ tree[x].pty <= spawned'
                    <5>1. x \in 1 .. next - 1 /\ tree[x] \in Entry /\ tree[x].pty <= spawned
                        OBVIOUS
                    <5>2. tree[x].pty \in 1 .. MaxPty
                        BY <5>1
                    <5> HIDE DEF Entry
                    <5> QED BY <1>0, <2>0, <5>1, <5>2
                <4>2. next \in 1 .. next' - 1 /\ t <= spawned'
                    BY <1>0, <2>0
                <4> HIDE DEF Entry, e
                <4> QED BY <3>1, <3>2, <4>1, <4>2
            <3>5. alive' \subseteq wanted' /\ wanted' \subseteq 1 .. spawned' /\ kept' \subseteq wanted'
                BY <1>0, <2>0
            <3> QED BY <3>3, <3>4, <3>5
        <2>2. FdType'
            <3>1. /\ fdOf' = [fdOf EXCEPT ![m] = t, ![d] = t] /\ readers' = [readers EXCEPT ![t] = 1]
                  /\ cloexec' = cloexec \cup {m, d}
                BY <1>1 DEF CreatePane
            <3>2. /\ fdOf' \in [Fd -> 0 .. MaxPty] /\ readers' \in [Ids -> Nat]
                <4>1. fdOf \in [Fd -> 0 .. MaxPty] /\ readers \in [Ids -> Nat] /\ t \in 0 .. MaxPty
                    BY <2>0
                <4> QED BY <3>1, <4>1
            <3>3. \A f \in cloexec' : fdOf'[f] # 0
                BY <1>0, <2>0, <3>1
            <3> QED BY <3>1, <3>2, <3>3
        <2>3. FileType'
            BY <1>0, <1>1 DEF With, Open, Free, CreatePane
        <2>4. CtlType'
            BY <1>0, <1>1 DEF With, Open, Free, CreatePane
        <2> QED BY <2>1, <2>2, <2>3, <2>4
    <1>2. ASSUME NEW i \in DOMAIN tree, ClosePane(i) PROVE TypeInv'
        <2>1. TreeType'
            BY <1>0, <1>2 DEF Without, ClosePane, Open
        <2>2. FdType'
            BY <1>0, <1>2 DEF Without, ClosePane, Open
        <2>3. FileType'
            BY <1>0, <1>2 DEF Without, ClosePane, Open
        <2>4. CtlType'
            BY <1>0, <1>2 DEF Without, ClosePane, Open
        <2> QED BY <2>1, <2>2, <2>3, <2>4
    <1>3. ASSUME NEW i \in DOMAIN tree, StatusChange(i) PROVE TypeInv'
        <2>1. TreeType'
            <3>1. /\ tree[i] \in Entry /\ tree[i].rev + 1 \in 0 .. MaxRev
                  /\ tree' = [tree EXCEPT ![i].rev = @ + 1]
                BY <1>0, <1>3 DEF StatusChange
            <3>2. /\ DOMAIN tree' = DOMAIN tree
                  /\ \A x \in DOMAIN tree : x # i => tree'[x] = tree[x]
                  /\ tree'[i] = [tree[i] EXCEPT !.rev = @ + 1]
                BY <3>1
            <3>3. tree'[i] \in Entry /\ tree'[i].pty = tree[i].pty
                BY <3>1, <3>2
            <3> QED BY <1>3, <3>2, <3>3 DEF StatusChange
        <2>2. FdType'
            BY <1>0, <1>3 DEF StatusChange
        <2>3. FileType'
            BY <1>0, <1>3 DEF StatusChange
        <2>4. CtlType'
            BY <1>0, <1>3 DEF StatusChange
        <2> QED BY <2>1, <2>2, <2>3, <2>4
    <1>4. ASSUME NEW s \in Sub, Join(s) PROVE TypeInv'
        BY <1>0, <1>4 DEF Join
    <1>5. ASSUME NEW s \in Sub, Leave(s) PROVE TypeInv'
        BY <1>0, <1>5 DEF Leave
    <1>6. ASSUME NEW s \in Sub, Flushed(s) PROVE TypeInv'
        BY <1>0, <1>6 DEF Flushed
    <1>7. ASSUME NEW c \in Cand, NEW v \in BOOLEAN, Install(c, v) PROVE TypeInv'
        BY <1>0, <1>7 DEF Install
    <1>8. ASSUME NEW i \in DOMAIN todo, build_exited_pane(i) PROVE TypeInv'
        BY <1>0, <1>8 DEF With, Without, build_exited_pane
    <1>9. ASSUME NEW i \in DOMAIN todo, restore_without_reader(i) PROVE TypeInv'
        <2>1. TreeType'
            BY <1>0, <1>9 DEF With, Without, restore_without_reader, Adoptable, Open
        <2>2. FdType'
            BY <1>0, <1>9 DEF With, Without, restore_without_reader, Adoptable, Open
        <2>3. FileType'
            BY <1>0, <1>9 DEF With, Without, restore_without_reader, Adoptable, Open
        <2>4. CtlType'
            BY <1>0, <1>9 DEF With, Without, restore_without_reader, Adoptable, Open
        <2> QED BY <2>1, <2>2, <2>3, <2>4
    <1>10. ASSUME NEW i \in DOMAIN todo, NEW d \in Fd, restore_pane(i, d) PROVE TypeInv'
        <2>1. TreeType'
            BY <1>0, <1>10 DEF With, Without, restore_pane, Adoptable, Open, Free, adopt_master
        <2>2. FdType'
            BY <1>0, <1>10 DEF With, Without, restore_pane, Adoptable, Open, Free, adopt_master
        <2>3. FileType'
            BY <1>0, <1>10 DEF With, Without, restore_pane, Adoptable, Open, Free, adopt_master
        <2>4. CtlType'
            BY <1>0, <1>10 DEF With, Without, restore_pane, Adoptable, Open, Free, adopt_master
        <2> QED BY <2>1, <2>2, <2>3, <2>4
    <1>11. CASE RefuseInvalid
        BY <1>0, <1>11 DEF RefuseInvalid, Request
    <1>12. CASE RefuseRepeat
        BY <1>0, <1>12 DEF RefuseRepeat, Request
    <1>13. CASE Admit
        BY <1>0, <1>13 DEF Admit, Request
    <1>14. CASE ProbeOk
        BY <1>0, <1>14 DEF ProbeOk
    <1>15. CASE ProbeRefused
        BY <1>0, <1>15 DEF ProbeRefused, Refuse
    <1>16. CASE snapshot
        <2>1. TreeType'
            BY <1>0, <1>16 DEF snapshot, Document, Revisions
        <2>2. FdType'
            BY <1>0, <1>16 DEF snapshot, Document, Revisions
        <2>3. FileType'
            <3> DEFINE ps == [x \in DOMAIN tree |-> [pty |-> tree[x].pty, rev |-> tree[x].rev,
                                                    live |-> tree[x].live, fd |-> tree[x].fd]]
            <3>1. disk' = [panes |-> ps, next |-> next]
                BY <1>16 DEF snapshot, Document
            <3>2. Lines(ps, next)
                BY <1>0
            <3>3. /\ disk'.panes = ps /\ disk'.next = next
                  /\ UNCHANGED <<todo, tree, next, spawned>> /\ phase' = "count" /\ phase = "snapshot"
                BY <1>16, <3>1 DEF snapshot
            <3>4. disk' # NoFile
                <4>1. DOMAIN disk' = {"panes", "next"} /\ DOMAIN NoFile = {}
                    BY <3>1 DEF NoFile
                <4> QED BY <4>1
            <3> HIDE DEF ps
            <3> QED BY <3>1, <3>2, <3>3, <3>4
        <2>4. CtlType'
            BY <1>0, <1>16 DEF snapshot, Document, Revisions
        <2> QED BY <2>1, <2>2, <2>3, <2>4
    <1>17. CASE snapshot_fails
        BY <1>0, <1>17 DEF snapshot_fails, Refuse
    <1>18. CASE CountAcks
        BY <1>0, <1>18 DEF CountAcks
    <1>19. CASE Announce
        BY <1>0, <1>19 DEF Announce
    <1>20. CASE AllAcked
        BY <1>0, <1>20 DEF AllAcked, EndWait
    <1>21. CASE AckTimeout
        BY <1>0, <1>21 DEF AckTimeout, EndWait
    <1>22. CASE rewrite_handoff_file
        <2>1. TreeType'
            BY <1>0, <1>22 DEF rewrite_handoff_file, Refreshed
        <2>2. FdType'
            BY <1>0, <1>22 DEF rewrite_handoff_file, Refreshed
        <2>3. FileType'
            <3> DEFINE ps == [x \in DOMAIN disk.panes |->
                                 IF x \in DOMAIN tree THEN [disk.panes[x] EXCEPT !.rev = tree[x].rev]
                                                      ELSE disk.panes[x]]
            <3>1. disk # NoFile /\ disk' = [disk EXCEPT !.panes = ps]
                BY <1>22 DEF rewrite_handoff_file, Refreshed
            <3>2. disk' = [panes |-> ps, next |-> disk.next]
                BY <3>1
            <3>3. Lines(ps, disk.next)
                <4>1. \A x \in DOMAIN ps : ps[x] \in Line /\ ps[x].pty = disk.panes[x].pty
                    BY <3>1
                <4> QED BY <3>1, <4>1
            <3>4. disk' # NoFile
                <4>1. DOMAIN disk' = {"panes", "next"} /\ DOMAIN NoFile = {}
                    BY <3>2 DEF NoFile
                <4> QED BY <4>1
            <3>5. /\ disk'.panes = ps /\ disk'.next = disk.next
                  /\ UNCHANGED <<todo, tree, next, spawned>> /\ phase' = "leave" /\ phase = "refresh"
                BY <1>22, <3>2 DEF rewrite_handoff_file
            <3> HIDE DEF ps
            <3> QED BY <3>1, <3>2, <3>3, <3>4, <3>5
        <2>4. CtlType'
            BY <1>0, <1>22 DEF rewrite_handoff_file, Refreshed
        <2> QED BY <2>1, <2>2, <2>3, <2>4
    <1>23. CASE rewrite_fails
        BY <1>0, <1>23 DEF rewrite_fails
    <1>24. CASE RuntimeDown
        BY <1>0, <1>24 DEF RuntimeDown
    <1>25. CASE Exec
        <2>1. TreeType'
            BY <1>0, <1>25 DEF Exec
        <2>2. FdType'
            BY <1>0, <1>25 DEF Exec
        <2>3. FileType'
            BY <1>0, <1>25 DEF Exec
        <2>4. CtlType'
            BY <1>0, <1>25 DEF Exec
        <2> QED BY <2>1, <2>2, <2>3, <2>4
    <1>26. CASE ExecFails
        BY <1>0, <1>26 DEF ExecFails
    <1>27. CASE read_and_remove_handoff_file
        BY <1>0, <1>27 DEF read_and_remove_handoff_file
    <1>28. CASE bind_fresh_listener
        BY <1>0, <1>28 DEF bind_fresh_listener
    <1>29. CASE Serve
        BY <1>0, <1>29 DEF Serve
    <1>30. CASE Crash
        <2>1. TreeType'
            BY <1>0, <1>30 DEF Crash
        <2>2. FdType'
            BY <1>0, <1>30 DEF Crash
        <2>3. FileType'
            BY <1>0, <1>30 DEF Crash
        <2>4. CtlType'
            BY <1>0, <1>30 DEF Crash
        <2> QED BY <2>1, <2>2, <2>3, <2>4
    <1>31. CASE UNCHANGED vars
        BY <1>0, <1>31 DEF vars
    <1> QED BY <1>1, <1>2, <1>3, <1>4, <1>5, <1>6, <1>7, <1>8, <1>9, <1>10, <1>11, <1>12,
               <1>13, <1>14, <1>15, <1>16, <1>17, <1>18, <1>19, <1>20, <1>21, <1>22, <1>23,
               <1>24, <1>25, <1>26, <1>27, <1>28, <1>29, <1>30, <1>31
            DEF Next, Clients, Requests, Prepare, Replace

-----------------------------------------------------------------------------

\* The types of entries and lines.
LEMMA Typed ==
    ASSUME TypeInv
    PROVE  /\ \A i \in DOMAIN tree : /\ tree[i].pty \in 1 .. spawned /\ tree[i].pty # 0
                                     /\ tree[i].fd \in Fd /\ tree[i].dup \in Fd
                                     /\ tree[i].live \in BOOLEAN /\ i # next
           /\ \A i \in DOMAIN todo : /\ todo[i].pty \in 1 .. spawned /\ todo[i].pty # 0
                                     /\ todo[i].fd \in Fd /\ todo[i].live \in BOOLEAN
           /\ disk # NoFile => \A i \in DOMAIN disk.panes :
                 /\ disk.panes[i].pty \in 1 .. spawned /\ disk.panes[i].pty # 0
                 /\ disk.panes[i].fd \in Fd /\ disk.panes[i].live \in BOOLEAN
    <1>1. spawned \in Nat
        BY DEF TypeInv, TreeType
    <1>2. \A e \in Entry : /\ e.pty \in 1 .. MaxPty /\ e.fd \in Fd /\ e.dup \in Fd
                           /\ e.live \in BOOLEAN
        BY DEF Entry, Ids
    <1>3. \A e \in Line : e.pty \in 1 .. MaxPty /\ e.fd \in Fd /\ e.live \in BOOLEAN
        BY DEF Line, Ids
    <1>4. \A i \in DOMAIN tree : tree[i] \in Entry /\ tree[i].pty <= spawned /\ i # next
        BY <1>1 DEF TypeInv, TreeType
    <1>5. /\ \A i \in DOMAIN todo : todo[i] \in Line /\ todo[i].pty <= spawned
          /\ disk # NoFile => \A i \in DOMAIN disk.panes :
                disk.panes[i] \in Line /\ disk.panes[i].pty <= spawned
        BY DEF TypeInv, FileType, Lines
    <1> QED BY <1>1, <1>2, <1>3, <1>4, <1>5

\* Steps that move no shell and no descriptor, within one part of the upgrade.
LEMMA ShellFrame ==
    ASSUME ShellInv, UNCHANGED <<tree, alive, fdOf, cloexec, disk, todo, kept, wanted>>,
           phase \in Prepared <=> phase' \in Prepared,
           phase = "read" <=> phase' = "read"
    PROVE  ShellInv'
    BY DEF ShellInv, TreeInv, DocInv, TodoInv, Safe, In, Apart, Holds

\* A new pane has a shell and descriptors that nobody had.
LEMMA ShellCreate ==
    ASSUME TypeInv, ShellInv, NEW m \in Fd, NEW d \in Fd, CreatePane(m, d)
    PROVE  ShellInv'
    <1> DEFINE t == spawned + 1
               e == [pty |-> t, fd |-> m, dup |-> d, rev |-> 0, live |-> TRUE]
    <1>1. /\ fdOf[m] = 0 /\ fdOf[d] = 0 /\ m # d
          /\ alive' = alive \cup {t} /\ wanted' = wanted \cup {t} /\ kept' = kept
          /\ tree' = [x \in DOMAIN tree \cup {next} |-> IF x = next THEN e ELSE tree[x]]
          /\ fdOf' = [fdOf EXCEPT ![m] = t, ![d] = t] /\ cloexec' = cloexec \cup {m, d}
          /\ UNCHANGED <<phase, disk, todo>> /\ phase \notin {"down", "read", "restore"}
          /\ "create" \notin Faults => phase = "serve"
        BY DEF CreatePane, With, Free, Open, fileVars, Running, May, Idle
    <1>2. fdOf \in [Fd -> 0 .. MaxPty] /\ spawned \in Nat /\ DOMAIN todo = {}
        BY <1>1 DEF TypeInv, TreeType, FdType, FileType
    <1>3. /\ fdOf'[m] = t /\ fdOf'[d] = t /\ t # 0
          /\ \A f \in Fd : fdOf[f] # 0 => fdOf'[f] = fdOf[f] /\ f # m /\ f # d
        BY <1>1, <1>2
    <1>4. e.pty = t /\ e.fd = m /\ e.dup = d /\ e.live
        OBVIOUS
    <1>5. /\ DOMAIN tree' = DOMAIN tree \cup {next} /\ tree'[next] = e
          /\ \A x \in DOMAIN tree : x # next /\ tree'[x] = tree[x]
        <2> HIDE DEF e, t
        <2>1. \A x \in DOMAIN tree : x # next
            BY Typed
        <2> QED BY <1>1, <2>1
    <1> HIDE DEF e
    <1>6. /\ \A x \in DOMAIN tree : tree[x].pty # t
          /\ disk # NoFile => \A x \in DOMAIN disk.panes : disk.panes[x].pty # t
        BY <1>2, Typed
    <1> HIDE DEF t
    <1>7. TreeInv'
        <2>1. \A x \in DOMAIN tree' : \/ x = next /\ tree'[x] = e
                                      \/ x \in DOMAIN tree /\ tree'[x] = tree[x]
            BY <1>5
        <2>2. \A x \in DOMAIN tree : /\ tree[x].pty \in alive' => tree[x].live
                                     /\ tree[x].live => /\ fdOf'[tree[x].fd] = tree[x].pty
                                                        /\ fdOf'[tree[x].dup] = tree[x].pty
            <3> TAKE x \in DOMAIN tree
            <3>1. tree[x].pty # t /\ tree[x].fd \in Fd /\ tree[x].dup \in Fd /\ tree[x].pty # 0
                BY <1>6, Typed
            <3>2. /\ tree[x].pty \in alive => tree[x].live
                  /\ tree[x].live => fdOf[tree[x].fd] = tree[x].pty /\ fdOf[tree[x].dup] = tree[x].pty
                BY DEF ShellInv, TreeInv
            <3> QED BY <1>1, <1>3, <3>1, <3>2
        <2>3. Apart(tree')
            BY <1>4, <1>5, <1>6, <2>1 DEF ShellInv, TreeInv, Apart
        <2> QED BY <1>3, <1>4, <2>1, <2>2, <2>3 DEF TreeInv
    <1>8. DocInv'
        <2> SUFFICES ASSUME phase \in Prepared \cup {"read"} PROVE DocInv'
            BY <1>1 DEF DocInv
        <2>1. disk # NoFile
            BY DEF TypeInv, FileType
        <2>2. \A x \in DOMAIN disk.panes :
                 /\ Holds(disk.panes[x])'
                 /\ phase \in Prepared /\ disk.panes[x].pty \in alive' =>
                       disk.panes[x].fd \notin cloexec'
            <3> TAKE x \in DOMAIN disk.panes
            <3> DEFINE l == disk.panes[x]
            <3>1. l.pty # t /\ l.fd \in Fd /\ l.pty # 0
                BY <1>6, <2>1, Typed
            <3>2. /\ l.pty \in alive => l.live /\ fdOf[l.fd] = l.pty
                  /\ phase \in Prepared /\ l.pty \in alive => l.fd \notin cloexec
                BY DEF ShellInv, DocInv, Holds
            <3>3. UNCHANGED disk
                BY <1>1
            <3> QED BY <1>1, <1>3, <3>1, <3>2, <3>3 DEF Holds
        <2>3. Apart(disk.panes) /\ UNCHANGED <<phase, disk>>
            BY <1>1 DEF ShellInv, DocInv
        <2> QED BY <2>2, <2>3 DEF DocInv, Apart, Holds
    <1>9. TodoInv'
        BY <1>1, <1>2 DEF TodoInv, Apart
    <1>10. \A x : In(tree, x) => In(tree', x)
        BY <1>5 DEF In
    <1>11. In(tree', t)
        BY <1>4, <1>5 DEF In
    <1>12. Safe(kept)' /\ ("create" \notin Faults => Safe(wanted)')
        BY <1>1, <1>10, <1>11 DEF ShellInv, Safe, Prepared
    <1> QED BY <1>7, <1>8, <1>9, <1>12 DEF ShellInv

\* What is closed with a pane belonged to its shell alone.
LEMMA ShellClose ==
    ASSUME TypeInv, ShellInv, NEW i \in DOMAIN tree, ClosePane(i)
    PROVE  ShellInv'
    <1> DEFINE t == tree[i].pty
    <1>1. /\ alive' = alive \ {t} /\ kept' = kept \ {t} /\ wanted' = wanted \ {t}
          /\ fdOf' = [f \in Fd |-> IF tree[i].live /\ f \in {tree[i].fd, tree[i].dup}
                                    THEN 0 ELSE fdOf[f]]
          /\ cloexec' \subseteq cloexec
          /\ tree' = [x \in DOMAIN tree \ {i} |-> tree[x]]
          /\ UNCHANGED <<phase, disk, todo>> /\ phase \notin {"down", "read", "restore"}
        BY DEF ClosePane, Without, fileVars, Running
    <1>2. DOMAIN todo = {}
        BY <1>1 DEF TypeInv, FileType
    <1>3. \A f \in Fd : fdOf[f] # t => fdOf'[f] = fdOf[f]
        BY <1>1 DEF ShellInv, TreeInv
    <1>4. \A x \in DOMAIN tree' : /\ x \in DOMAIN tree /\ x # i /\ tree'[x] = tree[x]
                                  /\ tree[x].pty # t
        BY <1>1 DEF ShellInv, TreeInv, Apart
    <1>5. DOMAIN tree' = DOMAIN tree \ {i}
        BY <1>1
    <1>6. TreeInv'
        BY <1>1, <1>3, <1>4, Typed DEF ShellInv, TreeInv, Apart
    <1>7. DocInv'
        <2> SUFFICES ASSUME phase \in Prepared \cup {"read"} PROVE DocInv'
            BY <1>1 DEF DocInv
        <2>1. disk # NoFile
            BY DEF TypeInv, FileType
        <2> QED BY <1>1, <1>3, <2>1, Typed DEF ShellInv, DocInv, Holds, Apart
    <1>8. TodoInv'
        BY <1>1, <1>2 DEF TodoInv, Apart
    <1>9. \A x : x # t /\ In(tree, x) => In(tree', x)
        BY <1>4, <1>5 DEF In
    <1>10. \A x : ~In(todo, x)
        BY <1>2 DEF In
    <1>11. Safe(kept)' /\ ("create" \notin Faults => Safe(wanted)')
        BY <1>1, <1>9, <1>10 DEF ShellInv, Safe
    <1> QED BY <1>6, <1>7, <1>8, <1>11 DEF ShellInv


\* A report changes the revision of an entry and nothing else in it.
LEMMA ShellStatus ==
    ASSUME TypeInv, ShellInv, NEW i \in DOMAIN tree, StatusChange(i)
    PROVE  ShellInv'
    <1>1. /\ tree' = [tree EXCEPT ![i].rev = @ + 1]
          /\ UNCHANGED <<phase, alive, fdOf, cloexec, disk, todo, kept, wanted>>
        BY DEF StatusChange, fdVars, fileVars, ghostVars
    <1>2. /\ DOMAIN tree' = DOMAIN tree
          /\ \A x \in DOMAIN tree : x # i => tree'[x] = tree[x]
          /\ tree'[i] = [tree[i] EXCEPT !.rev = @ + 1]
        BY <1>1
    <1>3. tree[i] \in Entry
        BY DEF TypeInv, TreeType
    <1>4. /\ tree'[i].pty = tree[i].pty /\ tree'[i].fd = tree[i].fd
          /\ tree'[i].dup = tree[i].dup /\ tree'[i].live = tree[i].live
        BY <1>2, <1>3 DEF Entry
    <1>5. \A x \in DOMAIN tree : /\ tree'[x].pty = tree[x].pty /\ tree'[x].fd = tree[x].fd
                                 /\ tree'[x].dup = tree[x].dup /\ tree'[x].live = tree[x].live
        BY <1>2, <1>4
    <1>6. TreeInv'
        BY <1>1, <1>2, <1>5 DEF ShellInv, TreeInv, Apart
    <1>7. DocInv'
        BY <1>1 DEF ShellInv, DocInv, Holds
    <1>8. TodoInv'
        BY <1>1, <1>2, <1>5 DEF ShellInv, TodoInv, Holds, Apart
    <1>9. \A x : In(tree, x) => In(tree', x)
        BY <1>2, <1>5 DEF In
    <1>10. Safe(kept)' /\ ("create" \notin Faults => Safe(wanted)')
        BY <1>1, <1>9 DEF ShellInv, Safe
    <1> QED BY <1>6, <1>7, <1>8, <1>10 DEF ShellInv

\* The document has a line for every pane, and the descriptors of the live ones stay
\* open across execve.
LEMMA ShellSnapshot ==
    ASSUME TypeInv, ShellInv, snapshot
    PROVE  ShellInv'
    <1> DEFINE ps == [x \in DOMAIN tree |-> [pty |-> tree[x].pty, rev |-> tree[x].rev,
                                            live |-> tree[x].live, fd |-> tree[x].fd]]
    <1>1. /\ phase = "snapshot" /\ phase' = "count" /\ disk' = [panes |-> ps, next |-> next]
          /\ cloexec' = cloexec \ LiveFds
          /\ kept' = {tree[x].pty : x \in DOMAIN tree} \cap alive
          /\ UNCHANGED <<tree, alive, fdOf, todo, wanted>>
        BY DEF snapshot, Document, treeVars
    <1>2. /\ disk'.panes = ps /\ DOMAIN ps = DOMAIN tree
          /\ \A x \in DOMAIN tree : /\ ps[x].pty = tree[x].pty /\ ps[x].live = tree[x].live
                                    /\ ps[x].fd = tree[x].fd
        BY <1>1
    <1> HIDE DEF ps
    <1>3. DOMAIN todo = {}
        BY <1>1 DEF TypeInv, FileType
    <1>4. TreeInv'
        BY <1>1 DEF ShellInv, TreeInv, Apart
    <1>5. DocInv'
        <2>1. \A x \in DOMAIN tree :
                 /\ tree[x].pty \in alive => tree[x].live /\ fdOf[tree[x].fd] = tree[x].pty
                 /\ tree[x].live => tree[x].fd \in LiveFds
            BY DEF ShellInv, TreeInv, LiveFds
        <2>2. Apart(ps)
            BY <1>2 DEF ShellInv, TreeInv, Apart
        <2> QED BY <1>1, <1>2, <2>1, <2>2 DEF DocInv, Holds, Apart, Prepared
    <1>6. TodoInv'
        BY <1>1, <1>3 DEF TodoInv, Apart
    <1>7. \A x : In(tree, x) => In(ps, x)
        BY <1>2 DEF In
    <1>8. \A x \in kept' : x \in alive /\ In(tree, x)
        BY <1>1 DEF In
    <1>9. \A x : ~In(todo, x)
        BY <1>3 DEF In
    <1>10. Safe(kept)' /\ ("create" \notin Faults => Safe(wanted)')
        BY <1>1, <1>2, <1>7, <1>8, <1>9 DEF ShellInv, Safe, Prepared
    <1> QED BY <1>4, <1>5, <1>6, <1>10 DEF ShellInv

\* The refresh keeps the shell and the descriptor of every line.
LEMMA ShellRewrite ==
    ASSUME TypeInv, ShellInv, rewrite_handoff_file
    PROVE  ShellInv'
    <1> DEFINE ps == [x \in DOMAIN disk.panes |->
                         IF x \in DOMAIN tree THEN [disk.panes[x] EXCEPT !.rev = tree[x].rev]
                                              ELSE disk.panes[x]]
    <1>1. /\ phase = "refresh" /\ phase' = "leave" /\ disk' = [disk EXCEPT !.panes = ps]
          /\ UNCHANGED <<tree, alive, fdOf, cloexec, todo, kept, wanted>>
        BY DEF rewrite_handoff_file, Refreshed, treeVars, fdVars, ghostVars
    <1>2. /\ disk = [panes |-> disk.panes, next |-> disk.next]
          /\ \A x \in DOMAIN disk.panes : disk.panes[x] \in Line
        BY <1>1 DEF TypeInv, FileType, Lines, Prepared
    <1>3. /\ disk'.panes = ps /\ DOMAIN ps = DOMAIN disk.panes
          /\ \A x \in DOMAIN ps : /\ ps[x].pty = disk.panes[x].pty /\ ps[x].fd = disk.panes[x].fd
                                  /\ ps[x].live = disk.panes[x].live
        BY <1>1, <1>2 DEF Line
    <1> HIDE DEF ps
    <1>4. TreeInv'
        BY <1>1 DEF ShellInv, TreeInv, Apart
    <1>5. DocInv'
        BY <1>1, <1>3 DEF ShellInv, DocInv, Holds, Apart, Prepared
    <1>6. TodoInv'
        BY <1>1 DEF ShellInv, TodoInv, Apart, Holds
    <1>7. \A x : In(disk.panes, x) => In(ps, x)
        BY <1>3 DEF In
    <1>8. Safe(kept)' /\ ("create" \notin Faults => Safe(wanted)')
        BY <1>1, <1>3, <1>7 DEF ShellInv, Safe, Prepared
    <1> QED BY <1>4, <1>5, <1>6, <1>8 DEF ShellInv

\* A snapshot that fails leaves descriptors open across an exec, no more.
LEMMA ShellFlags ==
    ASSUME TypeInv, ShellInv, snapshot_fails
    PROVE  ShellInv'
    <1>1. /\ phase = "snapshot" /\ phase' = "serve"
          /\ UNCHANGED <<tree, alive, fdOf, disk, todo, kept, wanted>>
        BY DEF snapshot_fails, Refuse, treeVars, fileVars
    <1> QED BY <1>1 DEF ShellInv, TreeInv, DocInv, TodoInv, Safe, In, Apart, Holds, Prepared

\* execve keeps what the document needs.
LEMMA ShellExec ==
    ASSUME TypeInv, ShellInv, Exec
    PROVE  ShellInv'
    <1>1. /\ phase = "down" /\ phase' = "read" /\ DOMAIN tree' = {} /\ cloexec' = {}
          /\ fdOf' = [f \in Fd |-> IF f \in cloexec THEN 0 ELSE fdOf[f]]
          /\ alive' = alive \cap {fdOf[f] : f \in Fd \ cloexec}
          /\ UNCHANGED <<disk, todo, kept, wanted>>
        BY DEF Exec, fileVars
    <1>2. DOMAIN todo = {} /\ disk # NoFile
        BY <1>1 DEF TypeInv, FileType, Prepared
    <1>3. \A x \in DOMAIN disk.panes : disk.panes[x].pty \in alive =>
             /\ disk.panes[x].live
             /\ disk.panes[x].fd \in Fd \ cloexec
             /\ fdOf[disk.panes[x].fd] = disk.panes[x].pty
        BY <1>1, <1>2, Typed DEF ShellInv, DocInv, Holds, Prepared
    <1>4. TreeInv'
        BY <1>1 DEF TreeInv, Apart
    <1>5. DocInv'
        <2>1. \A x \in DOMAIN disk.panes : Holds(disk.panes[x])'
            BY <1>1, <1>3 DEF Holds
        <2>2. Apart(disk.panes)
            BY <1>1 DEF ShellInv, DocInv, Prepared
        <2> QED BY <1>1, <2>1, <2>2 DEF DocInv, Apart, Prepared
    <1>6. TodoInv'
        BY <1>1, <1>2 DEF TodoInv, Apart
    <1>7. \A t \in alive : In(disk.panes, t) => t \in alive'
        BY <1>1, <1>3 DEF In
    <1>8. Safe(kept)' /\ ("create" \notin Faults => Safe(wanted)')
        BY <1>1, <1>7 DEF ShellInv, Safe, Prepared
    <1> QED BY <1>4, <1>5, <1>6, <1>8 DEF ShellInv

\* A failed execve keeps every shell and descriptor; the tree is read again.
LEMMA ShellExecFails ==
    ASSUME TypeInv, ShellInv, ExecFails
    PROVE  ShellInv'
    <1>1. /\ phase = "down" /\ phase' = "read" /\ DOMAIN tree' = {}
          /\ UNCHANGED <<alive, fdOf, cloexec, disk, todo, kept, wanted>>
        BY DEF ExecFails, fileVars, fdVars
    <1>2. DOMAIN todo = {}
        BY <1>1 DEF TypeInv, FileType, Prepared
    <1>3. TreeInv' /\ TodoInv'
        BY <1>1, <1>2 DEF TreeInv, TodoInv, Apart
    <1>4. DocInv'
        BY <1>1 DEF ShellInv, DocInv, Apart, Holds, Prepared
    <1>5. Safe(kept)' /\ ("create" \notin Faults => Safe(wanted)')
        BY <1>1 DEF ShellInv, Safe, Prepared
    <1> QED BY <1>3, <1>4, <1>5 DEF ShellInv

\* What was read is what is restored.
LEMMA ShellRead ==
    ASSUME TypeInv, ShellInv, read_and_remove_handoff_file
    PROVE  ShellInv'
    <1>1. /\ phase = "read" /\ phase' = "restore" /\ todo' = disk.panes
          /\ UNCHANGED <<tree, alive, fdOf, cloexec, kept, wanted>>
        BY DEF read_and_remove_handoff_file, fdVars, ghostVars
    <1>2. DOMAIN tree = {}
        BY <1>1 DEF TypeInv, FileType
    <1>3. TreeInv' /\ DocInv'
        BY <1>1, <1>2 DEF TreeInv, DocInv, Apart, Prepared
    <1>4. TodoInv'
        BY <1>1, <1>2 DEF ShellInv, DocInv, TodoInv, Apart, Holds
    <1>5. Safe(kept)' /\ ("create" \notin Faults => Safe(wanted)')
        BY <1>1 DEF ShellInv, Safe, Prepared
    <1> QED BY <1>3, <1>4, <1>5 DEF ShellInv

\* An entry moves from the document to the tree with its shell.
LEMMA Moved ==
    ASSUME NEW i \in DOMAIN todo, NEW e, e.pty = todo[i].pty,
           tree' = With(tree, i, e), todo' = Without(todo, i), ShellInv
    PROVE  /\ \A x \in DOMAIN tree' : \/ x = i /\ tree'[x] = e
                                      \/ x \in DOMAIN tree /\ tree'[x] = tree[x] /\ x # i
           /\ i \in DOMAIN tree' /\ tree'[i] = e
           /\ DOMAIN todo' = DOMAIN todo \ {i}
           /\ \A x \in DOMAIN todo' : x \in DOMAIN todo /\ x # i /\ todo'[x] = todo[x]
           /\ Apart(tree') /\ Apart(todo')
           /\ \A x \in DOMAIN tree', y \in DOMAIN todo' : x # y /\ tree'[x].pty # todo'[y].pty
           /\ \A t : In(tree, t) \/ In(todo, t) => In(tree', t) \/ In(todo', t)
    <1>1. i \notin DOMAIN tree
        BY DEF ShellInv, TodoInv
    <1>2. /\ DOMAIN tree' = DOMAIN tree \cup {i} /\ tree'[i] = e
          /\ \A x \in DOMAIN tree : tree'[x] = tree[x] /\ x # i
        BY <1>1 DEF With
    <1>3. DOMAIN todo' = DOMAIN todo \ {i} /\ \A x \in DOMAIN todo' : todo'[x] = todo[x]
        BY DEF Without
    <1>4. Apart(tree')
        BY <1>2 DEF ShellInv, TreeInv, TodoInv, Apart
    <1>5. Apart(todo')
        BY <1>3 DEF ShellInv, TodoInv, Apart
    <1>6. \A x \in DOMAIN tree', y \in DOMAIN todo' : x # y /\ tree'[x].pty # todo'[y].pty
        BY <1>2, <1>3 DEF ShellInv, TodoInv, Apart
    <1>7. \A t : In(tree, t) \/ In(todo, t) => In(tree', t) \/ In(todo', t)
        BY <1>2, <1>3 DEF In
    <1> QED BY <1>2, <1>3, <1>4, <1>5, <1>6, <1>7

\* The pane is served by its own shell: the terminal at its number is its own.
LEMMA ShellRestore ==
    ASSUME TypeInv, ShellInv, NEW i \in DOMAIN todo, NEW d \in Fd, restore_pane(i, d),
           ~Stranger(i)
    PROVE  ShellInv'
    <1> DEFINE f == todo[i].fd
               t == todo[i].pty
               e == [pty |-> t, fd |-> f, dup |-> d, rev |-> todo[i].rev, live |-> TRUE]
    <1>1. /\ phase = "restore" /\ fdOf[d] = 0 /\ todo[i].live /\ fdOf[f] # 0
          /\ tree' = With(tree, i, e) /\ todo' = Without(todo, i)
          /\ fdOf' = [fdOf EXCEPT ![d] = fdOf[f]] /\ cloexec' = cloexec \cup {f, d}
          /\ UNCHANGED <<phase, alive, disk, kept, wanted>>
        BY DEF restore_pane, Adoptable, Open, Free, adopt_master, ghostVars
    <1>2. fdOf[f] = t
        BY <1>1 DEF Stranger
    <1>3. f \in Fd /\ t # 0 /\ fdOf \in [Fd -> 0 .. MaxPty]
        BY Typed DEF TypeInv, FdType
    <1>4. fdOf'[d] = t /\ \A g \in Fd : fdOf[g] # 0 => fdOf'[g] = fdOf[g]
        BY <1>1, <1>2, <1>3
    <1>5. e.pty = t /\ e.fd = f /\ e.dup = d /\ e.live
        OBVIOUS
    <1> HIDE DEF e
    <1>6. /\ \A x \in DOMAIN tree' : \/ x = i /\ tree'[x] = e
                                     \/ x \in DOMAIN tree /\ tree'[x] = tree[x] /\ x # i
          /\ \A x \in DOMAIN todo' : x \in DOMAIN todo /\ x # i /\ todo'[x] = todo[x]
          /\ Apart(tree') /\ Apart(todo')
          /\ \A x \in DOMAIN tree', y \in DOMAIN todo' : x # y /\ tree'[x].pty # todo'[y].pty
          /\ \A s : In(tree, s) \/ In(todo, s) => In(tree', s) \/ In(todo', s)
        BY <1>1, <1>5, Moved, ZenonT(30)
    <1>7. TreeInv'
        <2>1. \A x \in DOMAIN tree : /\ tree[x].pty \in alive => tree[x].live
                                     /\ tree[x].live => /\ fdOf'[tree[x].fd] = tree[x].pty
                                                        /\ fdOf'[tree[x].dup] = tree[x].pty
            <3> TAKE x \in DOMAIN tree
            <3>1. tree[x].fd \in Fd /\ tree[x].dup \in Fd /\ tree[x].pty # 0
                BY Typed
            <3>2. /\ tree[x].pty \in alive => tree[x].live
                  /\ tree[x].live => fdOf[tree[x].fd] = tree[x].pty /\ fdOf[tree[x].dup] = tree[x].pty
                BY DEF ShellInv, TreeInv
            <3> QED BY <1>4, <3>1, <3>2
        <2>2. fdOf'[e.fd] = e.pty /\ fdOf'[e.dup] = e.pty /\ e.live
            BY <1>1, <1>2, <1>3, <1>4, <1>5
        <2> QED BY <1>1, <1>6, <2>1, <2>2 DEF TreeInv
    <1>8. DocInv'
        BY <1>1 DEF DocInv, Prepared
    <1>9. TodoInv'
        <2>1. \A x \in DOMAIN todo' : Holds(todo[x])'
            <3> TAKE x \in DOMAIN todo'
            <3>1. x \in DOMAIN todo /\ todo'[x] = todo[x]
                BY <1>6
            <3>2. todo[x].fd \in Fd /\ todo[x].pty # 0
                BY <3>1, Typed
            <3>3. todo[x].pty \in alive => todo[x].live /\ fdOf[todo[x].fd] = todo[x].pty
                BY <3>1 DEF ShellInv, TodoInv, Holds
            <3>4. todo[x].pty \in alive => todo[x].live /\ fdOf'[todo[x].fd] = todo[x].pty
                BY <1>4, <3>2, <3>3
            <3> QED BY <1>1, <3>1, <3>4 DEF Holds
        <2> QED BY <1>6, <2>1 DEF TodoInv
    <1>10. Safe(kept)' /\ ("create" \notin Faults => Safe(wanted)')
        BY <1>1, <1>6 DEF ShellInv, Safe, Prepared
    <1> QED BY <1>7, <1>8, <1>9, <1>10 DEF ShellInv


\* A pane whose terminal is gone had no shell any more.
LEMMA ShellExited ==
    ASSUME TypeInv, ShellInv, NEW i \in DOMAIN todo, build_exited_pane(i)
    PROVE  ShellInv'
    <1> DEFINE e == [pty |-> todo[i].pty, fd |-> todo[i].fd, dup |-> todo[i].fd,
                     rev |-> todo[i].rev, live |-> FALSE]
    <1>1. /\ phase = "restore" /\ (todo[i].live => fdOf[todo[i].fd] = 0)
          /\ tree' = With(tree, i, e) /\ todo' = Without(todo, i)
          /\ UNCHANGED <<phase, alive, fdOf, cloexec, disk, kept, wanted>>
        BY DEF build_exited_pane, Adoptable, Open, fdVars, ghostVars
    <1>2. e.pty = todo[i].pty /\ ~e.live
        OBVIOUS
    <1>3. todo[i].pty \notin alive
        <2>1. todo[i].pty # 0
            BY Typed
        <2>2. Holds(todo[i])
            BY DEF ShellInv, TodoInv
        <2> QED BY <1>1, <2>1, <2>2 DEF Holds
    <1> HIDE DEF e
    <1>4. /\ \A x \in DOMAIN tree' : \/ x = i /\ tree'[x] = e
                                     \/ x \in DOMAIN tree /\ tree'[x] = tree[x] /\ x # i
          /\ \A x \in DOMAIN todo' : x \in DOMAIN todo /\ x # i /\ todo'[x] = todo[x]
          /\ Apart(tree') /\ Apart(todo')
          /\ \A x \in DOMAIN tree', y \in DOMAIN todo' : x # y /\ tree'[x].pty # todo'[y].pty
          /\ \A s : In(tree, s) \/ In(todo, s) => In(tree', s) \/ In(todo', s)
        BY <1>1, <1>2, Moved, ZenonT(60)
    <1>5. TreeInv'
        BY <1>1, <1>2, <1>3, <1>4 DEF ShellInv, TreeInv
    <1>6. DocInv'
        BY <1>1 DEF DocInv, Prepared
    <1>7. TodoInv'
        BY <1>1, <1>4 DEF ShellInv, TodoInv, Holds
    <1>8. Safe(kept)' /\ ("create" \notin Faults => Safe(wanted)')
        BY <1>1, <1>4 DEF ShellInv, Safe, Prepared
    <1> QED BY <1>5, <1>6, <1>7, <1>8 DEF ShellInv

\* The shell invariant is inductive as long as no step loses a shell.
LEMMA ShellStep ==
    ASSUME TypeInv, ShellInv, [Next /\ ~Loses]_vars
    PROVE  ShellInv'
    <1> USE DEF Prepared
    <1>1. ASSUME NEW m \in Fd, NEW d \in Fd, CreatePane(m, d) PROVE ShellInv'
        BY <1>1, ShellCreate
    <1>2. ASSUME NEW i \in DOMAIN tree, ClosePane(i) PROVE ShellInv'
        BY <1>2, ShellClose
    <1>3. ASSUME NEW i \in DOMAIN tree, StatusChange(i) PROVE ShellInv'
        BY <1>3, ShellStatus
    <1>4. ASSUME NEW s \in Sub, Join(s) \/ Leave(s) \/ Flushed(s) PROVE ShellInv'
        BY <1>4, ShellFrame DEF Join, Leave, Flushed, treeVars, fdVars, fileVars, ghostVars
    <1>5. ASSUME NEW c \in Cand, NEW v \in BOOLEAN, Install(c, v) PROVE ShellInv'
        BY <1>5, ShellFrame DEF Install, treeVars, fdVars, fileVars, ghostVars
    <1>6. CASE Requests
        BY <1>6, ShellFrame DEF Requests, RefuseInvalid, RefuseRepeat, Admit, Request, Idle,
                                treeVars, fdVars, fileVars, ghostVars
    <1>7. CASE ProbeOk \/ ProbeRefused \/ CountAcks \/ Announce \/ rewrite_fails \/ RuntimeDown
        BY <1>7, ShellFrame DEF ProbeOk, ProbeRefused, Refuse, CountAcks, Announce, rewrite_fails,
                                RuntimeDown, treeVars, fdVars, fileVars, ghostVars
    <1>8. CASE AllAcked \/ AckTimeout
        BY <1>8, ShellFrame DEF AllAcked, AckTimeout, EndWait, treeVars, fdVars, fileVars,
                                ghostVars
    <1>9. CASE snapshot \/ snapshot_fails
        BY <1>9, ShellSnapshot, ShellFlags
    <1>10. CASE rewrite_handoff_file
        BY <1>10, ShellRewrite
    <1>11. CASE Exec \/ ExecFails
        BY <1>11, ShellExec, ShellExecFails
    <1>12. CASE read_and_remove_handoff_file
        BY <1>12, ShellRead
    <1>13. CASE bind_fresh_listener /\ ~Loses
        BY <1>13 DEF bind_fresh_listener, Loses, Unread
    <1>14. ASSUME NEW i \in DOMAIN todo, build_exited_pane(i) PROVE ShellInv'
        BY <1>14, ShellExited
    <1>15. ASSUME NEW i \in DOMAIN todo, restore_without_reader(i), ~Loses PROVE ShellInv'
        BY <1>15 DEF Loses, NoReader
    <1>16. ASSUME NEW i \in DOMAIN todo, NEW d \in Fd, restore_pane(i, d), ~Loses
           PROVE  ShellInv'
        BY <1>16, ShellRestore DEF Loses, AdoptsStranger
    <1>17. CASE Serve
        <2>1. DOMAIN todo = {} /\ phase = "restore" /\ phase' = "serve"
              /\ UNCHANGED <<tree, alive, fdOf, cloexec, disk, todo, kept, wanted>>
            BY <1>17 DEF Serve, treeVars, fdVars, fileVars, ghostVars
        <2> QED BY <2>1, ShellFrame
    <1>18. CASE Crash
        <2>1. /\ DOMAIN tree' = {} /\ DOMAIN todo' = {} /\ alive' = {} /\ wanted' = {}
              /\ kept' = {} /\ phase' = "serve"
            BY <1>18 DEF Crash
        <2> QED BY <2>1 DEF ShellInv, TreeInv, DocInv, TodoInv, Safe, Apart
    <1>19. CASE UNCHANGED vars
        BY <1>19, ShellFrame DEF vars, treeVars, fdVars, fileVars, ghostVars
    <1> QED BY <1>1, <1>2, <1>3, <1>4, <1>5, <1>6, <1>7, <1>8, <1>9, <1>10, <1>11, <1>12,
               <1>13, <1>14, <1>15, <1>16, <1>17, <1>18, <1>19
            DEF Next, Clients, Requests, Prepare, Replace


\* A number recorded for a live pane stays that of its own terminal, unless somebody
\* closes a pane meanwhile.
LEMMA CloseStep ==
    ASSUME TypeInv, ShellInv, CloseInv, [Next /\ ~Loses]_vars
    PROVE  CloseInv'
    <1> SUFFICES ASSUME "close" \notin Faults PROVE CloseInv'
        BY DEF CloseInv
    <1> USE DEF Prepared, Running, Idle, treeVars, fdVars, fileVars, ghostVars
    <1>0. /\ phase \notin {"restore"} => DOMAIN todo = {}
          /\ phase \in Prepared \cup {"read"} => disk # NoFile
          /\ fdOf \in [Fd -> 0 .. MaxPty]
        BY DEF TypeInv, FdType, FileType
    <1>1. ASSUME NEW m \in Fd, NEW d \in Fd, CreatePane(m, d) PROVE CloseInv'
        <2>1. /\ fdOf[m] = 0 /\ fdOf[d] = 0 /\ cloexec' = cloexec \cup {m, d}
              /\ fdOf' = [fdOf EXCEPT ![m] = spawned + 1, ![d] = spawned + 1]
              /\ UNCHANGED <<phase, disk, todo>> /\ DOMAIN todo = {}
            BY <1>0, <1>1 DEF CreatePane, Free, Open
        <2>2. \A f \in Fd : fdOf[f] # 0 => fdOf'[f] = fdOf[f] /\ f # m /\ f # d
            BY <1>0, <2>1
        <2> QED BY <1>0, <2>1, <2>2, Typed DEF CloseInv
    <1>2. ASSUME NEW i \in DOMAIN tree, ClosePane(i) PROVE CloseInv'
        BY <1>0, <1>2 DEF ClosePane, May, CloseInv
    <1>3. ASSUME NEW i \in DOMAIN tree, StatusChange(i) PROVE CloseInv'
        BY <1>3 DEF StatusChange, CloseInv
    <1>4. ASSUME NEW s \in Sub, Join(s) \/ Leave(s) \/ Flushed(s) PROVE CloseInv'
        BY <1>4 DEF Join, Leave, Flushed, CloseInv
    <1>5. ASSUME NEW c \in Cand, NEW v \in BOOLEAN, Install(c, v) PROVE CloseInv'
        BY <1>5 DEF Install, CloseInv
    <1>6. CASE Requests
        BY <1>6 DEF Requests, RefuseInvalid, RefuseRepeat, Admit, Request, CloseInv
    <1>7. CASE ProbeOk \/ ProbeRefused \/ CountAcks \/ Announce \/ rewrite_fails \/ RuntimeDown
        BY <1>7 DEF ProbeOk, ProbeRefused, Refuse, CountAcks, Announce, rewrite_fails,
                    RuntimeDown, CloseInv
    <1>8. CASE AllAcked \/ AckTimeout
        BY <1>8 DEF AllAcked, AckTimeout, EndWait, CloseInv
    <1>9. CASE snapshot
        <2> DEFINE ps == [x \in DOMAIN tree |-> [pty |-> tree[x].pty, rev |-> tree[x].rev,
                                                live |-> tree[x].live, fd |-> tree[x].fd]]
        <2>1. /\ phase = "snapshot" /\ phase' = "count" /\ disk' = [panes |-> ps, next |-> next]
              /\ cloexec' = cloexec \ LiveFds /\ UNCHANGED <<fdOf, todo>>
            BY <1>9 DEF snapshot, Document
        <2>2. /\ disk'.panes = ps /\ DOMAIN ps = DOMAIN tree
              /\ \A x \in DOMAIN tree : /\ ps[x].pty = tree[x].pty /\ ps[x].live = tree[x].live
                                        /\ ps[x].fd = tree[x].fd
            BY <2>1
        <2> HIDE DEF ps
        <2>3. \A x \in DOMAIN tree : tree[x].live => /\ fdOf[tree[x].fd] = tree[x].pty
                                                     /\ tree[x].fd \in LiveFds
            BY DEF ShellInv, TreeInv, LiveFds
        <2> QED BY <1>0, <2>1, <2>2, <2>3 DEF CloseInv
    <1>10. CASE snapshot_fails
        BY <1>10 DEF snapshot_fails, Refuse, CloseInv
    <1>11. CASE rewrite_handoff_file
        <2> DEFINE ps == [x \in DOMAIN disk.panes |->
                             IF x \in DOMAIN tree THEN [disk.panes[x] EXCEPT !.rev = tree[x].rev]
                                                  ELSE disk.panes[x]]
        <2>1. /\ phase = "refresh" /\ phase' = "leave" /\ disk' = [disk EXCEPT !.panes = ps]
              /\ UNCHANGED <<fdOf, cloexec, todo>>
            BY <1>11 DEF rewrite_handoff_file, Refreshed
        <2>2. /\ disk = [panes |-> disk.panes, next |-> disk.next]
              /\ \A x \in DOMAIN disk.panes : disk.panes[x] \in Line
            BY <2>1 DEF TypeInv, FileType, Lines
        <2>3. /\ disk'.panes = ps /\ DOMAIN ps = DOMAIN disk.panes
              /\ \A x \in DOMAIN ps :
                    /\ ps[x].pty = disk.panes[x].pty /\ ps[x].fd = disk.panes[x].fd
                    /\ ps[x].live = disk.panes[x].live
            BY <2>1, <2>2 DEF Line
        <2> HIDE DEF ps
        <2> QED BY <2>1, <2>3 DEF CloseInv
    <1>12. CASE Exec
        <2>1. /\ phase = "down" /\ phase' = "read" /\ UNCHANGED <<disk, todo>>
              /\ fdOf' = [f \in Fd |-> IF f \in cloexec THEN 0 ELSE fdOf[f]]
            BY <1>12 DEF Exec
        <2> QED BY <1>0, <2>1, Typed DEF CloseInv
    <1>13. CASE ExecFails
        BY <1>0, <1>13 DEF ExecFails, CloseInv
    <1>14. CASE read_and_remove_handoff_file
        BY <1>0, <1>14 DEF read_and_remove_handoff_file, CloseInv
    <1>15. CASE bind_fresh_listener /\ ~Loses
        BY <1>15 DEF bind_fresh_listener, Loses, Unread
    <1>16. ASSUME NEW i \in DOMAIN todo, build_exited_pane(i) PROVE CloseInv'
        BY <1>16 DEF build_exited_pane, Without, CloseInv
    <1>17. ASSUME NEW i \in DOMAIN todo, restore_without_reader(i), ~Loses PROVE CloseInv'
        BY <1>17 DEF Loses, NoReader
    <1>18. ASSUME NEW i \in DOMAIN todo, NEW d \in Fd, restore_pane(i, d) PROVE CloseInv'
        <2>1. /\ phase = "restore" /\ fdOf[d] = 0 /\ fdOf' = [fdOf EXCEPT ![d] = fdOf[todo[i].fd]]
              /\ todo' = [x \in DOMAIN todo \ {i} |-> todo[x]] /\ UNCHANGED <<phase, disk>>
            BY <1>18 DEF restore_pane, Free, Open, Without
        <2>2. \A f \in Fd : fdOf[f] # 0 => fdOf'[f] = fdOf[f]
            BY <1>0, <2>1
        <2> QED BY <1>0, <2>1, <2>2, Typed DEF CloseInv
    <1>19. CASE Serve
        BY <1>19 DEF Serve, CloseInv
    <1>20. CASE Crash
        BY <1>20 DEF Crash, CloseInv
    <1>21. CASE UNCHANGED vars
        BY <1>21 DEF vars, CloseInv
    <1> QED BY <1>1, <1>2, <1>3, <1>4, <1>5, <1>6, <1>7, <1>8, <1>9, <1>10, <1>11, <1>12,
               <1>13, <1>14, <1>15, <1>16, <1>17, <1>18, <1>19, <1>20, <1>21
            DEF Next, Clients, Requests, Prepare, Replace


\* Every adopted pane gets one reader, and threads only end with the image they run in.
LEMMA ReaderStep ==
    ASSUME HotUpgradeAssumption, TypeInv, ShellInv, ReaderInv, [Next /\ ~Loses]_vars
    PROVE  ReaderInv'
    <1> SUFFICES ASSUME "exec" \notin Faults PROVE ReaderInv'
        BY DEF ReaderInv
    <1> USE DEF Running, Idle, treeVars, fdVars, fileVars, ghostVars
    <1>0. /\ phase # "restore" => DOMAIN todo = {}
          /\ phase = "read" => DOMAIN tree = {} /\ disk # NoFile
          /\ readers \in [Ids -> Nat] /\ spawned \in 0 .. MaxPty
          /\ \A t \in 1 .. spawned : t \in Ids
          /\ MaxPty \in Nat
        BY DEF HotUpgradeAssumption, TypeInv, TreeType, FdType, FileType, Ids, Prepared
    <1>1. ASSUME NEW m \in Fd, NEW d \in Fd, CreatePane(m, d) PROVE ReaderInv'
        <2> DEFINE t == spawned + 1
                   e == [pty |-> t, fd |-> m, dup |-> d, rev |-> 0, live |-> TRUE]
        <2>1. /\ tree' = [x \in DOMAIN tree \cup {next} |-> IF x = next THEN e ELSE tree[x]]
              /\ readers' = [readers EXCEPT ![t] = 1] /\ UNCHANGED <<phase, todo>>
              /\ phase \notin {"read", "restore"} /\ t <= MaxPty
            BY <1>0, <1>1 DEF CreatePane, With
        <2>2. e.pty = t /\ t \in Ids /\ \A x \in DOMAIN tree : tree[x].pty # t
            BY <1>0, <2>1, Typed DEF Ids
        <2> HIDE DEF e, t
        <2>3. \A x \in DOMAIN tree' : \/ tree'[x] = e
                                      \/ x \in DOMAIN tree /\ tree'[x] = tree[x]
            BY <2>1
        <2>4. readers'[t] = 1 /\ \A x \in Ids : x # t => readers'[x] = readers[x]
            BY <1>0, <2>1, <2>2
        <2> QED BY <1>0, <2>1, <2>2, <2>3, <2>4, Typed DEF ReaderInv
    <1>2. ASSUME NEW i \in DOMAIN tree, ClosePane(i) PROVE ReaderInv'
        <2>1. /\ tree' = [x \in DOMAIN tree \ {i} |-> tree[x]]
              /\ readers' = [readers EXCEPT ![tree[i].pty] = 0] /\ UNCHANGED <<phase, todo>>
              /\ phase \notin {"read", "restore"}
            BY <1>2 DEF ClosePane, Without
        <2>2. \A x \in DOMAIN tree' : x \in DOMAIN tree /\ tree'[x] = tree[x]
                                      /\ tree[x].pty # tree[i].pty
            BY <2>1 DEF ShellInv, TreeInv, Apart
        <2> QED BY <1>0, <2>1, <2>2, Typed DEF ReaderInv
    <1>3. ASSUME NEW i \in DOMAIN tree, StatusChange(i) PROVE ReaderInv'
        <2>1. /\ tree' = [tree EXCEPT ![i].rev = @ + 1] /\ UNCHANGED <<phase, todo, readers>>
            BY <1>3 DEF StatusChange
        <2>2. tree[i] \in Entry
            BY DEF TypeInv, TreeType
        <2>3. /\ DOMAIN tree' = DOMAIN tree
              /\ \A x \in DOMAIN tree : tree'[x].pty = tree[x].pty /\ tree'[x].live = tree[x].live
            BY <2>1, <2>2 DEF Entry
        <2> QED BY <2>1, <2>3 DEF ReaderInv
    <1>4. ASSUME NEW s \in Sub, Join(s) \/ Leave(s) \/ Flushed(s) PROVE ReaderInv'
        BY <1>4 DEF Join, Leave, Flushed, ReaderInv
    <1>5. ASSUME NEW c \in Cand, NEW v \in BOOLEAN, Install(c, v) PROVE ReaderInv'
        BY <1>5 DEF Install, ReaderInv
    <1>6. CASE Requests
        BY <1>6 DEF Requests, RefuseInvalid, RefuseRepeat, Admit, Request, ReaderInv
    <1>7. CASE ProbeOk \/ ProbeRefused \/ CountAcks \/ Announce \/ rewrite_fails \/ RuntimeDown
        BY <1>7 DEF ProbeOk, ProbeRefused, Refuse, CountAcks, Announce, rewrite_fails,
                    RuntimeDown, ReaderInv
    <1>8. CASE AllAcked \/ AckTimeout
        BY <1>8 DEF AllAcked, AckTimeout, EndWait, ReaderInv
    <1>9. CASE snapshot \/ snapshot_fails
        BY <1>9 DEF snapshot, snapshot_fails, Refuse, ReaderInv
    <1>10. CASE rewrite_handoff_file
        BY <1>10 DEF rewrite_handoff_file, ReaderInv
    <1>11. CASE Exec
        <2>1. /\ DOMAIN tree' = {} /\ DOMAIN todo' = {} /\ readers' = [t \in Ids |-> 0]
            BY <1>0, <1>11 DEF Exec
        <2> QED BY <2>1 DEF ReaderInv
    <1>12. CASE ExecFails
        BY <1>12 DEF ExecFails
    <1>13. CASE read_and_remove_handoff_file
        <2>1. \A x \in DOMAIN disk.panes : disk.panes[x].pty \in Ids
            BY <1>0, <1>13, Typed DEF read_and_remove_handoff_file
        <2> QED BY <1>0, <1>13, <2>1 DEF read_and_remove_handoff_file, ReaderInv
    <1>14. CASE bind_fresh_listener /\ ~Loses
        BY <1>14 DEF bind_fresh_listener, Loses, Unread
    <1>15. ASSUME NEW i \in DOMAIN todo, build_exited_pane(i) PROVE ReaderInv'
        <2> DEFINE e == [pty |-> todo[i].pty, fd |-> todo[i].fd, dup |-> todo[i].fd,
                         rev |-> todo[i].rev, live |-> FALSE]
        <2>1. /\ tree' = With(tree, i, e) /\ todo' = Without(todo, i)
              /\ phase = "restore" /\ UNCHANGED <<phase, readers>>
            BY <1>15 DEF build_exited_pane
        <2>2. e.pty = todo[i].pty /\ ~e.live
            OBVIOUS
        <2> HIDE DEF e
        <2>3. /\ \A x \in DOMAIN tree' : \/ x = i /\ tree'[x] = e
                                         \/ x \in DOMAIN tree /\ tree'[x] = tree[x] /\ x # i
              /\ \A x \in DOMAIN todo' : x \in DOMAIN todo /\ x # i /\ todo'[x] = todo[x]
            BY <2>1, <2>2, Moved, ZenonT(60)
        <2> QED BY <2>1, <2>2, <2>3 DEF ReaderInv
    <1>16. ASSUME NEW i \in DOMAIN todo, restore_without_reader(i), ~Loses PROVE ReaderInv'
        BY <1>16 DEF Loses, NoReader
    <1>17. ASSUME NEW i \in DOMAIN todo, NEW d \in Fd, restore_pane(i, d), ~Loses
           PROVE  ReaderInv'
        <2> DEFINE t == todo[i].pty
                   e == [pty |-> t, fd |-> todo[i].fd, dup |-> d, rev |-> todo[i].rev,
                         live |-> TRUE]
        <2>1. /\ tree' = With(tree, i, e) /\ todo' = Without(todo, i) /\ phase = "restore"
              /\ readers' = [readers EXCEPT ![fdOf[todo[i].fd]] = @ + 1] /\ UNCHANGED phase
              /\ todo[i].live /\ fdOf[todo[i].fd] # 0
            BY <1>17 DEF restore_pane, Adoptable, Open
        <2>2. fdOf[todo[i].fd] = t
            BY <1>17, <2>1 DEF Loses, AdoptsStranger, Stranger
        <2>3. e.pty = t /\ t \in Ids
            BY <1>0, Typed
        <2> HIDE DEF e
        <2>4. /\ \A x \in DOMAIN tree' : \/ x = i /\ tree'[x] = e
                                         \/ x \in DOMAIN tree /\ tree'[x] = tree[x] /\ x # i
              /\ \A x \in DOMAIN todo' : x \in DOMAIN todo /\ x # i /\ todo'[x] = todo[x]
            BY <2>1, <2>3, Moved, ZenonT(30)
        <2>5. readers'[t] = readers[t] + 1 /\ \A x \in Ids : x # t => readers'[x] = readers[x]
            BY <1>0, <2>1, <2>2, <2>3
        <2>6. /\ \A x \in DOMAIN tree : tree[x].pty # t /\ tree[x].pty \in Ids
              /\ \A x \in DOMAIN todo : x # i => todo[x].pty # t /\ todo[x].pty \in Ids
            BY <1>0, Typed DEF ShellInv, TodoInv, Apart
        <2>7. readers[t] = 0
            BY DEF ReaderInv
        <2> HIDE DEF t
        <2> QED BY <2>1, <2>3, <2>4, <2>5, <2>6, <2>7 DEF ReaderInv
    <1>18. CASE Serve
        BY <1>18 DEF Serve, ReaderInv
    <1>19. CASE Crash
        <2>1. DOMAIN tree' = {} /\ DOMAIN todo' = {} /\ phase' = "serve"
            BY <1>19 DEF Crash
        <2> QED BY <2>1 DEF ReaderInv
    <1>20. CASE UNCHANGED vars
        BY <1>20 DEF vars, ReaderInv
    <1> QED BY <1>1, <1>2, <1>3, <1>4, <1>5, <1>6, <1>7, <1>8, <1>9, <1>10, <1>11, <1>12,
               <1>13, <1>14, <1>15, <1>16, <1>17, <1>18, <1>19, <1>20
            DEF Next, Clients, Requests, Prepare, Replace

\* Whoever takes a descriptor marks it.
LEMMA CloexecStep ==
    ASSUME TypeInv, CloexecInv, [Next]_vars
    PROVE  CloexecInv'
    <1> USE DEF Running, Idle, Open, treeVars, fdVars, fileVars, ghostVars
    <1>0. /\ phase = "read" => DOMAIN tree = {}
          /\ fdOf \in [Fd -> 0 .. MaxPty]
          /\ \A x \in DOMAIN tree : tree[x].fd \in Fd /\ tree[x].dup \in Fd
        BY Typed DEF TypeInv, FdType, FileType
    <1>1. ASSUME NEW m \in Fd, NEW d \in Fd, CreatePane(m, d) PROVE CloexecInv'
        <2> DEFINE e == [pty |-> spawned + 1, fd |-> m, dup |-> d, rev |-> 0, live |-> TRUE]
        <2>1. /\ tree' = [x \in DOMAIN tree \cup {next} |-> IF x = next THEN e ELSE tree[x]]
              /\ fdOf' = [fdOf EXCEPT ![m] = spawned + 1, ![d] = spawned + 1]
              /\ cloexec' = cloexec \cup {m, d} /\ UNCHANGED <<phase, aborted>>
            BY <1>1 DEF CreatePane, With
        <2>2. e.fd = m /\ e.dup = d
            OBVIOUS
        <2> HIDE DEF e
        <2>3. \A x \in DOMAIN tree' : \/ tree'[x] = e
                                      \/ x \in DOMAIN tree /\ tree'[x] = tree[x]
            BY <2>1
        <2>4. \A f \in Fd : fdOf'[f] # 0 => fdOf[f] # 0 \/ f \in cloexec'
            BY <1>0, <2>1
        <2> QED BY <1>0, <2>1, <2>2, <2>3, <2>4 DEF CloexecInv
    <1>2. ASSUME NEW i \in DOMAIN tree, ClosePane(i) PROVE CloexecInv'
        <2>1. /\ tree' = [x \in DOMAIN tree \ {i} |-> tree[x]] /\ UNCHANGED <<phase, aborted>>
              /\ fdOf' = [f \in Fd |-> IF tree[i].live /\ f \in {tree[i].fd, tree[i].dup}
                                        THEN 0 ELSE fdOf[f]]
              /\ cloexec' = IF tree[i].live THEN cloexec \ {tree[i].fd, tree[i].dup} ELSE cloexec
            BY <1>2 DEF ClosePane, Without
        <2>2. \A f \in Fd : fdOf'[f] # 0 => fdOf[f] # 0 /\ (f \in cloexec => f \in cloexec')
            BY <2>1
        <2>3. \A x \in DOMAIN tree' : x \in DOMAIN tree /\ tree'[x] = tree[x]
            BY <2>1
        <2> QED BY <1>0, <2>1, <2>2, <2>3 DEF CloexecInv
    <1>3. ASSUME NEW i \in DOMAIN tree, StatusChange(i) PROVE CloexecInv'
        <2>1. /\ tree' = [tree EXCEPT ![i].rev = @ + 1]
              /\ UNCHANGED <<phase, fdOf, cloexec, aborted>>
            BY <1>3 DEF StatusChange
        <2>2. tree[i] \in Entry
            BY DEF TypeInv, TreeType
        <2>3. /\ DOMAIN tree' = DOMAIN tree
              /\ \A x \in DOMAIN tree : /\ tree'[x].fd = tree[x].fd /\ tree'[x].dup = tree[x].dup
                                        /\ tree'[x].live = tree[x].live
            BY <2>1, <2>2 DEF Entry
        <2> QED BY <2>1, <2>3 DEF CloexecInv
    <1>4. ASSUME NEW s \in Sub, Join(s) \/ Leave(s) \/ Flushed(s) PROVE CloexecInv'
        BY <1>4 DEF Join, Leave, Flushed, CloexecInv
    <1>5. ASSUME NEW c \in Cand, NEW v \in BOOLEAN, Install(c, v) PROVE CloexecInv'
        BY <1>5 DEF Install, CloexecInv
    <1>6. CASE Requests
        BY <1>6 DEF Requests, RefuseInvalid, RefuseRepeat, Admit, Request, CloexecInv
    <1>7. CASE ProbeOk \/ ProbeRefused \/ CountAcks \/ Announce \/ rewrite_fails \/ RuntimeDown
        BY <1>7 DEF ProbeOk, ProbeRefused, Refuse, CountAcks, Announce, rewrite_fails,
                    RuntimeDown, CloexecInv
    <1>8. CASE AllAcked \/ AckTimeout
        BY <1>8 DEF AllAcked, AckTimeout, EndWait, CloexecInv
    <1>9. CASE snapshot \/ snapshot_fails
        BY <1>9 DEF snapshot, snapshot_fails, Refuse, CloexecInv
    <1>10. CASE rewrite_handoff_file
        BY <1>10 DEF rewrite_handoff_file, CloexecInv
    <1>11. CASE Exec \/ ExecFails
        BY <1>11 DEF Exec, ExecFails, CloexecInv
    <1>12. CASE read_and_remove_handoff_file \/ bind_fresh_listener
        <2>1. DOMAIN tree' = {}
            BY <1>0, <1>12 DEF read_and_remove_handoff_file, bind_fresh_listener
        <2> QED BY <2>1 DEF CloexecInv
    <1>13. ASSUME NEW i \in DOMAIN todo, build_exited_pane(i) PROVE CloexecInv'
        <2> DEFINE e == [pty |-> todo[i].pty, fd |-> todo[i].fd, dup |-> todo[i].fd,
                         rev |-> todo[i].rev, live |-> FALSE]
        <2>1. /\ tree' = [x \in DOMAIN tree \cup {i} |-> IF x = i THEN e ELSE tree[x]]
              /\ UNCHANGED <<phase, fdOf, cloexec, aborted>> /\ ~e.live
            BY <1>13 DEF build_exited_pane, With
        <2> HIDE DEF e
        <2>2. \A x \in DOMAIN tree' : \/ tree'[x] = e
                                      \/ x \in DOMAIN tree /\ tree'[x] = tree[x]
            BY <2>1
        <2>3. phase = "restore"
            BY <1>13 DEF build_exited_pane
        <2> QED BY <2>1, <2>2, <2>3 DEF CloexecInv
    <1>14. ASSUME NEW i \in DOMAIN todo, restore_without_reader(i) PROVE CloexecInv'
        <2> DEFINE e == [pty |-> todo[i].pty, fd |-> todo[i].fd, dup |-> todo[i].fd,
                         rev |-> todo[i].rev, live |-> FALSE]
        <2>1. /\ tree' = [x \in DOMAIN tree \cup {i} |-> IF x = i THEN e ELSE tree[x]]
              /\ fdOf' = [fdOf EXCEPT ![todo[i].fd] = 0] /\ cloexec' = cloexec \ {todo[i].fd}
              /\ UNCHANGED <<phase, aborted>> /\ ~e.live /\ phase = "restore"
            BY <1>14 DEF restore_without_reader, With
        <2> HIDE DEF e
        <2>2. \A x \in DOMAIN tree' : \/ tree'[x] = e
                                      \/ x \in DOMAIN tree /\ tree'[x] = tree[x]
            BY <2>1
        <2>3. \A f \in Fd : fdOf'[f] # 0 => fdOf[f] # 0 /\ f # todo[i].fd
            BY <1>0, <2>1
        <2> QED BY <1>0, <2>1, <2>2, <2>3 DEF CloexecInv
    <1>15. ASSUME NEW i \in DOMAIN todo, NEW d \in Fd, restore_pane(i, d) PROVE CloexecInv'
        <2> DEFINE e == [pty |-> todo[i].pty, fd |-> todo[i].fd, dup |-> d, rev |-> todo[i].rev,
                         live |-> TRUE]
        <2>1. /\ tree' = [x \in DOMAIN tree \cup {i} |-> IF x = i THEN e ELSE tree[x]]
              /\ fdOf' = [fdOf EXCEPT ![d] = fdOf[todo[i].fd]]
              /\ cloexec' = cloexec \cup {todo[i].fd, d}
              /\ UNCHANGED <<phase, aborted>> /\ phase = "restore"
            BY <1>15 DEF restore_pane, With, adopt_master
        <2>2. e.fd = todo[i].fd /\ e.dup = d
            OBVIOUS
        <2> HIDE DEF e
        <2>3. \A x \in DOMAIN tree' : \/ tree'[x] = e
                                      \/ x \in DOMAIN tree /\ tree'[x] = tree[x]
            BY <2>1
        <2>4. \A f \in Fd : fdOf'[f] # 0 => fdOf[f] # 0 \/ f = d
            BY <1>0, <2>1
        <2> QED BY <1>0, <2>1, <2>2, <2>3, <2>4 DEF CloexecInv
    <1>16. CASE Serve
        BY <1>16 DEF Serve, CloexecInv
    <1>17. CASE Crash
        <2>1. DOMAIN tree' = {}
            BY <1>17 DEF Crash
        <2> QED BY <2>1 DEF CloexecInv
    <1>18. CASE UNCHANGED vars
        BY <1>18 DEF vars, CloexecInv
    <1> QED BY <1>1, <1>2, <1>3, <1>4, <1>5, <1>6, <1>7, <1>8, <1>9, <1>10, <1>11, <1>12,
               <1>13, <1>14, <1>15, <1>16, <1>17, <1>18
            DEF Next, Clients, Requests, Prepare, Replace


\* Between upgrades there is no file.
LEMMA FileStep ==
    ASSUME TypeInv, FileInv, [Next]_vars
    PROVE  FileInv'
    <1> SUFFICES ASSUME "crash" \notin Faults PROVE FileInv'
        BY DEF FileInv
    <1> USE DEF Running, Idle, Request, Refuse, EndWait, treeVars, fdVars, fileVars, ghostVars
    <1>1. CASE Clients
        BY <1>1 DEF Clients, CreatePane, ClosePane, StatusChange, Join, Leave, Flushed, Install,
                    FileInv
    <1>2. CASE Requests
        BY <1>2 DEF Requests, RefuseInvalid, RefuseRepeat, Admit, FileInv
    <1>3. CASE Prepare
        BY <1>3 DEF Prepare, ProbeOk, ProbeRefused, snapshot, snapshot_fails, CountAcks, Announce,
                    AllAcked, AckTimeout, rewrite_handoff_file, rewrite_fails, FileInv
    <1>4. CASE Replace
        BY <1>4 DEF Replace, RuntimeDown, Exec, ExecFails, read_and_remove_handoff_file,
                    bind_fresh_listener, build_exited_pane, restore_without_reader, restore_pane,
                    Serve, FileInv
    <1>5. CASE Crash
        BY <1>5 DEF Crash
    <1>6. CASE UNCHANGED vars
        BY <1>6 DEF vars, FileInv
    <1> QED BY <1>1, <1>2, <1>3, <1>4, <1>5, <1>6 DEF Next

\* What acknowledgements are still missing covers who has not been told.
LEMMA AckStep ==
    ASSUME HotUpgradeAssumption, TypeInv, AckInv, [Next]_vars
    PROVE  AckInv'
    <1> SUFFICES ASSUME "join" \notin Faults PROVE AckInv'
        BY DEF AckInv
    <1> USE DEF Running, Idle, Request, Refuse, ackVars
    <1>0. /\ pending \subseteq subs /\ subs \subseteq Sub
          /\ IsFiniteSet(subs) /\ IsFiniteSet(pending)
          /\ Cardinality(subs) \in Nat /\ Cardinality(pending) \in Nat
          /\ acked \in Nat /\ expected \in Nat
        BY FS_Subset, FS_CardinalityType DEF HotUpgradeAssumption, TypeInv, CtlType, AckInv
    <1>1. CASE /\ UNCHANGED <<subs, pending, expected, acked, late>>
               /\ \/ UNCHANGED phase
                  \/ phase' \notin {"announce", "wait", "refresh", "leave"}
                  \/ phase \in {"refresh", "leave"} /\ phase' \in {"refresh", "leave"}
        BY <1>1 DEF AckInv
    <1>2. ASSUME NEW s \in Sub, Join(s) PROVE AckInv'
        BY <1>0, <1>2 DEF Join, AckInv
    <1>3. ASSUME NEW s \in Sub, Leave(s) PROVE AckInv'
        <2>1. /\ subs' = subs \ {s} /\ pending' = pending \ {s}
              /\ UNCHANGED <<phase, expected, acked, late>>
            BY <1>3 DEF Leave
        <2>2. /\ Cardinality(subs') \in Nat /\ Cardinality(subs') <= Cardinality(subs)
              /\ Cardinality(pending') \in Nat /\ Cardinality(pending') <= Cardinality(pending)
            BY <1>0, <2>1, FS_Subset, FS_CardinalityType
        <2> QED BY <1>0, <2>1, <2>2 DEF AckInv
    <1>4. ASSUME NEW s \in Sub, Flushed(s) PROVE AckInv'
        <2>1. /\ s \in pending /\ pending' = pending \ {s} /\ acked' \in {acked, acked + 1}
              /\ phase \in {"wait", "refresh", "leave"}
              /\ UNCHANGED <<phase, subs, expected, late>>
            BY <1>4 DEF Flushed
        <2>2. Cardinality(pending') = Cardinality(pending) - 1
            BY <1>0, <2>1, FS_RemoveElement
        <2> QED BY <1>0, <2>1, <2>2 DEF AckInv
    <1>5. CASE CountAcks
        BY <1>0, <1>5 DEF CountAcks, AckInv
    <1>6. CASE Announce
        BY <1>0, <1>6 DEF Announce, AckInv
    <1>7. CASE AllAcked
        <2>1. /\ phase = "wait" /\ phase' = "refresh" /\ acked >= expected
              /\ UNCHANGED <<pending, acked, expected>>
            BY <1>7 DEF AllAcked, EndWait
        <2>2. Cardinality(pending) = 0
            BY <1>0, <2>1 DEF AckInv
        <2>3. pending = {}
            BY <1>0, <2>2, FS_EmptySet
        <2> QED BY <1>0, <2>1, <2>3 DEF AckInv
    <1>8. CASE AckTimeout
        BY <1>0, <1>8 DEF AckTimeout, EndWait, AckInv
    <1>9. CASE RuntimeDown
        BY <1>0, <1>9 DEF RuntimeDown, AckInv
    <1>10. CASE Crash
        BY <1>0, <1>10 DEF Crash, AckInv
    <1>11. CASE Requests
        BY <1>1, <1>11 DEF Requests, RefuseInvalid, RefuseRepeat, Admit
    <1>12. CASE ProbeOk \/ ProbeRefused \/ snapshot \/ snapshot_fails \/ rewrite_handoff_file
                \/ rewrite_fails
        BY <1>1, <1>12 DEF ProbeOk, ProbeRefused, snapshot, snapshot_fails, rewrite_handoff_file,
                           rewrite_fails
    <1>13. CASE Exec \/ ExecFails \/ read_and_remove_handoff_file \/ bind_fresh_listener \/ Serve
        BY <1>1, <1>13 DEF Exec, ExecFails, read_and_remove_handoff_file, bind_fresh_listener,
                           Serve
    <1>14. ASSUME NEW i \in DOMAIN todo,
                  build_exited_pane(i) \/ restore_without_reader(i)
                     \/ \E d \in Fd : restore_pane(i, d)
           PROVE  AckInv'
        BY <1>1, <1>14 DEF build_exited_pane, restore_without_reader, restore_pane
    <1>15. ASSUME NEW m \in Fd, NEW d \in Fd, CreatePane(m, d) PROVE AckInv'
        BY <1>1, <1>15 DEF CreatePane
    <1>16. ASSUME NEW i \in DOMAIN tree, ClosePane(i) \/ StatusChange(i) PROVE AckInv'
        BY <1>1, <1>16 DEF ClosePane, StatusChange
    <1>17. ASSUME NEW c \in Cand, NEW v \in BOOLEAN, Install(c, v) PROVE AckInv'
        BY <1>1, <1>17 DEF Install
    <1>18. CASE UNCHANGED vars
        BY <1>1, <1>18 DEF vars
    <1> QED BY <1>2, <1>3, <1>4, <1>5, <1>6, <1>7, <1>8, <1>9, <1>10, <1>11, <1>12, <1>13,
               <1>14, <1>15, <1>16, <1>17, <1>18 DEF Next, Clients, Requests, Prepare, Replace

\* What suppresses a request was refused after its validation.
LEMMA RefusedStep ==
    ASSUME RefusedInv, [Next]_vars
    PROVE  RefusedInv'
    <1> USE DEF candVars
    <1>1. CASE last_refused' \in {last_refused, <<>>} /\ UNCHANGED probed
        BY <1>1 DEF RefusedInv
    <1>2. CASE RefuseInvalid
        <2>1. last_refused' = <<cand, "validation">> /\ UNCHANGED probed
            BY <1>2 DEF RefuseInvalid
        <2>2. last_refused'[2] = "validation"
            BY <2>1
        <2> QED BY <2>1, <2>2 DEF RefusedInv
    <1>3. ASSUME NEW r \in {"probe", "snapshot"}, Refuse(r) PROVE RefusedInv'
        <2>1. /\ last_refused' = <<cand, "postprobe">>
              /\ probed' = [probed EXCEPT ![r] = @ \cup {cand}]
              /\ DOMAIN probed = {"probe", "snapshot"}
            BY <1>3 DEF Refuse, RefusedInv
        <2>2. last_refused'[1] = cand /\ cand \in probed'[r] /\ DOMAIN probed' = DOMAIN probed
            BY <2>1
        <2> QED BY <2>1, <2>2 DEF RefusedInv
    <1>4. CASE Clients
        BY <1>1, <1>4 DEF Clients, CreatePane, ClosePane, StatusChange, Join, Leave, Flushed,
                          Install
    <1>5. CASE RefuseRepeat \/ Admit
        BY <1>1, <1>5 DEF RefuseRepeat, Admit
    <1>6. CASE Prepare
        BY <1>1, <1>3, <1>6 DEF Prepare, ProbeOk, ProbeRefused, snapshot, snapshot_fails,
                    CountAcks, Announce, AllAcked, AckTimeout, EndWait, rewrite_handoff_file,
                    rewrite_fails
    <1>7. CASE Replace
        BY <1>1, <1>7 DEF Replace, RuntimeDown, Exec, ExecFails, read_and_remove_handoff_file,
                    bind_fresh_listener, build_exited_pane, restore_without_reader, restore_pane,
                    Serve
    <1>8. CASE Crash
        BY <1>1, <1>8 DEF Crash
    <1>9. CASE UNCHANGED vars
        BY <1>1, <1>9 DEF vars
    <1> QED BY <1>2, <1>4, <1>5, <1>6, <1>7, <1>8, <1>9 DEF Next, Requests


\* A status only moves on, and every file records the status of its moment.
LEMMA StatusStep ==
    ASSUME HotUpgradeAssumption, TypeInv, StatusInv, [Next]_vars
    PROVE  StatusInv'
    <1> SUFFICES ASSUME Faults \cap {"read", "crash"} = {} PROVE StatusInv'
        BY DEF StatusInv
    <1> USE DEF Prepared, Running, Idle, Request, Refuse, EndWait, treeVars, fdVars, fileVars,
                ghostVars
    <1>0. /\ MaxRev \in Nat /\ spawned \in Nat /\ next \in Nat
          /\ \A x \in DOMAIN tree : tree[x] \in Entry /\ tree[x].rev \in 0 .. MaxRev
                                    /\ x \in 1 .. next - 1
          /\ \A x \in DOMAIN todo : todo[x] \in Line /\ todo[x].rev \in 0 .. MaxRev
          /\ phase # "restore" => DOMAIN todo = {}
          /\ phase = "read" => DOMAIN tree = {}
          /\ phase \in Prepared \cup {"read"} =>
                /\ disk # NoFile /\ disk = [panes |-> disk.panes, next |-> disk.next]
                /\ disk.next \in Nat
                /\ \A x \in DOMAIN disk.panes : /\ disk.panes[x] \in Line
                                                /\ disk.panes[x].rev \in 0 .. MaxRev
        BY DEF HotUpgradeAssumption, TypeInv, TreeType, FileType, Entry, Line, Lines
    <1>1. CASE /\ UNCHANGED <<tree, next, disk, todo, written>>
               /\ phase' \in Prepared \cup {"read"} => phase \in Prepared \cup {"read"}
        BY <1>1 DEF StatusInv
    <1>2. ASSUME NEW m \in Fd, NEW d \in Fd, CreatePane(m, d) PROVE StatusInv'
        <2> DEFINE e == [pty |-> spawned + 1, fd |-> m, dup |-> d, rev |-> 0, live |-> TRUE]
        <2>1. /\ tree' = [x \in DOMAIN tree \cup {next} |-> IF x = next THEN e ELSE tree[x]]
              /\ next' = next + 1 /\ UNCHANGED <<phase, disk, todo, written>>
            BY <1>2 DEF CreatePane, With
        <2> HIDE DEF e
        <2>2. \A x \in DOMAIN tree' : \/ x = next
                                      \/ x \in DOMAIN tree /\ tree'[x] = tree[x]
            BY <2>1
        <2>3. next \notin DOMAIN written
            BY <1>0 DEF StatusInv
        <2>4. disk # NoFile => disk.next \in Nat
            BY <1>0 DEF TypeInv, FileType
        <2>5. \A x \in DOMAIN written : x \in 1 .. next' - 1
            BY <1>0, <2>1 DEF StatusInv
        <2> QED BY <1>0, <2>1, <2>2, <2>3, <2>4, <2>5 DEF StatusInv
    <1>3. ASSUME NEW i \in DOMAIN tree, ClosePane(i) PROVE StatusInv'
        BY <1>0, <1>3 DEF ClosePane, Without, StatusInv
    <1>4. ASSUME NEW i \in DOMAIN tree, StatusChange(i) PROVE StatusInv'
        <2>1. /\ tree' = [tree EXCEPT ![i].rev = @ + 1]
              /\ UNCHANGED <<phase, next, disk, todo, written>>
            BY <1>4 DEF StatusChange
        <2>2. /\ DOMAIN tree' = DOMAIN tree
              /\ \A x \in DOMAIN tree : tree'[x].rev \in {tree[x].rev, tree[x].rev + 1}
            BY <1>0, <2>1 DEF Entry
        <2>3. \A x \in DOMAIN tree \cap DOMAIN written : written[x] \in 0 .. MaxRev
            BY DEF StatusInv
        <2> QED BY <1>0, <2>1, <2>2, <2>3 DEF StatusInv
    <1>5. CASE snapshot
        <2> DEFINE ps == [x \in DOMAIN tree |-> [pty |-> tree[x].pty, rev |-> tree[x].rev,
                                                live |-> tree[x].live, fd |-> tree[x].fd]]
        <2>1. /\ disk' = [panes |-> ps, next |-> next]
              /\ written' = [x \in DOMAIN ps |-> ps[x].rev]
              /\ phase = "snapshot" /\ UNCHANGED <<tree, next, todo>>
            BY <1>5 DEF snapshot, Document, Revisions
        <2>2. DOMAIN ps = DOMAIN tree /\ \A x \in DOMAIN tree : ps[x].rev = tree[x].rev
            OBVIOUS
        <2> HIDE DEF ps
        <2>3. disk'.panes = ps /\ disk'.next = next
            BY <2>1
        <2>4. DOMAIN written' = DOMAIN tree /\ \A x \in DOMAIN tree : written'[x] = tree[x].rev
            BY <2>1, <2>2
        <2> QED BY <1>0, <2>1, <2>2, <2>3, <2>4 DEF StatusInv
    <1>6. CASE rewrite_handoff_file
        <2> DEFINE ps == [x \in DOMAIN disk.panes |->
                             IF x \in DOMAIN tree THEN [disk.panes[x] EXCEPT !.rev = tree[x].rev]
                                                  ELSE disk.panes[x]]
        <2>1. /\ phase = "refresh" /\ disk' = [disk EXCEPT !.panes = ps]
              /\ written' = [x \in DOMAIN disk.panes |->
                               IF x \in DOMAIN tree THEN tree[x].rev ELSE written[x]]
              /\ UNCHANGED <<tree, next, todo>>
            BY <1>6 DEF rewrite_handoff_file, Refreshed
        <2>2. /\ DOMAIN ps = DOMAIN disk.panes
              /\ \A x \in DOMAIN ps : ps[x].rev = IF x \in DOMAIN tree THEN tree[x].rev
                                                                       ELSE disk.panes[x].rev
            BY <1>0, <2>1 DEF Line
        <2>3. disk'.panes = ps /\ disk'.next = disk.next
            BY <1>0, <2>1
        <2> HIDE DEF ps
        <2>4. /\ DOMAIN written = DOMAIN disk.panes /\ disk.next <= next
              /\ \A x \in DOMAIN written : /\ disk.panes[x].rev >= written[x] /\ x \in 1 .. disk.next - 1
                                           /\ written[x] \in 0 .. MaxRev /\ x \in 1 .. next - 1
            BY <1>0, <2>1 DEF StatusInv
        <2>5. /\ DOMAIN written' = DOMAIN disk.panes
              /\ \A x \in DOMAIN written' : written'[x] = IF x \in DOMAIN tree THEN tree[x].rev
                                                                              ELSE written[x]
            BY <2>1
        <2> QED BY <1>0, <2>1, <2>2, <2>3, <2>4, <2>5 DEF StatusInv
    <1>7. CASE Exec \/ ExecFails
        <2>1. /\ phase = "down" /\ phase' = "read" /\ DOMAIN tree' = {}
              /\ UNCHANGED <<next, disk, todo, written>>
            BY <1>7 DEF Exec, ExecFails
        <2> QED BY <2>1 DEF StatusInv
    <1>8. CASE read_and_remove_handoff_file
        <2>1. /\ phase = "read" /\ phase' = "restore" /\ disk' = NoFile /\ todo' = disk.panes
              /\ next' = disk.next /\ DOMAIN tree = {} /\ UNCHANGED <<tree, written>>
            BY <1>0, <1>8 DEF read_and_remove_handoff_file
        <2> QED BY <2>1 DEF StatusInv
    <1>9. CASE bind_fresh_listener
        BY <1>0, <1>9 DEF bind_fresh_listener
    <1>10. ASSUME NEW i \in DOMAIN todo,
                  build_exited_pane(i) \/ restore_without_reader(i)
                     \/ \E d \in Fd : restore_pane(i, d)
           PROVE  StatusInv'
        <2>1. PICK e : /\ tree' = [x \in DOMAIN tree \cup {i} |-> IF x = i THEN e ELSE tree[x]]
                       /\ e.rev = todo[i].rev
            BY <1>10 DEF build_exited_pane, restore_without_reader, restore_pane, With
        <2>2. /\ phase = "restore" /\ todo' = [x \in DOMAIN todo \ {i} |-> todo[x]]
              /\ UNCHANGED <<phase, next, disk, written>>
            BY <1>10 DEF build_exited_pane, restore_without_reader, restore_pane, Without
        <2>3. \A x \in DOMAIN tree' : \/ x = i /\ tree'[x] = e
                                      \/ x \in DOMAIN tree /\ tree'[x] = tree[x]
            BY <2>1
        <2> QED BY <2>1, <2>2, <2>3 DEF StatusInv
    <1>11. CASE Crash
        BY <1>11 DEF Crash
    <1>12. ASSUME NEW s \in Sub, Join(s) \/ Leave(s) \/ Flushed(s) PROVE StatusInv'
        BY <1>1, <1>12 DEF Join, Leave, Flushed
    <1>13. ASSUME NEW c \in Cand, NEW v \in BOOLEAN, Install(c, v) PROVE StatusInv'
        BY <1>1, <1>13 DEF Install
    <1>14. CASE Requests
        BY <1>1, <1>14 DEF Requests, RefuseInvalid, RefuseRepeat, Admit
    <1>15. CASE ProbeOk \/ ProbeRefused \/ CountAcks \/ Announce \/ rewrite_fails \/ RuntimeDown
        BY <1>1, <1>15 DEF ProbeOk, ProbeRefused, CountAcks, Announce, rewrite_fails, RuntimeDown
    <1>16. CASE AllAcked \/ AckTimeout \/ snapshot_fails \/ Serve
        BY <1>1, <1>16 DEF AllAcked, AckTimeout, snapshot_fails, Serve
    <1>17. CASE UNCHANGED vars
        BY <1>1, <1>17 DEF vars
    <1> QED BY <1>2, <1>3, <1>4, <1>5, <1>6, <1>7, <1>8, <1>9, <1>10, <1>11, <1>12, <1>13,
               <1>14, <1>15, <1>16, <1>17 DEF Next, Clients, Requests, Prepare, Replace

-----------------------------------------------------------------------------
(* The theorems *)

\* The initial state has nothing to lose.
LEMMA InitOK ==
    ASSUME HotUpgradeAssumption, Init
    PROVE  /\ TypeInv /\ ShellInv /\ ReaderInv /\ CloseInv /\ CloexecInv /\ FileInv /\ AckInv
           /\ StatusInv /\ RefusedInv
    <1>0. /\ {MaxPty, MaxTry} \subseteq Nat /\ DOMAIN <<>> = {}
          /\ Cardinality({}) = 0
        BY FS_EmptySet DEF HotUpgradeAssumption
    <1> USE DEF Init, Prepared
    <1>1. TypeInv
        BY <1>0 DEF TypeInv, TreeType, FdType, FileType, CtlType, Lines, Phases, Ids, NoFile
    <1>2. ShellInv
        BY <1>0 DEF ShellInv, TreeInv, DocInv, TodoInv, Safe, Apart
    <1>3. ReaderInv /\ CloseInv /\ CloexecInv /\ FileInv
        BY <1>0 DEF ReaderInv, CloseInv, CloexecInv, FileInv
    <1>4. AckInv /\ StatusInv /\ RefusedInv
        BY <1>0 DEF AckInv, StatusInv, RefusedInv, NoFile
    <1> QED BY <1>1, <1>2, <1>3, <1>4

\* The type invariant implies the one TLC checks.
LEMMA TypeInvType == ASSUME HotUpgradeAssumption, TypeInv PROVE TypeOK
    <1>1. /\ MaxPty \in Nat /\ MaxRev \in Nat /\ spawned \in 0 .. MaxPty
          /\ next \in 1 .. spawned + 1
        BY DEF HotUpgradeAssumption, TypeInv, TreeType
    <1>2. DOMAIN tree \subseteq Ids /\ next \in 1 .. MaxPty + 1
        BY <1>1 DEF TypeInv, TreeType, Ids
    <1>3. \A i \in DOMAIN tree : /\ tree[i].pty \in Ids /\ tree[i].rev \in 0 .. MaxRev
                                 /\ {tree[i].fd, tree[i].dup} \subseteq Fd
                                 /\ tree[i].live \in BOOLEAN
        BY DEF TypeInv, TreeType, Entry
    <1>4. alive \subseteq 1 .. spawned /\ wanted \subseteq 1 .. spawned /\ kept \subseteq wanted
        BY DEF TypeInv, TreeType
    <1>5. /\ fdOf \in [Fd -> 0 .. MaxPty] /\ cloexec \subseteq {f \in Fd : Open(f)}
          /\ readers \in [Ids -> Nat]
        BY DEF TypeInv, FdType, Open
    <1> QED BY <1>1, <1>2, <1>3, <1>4, <1>5 DEF TypeInv, CtlType, Phases, TypeOK

\* Every variable has its type.
THEOREM TypeCorrect == ASSUME HotUpgradeAssumption PROVE Spec => []TypeOK
    <1>1. Init => TypeInv
        BY InitOK
    <1>2. TypeInv /\ [Next]_vars => TypeInv'
        BY TypeStep
    <1>3. TypeInv => TypeOK
        BY TypeInvType
    <1> QED BY <1>1, <1>2, <1>3, PTL DEF Spec


\* What becomes of the shells, given what may go wrong.
ShellsServed ==
    /\ KeptPanesSurvive /\ AdoptsOwn
    /\ "create" \notin Faults => NoShellLost
    /\ "exec" \notin Faults => OneReader

\* The invariants say it of the moments of service.
LEMMA KeptInv == ASSUME TypeInv, ShellInv, ReaderInv PROVE ShellsServed
    <1> SUFFICES ASSUME phase = "serve" PROVE ShellsServed
        BY DEF ShellsServed, KeptPanesSurvive, AdoptsOwn, NoShellLost, OneReader, Idle
    <1>1. DOMAIN todo = {} /\ phase \notin Prepared \cup {"read"}
        BY DEF TypeInv, FileType, Prepared
    <1>2. ASSUME NEW T, Safe(T)
          PROVE  \A t \in T : t \in alive /\ \E i \in DOMAIN tree : Owns(i, t)
        BY <1>1, <1>2 DEF ShellInv, TreeInv, Safe, In, Owns
    <1> QED BY <1>2 DEF ShellInv, TreeInv, ReaderInv, ShellsServed, KeptPanesSurvive, AdoptsOwn,
                        NoShellLost, OneReader

\* With a readable file and a free descriptor only a foreign terminal costs a shell.
LEMMA NothingLost ==
    ASSUME "read" \notin Faults, TypeInv, [Next]_vars, Free # {}, [~AdoptsStranger]_vars
    PROVE  [Next /\ ~Loses]_vars
    <1>1. ~Unread
        BY DEF Unread, bind_fresh_listener, TypeInv, FileType
    <1>2. ~NoReader
        BY DEF NoReader, restore_without_reader
    <1> QED BY <1>1, <1>2 DEF Loses

\* Across any number of upgrades, failed ones and interference by clients, every pane
\* of the last snapshot is served again with its own shell and every pane serves its
\* own terminal; if nothing is created meanwhile no shell at all is lost, and if execve
\* does not fail no terminal has two readers.
THEOREM KeptCorrect ==
    ASSUME HotUpgradeAssumption, "read" \notin Faults
    PROVE  Spec /\ [](Free # {}) /\ [][~AdoptsStranger]_vars => []ShellsServed
    <1> DEFINE IInv == TypeInv /\ ShellInv /\ ReaderInv
    <1>1. Init => IInv
        BY InitOK
    <1>2. IInv /\ Free # {} /\ [Next]_vars /\ [~AdoptsStranger]_vars => IInv'
        <2> SUFFICES ASSUME IInv, Free # {}, [Next]_vars, [~AdoptsStranger]_vars PROVE IInv'
            OBVIOUS
        <2>1. [Next /\ ~Loses]_vars
            BY NothingLost
        <2> QED BY <2>1, TypeStep, ShellStep, ReaderStep
    <1>3. IInv => ShellsServed
        BY KeptInv
    <1> HIDE DEF IInv
    <1> QED BY <1>1, <1>2, <1>3, PTL DEF Spec

\* If no pane is closed while an upgrade is prepared, no pane adopts a foreign terminal,
\* and all of this holds without that condition.
THEOREM UnclosedKept ==
    ASSUME HotUpgradeAssumption, "read" \notin Faults, "close" \notin Faults
    PROVE  Spec /\ [](Free # {}) => []ShellsServed
    <1> DEFINE IInv == TypeInv /\ ShellInv /\ ReaderInv /\ CloseInv
    <1>1. Init => IInv
        BY InitOK
    <1>2. IInv /\ Free # {} /\ [Next]_vars => IInv'
        <2> SUFFICES ASSUME IInv, Free # {}, [Next]_vars PROVE IInv'
            OBVIOUS
        <2>1. ~AdoptsStranger
            BY DEF CloseInv, AdoptsStranger, Stranger
        <2>2. [Next /\ ~Loses]_vars
            BY <2>1, NothingLost
        <2> QED BY <2>2, TypeStep, ShellStep, ReaderStep, CloseStep
    <1>3. IInv => ShellsServed
        BY KeptInv
    <1> HIDE DEF IInv
    <1> QED BY <1>1, <1>2, <1>3, PTL DEF Spec

\* The descriptors of served panes are close-on-exec, whatever happens, unless the last
\* snapshot failed.
THEOREM CloexecCorrect == ASSUME HotUpgradeAssumption PROVE Spec => []CloexecIsBack
    <1>1. Init => TypeInv /\ CloexecInv
        BY InitOK
    <1>2. TypeInv /\ CloexecInv /\ [Next]_vars => (TypeInv /\ CloexecInv)'
        BY TypeStep, CloexecStep
    <1>3. CloexecInv => CloexecIsBack
        BY DEF CloexecInv, CloexecIsBack, Idle
    <1> QED BY <1>1, <1>2, <1>3, PTL DEF Spec

\* A daemon that is not killed leaves no handoff file behind, however its upgrades end.
THEOREM FileCorrect ==
    ASSUME HotUpgradeAssumption, "crash" \notin Faults
    PROVE  Spec => []FileIsConsumed
    <1>1. Init => TypeInv /\ FileInv
        BY InitOK
    <1>2. TypeInv /\ FileInv /\ [Next]_vars => (TypeInv /\ FileInv)'
        BY TypeStep, FileStep
    <1>3. FileInv => FileIsConsumed
        BY DEF FileInv, FileIsConsumed, Idle
    <1> QED BY <1>1, <1>2, <1>3, PTL DEF Spec

\* A wait that ends in time has told every connection that was to be told, if none
\* subscribes between the count and the announcement.
THEOREM ToldCorrect ==
    ASSUME HotUpgradeAssumption, "join" \notin Faults
    PROVE  Spec => []AllTold
    <1>1. Init => TypeInv /\ AckInv
        BY InitOK
    <1>2. TypeInv /\ AckInv /\ [Next]_vars => (TypeInv /\ AckInv)'
        BY TypeStep, AckStep
    <1>3. AckInv => AllTold
        BY DEF AckInv, AllTold
    <1> QED BY <1>1, <1>2, <1>3, PTL DEF Spec

\* No upgrade takes a pane's status back behind the last file written.
THEOREM StatusCorrect ==
    ASSUME HotUpgradeAssumption, "read" \notin Faults, "crash" \notin Faults
    PROVE  Spec => []StatusIsKept
    <1>1. Init => TypeInv /\ StatusInv
        BY InitOK
    <1>2. TypeInv /\ StatusInv /\ [Next]_vars => (TypeInv /\ StatusInv)'
        BY TypeStep, StatusStep
    <1>3. StatusInv => StatusIsKept
        BY DEF StatusInv, StatusIsKept
    <1> QED BY <1>1, <1>2, <1>3, PTL DEF Spec

\* A valid candidate is turned away only if it was itself refused before.
THEOREM RepairedCorrect ==
    ASSUME HotUpgradeAssumption, "crash" \notin Faults
    PROVE  Spec => [][RepairedIsAdmitted]_vars
    <1>1. Init => TypeInv /\ RefusedInv
        BY InitOK
    <1>2. TypeInv /\ RefusedInv /\ [Next]_vars => (TypeInv /\ RefusedInv)'
        BY TypeStep, RefusedStep
    <1>3. RefusedInv /\ [Next]_vars => [RepairedIsAdmitted]_vars
        <2> SUFFICES ASSUME RefusedInv, Next, tries' # tries, valid,
                            \A r \in DOMAIN probed : cand \notin probed[r]
                     PROVE  phase' = "probe"
            BY DEF RepairedIsAdmitted
        <2>1. CASE RefuseRepeat
            <3>1. last_refused = <<cand, "postprobe">>
                BY <2>1 DEF RefuseRepeat, Suppresses, Repeat
            <3>2. last_refused[1] = cand /\ last_refused[2] = "postprobe" /\ last_refused # <<>>
                BY <3>1
            <3> QED BY <3>2 DEF RefusedInv
        <2>2. CASE RefuseInvalid \/ Admit
            BY <2>2 DEF RefuseInvalid, Admit
        <2>3. ~Clients
            BY DEF Clients, CreatePane, ClosePane, StatusChange, Join, Leave, Flushed, Install
        <2>4. ~Prepare
            BY DEF Prepare, ProbeOk, ProbeRefused, snapshot, snapshot_fails, CountAcks, Announce,
                   AllAcked, AckTimeout, EndWait, rewrite_handoff_file, rewrite_fails
        <2>5. ~Replace
            BY DEF Replace, RuntimeDown, Exec, ExecFails, read_and_remove_handoff_file,
                   bind_fresh_listener, build_exited_pane, restore_without_reader, restore_pane,
                   Serve
        <2>6. ~Crash
            BY DEF Crash
        <2> QED BY <2>1, <2>2, <2>3, <2>4, <2>5, <2>6 DEF Next, Requests
    <1> QED BY <1>1, <1>2, <1>3, PTL DEF Spec

=============================================================================
