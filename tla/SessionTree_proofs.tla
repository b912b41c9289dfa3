-------------------------- MODULE SessionTree_proofs --------------------------
(***************************************************************************)
(* Proofs about SessionTree, for any number of clients of either type, of  *)
(* sessions, panes and notices: the tree holds no husks, there is one      *)
(* session at a time and its end is told, an exit under way is that of an  *)
(* ended program, and no shell runs outside the tree.                      *)
(*                                                                         *)
(* The display order is left to the runs: window_order is rebuilt by a     *)
(* filter, of which nothing can be proved here, and nothing below depends  *)
(* on it.                                                                  *)
(***************************************************************************)
EXTENDS SessionTree, TLAPS

\* The types of what the tree is made of.
TreeType ==
    /\ sessions \subseteq SessionId
    /\ windows \in [SessionId -> SUBSET Nat]
    /\ nextSession \in Nat \ {0}
    /\ nextWindow \in [SessionId -> Nat \ {0}]
    /\ home \in [PaneId -> [s : SessionId \cup {0}, w : Nat]]

\* Sessions and windows are numbered upwards; what is gone is empty.
NumberInv ==
    /\ \A s \in sessions : s < nextSession
    /\ \A s \in SessionId : s \notin sessions => windows[s] = {}
    /\ \A s \in SessionId : s >= nextSession => nextWindow[s] = 1
    /\ \A s \in SessionId : \A w \in windows[s] : w < nextWindow[s]

\* Every pane has its window, every window a pane: NoHusks, pane by pane.
HuskInv ==
    /\ \A p \in PaneId : home[p] # NoHome =>
          home[p].s \in sessions /\ home[p].w \in windows[home[p].s]
    /\ \A s \in sessions : \A w \in windows[s] :
          \E p \in PaneId : home[p] = [s |-> s, w |-> w]
    /\ \A s \in sessions : nextWindow[s] > 1 => windows[s] # {}

TreeInv == TreeType /\ NumberInv /\ HuskInv /\ OneSession /\ EmptyIsTold

ClientState == [pc : {"off", "hello", "pick", "ready", "spawn", "register"},
                s : Nat, p : Nat, list : SUBSET Nat]

\* The types of programs, readers, notices and clients.
TaskType ==
    /\ nextPane \in Nat \ {0}
    /\ program \in [PaneId -> {"none", "running", "ended"}]
    /\ closed \subseteq PaneId
    /\ reader \in [PaneId -> {"none", "reading", "notify", "done"}]
    /\ notices \in Seq(PaneId)
    /\ chunks \in [Client -> SUBSET PaneId]
    /\ shutdown \in BOOLEAN
    /\ client \in [Client -> ClientState]

\* A client that creates a window.
Creating(c) == client[c].pc \in {"spawn", "register"}

\* The pane of a creating client is its own, allocated and not yet in the tree.
FreshInv ==
    /\ \A c \in Client : Creating(c) =>
          /\ client[c].p \in PaneId /\ client[c].p < nextPane /\ home[client[c].p] = NoHome
          /\ client[c].pc = "spawn" => program[client[c].p] = "none"
    /\ \A c, d \in Client : (c # d /\ Creating(c) /\ Creating(d)) => client[c].p # client[d].p
    /\ \A p \in PaneId : p >= nextPane => home[p] = NoHome /\ program[p] = "none"

\* Only an ended program is reported.
EndInv ==
    /\ \A p \in PaneId : reader[p] = "notify" => program[p] = "ended"
    /\ \A i \in DOMAIN notices : program[notices[i]] = "ended"
    /\ \A c \in Client : \A p \in chunks[c] : program[p] = "ended"

IInv == TreeInv /\ TaskType /\ FreshInv /\ EndInv /\ NoOrphan

-----------------------------------------------------------------------------
(* The tree *)

\* A step that leaves the tree alone and takes no stop back keeps it.
LEMMA TreeStays ==
    ASSUME TreeInv, UNCHANGED <<sessions, windows, nextSession, nextWindow, home>>,
           shutdown => shutdown'
    PROVE  TreeInv'
    <1>1. TreeType'
        BY DEF TreeInv, TreeType
    <1>2. NumberInv'
        BY DEF TreeInv, NumberInv
    <1>3. HuskInv'
        BY DEF TreeInv, HuskInv
    <1>4. OneSession'
        BY DEF TreeInv, OneSession
    <1>5. EmptyIsTold'
        BY DEF TreeInv, EmptyIsTold
    <1> QED BY <1>1, <1>2, <1>3, <1>4, <1>5 DEF TreeInv

\* The default session is created into an empty tree: it is the only one, and
\* its number was never used.
LEMMA CreateKeepsTree ==
    ASSUME SessionTreeAssumption, TreeInv, sessions = {}, create_session,
           UNCHANGED <<windows, nextWindow, home, shutdown>>
    PROVE  TreeInv'
    <1>1. nextSession \in SessionId /\ sessions' = {nextSession} /\ nextSession' = nextSession + 1
        BY DEF SessionTreeAssumption, TreeInv, TreeType, create_session, SessionId
    <1>2. TreeType'
        BY <1>1 DEF TreeInv, TreeType
    <1>3. NumberInv'
        <2>1. \A x \in sessions' : x < nextSession'
            BY <1>1 DEF TreeInv, TreeType
        <2>2. \A x \in SessionId : x >= nextSession' => nextWindow'[x] = 1
            BY <1>1 DEF TreeInv, TreeType, NumberInv, SessionId
        <2> QED BY <1>1, <2>1, <2>2 DEF TreeInv, NumberInv
    <1>4. HuskInv'
        <2>1. windows[nextSession] = {} /\ nextWindow[nextSession] = 1
            BY <1>1 DEF TreeInv, TreeType, NumberInv, SessionId
        <2> QED BY <1>1, <2>1 DEF TreeInv, HuskInv
    <1>5. OneSession' /\ EmptyIsTold'
        BY <1>1 DEF OneSession, EmptyIsTold
    <1> QED BY <1>2, <1>3, <1>4, <1>5 DEF TreeInv

\* A window that is registered together with its pane is no husk, and its
\* number is new in its session.
LEMMA RegisterKeepsTree ==
    ASSUME TreeInv, NEW s \in sessions, NEW p \in PaneId, home[p] = NoHome,
           nextWindow' = [nextWindow EXCEPT ![s] = nextWindow[s] + 1],
           windows' = [windows EXCEPT ![s] = @ \cup {nextWindow[s]}],
           home' = [home EXCEPT ![p] = [s |-> s, w |-> nextWindow[s]]],
           UNCHANGED <<sessions, nextSession, shutdown>>
    PROVE  TreeInv'
    <1>1. s \in SessionId /\ nextWindow[s] \in Nat \ {0}
        BY DEF TreeInv, TreeType
    <1>2. TreeType'
        <2>1. windows' \in [SessionId -> SUBSET Nat]
            BY <1>1 DEF TreeInv, TreeType
        <2>2. nextWindow' \in [SessionId -> Nat \ {0}]
            BY <1>1 DEF TreeInv, TreeType
        <2>3. home' \in [PaneId -> [s : SessionId \cup {0}, w : Nat]]
            BY <1>1 DEF TreeInv, TreeType
        <2> QED BY <2>1, <2>2, <2>3 DEF TreeInv, TreeType
    <1>3. NumberInv'
        <2>1. \A x \in SessionId : x \notin sessions => windows'[x] = {}
            BY DEF TreeInv, TreeType, NumberInv
        <2>2. \A x \in SessionId : x >= nextSession => nextWindow'[x] = 1
            BY <1>1 DEF TreeInv, TreeType, NumberInv, SessionId
        <2>3. ASSUME NEW x \in SessionId, NEW w \in windows'[x]
              PROVE  w < nextWindow'[x]
            <3>1. CASE x = s
                BY <1>1, <2>3, <3>1 DEF TreeInv, TreeType, NumberInv
            <3>2. CASE x # s
                BY <2>3, <3>2 DEF TreeInv, TreeType, NumberInv
            <3> QED BY <3>1, <3>2
        <2> QED BY <2>1, <2>2, <2>3 DEF TreeInv, NumberInv
    <1>4. HuskInv'
        <2>1. ASSUME NEW o \in PaneId, home'[o] # NoHome
              PROVE  home'[o].s \in sessions /\ home'[o].w \in windows'[home'[o].s]
            <3>1. CASE o = p
                BY <1>1, <3>1 DEF TreeInv, TreeType
            <3>2. CASE o # p
                <4>1. home'[o] = home[o] /\ home[o].s \in sessions /\ home[o].s \in SessionId
                      /\ home[o].w \in windows[home[o].s]
                    BY <2>1, <3>2 DEF TreeInv, TreeType, HuskInv
                <4>2. windows[home[o].s] \subseteq windows'[home[o].s]
                    BY <4>1 DEF TreeInv, TreeType
                <4> QED BY <4>1, <4>2
            <3> QED BY <3>1, <3>2
        <2>2. ASSUME NEW x \in sessions, NEW w \in windows'[x]
              PROVE  \E o \in PaneId : home'[o] = [s |-> x, w |-> w]
            <3>1. CASE x = s /\ w = nextWindow[s]
                BY <3>1 DEF TreeInv, TreeType
            <3>2. CASE w \in windows[x]
                <4>1. PICK o \in PaneId : home[o] = [s |-> x, w |-> w]
                    BY <3>2 DEF TreeInv, HuskInv
                <4>2. x # 0
                    BY DEF TreeInv, TreeType, SessionId
                <4>3. o # p
                    BY <4>1, <4>2 DEF NoHome
                <4> QED BY <4>1, <4>3 DEF TreeInv, TreeType
            <3> QED BY <2>2, <3>1, <3>2 DEF TreeInv, TreeType
        <2>3. ASSUME NEW x \in sessions, nextWindow'[x] > 1
              PROVE  windows'[x] # {}
            BY <1>1, <2>3 DEF TreeInv, TreeType, HuskInv
        <2> QED BY <2>1, <2>2, <2>3 DEF HuskInv
    <1>5. OneSession' /\ EmptyIsTold'
        BY DEF TreeInv, OneSession, EmptyIsTold
    <1> QED BY <1>2, <1>3, <1>4, <1>5 DEF TreeInv

\* Removing a window with all its panes, and its session when it was the last
\* window, leaves no husk; the end of the last session is told.
LEMMA RemoveKeepsTree ==
    ASSUME TreeInv, shutdown \in BOOLEAN, NEW s \in sessions, NEW w \in windows[s],
           home' = [p \in PaneId |-> IF home[p] = [s |-> s, w |-> w] THEN NoHome ELSE home[p]],
           windows' = [windows EXCEPT ![s] = @ \ {w}],
           remove_empty(s, w),
           UNCHANGED <<nextSession, nextWindow>>
    PROVE  TreeInv'
    <1>1. s \in SessionId /\ sessions = {s}
        BY DEF TreeInv, TreeType, OneSession
    <1>2. sessions' = IF windows[s] = {w} THEN {} ELSE {s}
        BY <1>1 DEF remove_empty
    <1>3. windows'[s] = windows[s] \ {w} /\ \A x \in SessionId : x # s => windows'[x] = windows[x]
        BY <1>1 DEF TreeInv, TreeType
    <1>4. TreeType'
        <2>1. windows' \in [SessionId -> SUBSET Nat]
            BY DEF TreeInv, TreeType
        <2>2. NoHome \in [s : SessionId \cup {0}, w : Nat]
            BY DEF NoHome
        <2>3. home' \in [PaneId -> [s : SessionId \cup {0}, w : Nat]]
            BY <2>2 DEF TreeInv, TreeType
        <2> QED BY <1>1, <1>2, <2>1, <2>3 DEF TreeInv, TreeType
    <1>5. NumberInv'
        BY <1>1, <1>2, <1>3 DEF TreeInv, NumberInv
    <1>6. HuskInv'
        <2>1. ASSUME NEW o \in PaneId, home'[o] # NoHome
              PROVE  home'[o].s \in sessions' /\ home'[o].w \in windows'[home'[o].s]
            <3>1. home'[o] = home[o] /\ home[o] # NoHome /\ home[o] # [s |-> s, w |-> w]
                BY <2>1
            <3>2. home[o].s = s /\ home[o].w \in windows[s]
                BY <1>1, <3>1 DEF TreeInv, HuskInv
            <3>3. home[o].w # w
                BY <3>1, <3>2 DEF TreeInv, TreeType
            <3> QED BY <1>2, <1>3, <3>1, <3>2, <3>3
        <2>2. ASSUME NEW x \in sessions', NEW v \in windows'[x]
              PROVE  \E o \in PaneId : home'[o] = [s |-> x, w |-> v]
            <3>1. x = s /\ v \in windows[s] /\ v # w
                BY <1>2, <1>3, <2>2
            <3>2. PICK o \in PaneId : home[o] = [s |-> s, w |-> v]
                BY <1>1, <3>1 DEF TreeInv, HuskInv
            <3>3. home[o] # [s |-> s, w |-> w]
                BY <3>1, <3>2
            <3>4. home'[o] = home[o]
                BY <3>3
            <3> QED BY <3>1, <3>2, <3>4
        <2>3. \A x \in sessions' : nextWindow'[x] > 1 => windows'[x] # {}
            BY <1>2, <1>3
        <2> QED BY <2>1, <2>2, <2>3 DEF HuskInv
    <1>7. OneSession' /\ EmptyIsTold'
        BY <1>2 DEF OneSession, EmptyIsTold, remove_empty
    <1> QED BY <1>4, <1>5, <1>6, <1>7 DEF TreeInv

-----------------------------------------------------------------------------
(* Panes and clients *)

\* A step in which panes leave the tree only if their terminal is closed keeps
\* the fresh panes fresh and orphans no shell.
LEMMA ClosingKeepsPanes ==
    ASSUME FreshInv, NoOrphan, closed \subseteq closed',
           UNCHANGED <<nextPane, program, client>>,
           \A p \in PaneId : home'[p] = home[p] \/ (home'[p] = NoHome /\ p \in closed')
    PROVE  FreshInv' /\ NoOrphan'
    <1>1. FreshInv'
        BY DEF FreshInv, Creating
    <1>2. NoOrphan'
        BY DEF NoOrphan
    <1> QED BY <1>1, <1>2

\* handle_destroy_pane: what leaves the tree is closed, and a window goes with
\* its last pane.
LEMMA DestroyPaneKeeps ==
    ASSUME IInv, NEW p \in PaneId, handle_destroy_pane(p), UNCHANGED <<idVars, program, client>>
    PROVE  TreeInv' /\ FreshInv' /\ NoOrphan' /\ closed' \subseteq PaneId /\ shutdown' \in BOOLEAN
    <1> USE DEF IInv
    <1>1. CASE home[p] = NoHome
        <2>1. UNCHANGED <<treeVars, closed, shutdown>>
            BY <1>1 DEF handle_destroy_pane
        <2>2. TreeInv'
            BY <2>1, TreeStays DEF treeVars, idVars
        <2>3. FreshInv' /\ NoOrphan'
            BY <2>1, ClosingKeepsPanes DEF treeVars, idVars
        <2> QED BY <2>1, <2>2, <2>3 DEF TaskType
    <1>2. CASE home[p] # NoHome
        <2> DEFINE s == home[p].s
                   w == home[p].w
        <2>1. /\ home' = [home EXCEPT ![p] = NoHome]
              /\ closed' = closed \cup {p}
              /\ IF InWindow(s, w) = {p}
                 THEN remove_window(s, w) /\ remove_empty(s, w)
                 ELSE UNCHANGED <<sessions, windows, order, active, shutdown>>
            BY <1>2 DEF handle_destroy_pane
        <2>2. s \in sessions /\ w \in windows[s] /\ s # 0 /\ home[p] = [s |-> s, w |-> w]
            BY <1>2 DEF TreeInv, TreeType, HuskInv, SessionId
        <2>3. FreshInv' /\ NoOrphan'
            <3>1. \A o \in PaneId : home'[o] = home[o] \/ (home'[o] = NoHome /\ o \in closed')
                BY <2>1 DEF TreeInv, TreeType
            <3> QED BY <2>1, <3>1, ClosingKeepsPanes DEF idVars
        <2>4. closed' \subseteq PaneId
            BY <2>1 DEF TaskType
        <2>5. CASE InWindow(s, w) = {p}
            <3>1. home' = [o \in PaneId |-> IF home[o] = [s |-> s, w |-> w] THEN NoHome ELSE home[o]]
                <4>1. \A o \in PaneId : home[o] = [s |-> s, w |-> w] <=> o = p
                    BY <2>5 DEF InWindow
                <4> QED BY <2>1, <4>1 DEF TreeInv, TreeType
            <3>2. windows' = [windows EXCEPT ![s] = @ \ {w}]
                BY <2>1, <2>5 DEF remove_window
            <3>3. remove_empty(s, w)
                BY <2>1, <2>5
            <3>4. TreeInv'
                <4> HIDE DEF s, w
                <4> QED BY <2>2, <3>1, <3>2, <3>3, RemoveKeepsTree DEF TaskType, idVars
            <3>5. shutdown' \in BOOLEAN
                BY <3>3 DEF remove_empty, TaskType
            <3> QED BY <2>3, <2>4, <3>4, <3>5
        <2>6. CASE InWindow(s, w) # {p}
            <3>1. UNCHANGED <<sessions, windows, shutdown, nextSession, nextWindow>>
                BY <2>1, <2>6 DEF idVars
            <3>2. PICK q \in PaneId : q # p /\ home[q] = [s |-> s, w |-> w]
                BY <2>2, <2>6 DEF InWindow
            <3>3. TreeType'
                <4>1. NoHome \in [s : SessionId \cup {0}, w : Nat]
                    BY DEF NoHome
                <4> QED BY <2>1, <3>1, <4>1 DEF TreeInv, TreeType
            <3>4. HuskInv'
                <4>1. ASSUME NEW o \in PaneId, home'[o] # NoHome
                      PROVE  home[o].s \in sessions /\ home[o].w \in windows[home[o].s]
                             /\ home'[o] = home[o]
                    BY <2>1, <4>1 DEF TreeInv, TreeType, HuskInv
                <4>2. ASSUME NEW x \in sessions, NEW v \in windows[x]
                      PROVE  \E o \in PaneId : home'[o] = [s |-> x, w |-> v]
                    <5>1. PICK o \in PaneId : home[o] = [s |-> x, w |-> v]
                        BY DEF TreeInv, HuskInv
                    <5>2. CASE o # p
                        BY <2>1, <5>1, <5>2 DEF TreeInv, TreeType
                    <5>3. CASE o = p
                        <6>1. home'[q] = home[q] /\ home[q] = home[o]
                            BY <2>1, <2>2, <3>2, <5>3 DEF TreeInv, TreeType
                        <6> QED BY <3>2, <5>1, <6>1
                    <5> QED BY <5>2, <5>3
                <4> QED BY <3>1, <4>1, <4>2 DEF TreeInv, HuskInv
            <3>5. NumberInv' /\ OneSession' /\ EmptyIsTold'
                BY <3>1 DEF TreeInv, NumberInv, OneSession, EmptyIsTold
            <3>6. TreeInv'
                BY <3>3, <3>4, <3>5 DEF TreeInv
            <3> QED BY <2>3, <2>4, <3>1, <3>6 DEF TaskType
        <2> QED BY <2>5, <2>6
    <1> QED BY <1>1, <1>2

\* handle_destroy_window: the window goes with all its panes.
LEMMA DestroyWindowKeeps ==
    ASSUME IInv, NEW w \in PaneId, handle_destroy_window(w), UNCHANGED <<idVars, program, client>>
    PROVE  TreeInv' /\ FreshInv' /\ NoOrphan' /\ closed' \subseteq PaneId /\ shutdown' \in BOOLEAN
    <1> USE DEF IInv
    <1>1. CASE \A s \in sessions : w \notin windows[s]
        <2>1. UNCHANGED <<treeVars, closed, shutdown>>
            BY <1>1 DEF handle_destroy_window
        <2>2. TreeInv'
            BY <2>1, TreeStays DEF treeVars, idVars
        <2>3. FreshInv' /\ NoOrphan'
            BY <2>1, ClosingKeepsPanes DEF treeVars, idVars
        <2> QED BY <2>1, <2>2, <2>3 DEF TaskType
    <1>2. CASE ~ \A s \in sessions : w \notin windows[s]
        <2>1. PICK s \in sessions :
                 /\ w \in windows[s]
                 /\ home' = [p \in PaneId |-> IF p \in InWindow(s, w) THEN NoHome ELSE home[p]]
                 /\ closed' = closed \cup InWindow(s, w)
                 /\ remove_window(s, w)
                 /\ remove_empty(s, w)
            BY <1>2 DEF handle_destroy_window
        <2>2. home' = [p \in PaneId |-> IF home[p] = [s |-> s, w |-> w] THEN NoHome ELSE home[p]]
            BY <2>1 DEF InWindow
        <2>3. windows' = [windows EXCEPT ![s] = @ \ {w}]
            BY <2>1 DEF remove_window
        <2>4. TreeInv'
            BY <2>1, <2>2, <2>3, RemoveKeepsTree DEF TaskType, idVars
        <2>5. FreshInv' /\ NoOrphan'
            <3>1. \A o \in PaneId : home'[o] = home[o] \/ (home'[o] = NoHome /\ o \in closed')
                BY <2>1
            <3> QED BY <2>1, <3>1, ClosingKeepsPanes DEF idVars
        <2>6. closed' \subseteq PaneId /\ shutdown' \in BOOLEAN
            BY <2>1 DEF InWindow, remove_empty, TaskType
        <2> QED BY <2>4, <2>5, <2>6
    <1> QED BY <1>1, <1>2

\* A client that starts no window and gives up no shell changes nothing for the
\* panes.
LEMMA ClientMoves ==
    ASSUME TaskType, FreshInv, NoOrphan, NEW c \in Client, NEW r \in ClientState,
           client' = [client EXCEPT ![c] = r], r.pc \notin {"spawn", "register"},
           client[c].pc # "register", UNCHANGED <<home, program, nextPane, closed>>
    PROVE  client' \in [Client -> ClientState] /\ FreshInv' /\ NoOrphan'
    <1>1. client' \in [Client -> ClientState]
        BY DEF TaskType
    <1>2. client'[c] = r /\ \A d \in Client \ {c} : client'[d] = client[d]
        BY DEF TaskType
    <1>3. \A d \in Client : Creating(d)' => d # c /\ Creating(d) /\ client'[d] = client[d]
        BY <1>2 DEF Creating
    <1>4. FreshInv'
        BY <1>3 DEF FreshInv
    <1>5. NoOrphan'
        <2>1. \A d \in Client : client[d].pc = "register" => client'[d] = client[d]
            BY <1>2
        <2> QED BY <2>1 DEF NoOrphan
    <1> QED BY <1>1, <1>4, <1>5

\* Where Done leaves a client.
LEMMA DoneMoves ==
    ASSUME TaskType, NEW c \in Client, Done(c)
    PROVE  \E r \in ClientState : client' = [client EXCEPT ![c] = r] /\ r.pc \in {"off", "ready"}
    <1> DEFINE r == IF c \in Cli THEN Off ELSE [client[c] EXCEPT !.pc = "ready", !.p = 0]
    <1>1. client[c] \in ClientState
        BY DEF TaskType
    <1>2. [client[c] EXCEPT !.pc = "ready", !.p = 0] \in ClientState
        BY <1>1 DEF ClientState
    <1>3. Off \in ClientState
        BY DEF Off, ClientState
    <1>4. r \in ClientState /\ r.pc \in {"off", "ready"}
        BY <1>1, <1>2, <1>3 DEF Off, ClientState
    <1>5. client' = [client EXCEPT ![c] = r]
        BY DEF Done, TaskType
    <1> QED BY <1>4, <1>5

-----------------------------------------------------------------------------
(* The steps of a client *)

\* A step of a client that leaves tree, panes and programs alone.
LEMMA ClientStep ==
    ASSUME IInv, NEW c \in Client, NEW r \in ClientState,
           client' = [client EXCEPT ![c] = r], r.pc \notin {"spawn", "register"},
           client[c].pc # "register",
           UNCHANGED <<sessions, windows, home, idVars, paneVars, notices>>,
           shutdown => shutdown', shutdown' \in BOOLEAN,
           chunks' \in [Client -> SUBSET PaneId], \A d \in Client : chunks'[d] \subseteq chunks[d]
    PROVE  IInv'
    <1> USE DEF IInv
    <1>1. TreeInv'
        BY TreeStays DEF idVars
    <1>2. client' \in [Client -> ClientState] /\ FreshInv' /\ NoOrphan'
        BY ClientMoves DEF idVars, paneVars
    <1>3. TaskType'
        BY <1>2 DEF TaskType, idVars, paneVars
    <1>4. EndInv'
        BY DEF EndInv, paneVars
    <1> QED BY <1>1, <1>2, <1>3, <1>4

\* Accept: the connection's task starts.
LEMMA AcceptKeeps == ASSUME IInv, NEW c \in Client, Accept(c) PROVE IInv'
    <1> DEFINE r == [client[c] EXCEPT !.pc = "hello"]
    <1>1. client[c] \in ClientState
        BY DEF IInv, TaskType
    <1>2. r \in ClientState /\ r.pc = "hello" /\ client' = [client EXCEPT ![c] = r]
        BY <1>1 DEF Accept, Step, ClientState
    <1>3. client[c].pc = "off"
        BY DEF Accept
    <1> HIDE DEF r
    <1> QED BY <1>2, <1>3, ClientStep DEF Accept, treeVars, exitVars, IInv, TaskType

\* Welcome: an empty tree gets the default session.
LEMMA WelcomeKeeps ==
    ASSUME SessionTreeAssumption, IInv, NEW c \in Client, Welcome(c)
    PROVE  IInv'
    <1> USE DEF IInv
    <1>1. PICK s \in sessions' :
             client' = [client EXCEPT ![c].pc = "pick",
                                      ![c].list = IF c \in Cli THEN windows[s] ELSE {}]
        BY DEF Welcome
    <1>2. /\ client[c].pc = "hello"
          /\ UNCHANGED <<windows, home, nextPane, nextWindow, paneVars, exitVars, shutdown>>
          /\ \/ sessions = {} /\ create_session
             \/ UNCHANGED <<sessions, nextSession>>
        BY DEF Welcome, At
    <1>3. TreeInv'
        <2>1. CASE sessions = {} /\ create_session
            BY <1>2, <2>1, CreateKeepsTree
        <2>2. CASE UNCHANGED <<sessions, nextSession>>
            BY <1>2, <2>2, TreeStays
        <2> QED BY <1>2, <2>1, <2>2
    <1> DEFINE l == IF c \in Cli THEN windows[s] ELSE {}
               r == [client[c] EXCEPT !.pc = "pick", !.list = l]
    <1>4. r \in ClientState /\ r.pc = "pick" /\ client' = [client EXCEPT ![c] = r]
        <2>1. client[c] \in ClientState
            BY DEF TaskType
        <2>2. s \in SessionId
            BY <1>3 DEF TreeInv, TreeType
        <2>3. l \in SUBSET Nat
            BY <2>2 DEF TreeInv, TreeType
        <2> HIDE DEF l
        <2>4. r \in ClientState /\ r.pc = "pick"
            BY <2>1, <2>3 DEF ClientState
        <2>5. client' = [client EXCEPT ![c] = r]
            BY <1>1, <2>1 DEF l, TaskType
        <2> QED BY <2>4, <2>5
    <1> HIDE DEF r
    <1>5. client' \in [Client -> ClientState] /\ FreshInv' /\ NoOrphan'
        BY <1>2, <1>4, ClientMoves DEF paneVars
    <1>6. TaskType' /\ EndInv'
        BY <1>2, <1>5 DEF TaskType, EndInv, paneVars, exitVars
    <1> QED BY <1>3, <1>5, <1>6

\* PickSession and Attach: the connection names its session.
LEMMA PickKeeps ==
    ASSUME SessionTreeAssumption, IInv, NEW c \in Client,
           PickSession(c) \/ \E s \in SessionId : Attach(c, s)
    PROVE  IInv'
    <1>1. client[c] \in ClientState
        BY DEF IInv, TaskType
    <1>2. \E s \in Nat : client' = [client EXCEPT ![c] = [client[c] EXCEPT !.pc = "ready", !.s = s]]
        <2>1. CASE PickSession(c)
            <3>1. PICK s \in IF sessions = {} THEN {1} ELSE sessions :
                     client' = [client EXCEPT ![c].pc = "ready", ![c].s = s]
                BY <2>1 DEF PickSession
            <3>2. s \in Nat
                BY <3>1 DEF IInv, TreeInv, TreeType, SessionId
            <3> QED BY <3>1, <3>2 DEF IInv, TaskType
        <2>2. CASE \E s \in SessionId : Attach(c, s)
            <3>1. PICK s \in SessionId : Attach(c, s)
                BY <2>2
            <3>2. s \in Nat /\ client[c].pc = "ready"
                BY <3>1 DEF SessionId, Attach, At
            <3>3. [client[c] EXCEPT !.s = s] = [client[c] EXCEPT !.pc = "ready", !.s = s]
                BY <1>1, <3>2 DEF ClientState
            <3>4. client' = [client EXCEPT ![c] = [client[c] EXCEPT !.s = s]]
                BY <3>1 DEF Attach, IInv, TaskType
            <3> QED BY <3>2, <3>3, <3>4
        <2> QED BY <2>1, <2>2
    <1>3. PICK s \in Nat :
             client' = [client EXCEPT ![c] = [client[c] EXCEPT !.pc = "ready", !.s = s]]
        BY <1>2
    <1> DEFINE r == [client[c] EXCEPT !.pc = "ready", !.s = s]
    <1>4. r \in ClientState /\ r.pc = "ready" /\ client' = [client EXCEPT ![c] = r]
        BY <1>1, <1>3 DEF ClientState
    <1>5. /\ client[c].pc # "register"
          /\ UNCHANGED <<treeVars, idVars, paneVars, exitVars, shutdown>>
        BY DEF PickSession, Attach, At
    <1> HIDE DEF r
    <1> QED BY <1>4, <1>5, ClientStep DEF treeVars, exitVars, IInv, TaskType

\* Leave: the channel of the client goes with its exit chunks.
LEMMA LeaveKeeps == ASSUME IInv, NEW c \in Client, Leave(c) PROVE IInv'
    <1>1. Off \in ClientState /\ Off.pc = "off"
        BY DEF Off, ClientState
    <1>2. /\ client[c].pc # "register" /\ client' = [client EXCEPT ![c] = Off]
          /\ chunks' = [chunks EXCEPT ![c] = {}]
          /\ UNCHANGED <<treeVars, idVars, paneVars, notices, shutdown>>
        BY DEF Leave, At
    <1>3. chunks' \in [Client -> SUBSET PaneId] /\ \A d \in Client : chunks'[d] \subseteq chunks[d]
        BY <1>2 DEF IInv, TaskType
    <1> QED BY <1>1, <1>2, <1>3, ClientStep DEF treeVars, IInv, TaskType

\* Messages that end a request and change neither tree nor panes: a failed
\* spawn, mux switch-window, mux kill.
LEMMA DoneKeeps ==
    ASSUME IInv, NEW c \in Client,
           SpawnFails(c) \/ CliShutdown(c) \/ \E id \in PaneId : CliSwitchWindow(c, id)
    PROVE  IInv'
    <1>1. /\ Done(c) /\ client[c].pc # "register"
          /\ UNCHANGED <<sessions, windows, home, idVars, paneVars, exitVars>>
        BY DEF SpawnFails, CliShutdown, CliSwitchWindow, At, treeVars
    <1>2. PICK r \in ClientState : client' = [client EXCEPT ![c] = r] /\ r.pc \in {"off", "ready"}
        BY <1>1, DoneMoves DEF IInv
    <1>3. (shutdown => shutdown') /\ shutdown' \in BOOLEAN
        <2>1. UNCHANGED shutdown \/ shutdown' = TRUE
            BY DEF SpawnFails, CliShutdown, CliSwitchWindow
        <2> QED BY <2>1 DEF IInv, TaskType
    <1> QED BY <1>1, <1>2, <1>3, ClientStep DEF exitVars, IInv, TaskType

\* handle_create_window, first section: the pane id was never given out.
LEMMA CreateWindowKeeps == ASSUME SessionTreeAssumption, IInv, NEW c \in Client, CreateWindow(c) PROVE IInv'
    <1> USE DEF IInv
    <1> DEFINE r == [client[c] EXCEPT !.pc = "spawn", !.p = nextPane]
    <1>1. client[c] \in ClientState
        BY DEF TaskType
    <1>2. /\ nextPane \in PaneId /\ nextPane' = nextPane + 1
          /\ client[c].pc = "ready" /\ client' = [client EXCEPT ![c] = r]
          /\ UNCHANGED <<treeVars, nextSession, nextWindow, paneVars, exitVars, shutdown>>
        <2>1. nextPane \in PaneId
            BY DEF CreateWindow, alloc_pane_id, TaskType, PaneId, SessionTreeAssumption
        <2>2. client' = [client EXCEPT ![c] = r]
            BY DEF CreateWindow, alloc_pane_id, TaskType
        <2> QED BY <2>1, <2>2 DEF CreateWindow, alloc_pane_id, At
    <1>3. r \in ClientState /\ r.pc = "spawn" /\ r.p = nextPane
        BY <1>1, <1>2 DEF ClientState, TaskType
    <1>4. client'[c] = r /\ \A d \in Client \ {c} : client'[d] = client[d]
        BY <1>2 DEF TaskType
    <1> HIDE DEF r
    <1>5. TreeInv'
        BY <1>2, TreeStays DEF treeVars
    <1>6. TaskType'
        <2>1. client' \in [Client -> ClientState]
            BY <1>2, <1>3 DEF TaskType
        <2> QED BY <1>2, <2>1 DEF TaskType, paneVars, exitVars
    <1>7. FreshInv'
        <2>1. home[nextPane] = NoHome /\ program[nextPane] = "none"
            BY <1>2 DEF FreshInv, TaskType
        <2>2. ASSUME NEW d \in Client, Creating(d)'
              PROVE  /\ client'[d].p \in PaneId /\ client'[d].p < nextPane'
                     /\ home'[client'[d].p] = NoHome
                     /\ client'[d].pc = "spawn" => program'[client'[d].p] = "none"
            <3>1. CASE d = c
                BY <1>2, <1>3, <1>4, <2>1, <3>1 DEF treeVars, paneVars, PaneId
            <3>2. CASE d # c
                BY <1>2, <1>4, <2>2, <3>2 DEF FreshInv, Creating, treeVars, paneVars, PaneId
            <3> QED BY <3>1, <3>2
        <2>3. ASSUME NEW d \in Client, NEW e \in Client, d # e, Creating(d)', Creating(e)'
              PROVE  client'[d].p # client'[e].p
            BY <1>2, <1>3, <1>4, <2>3 DEF FreshInv, Creating, PaneId
        <2>4. \A p \in PaneId : p >= nextPane' => home'[p] = NoHome /\ program'[p] = "none"
            BY <1>2 DEF FreshInv, treeVars, paneVars, PaneId
        <2> QED BY <2>2, <2>3, <2>4 DEF FreshInv
    <1>8. EndInv'
        BY <1>2 DEF EndInv, paneVars, exitVars
    <1>9. NoOrphan'
        <2>1. \A d \in Client : client[d].pc = "register" => client'[d] = client[d]
            BY <1>2, <1>4
        <2> QED BY <1>2, <2>1 DEF NoOrphan, treeVars, paneVars
    <1> QED BY <1>5, <1>6, <1>7, <1>8, <1>9

\* Second section: the program starts, and its client is about to register it.
LEMMA SpawnKeeps == ASSUME IInv, NEW c \in Client, SpawnPty(c) PROVE IInv'
    <1> USE DEF IInv
    <1> DEFINE r == [client[c] EXCEPT !.pc = "register"]
               p == client[c].p
    <1>1. client[c] \in ClientState
        BY DEF TaskType
    <1>2. /\ client[c].pc = "spawn" /\ client' = [client EXCEPT ![c] = r]
          /\ program' = [program EXCEPT ![p] = "running"]
          /\ UNCHANGED <<treeVars, idVars, closed, reader, exitVars, shutdown>>
        BY DEF SpawnPty, Step, At
    <1>3. r \in ClientState /\ r.pc = "register" /\ r.p = p
        BY <1>1 DEF ClientState
    <1>4. client'[c] = r /\ \A d \in Client \ {c} : client'[d] = client[d]
        BY <1>2 DEF TaskType
    <1>5. p \in PaneId /\ p < nextPane /\ home[p] = NoHome /\ program[p] = "none"
        BY <1>2 DEF FreshInv, Creating
    <1>6. program'[p] = "running" /\ \A q \in PaneId \ {p} : program'[q] = program[q]
        BY <1>2, <1>5 DEF TaskType
    <1> HIDE DEF r, p
    <1>7. TreeInv'
        BY <1>2, TreeStays DEF treeVars, idVars
    <1>8. TaskType'
        <2>1. client' \in [Client -> ClientState]
            BY <1>2, <1>3 DEF TaskType
        <2>2. program' \in [PaneId -> {"none", "running", "ended"}]
            BY <1>2 DEF TaskType
        <2> QED BY <1>2, <2>1, <2>2 DEF TaskType, idVars, exitVars
    <1>9. FreshInv'
        <2>1. \A d \in Client : Creating(d)' => Creating(d) /\ client'[d].p = client[d].p
            BY <1>2, <1>3, <1>4 DEF Creating, p
        <2>2. \A d \in Client \ {c} : Creating(d)' => client'[d].p # p
            BY <1>2, <1>4 DEF FreshInv, Creating, p
        <2>3. ASSUME NEW d \in Client, Creating(d)'
              PROVE  /\ client'[d].p \in PaneId /\ client'[d].p < nextPane'
                     /\ home'[client'[d].p] = NoHome
                     /\ client'[d].pc = "spawn" => program'[client'[d].p] = "none"
            <3>1. CASE d = c
                BY <1>2, <1>3, <1>4, <1>5, <3>1 DEF treeVars, idVars
            <3>2. CASE d # c
                BY <1>2, <1>4, <1>6, <2>1, <2>2, <2>3, <3>2 DEF FreshInv, treeVars, idVars
            <3> QED BY <3>1, <3>2
        <2>4. \A q \in PaneId : q >= nextPane' => home'[q] = NoHome /\ program'[q] = "none"
            BY <1>2, <1>5, <1>6 DEF FreshInv, TaskType, treeVars, idVars, PaneId
        <2> QED BY <2>1, <2>3, <2>4 DEF FreshInv
    <1>10. EndInv'
        <2>1. \A q \in PaneId : program[q] = "ended" => program'[q] = "ended"
            BY <1>5, <1>6
        <2>2. \A i \in DOMAIN notices : notices[i] \in PaneId
            BY DEF TaskType
        <2> QED BY <1>2, <2>1, <2>2 DEF EndInv, exitVars, TaskType
    <1>11. NoOrphan'
        <2>1. ASSUME NEW q \in PaneId, q # p, program'[q] = "running"
              PROVE  \/ home'[q] # NoHome
                     \/ q \in closed'
                     \/ \E d \in Client : client'[d].pc = "register" /\ client'[d].p = q
            BY <1>2, <1>4, <1>6, <2>1 DEF NoOrphan, treeVars
        <2>2. client'[c].pc = "register" /\ client'[c].p = p
            BY <1>3, <1>4
        <2> QED BY <2>1, <2>2 DEF NoOrphan
    <1> QED BY <1>7, <1>8, <1>9, <1>10, <1>11

\* What the end of a request leaves of the fresh panes of the other clients.
LEMMA RegisteredMoves ==
    ASSUME IInv, NEW c \in Client, client[c].pc = "register", Done(c)
    PROVE  /\ client' \in [Client -> ClientState]
           /\ \A d \in Client : Creating(d)' => d # c
           /\ \A d \in Client \ {c} : client'[d] = client[d]
           /\ client[c].p \in PaneId /\ client[c].p < nextPane /\ home[client[c].p] = NoHome
           /\ \A d \in Client \ {c} : Creating(d) => client[d].p # client[c].p
    <1> USE DEF IInv
    <1>1. PICK r \in ClientState : client' = [client EXCEPT ![c] = r] /\ r.pc \in {"off", "ready"}
        BY DoneMoves
    <1>2. /\ client' \in [Client -> ClientState]
          /\ client'[c] = r /\ \A d \in Client \ {c} : client'[d] = client[d]
        BY <1>1 DEF TaskType
    <1>3. Creating(c)
        BY DEF Creating
    <1> QED BY <1>1, <1>2, <1>3 DEF FreshInv, Creating

\* Third section, create_window and register_pane_and_start_reader.
LEMMA RegisterKeeps == ASSUME IInv, NEW c \in Client, RegisterPane(c) PROVE IInv'
    <1> USE DEF IInv
    <1> DEFINE s == client[c].s
               p == client[c].p
    <1>1. /\ s \in sessions /\ client[c].pc = "register" /\ Done(c)
          /\ nextWindow' = [nextWindow EXCEPT ![s] = nextWindow[s] + 1]
          /\ windows' = [windows EXCEPT ![s] = @ \cup {nextWindow[s]}]
          /\ home' = [home EXCEPT ![p] = [s |-> s, w |-> nextWindow[s]]]
          /\ reader' = [reader EXCEPT ![p] = "reading"]
          /\ UNCHANGED <<sessions, nextSession, nextPane, program, closed, exitVars, shutdown>>
        BY DEF RegisterPane, add_window, At
    <1>2. /\ client' \in [Client -> ClientState]
          /\ \A d \in Client : Creating(d)' => d # c
          /\ \A d \in Client \ {c} : client'[d] = client[d]
          /\ p \in PaneId /\ p < nextPane /\ home[p] = NoHome
          /\ \A d \in Client \ {c} : Creating(d) => client[d].p # p
        BY <1>1, RegisteredMoves
    <1> HIDE DEF s
    <1>3. s \in SessionId /\ s # 0
        <2>1. s \in SessionId
            BY <1>1 DEF TreeInv, TreeType
        <2> QED BY <2>1 DEF SessionId
    <1>4. home'[p] # NoHome /\ \A q \in PaneId \ {p} : home'[q] = home[q]
        BY <1>1, <1>2, <1>3 DEF TreeInv, TreeType, NoHome
    <1>5. \A q \in PaneId : reader'[q] = "notify" => reader[q] = "notify"
        BY <1>1, <1>2 DEF TaskType
    <1>6. reader' \in [PaneId -> {"none", "reading", "notify", "done"}]
        BY <1>1, <1>2 DEF TaskType
    <1> HIDE DEF p
    <1>7. TreeInv'
        BY <1>1, <1>2, RegisterKeepsTree
    <1>8. TaskType'
        BY <1>1, <1>2, <1>6 DEF TaskType, exitVars
    <1>9. FreshInv'
        <2>1. ASSUME NEW d \in Client, Creating(d)'
              PROVE  d # c /\ client'[d] = client[d] /\ Creating(d) /\ client[d].p # p
            BY <1>2, <2>1 DEF Creating
        <2>2. \A q \in PaneId : q >= nextPane => q # p
            BY <1>2 DEF TaskType, PaneId
        <2> QED BY <1>1, <1>4, <2>1, <2>2 DEF FreshInv
    <1>10. EndInv'
        BY <1>1, <1>5 DEF EndInv, exitVars
    <1>11. NoOrphan'
        <2>1. ASSUME NEW q \in PaneId, q # p, program[q] = "running"
              PROVE  \/ home'[q] # NoHome
                     \/ q \in closed
                     \/ \E d \in Client : client'[d].pc = "register" /\ client'[d].p = q
            <3>1. CASE home[q] # NoHome \/ q \in closed
                BY <1>4, <2>1, <3>1
            <3>2. CASE \E d \in Client : client[d].pc = "register" /\ client[d].p = q
                BY <1>2, <2>1, <3>2 DEF p
            <3> QED BY <2>1, <3>1, <3>2 DEF NoOrphan
        <2> QED BY <1>1, <1>4, <2>1 DEF NoOrphan
    <1> QED BY <1>7, <1>8, <1>9, <1>10, <1>11

\* Third section without a session: the program's terminal is closed.
LEMMA RegisterFailsKeeps == ASSUME IInv, NEW c \in Client, RegisterFails(c) PROVE IInv'
    <1> USE DEF IInv
    <1> DEFINE p == client[c].p
    <1>1. /\ client[c].pc = "register" /\ Done(c) /\ closed' = closed \cup {p}
          /\ UNCHANGED <<treeVars, idVars, program, reader, exitVars, shutdown>>
        BY DEF RegisterFails, At
    <1>2. /\ client' \in [Client -> ClientState]
          /\ \A d \in Client : Creating(d)' => d # c
          /\ \A d \in Client \ {c} : client'[d] = client[d]
          /\ p \in PaneId
        BY <1>1, RegisteredMoves
    <1>3. TreeInv'
        BY <1>1, TreeStays DEF treeVars, idVars
    <1>4. TaskType' /\ EndInv'
        BY <1>1, <1>2 DEF TaskType, EndInv, exitVars, idVars
    <1>5. FreshInv'
        <2>1. \A d \in Client : Creating(d)' => client'[d] = client[d] /\ Creating(d)
            BY <1>2 DEF Creating
        <2> QED BY <1>1, <2>1 DEF FreshInv, treeVars, idVars
    <1>6. NoOrphan'
        <2>1. \A d \in Client : client[d].pc = "register" => client'[d] = client[d] \/ client[d].p = p
            BY <1>2
        <2> QED BY <1>1, <2>1 DEF NoOrphan, treeVars
    <1> QED BY <1>3, <1>4, <1>5, <1>6

\* DestroyPane, DestroyWindow, and the reaping of the exit chunks and notices.
LEMMA DestroyKeeps ==
    ASSUME IInv,
           \/ \E c \in Client, p \in PaneId : DestroyPane(c, p) \/ ConnectionReaps(c, p)
           \/ \E c \in Client, w \in PaneId : DestroyWindow(c, w)
           \/ run_pane_exit_task
    PROVE  IInv'
    <1> USE DEF IInv
    <1>1. /\ UNCHANGED <<idVars, program, reader, client>>
          /\ notices' \in {notices, Tail(notices)} /\ (notices' # notices => notices # <<>>)
          /\ UNCHANGED chunks \/ \E c \in Client, p \in PaneId : chunks' = [chunks EXCEPT ![c] = @ \ {p}]
        BY DEF DestroyPane, ConnectionReaps, DestroyWindow, run_pane_exit_task, exitVars
    <1>2. TreeInv' /\ FreshInv' /\ NoOrphan' /\ closed' \subseteq PaneId /\ shutdown' \in BOOLEAN
        <2>1. CASE \E c \in Client, p \in PaneId : DestroyPane(c, p) \/ ConnectionReaps(c, p)
            BY <1>1, <2>1, DestroyPaneKeeps DEF DestroyPane, ConnectionReaps
        <2>2. CASE \E c \in Client, w \in PaneId : DestroyWindow(c, w)
            BY <1>1, <2>2, DestroyWindowKeeps DEF DestroyWindow
        <2>3. CASE run_pane_exit_task
            <3>1. Head(notices) \in PaneId /\ handle_destroy_pane(Head(notices))
                BY <2>3 DEF run_pane_exit_task, TaskType
            <3> QED BY <1>1, <3>1, DestroyPaneKeeps
        <2> QED BY <2>1, <2>2, <2>3
    <1>3. /\ notices' \in Seq(PaneId)
          /\ \A i \in DOMAIN notices' : \E j \in DOMAIN notices : notices'[i] = notices[j]
        <2>1. CASE notices' = notices
            BY <2>1 DEF TaskType
        <2>2. CASE notices' = Tail(notices) /\ notices # <<>>
            BY <2>2 DEF TaskType
        <2> QED BY <1>1, <2>1, <2>2
    <1>4. chunks' \in [Client -> SUBSET PaneId] /\ \A d \in Client : chunks'[d] \subseteq chunks[d]
        BY <1>1 DEF TaskType
    <1>5. TaskType'
        BY <1>1, <1>2, <1>3, <1>4 DEF TaskType, idVars
    <1>6. EndInv'
        BY <1>1, <1>3, <1>4 DEF EndInv
    <1> QED BY <1>2, <1>5, <1>6

\* Switching and moving windows touches only the active window and the order.
LEMMA OrderKeeps ==
    ASSUME IInv, UNCHANGED <<sessions, windows, home, idVars, paneVars, exitVars, shutdown, client>>
    PROVE  IInv'
    <1> USE DEF IInv
    <1>1. TreeInv'
        BY TreeStays DEF idVars
    <1>2. FreshInv' /\ NoOrphan'
        BY DEF FreshInv, Creating, NoOrphan, idVars, paneVars
    <1>3. TaskType' /\ EndInv'
        BY DEF TaskType, EndInv, idVars, paneVars, exitVars
    <1> QED BY <1>1, <1>2, <1>3

-----------------------------------------------------------------------------
(* Programs, readers and the run loop *)

\* ProgramEnds: what was reported stays true.
LEMMA EndKeeps == ASSUME IInv, NEW p \in PaneId, ProgramEnds(p) PROVE IInv'
    <1> USE DEF IInv
    <1>1. /\ program[p] = "running" /\ program' = [program EXCEPT ![p] = "ended"]
          /\ UNCHANGED <<treeVars, idVars, closed, reader, exitVars, shutdown, client>>
        BY DEF ProgramEnds
    <1>2. program' \in [PaneId -> {"none", "running", "ended"}]
          /\ program'[p] = "ended" /\ \A q \in PaneId \ {p} : program'[q] = program[q]
        BY <1>1 DEF TaskType
    <1>3. TreeInv'
        BY <1>1, TreeStays DEF treeVars, idVars
    <1>4. TaskType'
        BY <1>1, <1>2 DEF TaskType, idVars, exitVars
    <1>5. FreshInv'
        <2>1. \A q \in PaneId : program[q] = "none" => program'[q] = "none"
            BY <1>1, <1>2
        <2> QED BY <1>1, <2>1 DEF FreshInv, Creating, treeVars, idVars
    <1>6. EndInv'
        <2>1. \A q \in PaneId : program[q] = "ended" => program'[q] = "ended"
            BY <1>2
        <2>2. \A i \in DOMAIN notices : notices[i] \in PaneId
            BY DEF TaskType
        <2> QED BY <1>1, <2>1, <2>2 DEF EndInv, exitVars, TaskType
    <1>7. NoOrphan'
        BY <1>1, <1>2 DEF NoOrphan, treeVars
    <1> QED BY <1>3, <1>4, <1>5, <1>6, <1>7

\* The reader thread reports the end of an ended program only.
LEMMA ReaderKeeps ==
    ASSUME IInv, NEW p \in PaneId,
           (\E c \in Client : ReaderEofConnected(p, c)) \/ ReaderEofDetached(p) \/ ReaderNotify(p)
    PROVE  IInv'
    <1> USE DEF IInv
    <1>1. /\ UNCHANGED <<treeVars, idVars, program, closed, shutdown, client>>
          /\ \/ reader' = [reader EXCEPT ![p] = "notify"] /\ UNCHANGED notices
             \/ reader' = [reader EXCEPT ![p] = "done"] /\ UNCHANGED chunks
          /\ UNCHANGED chunks \/ \E c \in Client : chunks' = [chunks EXCEPT ![c] = @ \cup {p}]
          /\ notices' \in {notices, Append(notices, p)}
        BY DEF ReaderEofConnected, ReaderEofDetached, ReaderNotify, exitVars
    <1>2. program[p] = "ended"
        BY DEF ReaderEofConnected, ReaderEofDetached, ReaderNotify, EndInv
    <1>3. TreeInv'
        BY <1>1, TreeStays DEF treeVars, idVars
    <1>4. reader' \in [PaneId -> {"none", "reading", "notify", "done"}]
          /\ \A q \in PaneId : reader'[q] = "notify" => reader[q] = "notify" \/ q = p
        BY <1>1 DEF TaskType
    <1>5. chunks' \in [Client -> SUBSET PaneId]
          /\ \A c \in Client : chunks'[c] \subseteq chunks[c] \cup {p}
        BY <1>1 DEF TaskType
    <1>6. notices' \in Seq(PaneId)
          /\ \A i \in DOMAIN notices' : notices'[i] = p \/ (i \in DOMAIN notices /\ notices'[i] = notices[i])
        <2>1. CASE notices' = notices
            BY <2>1 DEF TaskType
        <2>2. CASE notices' = Append(notices, p)
            BY <2>2 DEF TaskType
        <2> QED BY <1>1, <2>1, <2>2
    <1>7. TaskType'
        BY <1>1, <1>4, <1>5, <1>6 DEF TaskType, idVars
    <1>8. FreshInv' /\ NoOrphan'
        BY <1>1 DEF FreshInv, Creating, NoOrphan, treeVars, idVars
    <1>9. EndInv'
        BY <1>1, <1>2, <1>4, <1>5, <1>6 DEF EndInv
    <1> QED BY <1>3, <1>7, <1>8, <1>9

\* graceful_shutdown closes what is in the tree.
LEMMA ShutdownKeeps == ASSUME IInv, graceful_shutdown PROVE IInv'
    <1> USE DEF IInv
    <1>1. /\ closed' = closed \cup {p \in PaneId : home[p] # NoHome}
          /\ UNCHANGED <<treeVars, idVars, program, reader, exitVars, shutdown, client>>
        BY DEF graceful_shutdown
    <1>2. TreeInv'
        BY <1>1, TreeStays DEF treeVars, idVars
    <1>3. FreshInv' /\ NoOrphan'
        BY <1>1, ClosingKeepsPanes DEF treeVars, idVars
    <1>4. TaskType' /\ EndInv'
        BY <1>1 DEF TaskType, EndInv, idVars, exitVars
    <1> QED BY <1>2, <1>3, <1>4

-----------------------------------------------------------------------------
(* The invariant *)

\* Initially there is no session, no pane and no client.
LEMMA InitInv == ASSUME SessionTreeAssumption, Init PROVE IInv
    <1>1. TreeInv
        <2>1. TreeType
            <3>1. NoHome \in [s : SessionId \cup {0}, w : Nat]
                BY DEF NoHome
            <3> QED BY <3>1 DEF Init, TreeType
        <2> QED BY <2>1 DEF Init, TreeInv, NumberInv, HuskInv, OneSession, EmptyIsTold
    <1>2. TaskType
        <2>1. Off \in ClientState
            BY DEF Off, ClientState
        <2>2. notices \in Seq(PaneId)
            BY DEF Init
        <2>3. client \in [Client -> ClientState]
            BY <2>1 DEF Init
        <2>4. program \in [PaneId -> {"none", "running", "ended"}]
              /\ reader \in [PaneId -> {"none", "reading", "notify", "done"}]
            BY DEF Init
        <2>5. chunks \in [Client -> SUBSET PaneId] /\ closed \subseteq PaneId
            BY DEF Init
        <2>6. nextPane \in Nat \ {0}
            BY DEF Init
        <2>7. shutdown \in BOOLEAN
            BY Zenon DEF Init
        <2> QED BY <2>2, <2>3, <2>4, <2>5, <2>6, <2>7, Zenon DEF TaskType
    <1>3. FreshInv /\ EndInv /\ NoOrphan
        BY DEF Init, FreshInv, EndInv, NoOrphan, Creating, Off
    <1> QED BY <1>1, <1>2, <1>3 DEF IInv

\* Every step keeps the invariant.
LEMMA NextInv == ASSUME SessionTreeAssumption, IInv, [Next]_vars PROVE IInv'
    <1>1. ASSUME NEW c \in Client, ClientNext(c)
          PROVE  IInv'
        <2>1. CASE Accept(c)
            BY <2>1, AcceptKeeps
        <2>2. CASE Welcome(c)
            BY <2>2, WelcomeKeeps
        <2>3. CASE PickSession(c) \/ \E s \in SessionId : Attach(c, s)
            BY <2>3, PickKeeps
        <2>4. CASE Leave(c)
            BY <2>4, LeaveKeeps
        <2>5. CASE CreateWindow(c)
            BY <2>5, CreateWindowKeeps
        <2>6. CASE SpawnPty(c)
            BY <2>6, SpawnKeeps
        <2>7. CASE SpawnFails(c) \/ CliShutdown(c) \/ \E id \in PaneId : CliSwitchWindow(c, id)
            BY <2>7, DoneKeeps
        <2>8. CASE RegisterPane(c)
            BY <2>8, RegisterKeeps
        <2>9. CASE RegisterFails(c)
            BY <2>9, RegisterFailsKeeps
        <2>10. CASE \E p \in PaneId : DestroyPane(c, p) \/ ConnectionReaps(c, p)
            BY <2>10, DestroyKeeps
        <2>11. CASE \E w \in PaneId : DestroyWindow(c, w)
            BY <2>11, DestroyKeeps
        <2>12. CASE \/ \E id \in PaneId : SwitchWindow(c, id)
                    \/ \E p \in PaneId, i \in 0 .. MaxPane : MoveWindow(c, p, i)
            BY <2>12, OrderKeeps DEF SwitchWindow, MoveWindow
        <2> QED BY <1>1, <2>1, <2>2, <2>3, <2>4, <2>5, <2>6, <2>7, <2>8, <2>9, <2>10, <2>11,
                   <2>12 DEF ClientNext
    <1>2. ASSUME NEW p \in PaneId, PaneNext(p)
          PROVE  IInv'
        BY <1>2, EndKeeps, ReaderKeeps DEF PaneNext
    <1>3. ASSUME DaemonNext
          PROVE  IInv'
        <2>1. CASE run_pane_exit_task
            BY <2>1, DestroyKeeps
        <2>2. CASE graceful_shutdown
            BY <2>2, ShutdownKeeps
        <2>3. CASE Signal \/ ShutdownChanged \/ Exit
            BY <2>3, OrderKeeps DEF Signal, ShutdownChanged, Exit, treeVars
        <2> QED BY <1>3, <2>1, <2>2, <2>3 DEF DaemonNext
    <1>4. ASSUME UNCHANGED vars
          PROVE  IInv'
        BY <1>4, OrderKeeps DEF vars, treeVars
    <1> QED BY <1>1, <1>2, <1>3, <1>4 DEF Next, Stopped

\* The invariant is inductive.
LEMMA InvCorrect == ASSUME SessionTreeAssumption PROVE Spec => []IInv
    <1>1. Init => IInv
        BY InitInv
    <1>2. IInv /\ [Next]_vars => IInv'
        BY NextInv
    <1> QED BY <1>1, <1>2, PTL DEF Spec

-----------------------------------------------------------------------------
(* The properties *)

\* The tree holds no husks, whichever clients create and destroy while programs
\* end (handle_destroy_pane, handle_destroy_window, handle_create_window).
THEOREM HusksCorrect == ASSUME SessionTreeAssumption PROVE Spec => []NoHusks
    <1>1. IInv => NoHusks
        BY DEF IInv, TreeInv, HuskInv, NoHusks, InWindow
    <1> QED BY <1>1, InvCorrect, PTL

\* There is one session at a time, so that the lookup of a window id in all
\* sessions has one answer, and its end is told to the run loop.
THEOREM SessionCorrect == ASSUME SessionTreeAssumption PROVE Spec => [](OneSession /\ EmptyIsTold)
    <1>1. IInv => OneSession /\ EmptyIsTold
        BY DEF IInv, TreeInv
    <1> QED BY <1>1, InvCorrect, PTL

\* Reaping by pane id never takes a live pane, however late the exit notice or
\* the exit chunk.
THEOREM ReapCorrect == ASSUME SessionTreeAssumption PROVE Spec => []ReapIsTrue
    <1>1. IInv => ReapIsTrue
        BY DEF IInv, EndInv, ReapIsTrue, ToSet
    <1> QED BY <1>1, InvCorrect, PTL

\* No handler loses a shell: a running program has a pane in the tree, is about
\* to get one, or its terminal is closed.
THEOREM OrphanCorrect == ASSUME SessionTreeAssumption PROVE Spec => []NoOrphan
    <1>1. IInv => NoOrphan
        BY DEF IInv
    <1> QED BY <1>1, InvCorrect, PTL
=============================================================================
