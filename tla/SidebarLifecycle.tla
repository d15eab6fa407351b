--------------------------- MODULE SidebarLifecycle ---------------------------
(***************************************************************************)
(* Turning the tmux sidebar on and off, and the lives of its daemons       *)
(* (src/src/command/sidebar/mod.rs, daemon_ctrl.rs, panes.rs, hooks.rs and *)
(* the start and the end of daemon.rs, run).                               *)
(*                                                                         *)
(* Nothing is locked: the commands of the user, the sync started by the    *)
(* tmux hook of a new window, the processes in the sidebar panes and the   *)
(* daemons share a socket path and the global options of the tmux server.  *)
(* A process is what it has still to do, a sequence of steps; a step is a  *)
(* tmux command or a system call.                                          *)
(***************************************************************************)
EXTENDS Naturals, Sequences, FiniteSets

CONSTANTS
    Session, Window,
    SessionOf,      \* the session of each window
    Daemon,         \* daemon processes; one that has ended may start anew
    None,           \* no daemon
    User,           \* the user's commands, one after the other
    Budgets         \* bounds: what may still happen in a behaviour (see Budget)

\* A tmux server has a window: it ends with the last one.
ASSUME WindowsAssumption == Window # {} /\ SessionOf \in [Window -> Session]
ASSUME DaemonAssumption == None \notin Daemon

\* Commands of the user and sidebar panes he closes, killed daemons, waits of
\* two seconds for a daemon, and whether windows are opened and closed.
Budget == [commands : Nat, crashes : Nat, timeouts : Nat, windows : BOOLEAN]
ASSUME BudgetsAssumption == Budgets \subseteq Budget

VARIABLES
    \* options of the tmux server
    enabled,    \* @workmux_sidebar_enabled
    scope,      \* @workmux_sidebar_scope
    optouts,    \* @workmux_sidebar_optout_sessions
    pid,        \* @workmux_sidebar_daemon_pid
    hooks,      \* the hooks are installed
    sock,       \* the daemon that bound the socket path (it may have ended)
    open,       \* windows
    pane,       \* windows that have a sidebar pane
    conn,       \* the daemon the process in a sidebar pane is connected to
    todo,       \* what each process has still to do
    read,       \* the scope it has read
    target,     \* the session of the user's command
    dpc,        \* next step of each daemon ("none" when it is not running)
    term,       \* daemons that have got SIGTERM
    asked,      \* history: sessions the sidebar was turned on for
    budget

options == <<enabled, scope, optouts, hooks>>
windows == <<open, pane>>
process == <<todo, read, target>>
daemons == <<dpc, term>>
vars == <<options, pid, sock, windows, conn, process, daemons, asked, budget>>

Sync(w) == <<"sync", w>>
Tui(w) == <<"pane", w>>
Process == {User} \cup ({"sync", "pane"} \X Window)

SessionOfProcess(p) == IF p = User THEN target ELSE SessionOf[p[2]]

-----------------------------------------------------------------------------
(***************************************************************************)
(* What the options mean, and what the commands do.                        *)
(***************************************************************************)

Scope == [global : BOOLEAN, sessions : SUBSET Session]

Unset == [global |-> FALSE, sessions |-> {}]
Global == [global |-> TRUE, sessions |-> {}]
Sessions(ids) == [global |-> FALSE, sessions |-> ids]

\* parse_scope: an empty scope of an enabled sidebar is global.
CurrentScope == IF scope = Unset /\ enabled THEN Global ELSE scope

InScope(s, session) ==
    IF s.global THEN session \notin optouts ELSE session \in s.sessions

Alive(d) == dpc[d] \notin {"none", "unlink", "bind"}

Reachable == sock # None /\ Alive(sock)

\* ensure_daemon_running; sync goes on without a daemon.
Ensure == <<"connect", "unlink", "spawn", "wait">>
TryEnsure == <<"connect", "unlink", "spawn", "wait-or-go-on">>

\* kill_daemon, remove_hooks, clear_sidebar_globals.
CleanUp == <<"terminate", "unset-pid", "remove-hooks", "disable", "unset-scope",
             "clear-opt-outs">>
StopAll == <<"kill-all">> \o CleanUp

\* The appearance options of a command make it replace the panes.
On(appearance) ==
    (IF CurrentScope.sessions # {} THEN StopAll
     ELSE IF CurrentScope.global /\ appearance THEN <<"kill-all">> ELSE <<>>)
    \o <<"enable", "set-global">> \o Ensure \o <<"create-all", "install-hooks">>

OnSession(appearance) ==
    LET replace == IF appearance THEN <<"kill-in-session">> ELSE <<>> IN
    IF CurrentScope.global
    THEN <<"opt-in">> \o replace \o <<"create-in-session">> \o Ensure
         \o <<"install-hooks">>
    ELSE replace \o <<"enable", "add-session">> \o Ensure
         \o <<"create-in-session", "install-hooks">>

OffSession(session) ==
    IF CurrentScope.global THEN <<"opt-out", "kill-in-session">>
    ELSE IF CurrentScope = Unset THEN <<>>
    ELSE <<"kill-in-session">>
         \o (IF CurrentScope.sessions = {session} THEN StopAll
                                                  ELSE <<"drop-session">>)

\* The sidebar is off, or on with all its panes and a daemon.
Init ==
    /\ scope \in {Unset, Global} \cup {Sessions({x}) : x \in Session}
    /\ enabled = (scope # Unset) /\ hooks = enabled
    /\ optouts = {}
    /\ sock \in IF enabled THEN Daemon ELSE {None}
    /\ pid = sock
    /\ open = Window
    /\ pane = {w \in open : InScope(scope, SessionOf[w])}
    /\ conn = [w \in Window |-> IF w \in pane THEN sock ELSE None]
    /\ todo = [p \in Process |-> <<>>]
    /\ read = [p \in Process |-> Unset]
    /\ target = CHOOSE x \in Session : TRUE
    /\ dpc = [d \in Daemon |-> IF d = sock THEN "run" ELSE "none"]
    /\ term = {}
    /\ asked = IF scope = Global THEN Session ELSE scope.sessions
    /\ budget \in Budgets

-----------------------------------------------------------------------------
(***************************************************************************)
(* The steps of a process.                                                 *)
(***************************************************************************)

Spend(kind) ==
    /\ budget[kind] > 0
    /\ budget' = [budget EXCEPT ![kind] = @ - 1]

At(p, step) == todo[p] # <<>> /\ Head(todo[p]) = step

After(p) == [todo EXCEPT ![p] = Tail(@)]

Done(p) == todo' = After(p)

\* Sidebar panes are closed, and the processes in them end; what the others
\* have to do is in rest.
Close(ws, rest) ==
    /\ pane' = pane \ ws
    /\ conn' = [w \in Window |-> IF w \in ws THEN None ELSE conn[w]]
    /\ todo' = [p \in Process |-> IF p \in {Tui(w) : w \in ws} THEN <<>> ELSE rest[p]]

\* Windows without a sidebar pane get one; its process needs the daemon too.
Create(ws, rest) ==
    /\ pane' = pane \cup ws
    /\ todo' = [p \in Process |-> IF p \in {Tui(w) : w \in ws \ pane} THEN Ensure
                                                                     ELSE rest[p]]

\* The last step that uses the scope a process has read.
Forget(p) == read' = [read EXCEPT ![p] = Unset]

InSession(session) == {w \in open : SessionOf[w] = session}

SetOption(p) ==
    /\ \/ /\ \/ At(p, "enable") /\ enabled' = TRUE
             \/ At(p, "disable") /\ enabled' = FALSE
          /\ UNCHANGED <<scope, optouts, hooks, pid, read>>
       \/ /\ \/ At(p, "set-global") /\ scope' = Global
             \/ At(p, "unset-scope") /\ scope' = Unset
             \/ /\ At(p, "add-session")
                /\ scope' = Sessions(read[p].sessions \cup {SessionOfProcess(p)})
             \/ /\ At(p, "drop-session")
                /\ scope' = Sessions(read[p].sessions \ {SessionOfProcess(p)})
          /\ Forget(p)
          /\ UNCHANGED <<enabled, optouts, hooks, pid>>
       \/ /\ \/ At(p, "opt-in") /\ optouts' = optouts \ {SessionOfProcess(p)}
             \/ At(p, "opt-out") /\ optouts' = optouts \cup {SessionOfProcess(p)}
             \/ At(p, "clear-opt-outs") /\ optouts' = {}
          /\ UNCHANGED <<enabled, scope, hooks, pid, read>>
       \/ /\ \/ At(p, "install-hooks") /\ hooks' = TRUE
             \/ At(p, "remove-hooks") /\ hooks' = FALSE
          /\ UNCHANGED <<enabled, scope, optouts, pid, read>>
       \/ /\ At(p, "unset-pid") /\ pid' = None
          /\ UNCHANGED <<options, read>>
    /\ Done(p)
    /\ UNCHANGED <<sock, windows, conn, target, daemons, asked, budget>>

\* Mutant: kill whatever the option holds.
TerminateAny(p) ==
    /\ At(p, "terminate")
    /\ term' = term \cup {pid}
    /\ Done(p)
    /\ UNCHANGED <<options, pid, sock, windows, conn, read, target, dpc, asked, budget>>

\* kill_daemon: SIGTERM to the process the option names.
Terminate(p) ==
    /\ At(p, "terminate")
    /\ term' = term \cup {d \in Daemon : d = pid /\ Alive(d)}
    /\ Done(p)
    /\ UNCHANGED <<options, pid, sock, windows, conn, read, target, dpc, asked, budget>>

KillPanes(p) ==
    /\ \/ At(p, "kill-all") /\ Close(pane, After(p))
       \/ At(p, "kill-in-session") /\ Close(pane \cap InSession(SessionOfProcess(p)), After(p))
       \/ At(p, "kill-others") /\ Close(pane \ {p[2]}, After(p))
       \/ /\ At(p, "kill-others-in-session")
          /\ Close((pane \cap InSession(SessionOfProcess(p))) \ {p[2]}, After(p))
    /\ UNCHANGED <<options, pid, sock, open, read, target, daemons, asked, budget>>

CreatePanes(p) ==
    /\ \/ At(p, "create-all") /\ Create(open, After(p))
       \/ At(p, "create-in-session") /\ Create(InSession(SessionOfProcess(p)), After(p))
       \/ At(p, "create-here") /\ Create({w \in open \cap {p[2]} :
                                         InScope(read[p], SessionOf[w])}, After(p))
    /\ Forget(p)
    /\ UNCHANGED <<options, pid, sock, open, conn, target, daemons, asked, budget>>

\* ensure_daemon_running: connect, or remove the path, spawn and wait.
FindDaemon(p) ==
    /\ At(p, "connect")
    /\ IF Reachable
       THEN todo' = [todo EXCEPT ![p] = SubSeq(@, Len(Ensure) + 1, Len(@))]
       ELSE Done(p)
    /\ UNCHANGED <<options, pid, sock, windows, conn, read, target, daemons, asked, budget>>

RemoveSocket(p) ==
    /\ At(p, "unlink")
    /\ sock' = None
    /\ Done(p)
    /\ UNCHANGED <<options, pid, windows, conn, read, target, daemons, asked, budget>>

Spawn(p) ==
    /\ At(p, "spawn")
    /\ \E d \in Daemon :
          /\ dpc[d] = "none" /\ sock # d /\ pid # d
          /\ dpc' = [dpc EXCEPT ![d] = "unlink"]
    /\ Done(p)
    /\ UNCHANGED <<options, pid, sock, windows, conn, read, target, term, asked, budget>>

Waits(p) == At(p, "wait") \/ At(p, "wait-or-go-on")

SocketThere(p) ==
    /\ Waits(p)
    /\ sock # None
    /\ Done(p)
    /\ UNCHANGED <<options, pid, sock, windows, conn, read, target, daemons, asked, budget>>

\* A command fails after two seconds, and so does the process of a pane, which
\* closes the pane.
SocketMissing(p) ==
    /\ Waits(p)
    /\ sock = None
    /\ Spend("timeouts")
    /\ IF At(p, "wait-or-go-on")
       THEN Done(p) /\ UNCHANGED <<pane, conn>>
       ELSE IF p = User
            THEN todo' = [todo EXCEPT ![p] = <<>>] /\ UNCHANGED <<pane, conn>>
            ELSE Close({p[2]}, After(p))
    /\ UNCHANGED <<options, pid, sock, open, read, target, daemons, asked>>

\* Mutant: sync does not look for a daemon.
ReadScopeOnly(p) ==
    /\ At(p, "read-scope")
    /\ read' = [read EXCEPT ![p] = CurrentScope]
    /\ todo' = [todo EXCEPT ![p] = IF CurrentScope = Unset THEN <<>>
                                   ELSE <<"create-here">>]
    /\ UNCHANGED <<options, pid, sock, windows, conn, target, daemons, asked, budget>>

\* sync: nothing to do when the sidebar is off.
ReadScope(p) ==
    /\ At(p, "read-scope")
    /\ read' = [read EXCEPT ![p] = CurrentScope]
    /\ todo' = [todo EXCEPT ![p] = IF CurrentScope = Unset THEN <<>>
                                   ELSE TryEnsure \o <<"create-here">>]
    /\ UNCHANGED <<options, pid, sock, windows, conn, target, daemons, asked, budget>>

\* shutdown_all_sidebars: clean up unless scoped sessions remain.
Decide(p) ==
    /\ At(p, "decide")
    /\ todo' = [todo EXCEPT ![p] = (IF CurrentScope.sessions = {} THEN CleanUp ELSE <<>>)
                                   \o <<"exit">>]
    /\ UNCHANGED <<options, pid, sock, windows, conn, read, target, daemons, asked, budget>>

Exit(p) ==
    /\ At(p, "exit")
    /\ Close({p[2]}, After(p))
    /\ UNCHANGED <<options, pid, sock, open, read, target, daemons, asked, budget>>

Step(p) ==
    \/ SetOption(p) \/ Terminate(p) \/ KillPanes(p) \/ CreatePanes(p)
    \/ FindDaemon(p) \/ RemoveSocket(p) \/ Spawn(p) \/ SocketThere(p)
    \/ ReadScope(p) \/ Decide(p) \/ Exit(p)

-----------------------------------------------------------------------------
(***************************************************************************)
(* What starts processes: the user, windows and their hook.                *)
(***************************************************************************)

Command(steps) ==
    /\ Spend("commands")
    /\ todo[User] = <<>>
    /\ todo' = [todo EXCEPT ![User] = steps]
    /\ read' = [read EXCEPT ![User] = CurrentScope]
    /\ UNCHANGED <<options, pid, sock, windows, conn, daemons>>

\* on, off, on_session, off_session; a toggle is one of them.
Start ==
    \/ /\ \E appearance \in BOOLEAN : Command(On(appearance))
       /\ asked' = Session /\ UNCHANGED target
    \/ Command(StopAll) /\ UNCHANGED <<target, asked>>
    \/ \E s \in {SessionOf[w] : w \in open} :
          /\ target' = s
          /\ \/ /\ \E appearance \in BOOLEAN : Command(OnSession(appearance))
                /\ asked' = asked \cup {s}
             \/ Command(OffSession(s)) /\ UNCHANGED asked

\* The user quits in a sidebar pane.
Quit(w) ==
    /\ Spend("commands")
    /\ w \in pane
    /\ todo[Tui(w)] = <<>>
    /\ read' = [read EXCEPT ![Tui(w)] = CurrentScope]
    /\ todo' = [todo EXCEPT ![Tui(w)] =
                  IF CurrentScope.sessions # {}
                  THEN <<"drop-session", "kill-others-in-session", "decide">>
                  ELSE <<"kill-others", "decide">>]
    /\ UNCHANGED <<options, pid, sock, windows, conn, target, daemons, asked>>

OpenWindow(w) ==
    /\ budget.windows
    /\ w \notin open
    /\ todo[Sync(w)] = <<>>
    /\ open' = open \cup {w}
    /\ todo' = [todo EXCEPT ![Sync(w)] = IF hooks THEN <<"read-scope">> ELSE <<>>]
    /\ UNCHANGED <<options, pid, sock, pane, conn, read, target, daemons, asked, budget>>

\* The tmux server ends with its last window.
CloseWindow(w) ==
    /\ budget.windows
    /\ w \in open /\ open # {w}
    /\ open' = open \ {w}
    /\ Close({w}, todo)
    /\ UNCHANGED <<options, pid, sock, read, target, daemons, asked, budget>>

\* Also the pane that quits because no other is left in its window.
ClosePane(w) ==
    /\ Spend("commands")
    /\ w \in pane
    /\ Close({w}, todo)
    /\ UNCHANGED <<options, pid, sock, open, read, target, daemons, asked>>

\* connection_loop: at intervals of two seconds at most.
Connect(w) ==
    /\ w \in pane
    /\ todo[Tui(w)] = <<>>
    /\ conn[w] = None
    /\ Reachable
    /\ conn' = [conn EXCEPT ![w] = sock]
    /\ UNCHANGED <<options, pid, sock, windows, process, daemons, asked, budget>>

-----------------------------------------------------------------------------
(***************************************************************************)
(* A daemon.                                                               *)
(***************************************************************************)

DaemonStep(d, from, to) ==
    /\ dpc[d] = from
    /\ dpc' = [dpc EXCEPT ![d] = to]
    /\ UNCHANGED <<windows, process, asked, budget>>

\* Its clients lose their connection.
DaemonEnds(d) ==
    /\ conn' = [w \in Window |-> IF conn[w] = d THEN None ELSE conn[w]]
    /\ term' = term \ {d}

RemoveStaleSocket(d) ==
    /\ DaemonStep(d, "unlink", "bind")
    /\ sock' = None
    /\ UNCHANGED <<options, pid, conn, term>>

\* bind fails when another daemon was faster.
Bind(d) ==
    \/ /\ sock = None
       /\ DaemonStep(d, "bind", "announce")
       /\ sock' = d
       /\ UNCHANGED <<options, pid, conn, term>>
    \/ /\ sock # None
       /\ DaemonStep(d, "bind", "none")
       /\ DaemonEnds(d)
       /\ UNCHANGED <<options, pid, sock>>

Announce(d) ==
    /\ DaemonStep(d, "announce", "run")
    /\ pid' = d
    /\ UNCHANGED <<options, sock, conn, term>>

Unused(d) == \A w \in Window : conn[w] # d

Quiet == \A p \in Process : todo[p] = <<>>

\* Ten seconds without a client: longer than a command, the start or the end of
\* a daemon, or the next try of a pane to connect takes.
Lonely(d) ==
    /\ DaemonStep(d, "run", "lonely")
    /\ Unused(d)
    /\ Quiet
    /\ \A e \in Daemon : dpc[e] \in {"none", "run", "lonely"}
    /\ sock = d => \A w \in pane : conn[w] # None
    /\ UNCHANGED <<options, pid, sock, conn, term>>

Used(d) ==
    /\ DaemonStep(d, "lonely", "run")
    /\ ~Unused(d)
    /\ UNCHANGED <<options, pid, sock, conn, term>>

\* Mutant: a daemon without clients runs on.
StopOnSignal(d) ==
    /\ DaemonStep(d, "run", "remove-socket") \/ DaemonStep(d, "lonely", "remove-socket")
    /\ d \in term
    /\ UNCHANGED <<options, pid, sock, conn, term>>

Stop(d) ==
    /\ \/ DaemonStep(d, "run", "remove-socket") /\ d \in term
       \/ DaemonStep(d, "lonely", "remove-socket") /\ (Unused(d) \/ d \in term)
    /\ UNCHANGED <<options, pid, sock, conn, term>>

RemoveOwnSocket(d) ==
    /\ DaemonStep(d, "remove-socket", "unset-pid")
    /\ sock' = None
    /\ UNCHANGED <<options, pid, conn, term>>

UnsetPid(d) ==
    /\ DaemonStep(d, "unset-pid", "unset-scope")
    /\ pid' = None
    /\ UNCHANGED <<options, sock, conn, term>>

UnsetScope(d) ==
    /\ DaemonStep(d, "unset-scope", "none")
    /\ scope' = Unset
    /\ DaemonEnds(d)
    /\ UNCHANGED <<enabled, optouts, hooks, pid, sock>>

\* The daemon is killed; its socket file and its pid stay.
Crash(d) ==
    /\ Spend("crashes")
    /\ dpc[d] # "none"
    /\ dpc' = [dpc EXCEPT ![d] = "none"]
    /\ DaemonEnds(d)
    /\ UNCHANGED <<options, pid, sock, windows, process, asked>>

Run(d) ==
    \/ RemoveStaleSocket(d) \/ Bind(d) \/ Announce(d) \/ Lonely(d) \/ Used(d)
    \/ Stop(d) \/ RemoveOwnSocket(d) \/ UnsetPid(d) \/ UnsetScope(d)

-----------------------------------------------------------------------------
Next ==
    \/ Start
    \/ \E p \in Process : Step(p) \/ SocketMissing(p)
    \/ \E w \in Window : \/ Quit(w) \/ OpenWindow(w) \/ CloseWindow(w)
                         \/ ClosePane(w) \/ Connect(w)
    \/ \E d \in Daemon : Run(d) \/ Crash(d)

Spec == Init /\ [][Next]_vars

\* Processes run on.  Strong fairness of Connect: a pane that keeps trying
\* does not miss every daemon that comes up; of Lonely: ten seconds without a
\* client do pass.
Fairness ==
    /\ WF_vars(\E p \in Process : Step(p))
    /\ \A w \in Window : SF_vars(Connect(w))
    /\ \A d \in Daemon : WF_vars(Run(d)) /\ SF_vars(Lonely(d))

FairSpec == Spec /\ Fairness

-----------------------------------------------------------------------------
(***************************************************************************)
(* Properties.                                                             *)
(***************************************************************************)

StepName == {"connect", "unlink", "spawn", "wait", "wait-or-go-on", "terminate",
             "unset-pid", "remove-hooks", "disable", "unset-scope",
             "clear-opt-outs", "kill-all", "enable", "set-global", "create-all",
             "install-hooks", "kill-in-session", "opt-in", "create-in-session",
             "add-session", "opt-out", "drop-session", "read-scope",
             "create-here", "kill-others", "kill-others-in-session", "decide",
             "exit"}

TypeOK ==
    /\ enabled \in BOOLEAN /\ hooks \in BOOLEAN
    /\ scope \in Scope
    /\ optouts \subseteq Session /\ asked \subseteq Session
    /\ pid \in Daemon \cup {None} /\ sock \in Daemon \cup {None}
    /\ open \subseteq Window /\ pane \subseteq open
    /\ conn \in [Window -> Daemon \cup {None}]
    /\ todo \in [Process -> Seq(StepName)]
    /\ read \in [Process -> Scope]
    /\ target \in Session
    /\ dpc \in [Daemon -> {"none", "unlink", "bind", "announce", "run", "lonely",
                           "remove-socket", "unset-pid", "unset-scope"}]
    /\ term \subseteq Daemon
    /\ budget \in Budget

\* A session the sidebar was never turned on for gets no sidebar pane
\* (docs, commands/sidebar.md: "leaving other sessions untouched").
SessionsUntouched == \A w \in pane : SessionOf[w] \in asked

StaysOn == <>[](hooks /\ CurrentScope # Unset)
NewWindows == []<><<\E w \in Window : OpenWindow(w)>>_vars
QuietMoments == []<>Quiet

\* Daemons may be killed, stop for want of clients, or remove each other's
\* socket: while the sidebar stays on and new windows are opened, every pane
\* that stays ends up connected.  (mod.rs, sync; client.rs, connection_loop.)
Recovers ==
    StaysOn /\ NewWindows /\ QuietMoments =>
        \A w \in Window : <>[](w \in pane) => <>[](conn[w] # None)

\* When there are no sidebar panes any more and nothing is going on, every
\* daemon ends, also one that nobody can reach.  (daemon.rs, run.)
NoOrphans ==
    <>[](pane = {} /\ Quiet) =>
        \A d \in Daemon : <>[](dpc[d] = "none")
=============================================================================
