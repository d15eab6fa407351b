------------------------ MODULE SidebarLifecycleProof ------------------------
(***************************************************************************)
(* Theorems of SidebarLifecycle, for any number of sessions, windows and   *)
(* daemons and any budgets: its type invariant, and that what panes and    *)
(* signals hold on to is there.  One inductive invariant gives both; that  *)
(* panes recover and daemons end is a matter of fairness and is left to    *)
(* TLC.                                                                    *)
(***************************************************************************)
EXTENDS SidebarLifecycle, SequenceTheorems, TLAPS

\* A connected process is that of an open sidebar pane and its daemon has not
\* ended; a daemon that has ended leaves no signal to one that starts anew.
Attached ==
    /\ \A w \in Window : conn[w] # None => w \in pane /\ Alive(conn[w])
    /\ \A d \in term : Alive(d)

SInv == TypeOK /\ Attached

-----------------------------------------------------------------------------
(* What the processes still have to do is a sequence of steps. *)

Steps == Seq(StepName)

\* The first step done leaves a sequence of steps.
LEMMA AfterType ==
  ASSUME TypeOK, NEW p \in Process, NEW step, At(p, step)
  PROVE  After(p) \in [Process -> Steps]
  <1>1. todo[p] \in Seq(StepName) /\ todo[p] # <<>>
    BY DEF TypeOK, At
  <1>2. Tail(todo[p]) \in Seq(StepName)
    BY <1>1, HeadTailProperties
  <1> QED
    BY <1>2 DEF TypeOK, After, Steps

\* The sequences the commands and the hook start with.
LEMMA StepsTyped ==
  /\ <<>> \in Steps /\ Ensure \in Steps /\ TryEnsure \o <<"create-here">> \in Steps
  /\ CleanUp \in Steps /\ StopAll \in Steps
  /\ CleanUp \o <<"exit">> \in Steps /\ <<>> \o <<"exit">> \in Steps
  /\ <<"read-scope">> \in Steps
  /\ <<"drop-session", "kill-others-in-session", "decide">> \in Steps
  /\ <<"kill-others", "decide">> \in Steps
  <1>1. /\ <<>> \in Steps /\ Ensure \in Steps /\ TryEnsure \in Steps /\ <<"create-here">> \in Steps
        /\ CleanUp \in Steps /\ <<"kill-all">> \in Steps /\ <<"exit">> \in Steps
        /\ <<"read-scope">> \in Steps
        /\ <<"drop-session", "kill-others-in-session", "decide">> \in Steps
        /\ <<"kill-others", "decide">> \in Steps
    BY DEF Steps, StepName, Ensure, TryEnsure, CleanUp
  <1>2. \A s, t \in Steps : s \o t \in Steps
    BY ConcatProperties DEF Steps
  <1> HIDE DEF Steps, Ensure, TryEnsure, CleanUp
  <1> QED
    BY <1>1, <1>2 DEF StopAll

\* So is what a command of the user has to do.
LEMMA CommandsTyped ==
  ASSUME NEW appearance \in BOOLEAN, NEW session
  PROVE  On(appearance) \in Steps /\ OnSession(appearance) \in Steps /\ OffSession(session) \in Steps
  <1>1. \A s, t \in Steps : s \o t \in Steps
    BY ConcatProperties DEF Steps
  <1>2. /\ <<"kill-all">> \in Steps /\ <<"enable", "set-global">> \in Steps
        /\ <<"create-all", "install-hooks">> \in Steps /\ <<"kill-in-session">> \in Steps
        /\ <<"opt-in">> \in Steps /\ <<"create-in-session">> \in Steps
        /\ <<"install-hooks">> \in Steps /\ <<"enable", "add-session">> \in Steps
        /\ <<"create-in-session", "install-hooks">> \in Steps
        /\ <<"opt-out", "kill-in-session">> \in Steps /\ <<"drop-session">> \in Steps
    BY DEF Steps, StepName
  <1> HIDE DEF Steps
  <1>3. On(appearance) \in Steps
    BY <1>1, <1>2, StepsTyped DEF On
  <1>4. OnSession(appearance) \in Steps
    BY <1>1, <1>2, StepsTyped DEF OnSession
  <1>5. OffSession(session) \in Steps
    BY <1>1, <1>2, StepsTyped DEF OffSession
  <1> QED
    BY <1>3, <1>4, <1>5

-----------------------------------------------------------------------------
(* The options and the panes. *)

\* What a command or a hook reads is a scope.
LEMMA ScopeTyped ==
  ASSUME TypeOK
  PROVE  /\ CurrentScope \in Scope /\ Unset \in Scope /\ Global \in Scope
         /\ \A ids \in SUBSET Session : Sessions(ids) \in Scope
  BY DEF TypeOK, CurrentScope, Scope, Unset, Global, Sessions

\* Every process belongs to a session.
LEMMA SessionTyped ==
  ASSUME TypeOK, NEW p \in Process
  PROVE  SessionOfProcess(p) \in Session
  <1>1. CASE p = User
    BY <1>1 DEF SessionOfProcess, TypeOK
  <1>2. CASE p # User
    <2>1. p[2] \in Window
      BY <1>2 DEF Process
    <2> QED
      BY <1>2, <2>1, WindowsAssumption DEF SessionOfProcess
  <1> QED
    BY <1>1, <1>2

\* Closing panes drops their connections and ends their processes.
LEMMA CloseTyped ==
  ASSUME SInv, NEW ws, NEW rest \in [Process -> Steps], Close(ws, rest),
         UNCHANGED daemons
  PROVE  /\ pane' = pane \ ws
         /\ conn' \in [Window -> Daemon \cup {None}]
         /\ todo' \in [Process -> Steps]
         /\ Attached'
  <1>1. <<>> \in Steps
    BY StepsTyped
  <1>2. todo' \in [Process -> Steps]
    BY <1>1 DEF Close
  <1>3. conn' \in [Window -> Daemon \cup {None}]
    BY DEF Close, SInv, TypeOK
  <1>4. Attached'
    BY DEF Close, SInv, Attached, Alive, daemons
  <1> QED
    BY <1>2, <1>3, <1>4 DEF Close

\* A new pane begins without a connection, and its process looks for the daemon.
LEMMA CreateTyped ==
  ASSUME SInv, NEW ws \in SUBSET open, NEW rest \in [Process -> Steps], Create(ws, rest),
         UNCHANGED <<open, conn, daemons>>
  PROVE  /\ pane' \subseteq open
         /\ todo' \in [Process -> Steps]
         /\ Attached'
  <1>1. Ensure \in Steps
    BY StepsTyped
  <1>2. todo' \in [Process -> Steps]
    BY <1>1 DEF Create
  <1>3. Attached'
    BY DEF Create, SInv, Attached, Alive, daemons
  <1> QED
    BY <1>2, <1>3 DEF Create, SInv, TypeOK

\* A budget that is spent is a budget.
LEMMA SpendTyped ==
  ASSUME budget \in Budget, NEW kind
  PROVE  /\ kind \in {"commands", "crashes", "timeouts"} /\ Spend(kind) => budget' \in Budget
         /\ UNCHANGED budget => budget' \in Budget
  BY DEF Spend, Budget

-----------------------------------------------------------------------------
(* The steps of a process. *)

\* A step of a process keeps the types, and panes and signals attached.
LEMMA ProcessStep ==
  ASSUME SInv, NEW p \in Process, Step(p)
  PROVE  SInv'
  <1> USE DEF options, windows, daemons
  <1>0. TypeOK /\ Attached
    BY DEF SInv
  <1>1. \A step : At(p, step) => After(p) \in [Process -> Steps]
    BY <1>0, AfterType
  <1>2. CASE SetOption(p)
    <2>1. todo' \in [Process -> Steps]
      BY <1>1, <1>2 DEF SetOption, Done
    <2>2. SessionOfProcess(p) \in Session /\ Unset \in Scope /\ Global \in Scope
          /\ \A ids \in SUBSET Session : Sessions(ids) \in Scope
      BY <1>0, SessionTyped, ScopeTyped
    <2>3. read[p].sessions \in SUBSET Session
      BY <1>0 DEF TypeOK, Scope
    <2>4. scope' \in Scope
      BY <1>0, <1>2, <2>2, <2>3 DEF SetOption, TypeOK
    <2>5. read' \in [Process -> Scope]
      BY <1>0, <1>2, <2>2 DEF SetOption, Forget, TypeOK
    <2>6. optouts' \subseteq Session
      BY <1>0, <1>2, <2>2 DEF SetOption, TypeOK
    <2>7. enabled' \in BOOLEAN /\ hooks' \in BOOLEAN
      BY <1>0, <1>2 DEF SetOption, TypeOK
    <2>8. pid' \in Daemon \cup {None}
      BY <1>0, <1>2 DEF SetOption, TypeOK
    <2>9. UNCHANGED <<sock, windows, conn, target, daemons, asked, budget>>
      BY <1>2 DEF SetOption
    <2> QED
      BY <1>0, <2>1, <2>4, <2>5, <2>6, <2>7, <2>8, <2>9 DEF SInv, TypeOK, Attached, Alive, Steps
  <1>3. CASE Terminate(p)
    <2>1. todo' \in [Process -> Steps]
      BY <1>1, <1>3 DEF Terminate, Done
    <2>2. term' \subseteq Daemon /\ \A d \in term' : Alive(d)
      BY <1>0, <1>3 DEF Terminate, TypeOK, Attached
    <2>3. UNCHANGED <<options, pid, sock, windows, conn, read, target, dpc, asked, budget>>
      BY <1>3 DEF Terminate
    <2> QED
      BY <1>0, <2>1, <2>2, <2>3 DEF SInv, TypeOK, Attached, Alive, Steps
  <1>4. CASE KillPanes(p)
    <2>1. PICK ws : Close(ws, After(p)) /\ After(p) \in [Process -> Steps]
      BY <1>1, <1>4 DEF KillPanes
    <2>2. UNCHANGED <<options, pid, sock, open, read, target, daemons, asked, budget>>
      BY <1>4 DEF KillPanes
    <2>3. /\ pane' = pane \ ws /\ conn' \in [Window -> Daemon \cup {None}]
          /\ todo' \in [Process -> Steps] /\ Attached'
      BY <2>1, <2>2, CloseTyped
    <2> QED
      BY <1>0, <2>2, <2>3 DEF SInv, TypeOK, Steps
  <1>5. CASE CreatePanes(p)
    <2>1. PICK ws \in SUBSET open : Create(ws, After(p)) /\ After(p) \in [Process -> Steps]
      BY <1>0, <1>1, <1>5 DEF CreatePanes, InSession, TypeOK
    <2>2. UNCHANGED <<options, pid, sock, open, conn, target, daemons, asked, budget>>
      BY <1>5 DEF CreatePanes
    <2>3. pane' \subseteq open /\ todo' \in [Process -> Steps] /\ Attached'
      BY <2>1, <2>2, CreateTyped
    <2>4. read' \in [Process -> Scope]
      BY <1>0, <1>5, ScopeTyped DEF CreatePanes, Forget, TypeOK
    <2> QED
      BY <1>0, <2>2, <2>3, <2>4 DEF SInv, TypeOK, Steps
  <1>6. CASE FindDaemon(p)
    <2>1. UNCHANGED <<options, pid, sock, windows, conn, read, target, daemons, asked, budget>>
      BY <1>6 DEF FindDaemon
    <2>2. todo' \in [Process -> Steps]
      <3>1. CASE Reachable
        <4>1. todo[p] \in Seq(StepName) /\ Len(Ensure) = 4
          BY <1>0 DEF TypeOK, Ensure
        <4>2. SubSeq(todo[p], Len(Ensure) + 1, Len(todo[p])) \in Seq(StepName)
          BY <4>1, SubSeqProperties
        <4> QED
          BY <1>0, <1>6, <3>1, <4>2 DEF FindDaemon, TypeOK, Steps
      <3>2. CASE ~Reachable
        BY <1>1, <1>6, <3>2 DEF FindDaemon, Done
      <3> QED
        BY <3>1, <3>2
    <2> QED
      BY <1>0, <2>1, <2>2 DEF SInv, TypeOK, Attached, Alive, Steps
  <1>7. CASE RemoveSocket(p)
    <2>1. todo' \in [Process -> Steps]
      BY <1>1, <1>7 DEF RemoveSocket, Done
    <2> QED
      BY <1>0, <1>7, <2>1 DEF RemoveSocket, SInv, TypeOK, Attached, Alive, Steps
  <1>8. CASE Spawn(p)
    <2>1. todo' \in [Process -> Steps]
      BY <1>1, <1>8 DEF Spawn, Done
    <2>2. PICK d \in Daemon : dpc[d] = "none" /\ dpc' = [dpc EXCEPT ![d] = "unlink"]
      BY <1>8 DEF Spawn
    <2>3. \A e : Alive(e) /\ e \in Daemon => Alive(e)'
      BY <1>0, <2>2 DEF Alive, TypeOK
    <2>4. Attached'
      <3>1. UNCHANGED <<pane, conn, term>>
        BY <1>8 DEF Spawn
      <3> QED
        BY <1>0, <2>3, <3>1 DEF Attached, TypeOK
    <2> QED
      BY <1>0, <1>8, <2>1, <2>2, <2>4 DEF Spawn, SInv, TypeOK, Steps
  <1>9. CASE SocketThere(p)
    <2>1. todo' \in [Process -> Steps]
      BY <1>1, <1>9 DEF SocketThere, Waits, Done
    <2> QED
      BY <1>0, <1>9, <2>1 DEF SocketThere, SInv, TypeOK, Attached, Alive, Steps
  <1>10. CASE ReadScope(p)
    <2>1. todo' \in [Process -> Steps]
      BY <1>0, <1>10, StepsTyped DEF ReadScope, TypeOK, Steps
    <2>2. read' \in [Process -> Scope]
      BY <1>0, <1>10, ScopeTyped DEF ReadScope, TypeOK
    <2> QED
      BY <1>0, <1>10, <2>1, <2>2 DEF ReadScope, SInv, TypeOK, Attached, Alive, Steps
  <1>11. CASE Decide(p)
    <2>1. todo' \in [Process -> Steps]
      BY <1>0, <1>11, StepsTyped DEF Decide, TypeOK, Steps
    <2> QED
      BY <1>0, <1>11, <2>1 DEF Decide, SInv, TypeOK, Attached, Alive, Steps
  <1>12. CASE Exit(p)
    <2>1. Close({p[2]}, After(p)) /\ After(p) \in [Process -> Steps]
      BY <1>1, <1>12 DEF Exit
    <2>2. UNCHANGED <<options, pid, sock, open, read, target, daemons, asked, budget>>
      BY <1>12 DEF Exit
    <2>3. /\ pane' = pane \ {p[2]} /\ conn' \in [Window -> Daemon \cup {None}]
          /\ todo' \in [Process -> Steps] /\ Attached'
      BY <2>1, <2>2, CloseTyped
    <2> QED
      BY <1>0, <2>2, <2>3 DEF SInv, TypeOK, Steps
  <1> QED
    BY <1>2, <1>3, <1>4, <1>5, <1>6, <1>7, <1>8, <1>9, <1>10, <1>11, <1>12 DEF Step

\* A process that waits in vain fails, goes on, or closes its pane.
LEMMA SocketMissingStep ==
  ASSUME SInv, NEW p \in Process, SocketMissing(p)
  PROVE  SInv'
  <1> USE DEF options, windows, daemons
  <1>0. TypeOK /\ Attached
    BY DEF SInv
  <1>1. budget' \in Budget
    BY <1>0, SpendTyped DEF SocketMissing, TypeOK
  <1>2. UNCHANGED <<options, pid, sock, open, read, target, daemons, asked>>
    BY DEF SocketMissing
  <1>3. After(p) \in [Process -> Steps]
    BY <1>0, AfterType DEF SocketMissing, Waits
  <1>4. CASE todo' \in [Process -> Steps] /\ UNCHANGED <<pane, conn>>
    BY <1>0, <1>1, <1>2, <1>4 DEF SInv, TypeOK, Attached, Alive, Steps
  <1>5. CASE Close({p[2]}, After(p))
    <2>1. /\ pane' = pane \ {p[2]} /\ conn' \in [Window -> Daemon \cup {None}]
          /\ todo' \in [Process -> Steps] /\ Attached'
      BY <1>2, <1>3, <1>5, CloseTyped
    <2> QED
      BY <1>0, <1>1, <1>2, <2>1 DEF SInv, TypeOK, Steps
  <1>6. CASE todo' = [todo EXCEPT ![p] = <<>>] /\ UNCHANGED <<pane, conn>>
    <2>1. todo' \in [Process -> Steps]
      BY <1>0, <1>6, StepsTyped DEF TypeOK, Steps
    <2> QED
      BY <1>4, <1>6, <2>1
  <1>7. \/ Done(p) /\ UNCHANGED <<pane, conn>>
        \/ todo' = [todo EXCEPT ![p] = <<>>] /\ UNCHANGED <<pane, conn>>
        \/ Close({p[2]}, After(p))
    BY DEF SocketMissing
  <1> QED
    BY <1>3, <1>4, <1>5, <1>6, <1>7 DEF Done

-----------------------------------------------------------------------------
(* The user and the windows. *)

\* A command of the user keeps the types, and panes and signals attached.
LEMMA StartStep ==
  ASSUME SInv, Start
  PROVE  SInv'
  <1> USE DEF options, windows, daemons
  <1>0. TypeOK /\ Attached
    BY DEF SInv
  <1>1. PICK steps \in Steps : Command(steps)
    BY CommandsTyped, StepsTyped DEF Start
  <1>2. budget' \in Budget
    BY <1>0, <1>1, SpendTyped DEF Command, TypeOK
  <1>3. todo' \in [Process -> Steps]
    BY <1>0, <1>1 DEF Command, TypeOK, Steps
  <1>4. read' \in [Process -> Scope]
    BY <1>0, <1>1, ScopeTyped DEF Command, TypeOK
  <1>5. target' \in Session /\ asked' \subseteq Session
    <2>1. \A s \in {SessionOf[w] : w \in open} : s \in Session
      BY <1>0, WindowsAssumption DEF TypeOK
    <2> QED
      BY <1>0, <2>1 DEF Start, TypeOK
  <1>6. UNCHANGED <<options, pid, sock, windows, conn, daemons>>
    BY <1>1 DEF Command
  <1> QED
    BY <1>0, <1>2, <1>3, <1>4, <1>5, <1>6 DEF SInv, TypeOK, Attached, Alive, Steps

\* What happens to a window keeps the types, and panes and signals attached.
LEMMA WindowStep ==
  ASSUME SInv, NEW w \in Window,
         Quit(w) \/ OpenWindow(w) \/ CloseWindow(w) \/ ClosePane(w) \/ Connect(w)
  PROVE  SInv'
  <1> USE DEF options, windows, daemons, process
  <1>0. TypeOK /\ Attached
    BY DEF SInv
  <1>1. Tui(w) \in Process /\ Sync(w) \in Process
    BY DEF Tui, Sync, Process
  <1>2. CASE Quit(w)
    <2>1. budget' \in Budget
      BY <1>0, <1>2, SpendTyped DEF Quit, TypeOK
    <2>2. todo' \in [Process -> Steps]
      BY <1>0, <1>1, <1>2, StepsTyped DEF Quit, TypeOK, Steps
    <2>3. read' \in [Process -> Scope]
      BY <1>0, <1>1, <1>2, ScopeTyped DEF Quit, TypeOK
    <2>4. UNCHANGED <<options, pid, sock, windows, conn, target, daemons, asked>>
      BY <1>2 DEF Quit
    <2> QED
      BY <1>0, <2>1, <2>2, <2>3, <2>4 DEF SInv, TypeOK, Attached, Alive, Steps
  <1>3. CASE OpenWindow(w)
    <2>1. todo' \in [Process -> Steps]
      BY <1>0, <1>1, <1>3, StepsTyped DEF OpenWindow, TypeOK, Steps
    <2> QED
      BY <1>0, <1>3, <2>1 DEF OpenWindow, SInv, TypeOK, Attached, Alive, Steps
  <1>4. CASE CloseWindow(w)
    <2>1. Close({w}, todo) /\ todo \in [Process -> Steps] /\ UNCHANGED daemons
      BY <1>0, <1>4 DEF CloseWindow, TypeOK, Steps
    <2>2. /\ pane' = pane \ {w} /\ conn' \in [Window -> Daemon \cup {None}]
          /\ todo' \in [Process -> Steps] /\ Attached'
      BY <2>1, CloseTyped
    <2> QED
      BY <1>0, <1>4, <2>2 DEF CloseWindow, SInv, TypeOK, Steps
  <1>5. CASE ClosePane(w)
    <2>1. Close({w}, todo) /\ todo \in [Process -> Steps] /\ UNCHANGED daemons
      BY <1>0, <1>5 DEF ClosePane, TypeOK, Steps
    <2>2. /\ pane' = pane \ {w} /\ conn' \in [Window -> Daemon \cup {None}]
          /\ todo' \in [Process -> Steps] /\ Attached'
      BY <2>1, CloseTyped
    <2>3. budget' \in Budget
      BY <1>0, <1>5, SpendTyped DEF ClosePane, TypeOK
    <2> QED
      BY <1>0, <1>5, <2>2, <2>3 DEF ClosePane, SInv, TypeOK, Steps
  <1>6. CASE Connect(w)
    BY <1>0, <1>6 DEF Connect, Reachable, SInv, TypeOK, Attached, Alive
  <1> QED
    BY <1>2, <1>3, <1>4, <1>5, <1>6

-----------------------------------------------------------------------------
(* The daemons. *)

\* The end of a daemon drops its connections and the signal sent to it.
LEMMA EndTyped ==
  ASSUME SInv, NEW d \in Daemon, DaemonEnds(d), dpc' = [dpc EXCEPT ![d] = "none"],
         UNCHANGED pane
  PROVE  /\ conn' \in [Window -> Daemon \cup {None}] /\ term' \subseteq Daemon
         /\ Attached'
  <1>0. TypeOK /\ Attached
    BY DEF SInv
  <1>1. \A e \in Daemon \ {d} : Alive(e) => Alive(e)'
    BY <1>0 DEF Alive, TypeOK
  <1>2. conn' \in [Window -> Daemon \cup {None}] /\ term' \subseteq Daemon
    BY <1>0 DEF DaemonEnds, TypeOK
  <1>3. \A w \in Window : conn'[w] # None =>
           conn[w] # None /\ conn[w] \in Daemon \ {d} /\ conn'[w] = conn[w]
    BY <1>0 DEF DaemonEnds, TypeOK
  <1>4. \A e \in term' : e \in term /\ e \in Daemon \ {d}
    BY <1>0 DEF DaemonEnds, TypeOK
  <1> QED
    BY <1>0, <1>1, <1>2, <1>3, <1>4 DEF Attached

\* A step to a place of a live daemon detaches nobody.
LEMMA LivesOn ==
  ASSUME SInv, NEW d \in Daemon, NEW from, NEW to, DaemonStep(d, from, to),
         to \in {"bind", "announce", "run", "lonely", "remove-socket", "unset-pid",
                 "unset-scope"},
         from = "unlink" \/ to # "bind",
         UNCHANGED <<conn, term>>
  PROVE  /\ dpc' \in [Daemon -> {"none", "unlink", "bind", "announce", "run", "lonely",
                                 "remove-socket", "unset-pid", "unset-scope"}]
         /\ Attached'
  <1>0. TypeOK /\ Attached
    BY DEF SInv
  <1>1. dpc' = [dpc EXCEPT ![d] = to] /\ dpc[d] = from /\ UNCHANGED pane
    BY DEF DaemonStep, windows
  <1>2. \A e \in Daemon : Alive(e) => Alive(e)'
    BY <1>0, <1>1 DEF Alive, TypeOK
  <1>3. Attached'
    BY <1>0, <1>1, <1>2 DEF Attached, TypeOK
  <1> QED
    BY <1>0, <1>1, <1>3 DEF TypeOK

\* A step of a daemon keeps the types, and panes and signals attached.
LEMMA RunStep ==
  ASSUME SInv, NEW d \in Daemon, Run(d) \/ Crash(d)
  PROVE  SInv'
  <1> USE DEF options, windows, process
  <1>0. TypeOK /\ Attached /\ Unset \in Scope
    BY ScopeTyped DEF SInv
  <1> DEFINE Places == {"none", "unlink", "bind", "announce", "run", "lonely",
                        "remove-socket", "unset-pid", "unset-scope"}
  <1>1. CASE /\ \/ RemoveStaleSocket(d) \/ (Bind(d) /\ sock = None) \/ Announce(d)
                \/ Lonely(d) \/ Used(d) \/ Stop(d) \/ RemoveOwnSocket(d) \/ UnsetPid(d)
    <2>1. PICK from, to :
             /\ DaemonStep(d, from, to)
             /\ to \in {"bind", "announce", "run", "lonely", "remove-socket", "unset-pid",
                        "unset-scope"}
             /\ from = "unlink" \/ to # "bind"
      BY <1>1 DEF RemoveStaleSocket, Bind, Announce, Lonely, Used, Stop, RemoveOwnSocket,
                  UnsetPid
    <2>2. UNCHANGED <<conn, term>>
      BY <1>1 DEF RemoveStaleSocket, Bind, Announce, Lonely, Used, Stop, RemoveOwnSocket,
                  UnsetPid
    <2>3. dpc' \in [Daemon -> Places] /\ Attached'
      BY <2>1, <2>2, LivesOn
    <2>4. sock' \in Daemon \cup {None} /\ pid' \in Daemon \cup {None} /\ UNCHANGED options
      BY <1>0, <1>1 DEF RemoveStaleSocket, Bind, Announce, Lonely, Used, Stop,
                        RemoveOwnSocket, UnsetPid, TypeOK
    <2>5. UNCHANGED <<windows, process, asked, budget>>
      BY <2>1 DEF DaemonStep
    <2> QED
      BY <1>0, <2>2, <2>3, <2>4, <2>5 DEF SInv, TypeOK
  <1>2. CASE \/ Bind(d) /\ sock # None
             \/ UnsetScope(d)
             \/ Crash(d)
    <2>1. DaemonEnds(d) /\ dpc' = [dpc EXCEPT ![d] = "none"] /\ UNCHANGED <<windows, process, asked>>
      BY <1>2 DEF Bind, UnsetScope, Crash, DaemonStep
    <2>2. /\ conn' \in [Window -> Daemon \cup {None}] /\ term' \subseteq Daemon
          /\ Attached'
      BY <2>1, EndTyped
    <2>3. dpc' \in [Daemon -> Places]
      BY <1>0, <2>1 DEF TypeOK
    <2>4. budget' \in Budget
      BY <1>0, <1>2, SpendTyped DEF Bind, UnsetScope, Crash, DaemonStep, TypeOK
    <2>5. scope' \in Scope /\ UNCHANGED <<enabled, optouts, hooks, pid, sock>>
      BY <1>0, <1>2 DEF Bind, UnsetScope, Crash, TypeOK
    <2> QED
      BY <1>0, <2>1, <2>2, <2>3, <2>4, <2>5 DEF SInv, TypeOK
  <1> QED
    BY <1>1, <1>2 DEF Run

-----------------------------------------------------------------------------
(* The invariant. *)

\* At the start the panes in scope are connected to the daemon that runs.
LEMMA InitTyped == Init => SInv
  <1> SUFFICES ASSUME Init PROVE SInv
    OBVIOUS
  <1>1. /\ scope \in Scope /\ Unset \in Scope /\ scope.sessions \subseteq Session
        /\ scope.global \in BOOLEAN
    <2>1. Unset \in Scope /\ Global \in Scope
      BY DEF Unset, Global, Scope
    <2>2. ASSUME NEW x \in Session PROVE Sessions({x}) \in Scope
      BY DEF Sessions, Scope
    <2>3. scope \in Scope
      BY <2>1, <2>2 DEF Init
    <2> QED
      BY <2>1, <2>3 DEF Scope
  <1>2. enabled \in BOOLEAN /\ hooks \in BOOLEAN /\ optouts \subseteq Session
    BY DEF Init
  <1>3. sock \in Daemon \cup {None} /\ pid \in Daemon \cup {None}
    BY DEF Init
  <1>4. open \subseteq Window /\ pane \subseteq open
    BY DEF Init
  <1>5. todo \in [Process -> Steps]
    BY StepsTyped DEF Init
  <1>6. read \in [Process -> Scope]
    BY <1>1 DEF Init
  <1>7. target \in Session
    <2>1. \E x \in Session : TRUE
      BY WindowsAssumption
    <2> QED
      BY <2>1 DEF Init
  <1>8. asked \subseteq Session
    BY <1>1 DEF Init
  <1>9. conn \in [Window -> Daemon \cup {None}]
    BY <1>3 DEF Init
  <1>10. dpc \in [Daemon -> {"none", "unlink", "bind", "announce", "run", "lonely",
                             "remove-socket", "unset-pid", "unset-scope"}]
    BY DEF Init
  <1>11. term \subseteq Daemon /\ budget \in Budget
    BY BudgetsAssumption DEF Init
  <1>12. \A w \in Window : conn[w] # None => w \in pane /\ conn[w] = sock /\ sock \in Daemon
    BY <1>3 DEF Init
  <1>13. Attached
    BY <1>12 DEF Attached, Alive, Init
  <1> QED
    BY <1>1, <1>2, <1>3, <1>4, <1>5, <1>6, <1>7, <1>8, <1>9, <1>10, <1>11, <1>13
       DEF SInv, TypeOK, Steps

\* Every step keeps it.
LEMMA NextTyped == SInv /\ [Next]_vars => SInv'
  <1> SUFFICES ASSUME SInv, [Next]_vars PROVE SInv'
    OBVIOUS
  <1>1. CASE Start
    BY <1>1, StartStep
  <1>2. CASE \E p \in Process : Step(p)
    BY <1>2, ProcessStep
  <1>3. CASE \E p \in Process : SocketMissing(p)
    BY <1>3, SocketMissingStep
  <1>4. CASE \E w \in Window : \/ Quit(w) \/ OpenWindow(w) \/ CloseWindow(w)
                               \/ ClosePane(w) \/ Connect(w)
    BY <1>4, WindowStep
  <1>5. CASE \E d \in Daemon : Run(d) \/ Crash(d)
    BY <1>5, RunStep
  <1>6. CASE UNCHANGED vars
    BY <1>6 DEF vars, options, windows, process, daemons, SInv, TypeOK, Attached, Alive
  <1> QED
    BY <1>1, <1>2, <1>3, <1>4, <1>5, <1>6 DEF Next

\* Every option, pane, process and daemon stays of its kind: what a process has
\* to do is always a sequence of known steps, and a pane is in an open window.
THEOREM TypeCorrect == Spec => []TypeOK
  <1>1. SInv => TypeOK
    BY DEF SInv
  <1> QED
    BY <1>1, InitTyped, NextTyped, PTL DEF Spec

\* Whatever is killed, closed or restarted, no pane believes in a daemon that
\* has ended, and no daemon starts with the signal meant for one that has.
THEOREM StaysAttached == Spec => []Attached
  <1>1. SInv => Attached
    BY DEF SInv
  <1> QED
    BY <1>1, InitTyped, NextTyped, PTL DEF Spec
=============================================================================
