------------------------- MODULE MCSidebarLifecycle -------------------------
(***************************************************************************)
(* Small instances of SidebarLifecycle for TLC: see the                    *)
(* SidebarLifecycle_*.cfg files.                                           *)
(***************************************************************************)
EXTENDS SidebarLifecycle, TLC

CONSTANTS w1, w2, w3, s1, s2

\* Two windows of one session.
OneSession == (w1 :> s1) @@ (w2 :> s1)

\* One window in the first session and two in the second.
ThreeWindows == (w1 :> s1) @@ (w2 :> s2) @@ (w3 :> s2)

Events(co, cr, t, win) ==
    [commands |-> co, crashes |-> cr, timeouts |-> t, windows |-> win]

\* Either a command with a killed daemon and a slow one, or a killed daemon
\* while windows are opened and closed.
CommandOrWindows == {Events(1, 1, 1, FALSE), Events(0, 1, 0, TRUE)}

\* No command, nothing is killed.
WindowsOnly == {Events(0, 0, 0, TRUE)}

SymmetryDaemon == Permutations(Daemon)
=============================================================================
