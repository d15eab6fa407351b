------------------------- MODULE MCSidebarBroadcast -------------------------
(***************************************************************************)
(* Small instances of SidebarBroadcast for TLC: see the                    *)
(* SidebarBroadcast_*.cfg files.                                           *)
(***************************************************************************)
EXTENDS SidebarBroadcast

\* What tmux shows after a change is too large with what the workers had before.
TooLarge == {[tmux |-> 2, work |-> 1]}
=============================================================================
