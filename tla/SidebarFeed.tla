---------------------------- MODULE SidebarFeed ----------------------------
(***************************************************************************)
(* What the sidebar promises (src/src/command/sidebar): every sidebar pane *)
(* shows a state the sources (tmux, the git and GitHub caches) had at some *)
(* moment, and never one older than what it showed before.                 *)
(***************************************************************************)
EXTENDS Naturals

CONSTANTS Client,   \* sidebar panes
          Blank     \* a pane that has shown nothing yet

VARIABLES source,   \* what the sources hold, as two version numbers
          shown     \* what each sidebar pane displays

vars == <<source, shown>>

Version == [tmux : Nat, work : Nat]

AtMost(u, v) == u.tmux <= v.tmux /\ u.work <= v.work

Init ==
    /\ source = [tmux |-> 1, work |-> 1]
    /\ shown = [c \in Client |-> Blank]

Change ==
    /\ \E s \in {"tmux", "work"} : source' = [source EXCEPT ![s] = @ + 1]
    /\ UNCHANGED shown

\* A pane moves on to a state the sources have had since.
Refresh(c) ==
    /\ \E t \in 1..source.tmux, w \in 1..source.work :
         LET v == [tmux |-> t, work |-> w] IN
           /\ shown[c] # Blank => AtMost(shown[c], v)
           /\ shown' = [shown EXCEPT ![c] = v]
    /\ UNCHANGED source

\* A pane is closed; another one may open in its place.
Clear(c) ==
    /\ shown' = [shown EXCEPT ![c] = Blank]
    /\ UNCHANGED source

Next == Change \/ \E c \in Client : Refresh(c) \/ Clear(c)

Spec == Init /\ [][Next]_vars
=============================================================================
