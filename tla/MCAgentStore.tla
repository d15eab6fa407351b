---------------------------- MODULE MCAgentStore ----------------------------
(***************************************************************************)
(* Small instances of AgentStore for TLC: see the AgentStore_*.cfg files.  *)
(***************************************************************************)
EXTENDS AgentStore, TLC

\* Panes, directories and pane processes are interchangeable.
SymmetryPane == Permutations(Pane)
SymmetryPid == Permutations(Pid)
SymmetryPaneDir == Permutations(Pane) \cup Permutations(Dir)
=============================================================================
