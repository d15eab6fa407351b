---------------------------- MODULE MCGitWorker ----------------------------
(***************************************************************************)
(* A small instance of GitWorker for TLC: see GitWorker_status.cfg.        *)
(***************************************************************************)
EXTENDS GitWorker, TLC

CONSTANTS p1, p2

From(where, who, what, changes, moves, mishaps) ==
    [home |-> where, agents |-> who, watches |-> what,
     budget |-> [changes |-> changes, moves |-> moves, mishaps |-> mishaps]]

\* Two worktrees, one of which changes, with a mishap; an agent that comes,
\* goes or changes its directory while a worktree changes; two agents, one of
\* which leaves a worktree that both are in; a directory that becomes a worktree
\* and ceases to be one; and platforms that watch only metadata, or nothing.
Small ==
    {From(p1 :> 1 @@ p2 :> 2, {p1, p2}, "files", 1, 0, 1),
     From(p1 :> 1 @@ p2 :> 2, {p1}, "files", 1, 1, 0),
     From(p1 :> 1 @@ p2 :> 1, {p1, p2}, "files", 1, 1, 0),
     From(p1 :> 1 @@ p2 :> None, {p1, p2}, "nothing", 0, 2, 0),
     From(p1 :> 1 @@ p2 :> 2, {p1}, "nothing", 1, 1, 0),
     From(p1 :> 1 @@ p2 :> 2, {p1}, "metadata", 1, 0, 0)}
=============================================================================
