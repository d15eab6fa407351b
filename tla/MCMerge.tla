------------------------------ MODULE MCMerge ------------------------------
(***************************************************************************)
(* Small instances of Merge, and with it of Worktrees, for TLC: see the    *)
(* Merge_*.cfg files.                                                      *)
(***************************************************************************)
EXTENDS Merge, TLC

CONSTANTS c1, c2, r1, r2, n1, m1, m2, h1, h2, b1, b2

One == <<[handle |-> h1, branch |-> b1]>>
Two == One \o <<[handle |-> h2, branch |-> b2]>>

\* The worktree may be locked or lost, and there may be a leftover directory.
Cast(who, n, left) ==
    [who |-> who, stops |-> n, home |-> One, rough |-> TRUE, debris |-> left]

\* All worktrees are in order.
Fine(who, n, home) ==
    [who |-> who, stops |-> n, home |-> home, rough |-> FALSE, debris |-> {}]

\* Any two commands, one of which may be stopped; a creation and two removals;
\* merges of two worktrees, or of one that is removed.
Together ==
    {Cast({c1, c2}, 1, {}), Cast({c1, r1}, 1, {h2}), Cast({r1, r2}, 1, {}),
     Cast({n1, r1}, 1, {}), Fine({c1, r1, r2}, 0, One),
     Fine({m1, m2}, 0, Two), Fine({m1, r1}, 1, One)}

\* Merges alone.
Merges == {Fine({m1, m2}, 0, Two)}

\* Two creations where a leftover directory may be.
OnDebris == {Cast({c1, c2}, 0, {h2})}
=============================================================================
