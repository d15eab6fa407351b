------------------------------- MODULE Merge -------------------------------
(***************************************************************************)
(* workmux merge (src/src/workflow/merge.rs, src/src/git/merge.rs): the    *)
(* branch of a worktree is merged into a target branch, and then worktree  *)
(* and branch are cleaned up as Worktrees describes, which this module     *)
(* extends.  Targets have no worktree of their own, so that every merge    *)
(* works in the main worktree, one git command after the other, while      *)
(* other commands may do so too.                                           *)
(***************************************************************************)
EXTENDS Worktrees

CONSTANTS
    Merger,     \* removers that merge first
    Target,     \* branches to merge into
    Into,       \* bound: the targets merges are asked for
    Dirt        \* bound: the uncommitted work there may be in worktrees at first

ASSUME MergerAssumption == Merger \subseteq Remover
ASSUME TargetAssumption ==
    /\ Target \cap Branch = {} /\ None \notin Target \cup {"merged", "left"}
    /\ Into \subseteq Target
    /\ Dirt \subseteq SUBSET {"edited", "staged"}

VARIABLES
    dirty,      \* worktrees (identities) with unstaged or untracked files, or
                \* with staged changes
    commits,    \* the work each branch contains
    root,       \* the branch checked out in the main worktree
    index,      \* what a squash has staged there
    halted,     \* a merge there has stopped at a conflict
    plan        \* what each merge is to do, and has done

target == <<commits, root, index, halted>>
mergeVars == <<dirty, target, plan>>
worktrees == <<disk, git, config, quarantine, holder, stops>>

Way == {"merge", "rebase", "squash"}

Work == Branch \X {"committed", "staged"}

NoPlan == [into |-> None, how |-> "merge", keep |-> FALSE, ignore |-> FALSE,
           tip |-> {}, outcome |-> None]

\* Without a merge nothing tells the starting points apart: bound.
MergeInit ==
    /\ Init
    /\ \E kinds \in Dirt : dirty = Identity \X kinds
    /\ commits = [b \in Branch \cup Target |->
                    IF b \in branches THEN {<<b, "committed">>} ELSE {}]
    /\ root \in Target
    /\ index = {} /\ halted = "no"
    /\ plan = [m \in Merger |-> NoPlan]
    /\ (\A m \in Merger : pc[m] # "start") => dirty = {} /\ root \in Into

\* The worktree at a merge's path, if there is one.
Source(m) == tree[job[m].handle]

HasSource(m) == Source(m) \notin {Nothing, Leftover}

\* Cleanup follows unless the worktree is to be kept.
AfterMerge(m) == IF plan[m].keep THEN "done" ELSE "capture"

-----------------------------------------------------------------------------
(***************************************************************************)
(* What is looked at before anything is merged.                            *)
(***************************************************************************)

\* The target is the one asked for, the base stored for the branch or main.
StartMerge(m) ==
    /\ pc[m] = "start"
    /\ \E h \in Handle, b \in Into, how \in Way, keep, ignore \in BOOLEAN :
         IF reg[h] = Nothing
         THEN Goto(m, "failed") /\ UNCHANGED <<job, plan>>
         ELSE /\ job' = [job EXCEPT ![m] = [Idle EXCEPT
                            !.handle = h, !.branch = BranchOf(reg[h])]]
              /\ plan' = [plan EXCEPT ![m] = [NoPlan EXCEPT
                            !.into = b, !.how = how, !.keep = keep,
                            !.ignore = ignore]]
              /\ Goto(m, "check-source")
    /\ UNCHANGED <<dirty, target>>

\* Unstaged and untracked files would be lost with the worktree.
CheckSource(m) ==
    /\ pc[m] = "check-source"
    /\ Goto(m, IF HasSource(m)
                  /\ (plan[m].keep \/ plan[m].ignore \/ <<Source(m), "edited">> \notin dirty)
               THEN "commit-staged" ELSE "failed")
    /\ UNCHANGED <<job, plan, dirty, target>>

\* Staged changes are committed, unless they are ignored too or the user leaves
\* the editor without a message.
CommitStaged(m) ==
    LET b == job[m].branch
        staged == <<Source(m), "staged">>
    IN
    /\ pc[m] = "commit-staged"
    /\ \/ /\ HasSource(m)
          /\ staged \notin dirty \/ plan[m].ignore
          /\ Goto(m, "check-target")
          /\ UNCHANGED <<commits, dirty>>
       \/ /\ staged \in dirty /\ ~plan[m].ignore
          /\ commits' = [commits EXCEPT ![b] = @ \cup {<<b, "staged">>}]
          /\ dirty' = dirty \ {staged}
          /\ Goto(m, "check-target")
       \/ /\ ~HasSource(m) \/ (staged \in dirty /\ ~plan[m].ignore)
          /\ Goto(m, "failed")
          /\ UNCHANGED <<commits, dirty>>
    /\ UNCHANGED <<job, plan, root, index, halted>>

CheckTarget(m) ==
    /\ pc[m] = "check-target"
    /\ Goto(m, IF index = {} /\ halted = "no" THEN "switch" ELSE "failed")
    /\ UNCHANGED <<job, plan, dirty, target>>

\* Mutant: the main worktree is left on the branch it is on.
SwitchNothing(m) ==
    /\ pc[m] = "switch"
    /\ Goto(m, IF plan[m].how = "merge" THEN "merge-here" ELSE plan[m].how)
    /\ UNCHANGED <<job, plan, dirty, target>>

\* Mutant: the branch to merge is checked out, and not the target.
SwitchSource(m) ==
    /\ pc[m] = "switch"
    /\ root' = job[m].branch
    /\ Goto(m, IF plan[m].how = "merge" THEN "merge-here" ELSE plan[m].how)
    /\ UNCHANGED <<job, plan, dirty, commits, index, halted>>

\* git switch refuses in the middle of a merge, and takes staged changes along
\* if it can.  Hooks run before the next step, for as long as they like.
Switch(m) ==
    /\ pc[m] = "switch"
    /\ \/ /\ halted = "no"
          /\ root' = plan[m].into
          /\ Goto(m, IF plan[m].how = "merge" THEN "merge-here" ELSE plan[m].how)
       \/ /\ halted # "no" \/ index # {}
          /\ Goto(m, "failed")
          /\ UNCHANGED root
    /\ UNCHANGED <<job, plan, dirty, commits, index, halted>>

-----------------------------------------------------------------------------
(***************************************************************************)
(* git merge in the main worktree, whatever branch that is on by now.      *)
(***************************************************************************)

FastForward(b) == commits[root] \subseteq commits[b]

\* The two branches have diverged: neither up to date nor a fast-forward.
Diverged(b) == ~FastForward(b) /\ ~(commits[b] \subseteq commits[root])

\* git refuses without the branch, in the middle of a merge, and on staged
\* changes if there is something to merge.
Refused(b) == b \notin branches \/ halted # "no" \/ (index # {} /\ Diverged(b))

\* A fast-forward may or may not touch the files that are staged.
MayRefuse(b) == Refused(b) \/ (index # {} /\ ~(commits[b] \subseteq commits[root]))

MayConflict(b) == ~Refused(b) /\ Diverged(b)

\* The rebased branch is merged in the same way as any; a failure to do so is
\* not cleaned up.
MergeHere(m) ==
    LET b == job[m].branch
        rebased == plan[m].how = "rebase"
        Fails == /\ Goto(m, IF rebased THEN "failed" ELSE "abort")
                 /\ UNCHANGED commits
    IN
    /\ pc[m] = "merge-here"
    /\ \/ /\ ~Refused(b)
          /\ commits' = [commits EXCEPT ![root] = @ \cup commits[b]]
          /\ plan' = [plan EXCEPT ![m].tip = commits[b], ![m].outcome = "merged"]
          /\ Goto(m, AfterMerge(m))
          /\ UNCHANGED halted
       \/ /\ MayConflict(b)
          /\ halted' = "merging"
          /\ plan' = [plan EXCEPT ![m].outcome = IF rebased THEN "left" ELSE None]
          /\ Fails
       \/ MayRefuse(b) /\ Fails /\ UNCHANGED <<halted, plan>>
    /\ UNCHANGED <<job, dirty, root, index>>

\* Mutant: the conflict stays in the main worktree.
AbortNothing(m) ==
    /\ pc[m] = "abort"
    /\ Goto(m, "failed")
    /\ UNCHANGED <<job, plan, dirty, target>>

\* git merge --abort knows the merge in progress, whosoever it is.
AbortMerge(m) ==
    /\ pc[m] = "abort"
    /\ halted' = IF halted = "merging" THEN "no" ELSE halted
    /\ Goto(m, "failed")
    /\ UNCHANGED <<job, plan, dirty, commits, root, index>>

\* In the worktree of the branch, which must be there and without changes to
\* tracked files; a conflict is left to the user.
Rebase(m) ==
    LET b == job[m].branch IN
    /\ pc[m] = "rebase"
    /\ \/ /\ HasSource(m) /\ b \in branches /\ <<Source(m), "staged">> \notin dirty
          /\ commits' = [commits EXCEPT ![b] = @ \cup commits[plan[m].into]]
          /\ Goto(m, "merge-here")
       \/ Goto(m, "failed") /\ UNCHANGED commits
    /\ UNCHANGED <<job, plan, dirty, root, index, halted>>

Squash(m) ==
    LET b == job[m].branch IN
    /\ pc[m] = "squash"
    /\ \/ /\ ~Refused(b)
          /\ index' = index \cup (commits[b] \ commits[root])
          /\ plan' = [plan EXCEPT ![m].tip = commits[b]]
          /\ Goto(m, "commit-squash")
          /\ UNCHANGED halted
       \/ /\ MayConflict(b)
          /\ halted' = "squashing"
          /\ Goto(m, "reset")
          /\ UNCHANGED <<index, plan>>
       \/ /\ MayRefuse(b)
          /\ Goto(m, "reset")
          /\ UNCHANGED <<index, halted, plan>>
    /\ UNCHANGED <<job, dirty, commits, root>>

\* git reset --hard throws away whatever is there.
ResetTarget(m) ==
    /\ pc[m] = "reset"
    /\ index' = {} /\ halted' = "no"
    /\ Goto(m, "failed")
    /\ UNCHANGED <<job, plan, dirty, commits, root>>

\* The user may leave the editor without a message; nothing is reset then.
CommitSquash(m) ==
    /\ pc[m] = "commit-squash"
    /\ \/ /\ index # {} /\ halted = "no"
          /\ commits' = [commits EXCEPT ![root] = @ \cup index]
          /\ index' = {}
          /\ plan' = [plan EXCEPT ![m].outcome = "merged"]
          /\ Goto(m, AfterMerge(m))
       \/ /\ plan' = [plan EXCEPT ![m].outcome = "left"]
          /\ Goto(m, "failed")
          /\ UNCHANGED <<commits, index>>
    /\ UNCHANGED <<job, dirty, root, halted>>

MergeBranch(m) ==
    \/ StartMerge(m) \/ CheckSource(m) \/ CommitStaged(m) \/ CheckTarget(m)
    \/ Switch(m) \/ MergeHere(m) \/ AbortMerge(m) \/ Rebase(m) \/ Squash(m)
    \/ ResetTarget(m) \/ CommitSquash(m)

\* The other commands and the cleanup; work goes with the branch it is on.
OtherStep(p) ==
    /\ IF p \in Merger THEN CleanUp(p) ELSE Step(p)
    /\ commits' = [b \in DOMAIN commits |->
                     IF b \in branches \ branches' THEN {} ELSE commits[b]]
    /\ UNCHANGED <<stops, dirty, root, index, halted, plan>>

Run ==
    \/ \E m \in Merger : MergeBranch(m) /\ UNCHANGED worktrees
    \/ \E p \in Process : OtherStep(p)

MergeNext == Run \/ \E p \in Process : Stop(p) /\ UNCHANGED mergeVars

MergeSpec == MergeInit /\ [][MergeNext]_<<vars, mergeVars>>

\* While a command can go on, some command does: hooks, editors and git end.
FairMergeSpec == MergeSpec /\ WF_<<vars, mergeVars>>(Run)

-----------------------------------------------------------------------------
\* Every variable of the two modules has its type.
MergeTypeOK ==
    /\ TypeOK
    /\ dirty \subseteq Identity \X {"edited", "staged"}
    /\ commits \in [Branch \cup Target -> SUBSET Work]
    /\ root \in Target
    /\ index \subseteq Work
    /\ halted \in {"no", "merging", "squashing"}
    /\ plan \in [Merger ->
         [into : Target \cup {None}, how : Way, keep : BOOLEAN, ignore : BOOLEAN,
          tip : SUBSET Work, outcome : {None, "merged", "left"}]]

\* "Merged b into t": what the branch contained then is in that target, before
\* the branch is deleted and ever after.  Only a squash may commit something
\* else, when another squash has failed and reset the main worktree between its
\* two git commands.  (merge.rs: "Explicitly switch the target worktree to the
\* target branch.  This ensures that [...] it is checked out to the correct
\* branch.")
MergedIntoTarget ==
    \A m \in Merger : plan[m].outcome = "merged" =>
      \/ plan[m].tip \subseteq commits[plan[m].into]
      \/ /\ plan[m].how = "squash"
         /\ \E o \in Merger \ {m} : plan[o].how = "squash" /\ pc[o] = "failed"

\* "Target worktree kept clean": whatever others merge there meanwhile, no
\* conflict and nothing staged stays behind but by a merge that is still at
\* it, that was killed, or whose last step failed: the commit of a squash, or
\* the merge of a rebased branch.
TargetClean ==
    index # {} \/ halted # "no" =>
      \E m \in Merger :
        \/ pc[m] \in {"abort", "reset", "commit-squash", "stopped"}
        \/ plan[m].outcome = "left"
=============================================================================
