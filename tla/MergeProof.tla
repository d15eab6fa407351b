----------------------------- MODULE MergeProof -----------------------------
(***************************************************************************)
(* Theorems about Merge: what WorktreesProof shows of the worktrees holds  *)
(* with merges running beside, the main worktree is left clean (CInv), and *)
(* what was reported as merged is in the target (DInv).                    *)
(***************************************************************************)
EXTENDS Merge, WorktreesProof

-----------------------------------------------------------------------------
(* What holds of a merge at its steps. *)

\* The steps from the choice of the target on, and those in the main worktree
\* once it has been switched to the target.
AtTarget == {"merge-here", "rebase", "squash", "abort", "reset", "commit-squash"}
Merging == {"check-source", "commit-staged", "check-target", "switch"} \cup AtTarget

Planned ==
    \A m \in Merger :
        pc[m] \in Merging =>
          /\ plan[m].into \in Target \cap Into /\ job[m].branch \in Branch
          /\ plan[m].outcome # "merged"
          /\ pc[m] \in {"squash", "reset", "commit-squash"} => plan[m].how = "squash"

\* Who has left the index or a conflict in the main worktree.
GivenUp(m) == pc[m] = "stopped" \/ (pc[m] = "failed" /\ plan[m].outcome = "left")

Accounted ==
    /\ index # {} => \E m \in Merger : pc[m] = "commit-squash" \/ GivenUp(m)
    /\ halted = "merging" => \E m \in Merger : pc[m] = "abort" \/ GivenUp(m)
    /\ halted = "squashing" => \E m \in Merger : pc[m] = "reset" \/ GivenUp(m)

CInv == MergeTypeOK /\ Planned /\ Accounted

\* Merges that are in the main worktree at the same time have one target.
OneTarget ==
    \A m, n \in Merger :
        pc[m] \in AtTarget /\ pc[n] \in AtTarget => plan[m].into = plan[n].into

OnTarget == \A m \in Merger : pc[m] \in AtTarget => root = plan[m].into

\* Another squash has failed.
SquashFailed(m) ==
    plan[m].how = "squash"
      /\ \E o \in Merger \ {m} : plan[o].how = "squash" /\ pc[o] = "failed"

\* What a squash has taken from the branch is staged until it is committed.
Staged ==
    \A m \in Merger : pc[m] = "commit-squash" =>
        plan[m].tip \subseteq commits[plan[m].into] \cup index \/ SquashFailed(m)

Delivered ==
    \A m \in Merger : plan[m].outcome = "merged" =>
        /\ plan[m].into \in Target
        /\ plan[m].tip \subseteq commits[plan[m].into] \/ SquashFailed(m)

DInv == OnTarget /\ Staged /\ Delivered

-----------------------------------------------------------------------------
(* What a merge does to the worktrees: nothing. *)

Plan == [into : Target \cup {None}, how : Way, keep : BOOLEAN, ignore : BOOLEAN,
         tip : SUBSET Work, outcome : {None, "merged", "left"}]

\* A merge moves alone, from one of its steps to another or to the cleanup, and
\* works on one worktree that git knows.
Merges(m) ==
    /\ Solo(m) /\ DOMAIN pc' = Process /\ pc[m] \in Merging \cup {"start"}
    /\ UNCHANGED <<disk, git, config, quarantine, holder, stops>>
    /\ pc'[m] \in Merging \cup {"failed", "done", "capture"}
    /\ \/ job' = job /\ (pc[m] = "start" => pc'[m] = "failed")
       \/ /\ pc[m] = "start" /\ pc'[m] = "check-source"
          /\ \E j \in Job : /\ NewWork(j) /\ j.branch \in Branch /\ reg[j.handle] # Nothing
                            /\ job' = [job EXCEPT ![m] = j]

\* A merge is a removal that merges first.
LEMMA MergerKind == \A m \in Merger : m \in Remover /\ m \in Process \ Renamer /\ m \notin Creator
  BY MergerAssumption, KindsAssumption DEF Process

\* merge.rs: a merge fails, or works on a registered worktree with a plan.
LEMMA StartMergeJob ==
  ASSUME MergeTypeOK, NEW m \in Merger, StartMerge(m)
  PROVE  \/ Goto(m, "failed") /\ UNCHANGED <<job, plan>>
         \/ \E j \in Job : \E w \in Plan :
              /\ NewWork(j) /\ j.branch \in Branch /\ reg[j.handle] # Nothing
              /\ job' = [job EXCEPT ![m] = j]
              /\ w.into \in Into /\ w.outcome = None
              /\ plan' = [plan EXCEPT ![m] = w]
              /\ Goto(m, "check-source")
  <1>1. PICK h \in Handle, b \in Into, how \in Way, keep \in BOOLEAN, ignore \in BOOLEAN :
          IF reg[h] = Nothing
          THEN Goto(m, "failed") /\ UNCHANGED <<job, plan>>
          ELSE /\ job' = [job EXCEPT ![m] = [Idle EXCEPT
                             !.handle = h, !.branch = BranchOf(reg[h])]]
               /\ plan' = [plan EXCEPT ![m] = [NoPlan EXCEPT
                             !.into = b, !.how = how, !.keep = keep,
                             !.ignore = ignore]]
               /\ Goto(m, "check-source")
    BY DEF StartMerge
  <1>2. CASE reg[h] = Nothing
    BY <1>1, <1>2
  <1>3. CASE reg[h] # Nothing
    <2> DEFINE j == [Idle EXCEPT !.handle = h, !.branch = BranchOf(reg[h])]
               w == [NoPlan EXCEPT !.into = b, !.how = how, !.keep = keep, !.ignore = ignore]
    <2>1. reg[h] \in Identity /\ BranchOf(reg[h]) \in Branch
      BY <1>3, MadeType DEF MergeTypeOK, TypeOK
    <2>2. j \in Job /\ j.handle = h /\ j.id = Nothing /\ j.branch = BranchOf(reg[h])
      BY <2>1 DEF Job, Idle
    <2>3. w \in Plan /\ w.into = b /\ w.outcome = None
      BY TargetAssumption DEF Plan, NoPlan, Way
    <2>4. /\ job' = [job EXCEPT ![m] = j] /\ plan' = [plan EXCEPT ![m] = w]
          /\ Goto(m, "check-source")
      BY <1>1, <1>3
    <2> HIDE DEF j, w
    <2> QED
      BY <1>3, <2>1, <2>2, <2>3, <2>4 DEF NewWork
  <1> QED
    BY <1>2, <1>3

\* Every step of merge.rs leaves the worktrees alone, and moves on in the merge, to
\* its end or to the cleanup.
LEMMA MergeMoves ==
  ASSUME MergeTypeOK, Planned, NEW m \in Merger, MergeBranch(m), UNCHANGED worktrees
  PROVE  Merges(m)
  <1>0. m \in Process
    BY MergerKind
  <1>1. UNCHANGED <<disk, git, config, quarantine, holder, stops>>
    BY DEF worktrees
  <1>2. CASE StartMerge(m)
    <2>1. pc[m] = "start"
      BY <1>2 DEF StartMerge
    <2>2. CASE Goto(m, "failed") /\ UNCHANGED job
      BY <1>0, <1>1, <2>1, <2>2 DEF Merges, Solo, Goto, Ended, MergeTypeOK, TypeOK
    <2>3. CASE \E j \in Job : /\ NewWork(j) /\ j.branch \in Branch /\ reg[j.handle] # Nothing
                              /\ job' = [job EXCEPT ![m] = j] /\ Goto(m, "check-source")
      <3>1. pc'[m] = "check-source" /\ Solo(m) /\ DOMAIN pc' = Process
        BY <1>0, <2>1, <2>3 DEF Solo, Goto, Ended, MergeTypeOK, TypeOK
      <3> QED
        BY <1>1, <2>1, <2>3, <3>1 DEF Merges, Merging
    <2> QED
      BY <1>2, <2>2, <2>3, StartMergeJob
  <1>3. CASE ~StartMerge(m)
    <2>1. /\ job' = job /\ pc[m] \in Merging
          /\ \E s \in Merging \cup {"failed", "done", "capture"} : Goto(m, s)
      <3> USE DEF Merging, AtTarget
      <3>1. plan[m].how \in Way
        BY DEF MergeTypeOK
      <3>2. CASE CheckSource(m) \/ CommitStaged(m) \/ CheckTarget(m)
        BY <3>2 DEF CheckSource, CommitStaged, CheckTarget
      <3>3. CASE Switch(m)
        BY <3>1, <3>3 DEF Switch, Way
      <3>4. CASE MergeHere(m)
        BY <3>4 DEF MergeHere, AfterMerge
      <3>5. CASE AbortMerge(m) \/ Rebase(m) \/ ResetTarget(m)
        BY <3>5 DEF AbortMerge, Rebase, ResetTarget
      <3>6. CASE Squash(m) \/ CommitSquash(m)
        BY <3>6 DEF Squash, CommitSquash, AfterMerge
      <3> QED
        BY <1>3, <3>2, <3>3, <3>4, <3>5, <3>6 DEF MergeBranch
    <2> QED
      BY <1>0, <1>1, <2>1 DEF Merges, Solo, Goto, Ended, MergeTypeOK, TypeOK, Merging, AtTarget
  <1> QED
    BY <1>2, <1>3

\* Such a step keeps the invariant of the worktrees,
LEMMA MergeKeeps ==
  ASSUME IInv, NEW m \in Merger, Merges(m)
  PROVE  IInv'
  <1>1. m \in Process \ Renamer /\ m \notin Creator
    BY MergerKind
  <1>2. /\ disk' = disk /\ git' = git /\ config' = config /\ quarantine' = quarantine
        /\ holder' = holder /\ stops' = stops /\ Identity' = Identity
    BY DEF Merges, disk, Identity
  <1>3. job' \in [Process -> Job] /\ job'[m].id = Nothing /\ job[m].id = Nothing
    <2>1. job[m].id = Nothing
      BY <1>1 DEF IInv, Jobs, Merges, Merging, AtTarget, Captured, Renaming, Ended
    <2>2. job \in [Process -> Job]
      BY DEF IInv, TypeOK, Job
    <2> QED
      BY <1>1, <2>1, <2>2, JobSet DEF Merges, NewWork
  <1>4. \A q \in Process \ {m} : pc'[q] = pc[q] /\ job'[q] = job[q]
    BY DEF Merges, Solo
  <1>5. TypeOK'
    BY <1>2, <1>3 DEF Merges, IInv, TypeOK, Job, disk, git, config,
                              quarantine
  <1>6. Jobs'
    <2>1. pc'[m] \notin Ended \cup {"start"} => job'[m].handle \in Handle
      BY <1>1, JobSet DEF IInv, TypeOK, Job, Jobs, Merges, Merging, AtTarget, NewWork, Ended
    <2> QED
      BY <1>1, <1>3, <1>4, <2>1 DEF IInv, Jobs, Merges, Merging, AtTarget, Captured, Creating,
                                    Renaming, Ended
  <1>7. Placed'
    BY <1>2 DEF IInv, Placed, disk, git, quarantine
  <1>8. Recorded'
    <2>1. NoneBy(m, trash) /\ NoneBy(m, pending)
      BY <1>1 DEF IInv, Recorded, Merges, Merging, AtTarget
    <2>2. \A q \in Process \ {m} : Mine(q)' = Mine(q)
      BY <1>4 DEF Mine
    <2>3. \A r \in pending : r.by \in Process \ {m}
      BY <2>1 DEF NoneBy, IInv, TypeOK
    <2>4. pc'[m] \notin {"validate", "move", "prune", "drop-branch", "drop-meta"}
      BY DEF Merges, Merging, AtTarget
    <2>5. trash' = trash /\ pending' = pending
      BY <1>2 DEF quarantine
    <2> QED
      BY <1>4, <2>1, <2>2, <2>3, <2>4, <2>5 DEF IInv, Recorded, NoneBy
  <1>9. NotLeftover'
    BY <1>2, <1>3, <1>4 DEF IInv, NotLeftover, disk
  <1>10. Unlocked'
    BY <1>2, <1>3, <1>4 DEF IInv, Unlocked, Unregistered, OnDisk, Mine, disk, git, quarantine
  <1> QED
    BY <1>5, <1>6, <1>7, <1>8, <1>9, <1>10 DEF IInv

\* keeps their directories,
LEMMA MergeTrees ==
  ASSUME IInv, KInv, NEW m \in Merger, Merges(m)
  PROVE  KInv'
  <1>1. m \in Process \ Renamer /\ m \notin Creator /\ Solo(m)
    BY MergerKind DEF Merges
  <1>2. UNCHANGED <<disk, git, quarantine>>
    BY DEF Merges
  <1>3. job[m].id = Nothing
    BY <1>1 DEF IInv, Jobs, Merges, Merging, AtTarget, Captured, Renaming, Ended
  <1>4. Alone'
    BY <1>1, AloneStays DEF KInv
  <1>5. Clear'
    BY <1>1, <1>2 DEF KInv, Clear, PathLeft, NameFree, Solo, Process, disk, git
  <1>6. TreesKept'
    BY <1>1, <1>2, <1>3, TreesStay DEF KInv, disk, quarantine
  <1> QED
    BY <1>4, <1>5, <1>6 DEF KInv

\* and keeps the metadata of one that is renamed.
LEMMA MergeMeta ==
  ASSUME IInv, MInv, NamesApart, NEW m \in Merger, Merges(m)
  PROVE  MInv'
  <1>1. m \in Process \ Renamer /\ Solo(m)
    BY MergerKind DEF Merges
  <1>2. pc'[m] \in Ended \/ job'[m].handle = job[m].handle
          \/ \E h \in Handle : job'[m].handle = h /\ (tree[h] # Nothing \/ reg[h] # Nothing)
    BY <1>1, JobSet DEF Merges, NewWork, Ended, IInv, TypeOK, Job
  <1>3. Beside(m)
    BY <1>1, <1>2 DEF Merges, Beside, disk, git, config, Identity
  <1>4. Emptied'
    BY <1>1 DEF MInv, Emptied, Merges, Merging, AtTarget, Solo, Process, disk
  <1> QED
    BY <1>1, <1>3, <1>4, MetaBeside

-----------------------------------------------------------------------------
(* What the other commands and a kill do to the merges: nothing. *)

\* A step of p that is not one of a merge, but may be its end.
Bystands(p) ==
    /\ Solo(p) /\ DOMAIN pc' = Process
    /\ pc[p] \in Merging => pc'[p] = "stopped"
    /\ pc'[p] \notin Merging
    /\ UNCHANGED <<dirty, root, index, halted, plan>>
    /\ \A b \in Target : commits'[b] = commits[b]

\* A cleanup is past the merge.
LEMMA CleanUpStages ==
  ASSUME TypeOK, NEW p \in Process, CleanUp(p)
  PROVE  pc[p] \notin Merging /\ pc'[p] \notin Merging /\ DOMAIN pc' = Process
  <1> USE DEF TypeOK, Process, Ended, Goto, Finish, Merging, AtTarget
  <1>1. CASE Capture(p)
    <2>1. pc[p] = "capture" /\ \E s \in {"failed", "unlock", "await-close"} : Goto(p, s)
      BY <1>1 DEF Capture
    <2> QED
      BY <2>1
  <1>2. CASE AwaitClose(p) \/ Unlock(p) \/ Record(p) \/ Validate(p) \/ MoveAway(p)
    BY <1>2 DEF AwaitClose, Unlock, Record, Validate, MoveAway
  <1>3. CASE Prune(p) \/ DropBranch(p) \/ DropMeta(p) \/ Delete(p) \/ Forget(p)
    BY <1>3 DEF Prune, DropBranch, DropMeta, Delete, Forget
  <1> QED
    BY <1>1, <1>2, <1>3 DEF CleanUp

\* No other command is in a merge.
LEMMA StepStages ==
  ASSUME TypeOK, NEW p \in Process, Step(p)
  PROVE  pc[p] \notin Merging /\ pc'[p] \notin Merging /\ DOMAIN pc' = Process
  <1> USE DEF TypeOK, Process, Ended, Goto, End, Merging, AtTarget
  <1>1. CASE StartCreate(p) \/ ReadBranch(p) \/ UndoCreate(p)
    BY <1>1 DEF StartCreate, ReadBranch, UndoCreate
  <1>2. CASE InspectPath(p) \/ ClearPath(p) \/ Lock(p) \/ StoreBase(p)
    BY <1>2 DEF InspectPath, ClearPath, Lock, StoreBase
  <1>3. CASE AddWorktree(p) \/ StoreMeta(p) \/ SetUp(p)
    BY <1>3 DEF AddWorktree, StoreMeta, SetUp
  <1>4. CASE StartRemove(p)
    <2>1. pc[p] = "start" /\ \E s \in {"failed", "capture"} : Goto(p, s)
      BY <1>4 DEF StartRemove
    <2> QED
      BY <2>1
  <1>5. CASE StartRename(p)
    <2>1. pc[p] = "start" /\ \E s \in {"failed", "copy-meta"} : Goto(p, s)
      BY <1>5 DEF StartRename
    <2> QED
      BY <2>1
  <1>6. CASE MigrateMeta(p) \/ RestoreMeta(p) \/ MoveWorktree(p)
    BY <1>6 DEF MigrateMeta, RestoreMeta, MoveWorktree, CopySection, DropSection
  <1> QED
    BY <1>1, <1>2, <1>3, <1>4, <1>5, <1>6, CleanUpStages DEF Step, Create, Rename

\* Identities are given out and never taken back.
LEMMA IdentitiesStay ==
  ASSUME IInv, NEW p \in Process, Step(p)
  PROVE  Identity \subseteq Identity'
  <1>1. CASE p \in Creator /\ AddWorktree(p)
    <2>1. job[p].branch \in Branch
      BY <1>1 DEF AddWorktree, IInv, Jobs, Creating
    <2>2. (UNCHANGED <<disk, reg>> /\ End(p, "failed")) \/ \E i : Added(p, i)
      BY <1>1, <2>1, AddWorktreeEffect DEF IInv
    <2> QED
      BY <2>2 DEF Added, disk, Identity
  <1>2. CASE UNCHANGED made
    BY <1>2 DEF Identity
  <1>3. CASE p \in Creator /\ Create(p) /\ ~AddWorktree(p)
    BY <1>2, <1>3 DEF Create, StartCreate, ReadBranch, InspectPath, ClearPath, Lock, StoreBase,
                      StoreMeta, SetUp, UndoCreate, disk
  <1>4. CASE CleanUp(p)
    BY <1>2, <1>4 DEF CleanUp, Capture, AwaitClose, Unlock, Record, Validate, MoveAway, Prune,
                      DropBranch, DropMeta, Delete, Forget, disk
  <1>5. CASE StartRemove(p) \/ Rename(p)
    BY <1>2, <1>5 DEF StartRemove, Rename, StartRename, MigrateMeta, RestoreMeta, MoveWorktree,
                      CopySection, DropSection, disk
  <1> QED
    BY <1>1, <1>3, <1>4, <1>5 DEF Step

\* A step beside merges is one of Worktrees.
LEMMA OtherStepIsStep ==
  ASSUME NEW p \in Process, OtherStep(p)
  PROVE  Step(p) /\ UNCHANGED stops
  BY MergerKind DEF OtherStep, Step

\* It takes work away only with the branch of a worktree, never from a target.
LEMMA OtherBystands ==
  ASSUME IInv, MergeTypeOK, NEW p \in Process, OtherStep(p)
  PROVE  Bystands(p) /\ commits' \in [Branch \cup Target -> SUBSET Work]
  <1>1. Step(p)
    BY OtherStepIsStep
  <1>2. Solo(p) /\ pc[p] \notin Merging /\ pc'[p] \notin Merging /\ DOMAIN pc' = Process
    BY <1>1, SoloStep, StepStages DEF IInv
  <1>3. \A b \in Target : b \notin branches
    BY TargetAssumption DEF IInv, TypeOK
  <1> QED
    BY <1>2, <1>3 DEF Bystands, OtherStep, MergeTypeOK

\* A kill leaves the main worktree as it is.
LEMMA StopBystands ==
  ASSUME IInv, NEW p \in Process, Stop(p), UNCHANGED mergeVars
  PROVE  Bystands(p)
  <1>1. Solo(p)
    BY SoloStop DEF IInv
  <1> QED
    BY <1>1 DEF Bystands, Stop, End, Goto, IInv, TypeOK, mergeVars, target, Merging, AtTarget

\* Another command takes over what merges have left, and a killed merge is one that
\* has left it.
LEMMA BystanderCounts ==
  ASSUME Planned, Accounted, NEW p \in Process, Bystands(p)
  PROVE  Planned' /\ Accounted'
  <1>1. \A m \in Merger : /\ m = p \/ (pc'[m] = pc[m] /\ job'[m] = job[m])
                          /\ plan'[m] = plan[m]
    BY MergerKind DEF Bystands, Solo
  <1>2. Planned'
    BY <1>1 DEF Planned, Bystands
  <1>3. \A m \in Merger : GivenUp(m) => GivenUp(m)'
    BY <1>1 DEF GivenUp, Bystands, Solo, Ended
  <1>4. \A m \in Merger : pc[m] \in Merging => pc'[m] = pc[m] \/ GivenUp(m)'
    BY <1>1 DEF GivenUp, Bystands
  <1>5. Accounted'
    BY <1>3, <1>4 DEF Accounted, Bystands, Merging, AtTarget
  <1> QED
    BY <1>2, <1>5

\* What merges have delivered stays, whatever other commands do.
LEMMA BystanderDelivers ==
  ASSUME Planned, DInv, NEW p \in Process, Bystands(p)
  PROVE  DInv'
  <1>1. \A m \in Merger : /\ m = p \/ pc'[m] = pc[m]
                          /\ plan'[m] = plan[m]
    BY MergerKind DEF Bystands, Solo
  <1>2. \A m \in Merger : pc'[m] \in Merging => pc'[m] = pc[m]
    BY <1>1 DEF Bystands
  <1>3. \A m \in Merger : SquashFailed(m) => SquashFailed(m)'
    BY <1>1 DEF SquashFailed, Bystands, Solo, Ended
  <1>4. OnTarget'
    BY <1>1, <1>2 DEF DInv, OnTarget, Bystands, Merging
  <1>5. Staged'
    BY <1>1, <1>2, <1>3 DEF DInv, Staged, Planned, Bystands, Merging, AtTarget
  <1>6. Delivered'
    BY <1>1, <1>3 DEF DInv, Delivered, Bystands
  <1> QED
    BY <1>4, <1>5, <1>6 DEF DInv

-----------------------------------------------------------------------------
(* The steps of a merge. *)

\* The plan of m has this tip and this outcome now.
Plans(m, tip, outcome) ==
    /\ plan' \in [Merger -> Plan]
    /\ plan'[m].into = plan[m].into /\ plan'[m].how = plan[m].how
    /\ plan'[m].tip = tip /\ plan'[m].outcome = outcome
    /\ \A n \in Merger \ {m} : plan'[n] = plan[n]

\* What a change of the plan of one merge leaves of it and of the others.
LEMMA PlanSet ==
  ASSUME plan \in [Merger -> Plan], NEW m \in Merger, NEW tip \in SUBSET Work,
         NEW outcome \in {None, "merged", "left"}
  PROVE  /\ plan' = plan => Plans(m, plan[m].tip, plan[m].outcome)
         /\ plan' = [plan EXCEPT ![m].tip = tip] => Plans(m, tip, plan[m].outcome)
         /\ plan' = [plan EXCEPT ![m].outcome = outcome] => Plans(m, plan[m].tip, outcome)
         /\ plan' = [plan EXCEPT ![m].tip = tip, ![m].outcome = outcome] => Plans(m, tip, outcome)
  <1>1. ASSUME NEW w \in Plan, w.into = plan[m].into, w.how = plan[m].how,
               plan' = [plan EXCEPT ![m] = w]
        PROVE  Plans(m, w.tip, w.outcome)
    BY <1>1 DEF Plans
  <1>2. ASSUME NEW t \in SUBSET Work, NEW o \in {None, "merged", "left"}
        PROVE  LET w == [plan[m] EXCEPT !.tip = t, !.outcome = o] IN
               /\ w \in Plan /\ w.into = plan[m].into /\ w.how = plan[m].how
               /\ w.tip = t /\ w.outcome = o
    BY DEF Plan
  <1>3. plan[m].tip \in SUBSET Work /\ plan[m].outcome \in {None, "merged", "left"}
    BY DEF Plan
  <1>4. plan' = plan => Plans(m, plan[m].tip, plan[m].outcome)
    BY DEF Plans
  <1>5. ASSUME plan' = [plan EXCEPT ![m].tip = tip]
        PROVE  Plans(m, tip, plan[m].outcome)
    <2> DEFINE w == [plan[m] EXCEPT !.tip = tip]
    <2>1. w \in Plan /\ w.into = plan[m].into /\ w.how = plan[m].how /\ w.tip = tip
          /\ w.outcome = plan[m].outcome
      BY DEF Plan
    <2>2. plan' = [plan EXCEPT ![m] = w]
      BY <1>5
    <2> HIDE DEF w
    <2>3. Plans(m, w.tip, w.outcome)
      BY <1>1, <2>1, <2>2
    <2> QED
      BY <2>1, <2>3
  <1>6. ASSUME plan' = [plan EXCEPT ![m].outcome = outcome]
        PROVE  Plans(m, plan[m].tip, outcome)
    <2> DEFINE w == [plan[m] EXCEPT !.outcome = outcome]
    <2>1. w \in Plan /\ w.into = plan[m].into /\ w.how = plan[m].how /\ w.tip = plan[m].tip
          /\ w.outcome = outcome
      BY DEF Plan
    <2>2. plan' = [plan EXCEPT ![m] = w]
      BY <1>6
    <2> HIDE DEF w
    <2>3. Plans(m, w.tip, w.outcome)
      BY <1>1, <2>1, <2>2
    <2> QED
      BY <2>1, <2>3
  <1>7. ASSUME plan' = [plan EXCEPT ![m].tip = tip, ![m].outcome = outcome]
        PROVE  Plans(m, tip, outcome)
    <2> DEFINE w == [plan[m] EXCEPT !.tip = tip, !.outcome = outcome]
    <2>1. w \in Plan /\ w.into = plan[m].into /\ w.how = plan[m].how /\ w.tip = tip
          /\ w.outcome = outcome
      BY DEF Plan
    <2>2. plan' = [plan EXCEPT ![m] = w]
      BY <1>7 DEF Plan
    <2> HIDE DEF w
    <2>3. Plans(m, w.tip, w.outcome)
      BY <1>1, <2>1, <2>2
    <2> QED
      BY <2>1, <2>3
  <1> QED
    BY <1>4, <1>5, <1>6, <1>7

\* The steps of a merge, with what each does to the main worktree and the plan.
Begun(m) ==
    /\ pc[m] = "start" /\ UNCHANGED <<dirty, commits, root, index, halted>>
    /\ plan' \in [Merger -> Plan] /\ \A n \in Merger \ {m} : plan'[n] = plan[n]
    /\ \/ pc'[m] = "failed" /\ plan' = plan
       \/ /\ pc'[m] = "check-source" /\ job'[m].branch \in Branch
          /\ plan'[m].into \in Target \cap Into /\ plan'[m].outcome = None

Same(m) == /\ job' = job /\ dirty' \subseteq dirty
           /\ \A n \in Process \ {m} : pc'[n] = pc[n]

Checked(m) ==
    /\ Same(m) /\ UNCHANGED <<root, index, halted, plan>>
    /\ pc[m] \in {"check-source", "commit-staged", "check-target"}
    /\ pc'[m] \in {"commit-staged", "check-target", "switch", "failed"}
    /\ commits' = commits \/ \E w \in Work : commits' = [commits EXCEPT ![job[m].branch] = @ \cup {w}]

Switched(m) ==
    /\ Same(m) /\ UNCHANGED <<commits, index, halted, plan>>
    /\ pc[m] = "switch"
    /\ \/ /\ root' = plan[m].into /\ pc'[m] \in {"merge-here", "rebase", "squash"}
          /\ pc'[m] = "squash" => plan[m].how = "squash"
       \/ pc'[m] = "failed" /\ root' = root

Merged(m) ==
    LET b == job[m].branch IN
    /\ Same(m) /\ UNCHANGED <<root, index>> /\ pc[m] = "merge-here"
    /\ \/ /\ commits' = [commits EXCEPT ![root] = @ \cup commits[b]]
          /\ Plans(m, commits[b], "merged") /\ halted' = halted
          /\ pc'[m] \in {"done", "capture"}
       \/ /\ commits' = commits /\ halted' = "merging"
          /\ \/ Plans(m, plan[m].tip, "left") /\ pc'[m] = "failed"
             \/ Plans(m, plan[m].tip, None) /\ pc'[m] = "abort"
       \/ UNCHANGED <<commits, halted, plan>> /\ pc'[m] \in {"failed", "abort"}

Rebased(m) ==
    LET b == job[m].branch IN
    /\ Same(m) /\ UNCHANGED <<root, index, halted, plan>> /\ pc[m] = "rebase"
    /\ \/ /\ commits' = [commits EXCEPT ![b] = @ \cup commits[plan[m].into]]
          /\ pc'[m] = "merge-here"
       \/ commits' = commits /\ pc'[m] = "failed"

Squashed(m) ==
    LET b == job[m].branch IN
    /\ Same(m) /\ UNCHANGED <<commits, root>> /\ pc[m] = "squash"
    /\ \/ /\ index' = index \cup (commits[b] \ commits[root])
          /\ Plans(m, commits[b], plan[m].outcome)
          /\ pc'[m] = "commit-squash" /\ halted' = halted
       \/ /\ UNCHANGED <<index, plan>> /\ pc'[m] = "reset"
          /\ halted' \in {halted, "squashing"}

CommittedSquash(m) ==
    /\ Same(m) /\ UNCHANGED <<root, halted>> /\ pc[m] = "commit-squash"
    /\ \/ /\ commits' = [commits EXCEPT ![root] = @ \cup index] /\ index' = {}
          /\ Plans(m, plan[m].tip, "merged") /\ pc'[m] \in {"done", "capture"}
       \/ /\ UNCHANGED <<commits, index>>
          /\ Plans(m, plan[m].tip, "left") /\ pc'[m] = "failed"

CleanedUp(m) ==
    /\ Same(m) /\ UNCHANGED <<commits, root, plan>> /\ pc'[m] = "failed"
    /\ \/ /\ pc[m] = "abort" /\ index' = index
          /\ halted' = IF halted = "merging" THEN "no" ELSE halted
       \/ pc[m] = "reset" /\ index' = {} /\ halted' = "no"

MergeEffect(m) ==
    \/ Begun(m) \/ Checked(m) \/ Switched(m) \/ Merged(m) \/ Rebased(m) \/ Squashed(m)
    \/ CommittedSquash(m) \/ CleanedUp(m)

\* Every step of a merge has one of these effects.
LEMMA MergeHasEffect ==
  ASSUME MergeTypeOK, Planned, NEW m \in Merger, MergeBranch(m), UNCHANGED worktrees
  PROVE  MergeEffect(m)
  <1>1. m \in Process /\ plan[m] \in Plan /\ plan \in [Merger -> Plan]
        /\ plan[m].how \in Way /\ plan[m].tip \in SUBSET Work
        /\ plan[m].outcome \in {None, "merged", "left"}
    BY MergerKind DEF MergeTypeOK, Plan
  <1>2. \A s : Goto(m, s) => pc'[m] = s /\ \A n \in Process \ {m} : pc'[n] = pc[n]
    BY <1>1 DEF Goto, MergeTypeOK, TypeOK
  <1>3. pc[m] \in Merging => /\ job[m].branch \in Branch /\ plan[m].into \in Target
                             /\ commits[job[m].branch] \in SUBSET Work
    BY DEF Planned, MergeTypeOK
  <1>4. CASE StartMerge(m)
    <2>1. pc[m] = "start" /\ UNCHANGED <<dirty, commits, root, index, halted>>
      BY <1>4 DEF StartMerge, target
    <2>2. CASE Goto(m, "failed") /\ UNCHANGED <<job, plan>>
      BY <1>1, <1>2, <2>1, <2>2 DEF Begun, MergeEffect
    <2>3. CASE \E j \in Job : \E w \in Plan :
                 /\ NewWork(j) /\ j.branch \in Branch /\ reg[j.handle] # Nothing
                 /\ job' = [job EXCEPT ![m] = j]
                 /\ w.into \in Into /\ w.outcome = None
                 /\ plan' = [plan EXCEPT ![m] = w]
                 /\ Goto(m, "check-source")
      <3>1. job'[m].branch \in Branch
        BY <1>1, <2>3, JobSet DEF MergeTypeOK, TypeOK, Job
      <3>2. /\ plan' \in [Merger -> Plan] /\ \A n \in Merger \ {m} : plan'[n] = plan[n]
            /\ plan'[m].into \in Target \cap Into /\ plan'[m].outcome = None
        BY <1>1, <2>3, TargetAssumption
      <3> QED
        BY <1>2, <2>1, <2>3, <3>1, <3>2 DEF Begun, MergeEffect
    <2> QED
      BY <1>4, <2>2, <2>3, StartMergeJob
  <1>5. CASE CheckSource(m)
    BY <1>2, <1>5 DEF CheckSource, target, MergeEffect, Checked, Same
  <1>6. CASE CommitStaged(m)
    BY <1>2, <1>3, <1>6 DEF CommitStaged, target, MergeEffect, Checked, Same, Work, Merging
  <1>7. CASE CheckTarget(m)
    BY <1>2, <1>7 DEF CheckTarget, target, MergeEffect, Checked, Same
  <1>8. CASE Switch(m)
    BY <1>1, <1>2, <1>8 DEF Switch, Way, MergeEffect, Switched, Same
  <1>9. CASE MergeHere(m)
    <2> DEFINE b == job[m].branch
    <2>1. UNCHANGED <<job, dirty, root, index>> /\ pc[m] = "merge-here" /\ commits[b] \in SUBSET Work
      BY <1>3, <1>9 DEF MergeHere, Merging, AtTarget
    <2>2. CASE /\ commits' = [commits EXCEPT ![root] = @ \cup commits[b]]
               /\ plan' = [plan EXCEPT ![m].tip = commits[b], ![m].outcome = "merged"]
               /\ Goto(m, AfterMerge(m)) /\ UNCHANGED halted
      <3>1. Plans(m, commits[b], "merged")
        BY <1>1, <2>1, <2>2, PlanSet
      <3>2. Merged(m)
        BY <1>2, <2>1, <2>2, <3>1 DEF Merged, Same, AfterMerge
      <3> QED
        BY <3>2 DEF MergeEffect
    <2>3. CASE /\ plan' = [plan EXCEPT ![m].outcome = "left"] /\ halted' = "merging"
               /\ Goto(m, "failed") /\ UNCHANGED commits
      <3>1. Plans(m, plan[m].tip, "left")
        BY <1>1, <2>3, PlanSet
      <3>2. Merged(m)
        BY <1>2, <2>1, <2>3, <3>1 DEF Merged, Same
      <3> QED
        BY <3>2 DEF MergeEffect
    <2>4. CASE /\ plan' = [plan EXCEPT ![m].outcome = None] /\ halted' = "merging"
               /\ Goto(m, "abort") /\ UNCHANGED commits
      <3>1. Plans(m, plan[m].tip, None)
        BY <1>1, <2>4, PlanSet
      <3>2. Merged(m)
        BY <1>2, <2>1, <2>4, <3>1 DEF Merged, Same
      <3> QED
        BY <3>2 DEF MergeEffect
    <2>5. CASE /\ Goto(m, "failed") \/ Goto(m, "abort")
               /\ UNCHANGED <<commits, halted, plan>>
      <3>1. Merged(m)
        BY <1>2, <2>1, <2>5 DEF Merged, Same
      <3> QED
        BY <3>1 DEF MergeEffect
    <2> QED
      BY <1>9, <2>2, <2>3, <2>4, <2>5 DEF MergeHere
  <1>10. CASE AbortMerge(m) \/ ResetTarget(m)
    BY <1>2, <1>10 DEF AbortMerge, ResetTarget, MergeEffect, CleanedUp, Same
  <1>11. CASE Rebase(m)
    BY <1>2, <1>11 DEF Rebase, MergeEffect, Rebased, Same
  <1>12. CASE Squash(m)
    <2> DEFINE b == job[m].branch
    <2>1. UNCHANGED <<job, dirty, commits, root>> /\ pc[m] = "squash" /\ commits[b] \in SUBSET Work
      BY <1>3, <1>12 DEF Squash, Merging, AtTarget
    <2>2. CASE /\ index' = index \cup (commits[b] \ commits[root])
               /\ plan' = [plan EXCEPT ![m].tip = commits[b]]
               /\ Goto(m, "commit-squash") /\ UNCHANGED halted
      <3>1. Plans(m, commits[b], plan[m].outcome)
        BY <1>1, <2>1, <2>2, PlanSet
      <3>2. Squashed(m)
        BY <1>2, <2>1, <2>2, <3>1 DEF Squashed, Same
      <3> QED
        BY <3>2 DEF MergeEffect
    <2>3. CASE UNCHANGED <<index, plan>> /\ Goto(m, "reset") /\ halted' \in {halted, "squashing"}
      <3>1. Squashed(m)
        BY <1>2, <2>1, <2>3 DEF Squashed, Same
      <3> QED
        BY <3>1 DEF MergeEffect
    <2> QED
      BY <1>12, <2>2, <2>3 DEF Squash
  <1>13. CASE CommitSquash(m)
    <2>1. UNCHANGED <<job, dirty, root, halted>> /\ pc[m] = "commit-squash"
      BY <1>13 DEF CommitSquash
    <2>2. CASE /\ commits' = [commits EXCEPT ![root] = @ \cup index] /\ index' = {}
               /\ plan' = [plan EXCEPT ![m].outcome = "merged"] /\ Goto(m, AfterMerge(m))
      <3>1. Plans(m, plan[m].tip, "merged")
        BY <1>1, <2>2, PlanSet
      <3>2. CommittedSquash(m)
        BY <1>2, <2>1, <2>2, <3>1 DEF CommittedSquash, Same, AfterMerge
      <3> QED
        BY <3>2 DEF MergeEffect
    <2>3. CASE /\ plan' = [plan EXCEPT ![m].outcome = "left"] /\ Goto(m, "failed")
               /\ UNCHANGED <<commits, index>>
      <3>1. Plans(m, plan[m].tip, "left")
        BY <1>1, <2>3, PlanSet
      <3>2. CommittedSquash(m)
        BY <1>2, <2>1, <2>3, <3>1 DEF CommittedSquash, Same
      <3> QED
        BY <3>2 DEF MergeEffect
    <2> QED
      BY <1>13, <2>2, <2>3 DEF CommitSquash
  <1> QED
    BY <1>4, <1>5, <1>6, <1>7, <1>8, <1>9, <1>10, <1>11, <1>12, <1>13 DEF MergeBranch

-----------------------------------------------------------------------------
(* A merge accounts for what it leaves in the main worktree. *)

\* Only the one who moves may change its account.
LEMMA OthersCount ==
  ASSUME NEW m \in Merger, Merges(m), \A n \in Merger \ {m} : plan'[n] = plan[n]
  PROVE  \A n \in Merger \ {m} : /\ pc'[n] = pc[n] /\ job'[n] = job[n]
                                 /\ GivenUp(n)' = GivenUp(n)
  BY MergerKind DEF Merges, Solo, GivenUp

\* The commits of a branch are replaced by more work.
LEMMA CommitsSet ==
  ASSUME commits \in [Branch \cup Target -> SUBSET Work], NEW b \in Branch \cup Target,
         NEW W \in SUBSET Work, commits' = [commits EXCEPT ![b] = @ \cup W]
  PROVE  /\ commits' \in [Branch \cup Target -> SUBSET Work]
         /\ W \subseteq commits'[b]
         /\ \A c \in Branch \cup Target : commits[c] \subseteq commits'[c]
         /\ \A c \in (Branch \cup Target) \ {b} : commits'[c] = commits[c]
  OBVIOUS

\* What a step of a merge does to the branches: they only gain work.
LEMMA MergeCommits ==
  ASSUME MergeTypeOK, Planned, NEW m \in Merger, MergeEffect(m)
  PROVE  /\ commits' \in [Branch \cup Target -> SUBSET Work]
         /\ \A b \in Branch \cup Target : commits[b] \subseteq commits'[b]
  <1>0. commits \in [Branch \cup Target -> SUBSET Work] /\ root \in Target /\ index \in SUBSET Work
    BY DEF MergeTypeOK
  <1>1. pc[m] \in Merging => job[m].branch \in Branch /\ plan[m].into \in Target
    BY DEF Planned
  <1>2. CASE commits' = commits
    BY <1>0, <1>2
  <1>3. ASSUME NEW b \in Branch \cup Target, NEW W \in SUBSET Work,
               commits' = [commits EXCEPT ![b] = @ \cup W]
        PROVE  /\ commits' \in [Branch \cup Target -> SUBSET Work]
               /\ \A c \in Branch \cup Target : commits[c] \subseteq commits'[c]
    BY <1>0, <1>3, CommitsSet
  <1>4. CASE Checked(m)
    <2>1. job[m].branch \in Branch
      BY <1>1, <1>4 DEF Checked, Merging
    <2>2. CASE \E w \in Work : commits' = [commits EXCEPT ![job[m].branch] = @ \cup {w}]
      <3>1. PICK w \in Work : commits' = [commits EXCEPT ![job[m].branch] = @ \cup {w}]
        BY <2>2
      <3>2. {w} \in SUBSET Work
        OBVIOUS
      <3> QED
        BY <1>3, <2>1, <3>1, <3>2
    <2> QED
      BY <1>2, <1>4, <2>2 DEF Checked
  <1>5. CASE Merged(m)
    <2>1. job[m].branch \in Branch /\ commits[job[m].branch] \in SUBSET Work
      BY <1>0, <1>1, <1>5 DEF Merged, Merging, AtTarget
    <2> QED
      BY <1>0, <1>2, <1>3, <1>5, <2>1 DEF Merged
  <1>6. CASE Rebased(m)
    <2>1. job[m].branch \in Branch /\ commits[plan[m].into] \in SUBSET Work
      BY <1>0, <1>1, <1>6 DEF Rebased, Merging, AtTarget
    <2> QED
      BY <1>2, <1>3, <1>6, <2>1 DEF Rebased
  <1>7. CASE CommittedSquash(m)
    BY <1>0, <1>2, <1>3, <1>7 DEF CommittedSquash
  <1> QED
    BY <1>2, <1>4, <1>5, <1>6, <1>7 DEF MergeEffect, Begun, Switched, Squashed, CleanedUp

\* A step of a merge keeps the types.
LEMMA MergeTyped ==
  ASSUME MergeTypeOK, TypeOK', Planned, NEW m \in Merger, Merges(m), MergeEffect(m)
  PROVE  MergeTypeOK'
  <1> USE DEF MergeEffect, Begun, Checked, Switched, Merged, Rebased, Squashed, CommittedSquash,
              CleanedUp, Same, Plans
  <1>1. Identity' = Identity
    BY DEF Merges, disk, Identity
  <1>2. dirty' \subseteq Identity' \X {"edited", "staged"}
    BY <1>1 DEF MergeTypeOK
  <1>3. commits' \in [Branch \cup Target -> SUBSET Work]
    BY MergeCommits
  <1>4. pc[m] \in Merging => job[m].branch \in Branch /\ plan[m].into \in Target
    BY DEF Planned
  <1>5. root' \in Target
    BY <1>4 DEF MergeTypeOK, Merging
  <1>6. index' \subseteq Work
    <2>1. pc[m] = "squash" => commits[job[m].branch] \subseteq Work
      BY <1>4 DEF MergeTypeOK, Merging, AtTarget
    <2> QED
      BY <2>1 DEF MergeTypeOK
  <1>7. halted' \in {"no", "merging", "squashing"}
    BY DEF MergeTypeOK
  <1>8. plan' \in [Merger -> Plan]
    BY DEF MergeTypeOK, Plan
  <1> QED
    BY <1>2, <1>3, <1>5, <1>6, <1>7, <1>8 DEF MergeTypeOK, Plan

\* A step of a merge hands on what it has staged or stopped at, cleans it up, or
\* gives up with a trace: abort, reset and commit-squash of merge.rs.
LEMMA MergeCounts ==
  ASSUME MergeTypeOK, Planned, Accounted, NEW m \in Merger, Merges(m), MergeEffect(m)
  PROVE  Planned' /\ Accounted'
  <1> USE DEF Begun, Checked, Switched, Merged, Rebased, Squashed, CommittedSquash,
              CleanedUp, Same, Plans
  <1>1. \A n \in Merger \ {m} : plan'[n] = plan[n]
    BY DEF MergeEffect
  <1>2. \A n \in Merger \ {m} : /\ pc'[n] = pc[n] /\ job'[n] = job[n]
                                /\ GivenUp(n)' = GivenUp(n)
    BY <1>1, OthersCount
  <1>3. ~GivenUp(m)
    BY DEF GivenUp, Merges, Merging, AtTarget
  <1>4. pc'[m] \in Merging =>
          /\ plan'[m].into \in Target \cap Into /\ job'[m].branch \in Branch
          /\ plan'[m].outcome # "merged"
          /\ pc'[m] \in {"squash", "reset", "commit-squash"} => plan'[m].how = "squash"
    <2>1. pc[m] \in Merging =>
            /\ plan[m].into \in Target \cap Into /\ job[m].branch \in Branch
            /\ plan[m].outcome # "merged"
            /\ pc[m] \in {"squash", "reset", "commit-squash"} => plan[m].how = "squash"
      BY DEF Planned
    <2>2. CASE Begun(m)
      BY <2>2, TargetAssumption DEF Merging, AtTarget
    <2>3. CASE Checked(m) \/ Switched(m) \/ Rebased(m)
      BY <2>1, <2>3 DEF Merging, AtTarget
    <2>4. CASE Merged(m)
      BY <2>1, <2>4, TargetAssumption DEF Merging, AtTarget
    <2>5. CASE Squashed(m)
      BY <2>1, <2>5 DEF Merging, AtTarget
    <2>6. CASE CommittedSquash(m) \/ CleanedUp(m)
      BY <2>1, <2>6 DEF Merging, AtTarget
    <2> QED
      BY <2>2, <2>3, <2>4, <2>5, <2>6 DEF MergeEffect
  <1>5. Planned'
    BY <1>1, <1>2, <1>4 DEF Planned
  <1>6. index' # {} => \E n \in Merger : pc'[n] = "commit-squash" \/ GivenUp(n)'
    <2>1. CASE Squashed(m) \/ CommittedSquash(m) \/ CleanedUp(m)
      BY <1>2, <1>3, <2>1 DEF Accounted, GivenUp
    <2>2. CASE index' = index /\ pc[m] # "commit-squash"
      BY <1>2, <1>3, <2>2 DEF Accounted
    <2> QED
      BY <2>1, <2>2 DEF MergeEffect
  <1>7. halted' = "merging" => \E n \in Merger : pc'[n] = "abort" \/ GivenUp(n)'
    <2>1. CASE Merged(m) \/ CleanedUp(m)
      BY <1>2, <1>3, <2>1 DEF Accounted, GivenUp
    <2>2. CASE pc[m] # "abort" /\ (halted' = halted \/ halted' = "squashing")
      BY <1>2, <1>3, <2>2 DEF Accounted
    <2> QED
      BY <2>1, <2>2 DEF MergeEffect
  <1>8. halted' = "squashing" => \E n \in Merger : pc'[n] = "reset" \/ GivenUp(n)'
    <2>1. CASE Squashed(m) \/ CleanedUp(m)
      BY <1>2, <1>3, <2>1 DEF Accounted, GivenUp
    <2>2. CASE pc[m] # "reset" /\ (halted' = halted \/ halted' = "merging")
      BY <1>2, <1>3, <2>2 DEF Accounted
    <2> QED
      BY <2>1, <2>2 DEF MergeEffect
  <1> QED
    BY <1>5, <1>6, <1>7, <1>8 DEF Accounted
-----------------------------------------------------------------------------
(* A merge delivers what it says. *)

\* A squash that has failed stays so, while others go on.
LEMMA SquashFailedStays ==
  ASSUME NEW m \in Merger, Merges(m), \A n \in Merger \ {m} : plan'[n] = plan[n],
         NEW n \in Merger, SquashFailed(n), plan'[n].how = plan[n].how
  PROVE  SquashFailed(n)'
  <1>1. PICK o \in Merger \ {n} : plan[o].how = "squash" /\ pc[o] = "failed"
    BY DEF SquashFailed
  <1>2. o # m
    BY <1>1 DEF Merges, Merging, AtTarget
  <1>3. pc'[o] = pc[o] /\ plan'[o] = plan[o]
    BY <1>2, MergerKind DEF Merges, Solo
  <1> QED
    BY <1>1, <1>3 DEF SquashFailed

\* The main worktree stays on the target while merges are at it (switch, merge.rs:208).
LEMMA MergeOnTarget ==
  ASSUME MergeTypeOK, Planned, OnTarget, OneTarget', NEW m \in Merger, Merges(m), MergeEffect(m)
  PROVE  OnTarget'
  <1> USE DEF Begun, Checked, Switched, Merged, Rebased, Squashed, CommittedSquash,
              CleanedUp, Same, Plans
  <1>1. \A n \in Merger \ {m} : plan'[n] = plan[n] /\ pc'[n] = pc[n]
    BY OthersCount DEF MergeEffect
  <1>2. CASE Switched(m)
    <2>1. CASE pc'[m] = "failed" /\ root' = root
      BY <1>1, <1>2, <2>1 DEF OnTarget, AtTarget
    <2>2. CASE root' = plan[m].into /\ pc'[m] \in {"merge-here", "rebase", "squash"}
      BY <1>1, <1>2, <2>2 DEF OnTarget, OneTarget, AtTarget
    <2> QED
      BY <1>2, <2>1, <2>2
  <1>3. CASE ~Switched(m)
    <2>1. root' = root
      BY <1>3 DEF MergeEffect
    <2>2. pc'[m] \in AtTarget => pc[m] \in AtTarget /\ plan'[m].into = plan[m].into
      BY <1>3 DEF MergeEffect, AtTarget
    <2> QED
      BY <1>1, <2>1, <2>2 DEF OnTarget
  <1> QED
    BY <1>2, <1>3

\* What a squash has staged stays staged or is committed to the target, or another
\* squash has reset the main worktree and failed.
LEMMA MergeStaged ==
  ASSUME MergeTypeOK, Planned, OnTarget, OneTarget, Staged,
         NEW m \in Merger, Merges(m), MergeEffect(m)
  PROVE  Staged'
  <1> USE DEF Begun, Checked, Switched, Merged, Rebased, Squashed, CommittedSquash,
              CleanedUp, Same, Plans
  <1>1. \A n \in Merger \ {m} : plan'[n] = plan[n] /\ pc'[n] = pc[n]
    BY OthersCount DEF MergeEffect
  <1>2. SUFFICES ASSUME NEW n \in Merger, pc'[n] = "commit-squash"
                 PROVE  \/ plan'[n].tip \subseteq commits'[plan'[n].into] \cup index'
                        \/ SquashFailed(n)'
    BY DEF Staged
  <1>3. \A b \in Target : commits[b] \subseteq commits'[b]
    BY MergeCommits
  <1>4. CASE n = m
    <2>1. Squashed(m) /\ index' = index \cup (commits[job[m].branch] \ commits[root])
          /\ plan'[m].tip = commits[job[m].branch] /\ plan'[m].into = plan[m].into
          /\ pc[m] = "squash"
      BY <1>2, <1>4 DEF MergeEffect
    <2>2. root = plan[m].into /\ plan[m].into \in Target
      BY <2>1 DEF OnTarget, Planned, Merging, AtTarget
    <2> QED
      BY <1>3, <1>4, <2>1, <2>2
  <1>5. CASE n # m
    <2>1. /\ pc[n] = "commit-squash" /\ plan'[n] = plan[n] /\ plan[n].into \in Target
          /\ root = plan[n].into /\ plan[n].how = "squash"
      BY <1>1, <1>2, <1>5 DEF OnTarget, Planned, Merging, AtTarget
    <2>2. CASE SquashFailed(n)
      BY <1>1, <2>1, <2>2, SquashFailedStays
    <2>3. CASE plan[n].tip \subseteq commits[plan[n].into] \cup index
      <3>1. CASE CleanedUp(m) /\ pc[m] = "reset"
        <4>1. plan'[m].how = "squash" /\ pc'[m] = "failed"
          BY <3>1 DEF Planned, Merging, AtTarget
        <4> QED
          BY <1>5, <2>1, <4>1 DEF SquashFailed
      <3>2. CASE CommittedSquash(m) /\ commits' = [commits EXCEPT ![root] = @ \cup index]
        <4>1. index \subseteq commits'[root]
          BY <3>2, CommitsSet DEF MergeTypeOK
        <4> QED
          BY <1>3, <2>1, <2>3, <4>1
      <3>3. CASE index \subseteq index'
        BY <1>3, <2>1, <2>3, <3>3
      <3> QED
        BY <3>1, <3>2, <3>3 DEF MergeEffect
    <2> QED
      BY <2>1, <2>2, <2>3 DEF Staged
  <1> QED
    BY <1>4, <1>5

\* What is reported as merged is in the target, and stays there.
LEMMA MergeDelivered ==
  ASSUME MergeTypeOK, Planned, OnTarget, Staged, Delivered,
         NEW m \in Merger, Merges(m), MergeEffect(m)
  PROVE  Delivered'
  <1> USE DEF Begun, Checked, Switched, Merged, Rebased, Squashed, CommittedSquash,
              CleanedUp, Same, Plans
  <1>1. \A n \in Merger \ {m} : plan'[n] = plan[n] /\ pc'[n] = pc[n]
    BY OthersCount DEF MergeEffect
  <1>2. SUFFICES ASSUME NEW n \in Merger, plan'[n].outcome = "merged"
                 PROVE  /\ plan'[n].into \in Target
                        /\ \/ plan'[n].tip \subseteq commits'[plan'[n].into]
                           \/ SquashFailed(n)'
    BY DEF Delivered
  <1>3. \A b \in Target : commits[b] \subseteq commits'[b]
    BY MergeCommits
  <1>4. CASE plan'[n] = plan[n]
    <2>1. plan[n].into \in Target
      BY <1>2, <1>4 DEF Delivered
    <2>2. CASE SquashFailed(n)
      BY <1>1, <1>4, <2>1, <2>2, SquashFailedStays
    <2>3. CASE plan[n].tip \subseteq commits[plan[n].into]
      BY <1>3, <1>4, <2>1, <2>3
    <2> QED
      BY <1>2, <1>4, <2>2, <2>3 DEF Delivered
  <1>5. CASE n = m /\ pc[m] \in Merging
    <2>1. plan[m].outcome # "merged" /\ plan[m].into \in Target
      BY <1>5 DEF Planned
    <2>2. pc[m] \in AtTarget => root = plan[m].into
      BY DEF OnTarget
    <2>3. CASE Merged(m) /\ commits' = [commits EXCEPT ![root] = @ \cup commits[job[m].branch]]
               /\ plan'[m].tip = commits[job[m].branch] /\ plan'[m].into = plan[m].into
      <3>1. job[m].branch \in Branch
        BY <1>5 DEF Planned
      <3>2. commits[job[m].branch] \subseteq commits'[root]
        BY <2>3, <3>1, CommitsSet DEF MergeTypeOK
      <3>3. root = plan[m].into
        BY <2>2, <2>3 DEF AtTarget
      <3> QED
        BY <1>5, <2>1, <2>3, <3>2, <3>3
    <2>4. CASE CommittedSquash(m) /\ commits' = [commits EXCEPT ![root] = @ \cup index]
               /\ plan'[m].tip = plan[m].tip /\ plan'[m].into = plan[m].into
               /\ plan'[m].how = plan[m].how
      <3>1. root = plan[m].into /\ root \in Target
        BY <2>1, <2>2, <2>4 DEF AtTarget
      <3>2. index \subseteq commits'[root]
        BY <2>4, CommitsSet DEF MergeTypeOK
      <3>3. CASE SquashFailed(m)
        BY <1>1, <1>5, <2>1, <2>4, <3>3, SquashFailedStays
      <3>4. CASE plan[m].tip \subseteq commits[plan[m].into] \cup index
        BY <1>3, <1>5, <2>4, <3>1, <3>2, <3>4
      <3> QED
        BY <2>4, <3>3, <3>4 DEF Staged
    <2> QED
      BY <1>2, <1>5, <2>1, <2>3, <2>4, TargetAssumption DEF MergeEffect, Merging, AtTarget
  <1>6. CASE n = m /\ pc[m] = "start" /\ plan' # plan
    <2>1. plan'[m].outcome = None
      BY <1>6 DEF MergeEffect
    <2> QED
      BY <1>2, <1>6, <2>1, TargetAssumption
  <1> QED
    BY <1>1, <1>4, <1>5, <1>6 DEF Merges

\* A step of a merge keeps what is promised of all merges.
LEMMA MergeDelivers ==
  ASSUME CInv, DInv, OneTarget, OneTarget', NEW m \in Merger, Merges(m), MergeEffect(m)
  PROVE  DInv'
  BY MergeOnTarget, MergeStaged, MergeDelivered DEF CInv, DInv
-----------------------------------------------------------------------------
(* What every step keeps, and what that implies. *)

\* A step is one of a merge, one of another command or of the cleanup after a
\* merge, or a kill.
LEMMA MergeNextIs ==
  ASSUME IInv, CInv, MergeNext
  PROVE  \/ \E m \in Merger : Merges(m) /\ MergeEffect(m)
         \/ \E p \in Process : /\ (Step(p) /\ UNCHANGED stops) \/ Stop(p)
                               /\ Bystands(p)
                               /\ commits' \in [Branch \cup Target -> SUBSET Work]
  <1>1. ASSUME NEW m \in Merger, MergeBranch(m), UNCHANGED worktrees
        PROVE  Merges(m) /\ MergeEffect(m)
    BY <1>1, MergeMoves, MergeHasEffect DEF CInv
  <1>2. ASSUME NEW p \in Process, OtherStep(p)
        PROVE  /\ Step(p) /\ UNCHANGED stops /\ Bystands(p)
               /\ commits' \in [Branch \cup Target -> SUBSET Work]
    BY <1>2, OtherStepIsStep, OtherBystands DEF CInv
  <1>3. ASSUME NEW p \in Process, Stop(p), UNCHANGED mergeVars
        PROVE  Bystands(p) /\ commits' \in [Branch \cup Target -> SUBSET Work]
    <2>1. commits' = commits
      BY <1>3 DEF mergeVars, target
    <2> QED
      BY <1>3, <2>1, StopBystands DEF CInv, MergeTypeOK
  <1> QED
    BY <1>1, <1>2, <1>3 DEF MergeNext, Run

\* A kill gives out no identity.
LEMMA IdentitiesStayWhenStopped ==
  ASSUME NEW p \in Process, Stop(p)
  PROVE  Identity' = Identity
  BY DEF Stop, disk, Identity

\* The invariant of the worktrees, and what merges account for.
LEMMA MergeNextKeeps ==
  ASSUME IInv, CInv, MergeNext
  PROVE  IInv' /\ CInv'
  <1>1. ASSUME NEW m \in Merger, Merges(m), MergeEffect(m)
        PROVE  IInv' /\ CInv'
    <2>1. IInv' /\ TypeOK'
      BY <1>1, MergeKeeps DEF IInv
    <2>2. MergeTypeOK'
      BY <1>1, <2>1, MergeTyped DEF CInv
    <2>3. Planned' /\ Accounted'
      BY <1>1, MergeCounts DEF CInv
    <2> QED
      BY <2>1, <2>2, <2>3 DEF CInv
  <1>2. ASSUME NEW p \in Process, (Step(p) /\ UNCHANGED stops) \/ Stop(p), Bystands(p),
               commits' \in [Branch \cup Target -> SUBSET Work]
        PROVE  IInv' /\ CInv'
    <2>1. IInv' /\ TypeOK'
      BY <1>2, StepKeeps, StopKeeps DEF IInv
    <2>2. Identity \subseteq Identity'
      BY <1>2, IdentitiesStay, IdentitiesStayWhenStopped
    <2>3. MergeTypeOK'
      BY <1>2, <2>1, <2>2 DEF CInv, MergeTypeOK, Bystands
    <2>4. Planned' /\ Accounted'
      BY <1>2, BystanderCounts DEF CInv
    <2> QED
      BY <2>1, <2>3, <2>4 DEF CInv
  <1> QED
    BY <1>1, <1>2, MergeNextIs

\* Every step keeps the worktrees unless a creation has a rival.
LEMMA MergeNextTrees ==
  ASSUME IInv, CInv, KInv, NoRival, MergeNext
  PROVE  KInv'
  <1>1. ASSUME NEW m \in Merger, Merges(m) PROVE KInv'
    BY <1>1, MergeTrees
  <1>2. ASSUME NEW p \in Process, Step(p) \/ Stop(p) PROVE KInv'
    BY <1>2, KInvKeeps
  <1> QED
    BY <1>1, <1>2, MergeNextIs

\* Merges leave no directory behind and create nothing.
LEMMA MergeNextTidy ==
  ASSUME IInv, CInv, Tidy, MergeNext
  PROVE  Tidy'
  <1>1. ASSUME NEW m \in Merger, Merges(m) PROVE Tidy'
    <2>1. Solo(m) /\ m \notin Creator /\ tree' = tree
      BY <1>1, MergerKind DEF Merges, disk
    <2> QED
      BY <2>1 DEF Tidy, NoDebris, OneCreation, Solo, Process
  <1>2. ASSUME NEW p \in Process, Step(p) \/ Stop(p) PROVE Tidy'
    BY <1>2, TidyKeeps
  <1> QED
    BY <1>1, <1>2, MergeNextIs

\* Every step keeps the metadata of a worktree that is renamed.
LEMMA MergeNextMeta ==
  ASSUME IInv, CInv, MInv, NamesApart, MergeNext
  PROVE  MInv'
  <1>1. ASSUME NEW m \in Merger, Merges(m) PROVE MInv'
    BY <1>1, MergeMeta
  <1>2. ASSUME NEW p \in Process, Step(p) \/ Stop(p) PROVE MInv'
    BY <1>2, MInvKeeps
  <1> QED
    BY <1>1, <1>2, MergeNextIs

\* Every step keeps what was delivered, if merges have one target.
LEMMA MergeNextDelivers ==
  ASSUME IInv, CInv, DInv, OneTarget, OneTarget', MergeNext
  PROVE  DInv'
  <1>1. ASSUME NEW m \in Merger, Merges(m), MergeEffect(m) PROVE DInv'
    BY <1>1, MergeDelivers
  <1>2. ASSUME NEW p \in Process, Bystands(p) PROVE DInv'
    BY <1>2, BystanderDelivers DEF CInv
  <1> QED
    BY <1>1, <1>2, MergeNextIs

\* Steps of others keep the invariants,
LEMMA MergeStutters ==
  ASSUME IInv, CInv, UNCHANGED <<vars, mergeVars>>
  PROVE  IInv' /\ CInv'
  <1>1. IInv' /\ TypeOK' /\ Identity' = Identity
    BY StutterKeeps DEF IInv, vars, disk, Identity
  <1>2. MergeTypeOK'
    BY <1>1 DEF CInv, MergeTypeOK, mergeVars, target
  <1>3. Planned'
    BY DEF CInv, Planned, vars, mergeVars
  <1>4. Accounted'
    BY DEF CInv, Accounted, GivenUp, vars, mergeVars, target
  <1> QED
    BY <1>1, <1>2, <1>3, <1>4 DEF CInv

\* and what was delivered.
LEMMA DInvStutters == DInv /\ UNCHANGED <<vars, mergeVars>> => DInv'
  BY DEF DInv, OnTarget, Staged, Delivered, SquashFailed, vars, mergeVars, target

\* At first no merge has a plan, and the main worktree is clean.
LEMMA MergeInitKeeps == MergeInit => IInv /\ CInv /\ DInv
  <1> SUFFICES ASSUME MergeInit PROVE IInv /\ CInv /\ DInv
    OBVIOUS
  <1>1. IInv /\ TypeOK
    BY InitKeeps DEF MergeInit, IInv
  <1>2. PICK cast \in Casts, left \in SUBSET Handle, kind \in Kind : Homed(cast, left, kind)
    BY InitHomed DEF MergeInit
  <1>3. \A m \in Merger : pc[m] \in {"start", "done"}
    BY <1>2, MergerKind DEF Homed
  <1>4. dirty \subseteq Identity \X {"edited", "staged"}
    <2>1. PICK kinds \in Dirt : dirty = Identity \X kinds
      BY DEF MergeInit
    <2>2. kinds \subseteq {"edited", "staged"}
      BY TargetAssumption
    <2> QED
      BY <2>1, <2>2
  <1>5. commits \in [Branch \cup Target -> SUBSET Work] /\ root \in Target
        /\ index = {} /\ halted = "no"
    <2>1. \A b \in Branch : {<<b, "committed">>} \in SUBSET Work
      BY DEF Work
    <2>2. {} \in SUBSET Work
      OBVIOUS
    <2> QED
      BY <1>1, <2>1, <2>2 DEF MergeInit, TypeOK
  <1>6. plan \in [Merger -> Plan] /\ \A m \in Merger : plan[m] = NoPlan
    BY DEF MergeInit, NoPlan, Plan, Way
  <1>7. MergeTypeOK
    BY <1>1, <1>4, <1>5, <1>6 DEF MergeTypeOK, Plan
  <1>8. Planned /\ Accounted
    BY <1>3, <1>5 DEF Planned, Accounted, Merging, AtTarget
  <1>9. OnTarget /\ Staged
    BY <1>3 DEF OnTarget, Staged, AtTarget
  <1>10. Delivered
    BY <1>6, TargetAssumption DEF Delivered, NoPlan
  <1> QED
    BY <1>1, <1>7, <1>8, <1>9, <1>10 DEF CInv, DInv

\* What merges account for implies that the target is clean but for traces.
LEMMA CInvImplies == CInv => MergeTypeOK /\ TargetClean
  BY DEF CInv, Accounted, GivenUp, TargetClean, MergeTypeOK

\* What merges deliver is what they report.
LEMMA DInvImplies == DInv => MergedIntoTarget
  BY DEF DInv, Delivered, SquashFailed, MergedIntoTarget

-----------------------------------------------------------------------------
(* The theorems. *)

\* All commands together keep the invariant of the worktrees, and that of merges.
THEOREM MergeInductive == MergeSpec => [](IInv /\ CInv)
  <1>1. IInv /\ CInv /\ [MergeNext]_<<vars, mergeVars>> => IInv' /\ CInv'
    BY MergeNextKeeps, MergeStutters
  <1>2. MergeInit => IInv /\ CInv
    BY MergeInitKeeps
  <1> QED
    BY <1>1, <1>2, PTL DEF MergeSpec

\* Every variable has its type, whichever commands and merges run together.
THEOREM MergeTypeCorrect == MergeSpec => []MergeTypeOK
  BY MergeInductive, CInvImplies, PTL

\* No conflict and nothing staged stays behind in the main worktree (git/merge.rs),
\* however many merges run at once and into whichever targets, but by one that is at
\* it, was killed, or failed in its last step.
THEOREM TargetIsClean == MergeSpec => []TargetClean
  BY MergeInductive, CInvImplies, PTL

\* What cleanups have in quarantine has a record (cleanup_retry.rs), the cleanups
\* after a merge included.
THEOREM TrashIsRecordedBesideMerges == MergeSpec => []TrashRecorded
  BY MergeInductive, IInvImplies, PTL

\* A removal or a merge that reports success has removed its worktree (cleanup.rs).
THEOREM RemovedIsGoneBesideMerges == MergeSpec => []RemovedMeansGone
  BY MergeInductive, IInvImplies, PTL

\* No command, nor the cleanup after a merge, deletes a worktree it has not captured,
\* unless creations are rivals for one path (create.rs:443).
THEOREM TreesAreKeptBesideMerges == MergeSpec /\ []NoRival => []TreesKept
  <1>1. IInv /\ CInv /\ KInv /\ NoRival /\ [MergeNext]_<<vars, mergeVars>> => KInv'
    <2>1. UNCHANGED <<vars, mergeVars>> => UNCHANGED vars
      OBVIOUS
    <2> QED
      BY <2>1, MergeNextTrees, KInvStutters
  <1>2. KInv => TreesKept
    BY DEF KInv
  <1>3. MergeInit => KInv
    BY InitTrees DEF KInv, MergeInit
  <1> QED
    BY <1>1, <1>2, <1>3, MergeInductive, PTL DEF MergeSpec

\* The same if there is no leftover directory at first, or one creation at most.
THEOREM TreesAreKeptByTidyCasts == TidyCasts /\ MergeSpec => []TreesKept
  <1>1. IInv /\ CInv /\ Tidy /\ [MergeNext]_<<vars, mergeVars>> => Tidy'
    <2>1. UNCHANGED <<vars, mergeVars>> => UNCHANGED vars
      OBVIOUS
    <2> QED
      BY <2>1, MergeNextTidy, TidyStutters
  <1>2. TidyCasts /\ MergeInit => Tidy
    BY InitTidy DEF MergeInit
  <1> QED
    BY <1>1, <1>2, TidyImplies, MergeInductive, TreesAreKeptBesideMerges, PTL DEF MergeSpec

\* A rename keeps the metadata of its worktree that git could list (rename.rs)
\* beside merges, too.
THEOREM MetaIsKeptBesideMerges == MergeSpec /\ []NamesApart => []MetaKept
  <1>1. IInv /\ CInv /\ MInv /\ NamesApart /\ [MergeNext]_<<vars, mergeVars>> => MInv'
    <2>1. UNCHANGED <<vars, mergeVars>> => UNCHANGED vars
      OBVIOUS
    <2> QED
      BY <2>1, MergeNextMeta, MInvStutters
  <1>2. MergeInit => MInv
    BY InitMeta DEF MergeInit
  <1> QED
    BY <1>1, <1>2, MInvImplies, MergeInductive, PTL DEF MergeSpec

\* What was delivered, as long as merges have one target.
Served == OneTarget => DInv

\* What workmux reports as merged is in the target that was asked for (merge.rs)
\* before the branch is deleted and ever after, as long as merges that are in the
\* main worktree at the same time have one target; without it this is not so.
THEOREM MergesDeliver == MergeSpec /\ []OneTarget => []MergedIntoTarget
  <1>1. IInv /\ CInv /\ OneTarget /\ Served /\ [MergeNext]_<<vars, mergeVars>> => Served'
    BY MergeNextDelivers, DInvStutters DEF Served
  <1>2. MergeInit => Served
    BY MergeInitKeeps DEF Served
  <1>3. OneTarget /\ Served => MergedIntoTarget
    BY DInvImplies DEF Served
  <1> QED
    BY <1>1, <1>2, <1>3, MergeInductive, PTL DEF MergeSpec

\* There is one branch to merge into.
OneInto == \A a, b \in Into : a = b

\* Then merges have one target at any time.
LEMMA OneIntoImplies == OneInto /\ CInv => OneTarget
  BY DEF OneInto, CInv, Planned, OneTarget, Merging

\* With one branch to merge into, what workmux reports as merged is in it, whatever
\* else runs and whoever is killed.
THEOREM MergesDeliverToOneTarget == OneInto /\ MergeSpec => []MergedIntoTarget
  <1> SUFFICES ASSUME OneInto PROVE MergeSpec => []MergedIntoTarget
    OBVIOUS
  <1>1. CInv => OneTarget
    BY OneIntoImplies
  <1> QED
    BY <1>1, MergeInductive, MergesDeliver, PTL

=============================================================================
