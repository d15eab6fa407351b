----------------------------- MODULE Worktrees -----------------------------
(***************************************************************************)
(* Creating, removing and renaming worktrees (src/src/workflow/create.rs,  *)
(* remove.rs, cleanup.rs, cleanup_retry.rs, rename.rs and what they use of *)
(* src/src/git).                                                           *)
(*                                                                         *)
(* The commands share the directories, git's registrations, branches and   *)
(* configuration of one repository.  Only creation takes a lock, around    *)
(* its writes to the configuration.  A process runs one command; a step is *)
(* a git command or a few system calls.  Worktree directories are known by *)
(* an identity (device and inode in the code), so that a path used again   *)
(* can be told from the path as it was.                                    *)
(***************************************************************************)
EXTENDS Integers, Sequences, FiniteSets

CONSTANTS
    Handle,     \* names of worktrees, each one path
    Branch,
    Base,       \* refs a branch can be started from
    None,
    Creator, Remover, Renamer,  \* processes
    Free,       \* nobody holds the configuration lock
    Casts       \* bounds: which processes run together, how many of them are
                \* stopped, which worktrees there are at first, whether these may
                \* be locked or lost, where a leftover directory may be

Process == Creator \cup Remover \cup Renamer

Kind == {"headless", "multiplexer"}

\* A rename is never run with a creation or another rename: git moves a
\* worktree into a directory that has appeared at the target, which the model
\* leaves out.
ASSUME CastsAssumption ==
    /\ Casts \subseteq [who : SUBSET Process, stops : Nat,
                       home : Seq([handle : Handle, branch : Branch]),
                       rough : BOOLEAN, debris : SUBSET Handle]
    /\ \A cast \in Casts : \A i, j \in DOMAIN cast.home :
          /\ cast.home[i].handle \notin cast.debris
          /\ i # j => /\ cast.home[i].handle # cast.home[j].handle
                      /\ cast.home[i].branch # cast.home[j].branch
    /\ \A cast \in Casts : cast.who \cap Renamer # {} =>
          cast.who \cap Creator = {} /\ \E n \in Renamer : cast.who \cap Renamer = {n}
ASSUME FreeAssumption == Free \notin Process
ASSUME KindsAssumption ==
    Creator \cap Remover = {} /\ Renamer \cap (Creator \cup Remover) = {}
ASSUME NoneAssumption == None \notin Branch \cup Base \cup Kind

VARIABLES
    tree,       \* identity of the directory at each path, Nothing or Leftover
    made,       \* the branch each worktree was made for, by identity
    reg,        \* identity of the directory git has registered for each path
    locked,     \* registrations locked with `git worktree lock`
    branches,   \* local branches
    base,       \* branch.<name>.workmux-base
    meta,       \* workmux.worktree.<handle>: its attachment
    trash,      \* directories in quarantine, and who moved them there
    pending,    \* pending-cleanup records
    holder,     \* who holds the configuration lock
    stops,      \* how many processes may still be stopped
    pc, job     \* the next step of each process and what it works on

git == <<reg, locked, branches>>
config == <<base, meta>>
disk == <<tree, made>>
quarantine == <<trash, pending>>
vars == <<disk, git, config, quarantine, holder, stops, pc, job>>

Nothing == 0
Leftover == -1

Identity == 1..Len(made)

Ended == {"done", "undone", "failed", "stopped"}

BranchOf(i) == made[i]

\* worktree_exists_in, and git's own refusal to check a branch out twice.
CheckedOut(b) == \E h \in Handle : reg[h] # Nothing /\ BranchOf(reg[h]) = b

OnDisk(i) == (\E h \in Handle : tree[h] = i) \/ (\E t \in trash : t.id = i)

Idle == [handle |-> None, other |-> None, branch |-> None, base |-> None,
         fresh |-> FALSE, kind |-> None, id |-> Nothing, intact |-> TRUE,
         keep |-> FALSE, unread |-> FALSE]

Goto(p, step) == pc' = [pc EXCEPT ![p] = step]

\* Mutant: a process that returns keeps the lock.
EndHolding(p, step) ==
    /\ Goto(p, step)
    /\ UNCHANGED holder

\* Returning, in whatever way, drops the lock.
End(p, step) ==
    /\ Goto(p, step)
    /\ holder' = IF holder = p THEN Free ELSE holder

\* The one of the worktrees I that is at the path h.
HomeAt(home, h, I) ==
    IF \E i \in I : home[i].handle = h THEN CHOOSE i \in I : home[i].handle = h
                                       ELSE Nothing

\* The worktrees of a cast: those git knows, those locked, where there are
\* leftover directories, and the attachment recorded for all.
InitFrom(cast, known, lock, left, kind) ==
    LET homes == DOMAIN cast.home
        At(h, I) == HomeAt(cast.home, h, I)
    IN
    /\ tree = [h \in Handle |-> IF h \in left THEN Leftover ELSE At(h, homes)]
    /\ made = [i \in homes |-> cast.home[i].branch]
    /\ reg = [h \in Handle |-> At(h, known)]
    /\ locked = lock
    /\ branches = {cast.home[i].branch : i \in homes}
    /\ base = [x \in Branch |-> None]
    /\ meta = [h \in Handle |-> IF At(h, homes) # Nothing THEN kind ELSE None]
    /\ trash = {} /\ pending = {}
    /\ holder = Free
    /\ stops = cast.stops
    /\ pc = [p \in Process |-> IF p \in cast.who THEN "start" ELSE "done"]
    /\ job = [p \in Process |-> Idle]

\* The registration of a worktree may be locked, or lost.  A leftover directory
\* is what a process that still had the path as its working directory wrote
\* there again after a cleanup.
Init ==
    \E cast \in Casts, kind \in Kind :
    \E left \in SUBSET cast.debris,
       known \in IF cast.rough THEN SUBSET DOMAIN cast.home ELSE {DOMAIN cast.home} :
    \E lock \in IF cast.rough THEN SUBSET known ELSE {{}} :
      InitFrom(cast, known, lock, left, kind)

-----------------------------------------------------------------------------
(***************************************************************************)
(* workmux add: what is checked before the lock, and what is written under *)
(* it.                                                                     *)
(***************************************************************************)

\* A worktree of the branch already exists, or the command goes on.
StartCreate(c) ==
    /\ pc[c] = "start"
    /\ \E h \in Handle, b \in Branch, s \in Base, k \in Kind :
         /\ job' = [job EXCEPT ![c] = [Idle EXCEPT !.handle = h, !.branch = b,
                                                   !.base = s, !.kind = k]]
         /\ Goto(c, IF CheckedOut(b) THEN "failed" ELSE "read-branch")
    /\ UNCHANGED <<disk, git, config, quarantine, holder>>

\* The branch will be created when it does not exist now.
ReadBranch(c) ==
    /\ pc[c] = "read-branch"
    /\ job' = [job EXCEPT ![c].fresh = job[c].branch \notin branches]
    /\ Goto(c, "inspect-path")
    /\ UNCHANGED <<disk, git, config, quarantine, holder>>

\* Mutant: a directory that is not registered is cleared away.
InspectRegistration(c) ==
    LET h == job[c].handle IN
    /\ pc[c] = "inspect-path"
    /\ Goto(c, CASE tree[h] = Nothing                       -> "lock"
                 [] tree[h] # Nothing /\ reg[h] = Nothing   -> "clear-path"
                 [] OTHER                                   -> "failed")
    /\ UNCHANGED <<disk, git, config, quarantine, holder, job>>

\* Only a directory that is neither registered nor has a .git is cleared away.
InspectPath(c) ==
    LET h == job[c].handle IN
    /\ pc[c] = "inspect-path"
    /\ Goto(c, CASE tree[h] = Nothing                       -> "lock"
                 [] tree[h] = Leftover /\ reg[h] = Nothing  -> "clear-path"
                 [] OTHER                                   -> "failed")
    /\ UNCHANGED <<disk, git, config, quarantine, holder, job>>

ClearPath(c) ==
    /\ pc[c] = "clear-path"
    /\ tree' = [tree EXCEPT ![job[c].handle] = Nothing]
    /\ Goto(c, "lock")
    /\ UNCHANGED <<made, git, config, quarantine, holder, job>>

Lock(c) ==
    /\ pc[c] = "lock"
    /\ holder = Free
    /\ holder' = c
    /\ Goto(c, "store-base")
    /\ UNCHANGED <<disk, git, config, quarantine, job>>

\* The base is stored before the branch exists, for those who watch the
\* worktree appear.
StoreBase(c) ==
    /\ pc[c] = "store-base"
    /\ base' = IF job[c].fresh THEN [base EXCEPT ![job[c].branch] = job[c].base]
                               ELSE base
    /\ Goto(c, "add")
    /\ UNCHANGED <<disk, git, meta, quarantine, holder, job>>

\* git worktree add [-b]: the branch is created first, and stays when the path
\* is refused because something is there or registered there.
AddWorktree(c) ==
    LET j == job[c]
        branchFits == IF j.fresh THEN j.branch \notin branches
                      ELSE j.branch \in branches /\ ~CheckedOut(j.branch)
        pathFits == tree[j.handle] = Nothing /\ reg[j.handle] = Nothing
        id == Len(made) + 1
    IN
    /\ pc[c] = "add"
    /\ branches' = IF branchFits THEN branches \cup {j.branch} ELSE branches
    /\ IF branchFits /\ pathFits
       THEN /\ made' = Append(made, j.branch)
            /\ tree' = [tree EXCEPT ![j.handle] = id]
            /\ reg' = [reg EXCEPT ![j.handle] = id]
            /\ Goto(c, "store-meta")
            /\ UNCHANGED holder
       ELSE End(c, "failed") /\ UNCHANGED <<disk, reg>>
    /\ UNCHANGED <<locked, config, quarantine, job>>

\* The configuration lock is released after the last write.
StoreMeta(c) ==
    /\ pc[c] = "store-meta"
    /\ meta' = [meta EXCEPT ![job[c].handle] = job[c].kind]
    /\ End(c, "set-up")
    /\ UNCHANGED <<disk, git, base, quarantine, job>>

\* Files, hooks, and for the multiplexer a window with its panes.
SetUp(c) ==
    /\ pc[c] = "set-up"
    /\ Goto(c, "done")
    /\ UNCHANGED <<disk, git, config, quarantine, holder, job>>

\* A creation without the multiplexer that cannot store its metadata or
\* provision the worktree removes it again, and keeps a branch it has found.
UndoCreate(c) ==
    /\ pc[c] \in {"store-meta", "set-up"}
    /\ job[c].kind = "headless"
    /\ job' = [job EXCEPT ![c].keep = ~job[c].fresh]
    /\ End(c, "capture")
    /\ UNCHANGED <<disk, git, config, quarantine>>

Create(c) ==
    \/ StartCreate(c) \/ ReadBranch(c) \/ InspectPath(c) \/ ClearPath(c)
    \/ Lock(c) \/ StoreBase(c) \/ AddWorktree(c) \/ StoreMeta(c) \/ SetUp(c)
    \/ UndoCreate(c)

-----------------------------------------------------------------------------
(***************************************************************************)
(* workmux remove, the cleanup after a merge, and the undoing of a         *)
(* creation: p is any of them.                                             *)
(***************************************************************************)

\* The worktree git has registered or, to be removed without its branch, a
\* directory with a .git that git has lost.
StartRemove(r) ==
    /\ pc[r] = "start"
    /\ \E h \in Handle, keep \in BOOLEAN :
         LET found == IF reg[h] # Nothing THEN BranchOf(reg[h]) ELSE None IN
         IF found = None /\ (tree[h] \in {Nothing, Leftover} \/ ~keep)
         THEN Goto(r, "failed") /\ UNCHANGED job
         ELSE /\ job' = [job EXCEPT ![r] = [Idle EXCEPT
                            !.handle = h, !.branch = found, !.keep = keep]]
              /\ Goto(r, "capture")
    /\ UNCHANGED <<disk, git, config, quarantine, holder>>

\* The directory at the path, its registration included when that is intact;
\* without a registration only a removal that keeps the branch goes on, and
\* without a directory there is nothing to move.  A removal that runs in the
\* worktree's own window leaves the rest to a worker.
Capture(p) ==
    LET h == job[p].handle
        intact == tree[h] = reg[h]
        target == meta[h] # "headless" /\ p \in Remover
    IN
    /\ pc[p] = "capture"
    /\ IF tree[h] = Leftover \/ (tree[h] # Nothing /\ ~intact /\ ~job[p].keep)
       THEN Goto(p, "failed") /\ UNCHANGED job
       ELSE /\ job' = [job EXCEPT ![p].id = tree[h], ![p].intact = intact]
            /\ \/ Goto(p, "unlock")
               \/ target /\ tree[h] # Nothing /\ intact /\ Goto(p, "await-close")
    /\ UNCHANGED <<disk, git, config, quarantine, holder>>

\* The deferred worker has seen the window close.
AwaitClose(p) ==
    /\ pc[p] = "await-close"
    /\ Goto(p, "unlock")
    /\ UNCHANGED <<disk, git, config, quarantine, holder, job>>

\* git's administrative directory of the worktree captured, which may belong to
\* another one at the same path by now.
AdminDir(p) ==
    LET j == job[p] IN
    IF j.id # Nothing /\ ~j.intact THEN Nothing
    ELSE IF \E h \in Handle : j.id # Nothing /\ reg[h] = j.id THEN j.id
    ELSE reg[j.handle]

\* Mutant: the lock of the worktree is left in place.
UnlockNothing(p) ==
    /\ pc[p] = "unlock"
    /\ Goto(p, IF job[p].id = Nothing THEN "prune" ELSE "record")
    /\ UNCHANGED <<disk, git, config, quarantine, holder, job>>

\* Mutant: the record is written after the directory has been moved.
UnlockUnrecorded(p) ==
    /\ pc[p] = "unlock"
    /\ locked' = locked \ {AdminDir(p)}
    /\ Goto(p, IF job[p].id = Nothing THEN "prune" ELSE "validate")
    /\ UNCHANGED <<disk, reg, branches, config, quarantine, holder, job>>

Unlock(p) ==
    /\ pc[p] = "unlock"
    /\ locked' = locked \ {AdminDir(p)}
    /\ Goto(p, IF job[p].id = Nothing THEN "prune" ELSE "record")
    /\ UNCHANGED <<disk, reg, branches, config, quarantine, holder, job>>

\* Durable evidence before the directory is moved.
Record(p) ==
    /\ pc[p] = "record"
    /\ pending' = pending \cup {[by |-> p, id |-> job[p].id]}
    /\ Goto(p, "validate")
    /\ UNCHANGED <<disk, git, config, trash, holder, job>>

Validate(p) ==
    LET j == job[p] IN
    /\ pc[p] = "validate"
    /\ Goto(p, IF tree[j.handle] = j.id /\ (j.intact => reg[j.handle] = j.id)
               THEN "move" ELSE "failed")
    /\ UNCHANGED <<disk, git, config, quarantine, holder, job>>

\* The rename into quarantine takes what is at the path now.
MoveAway(p) ==
    LET h == job[p].handle IN
    /\ pc[p] = "move"
    /\ IF tree[h] = Nothing
       THEN Goto(p, "failed") /\ UNCHANGED <<tree, trash>>
       ELSE /\ trash' = trash \cup {[by |-> p, id |-> tree[h]]}
            /\ tree' = [tree EXCEPT ![h] = Nothing]
            /\ Goto(p, "prune")
    /\ UNCHANGED <<made, git, config, pending, holder, job>>

\* git worktree prune forgets every registration whose directory is gone; a
\* removal that had nothing to move checks that its own is.
Pruned == [h \in Handle |-> IF reg[h] # tree[h] /\ reg[h] \notin locked
                            THEN Nothing ELSE reg[h]]

Prune(p) ==
    LET j == job[p] IN
    /\ pc[p] = "prune"
    /\ reg' = Pruned
    /\ Goto(p, CASE j.id = Nothing /\ Pruned[j.handle] # Nothing -> "failed"
                 [] j.keep                                       -> "drop-meta"
                 [] OTHER                                        -> "drop-branch")
    /\ UNCHANGED <<disk, locked, branches, config, quarantine, holder, job>>

\* git branch -D removes the branch's configuration too, and refuses a branch
\* that is checked out.
DropBranch(p) ==
    LET b == job[p].branch IN
    /\ pc[p] = "drop-branch"
    /\ IF b \in branches /\ ~CheckedOut(b)
       THEN /\ branches' = branches \ {b}
            /\ base' = [base EXCEPT ![b] = None]
            /\ Goto(p, "drop-meta")
       ELSE Goto(p, "failed") /\ UNCHANGED <<branches, base>>
    /\ UNCHANGED <<disk, reg, locked, meta, quarantine, holder, job>>

Finish(p) == Goto(p, IF p \in Creator THEN "undone" ELSE "done")

DropMeta(p) ==
    /\ pc[p] = "drop-meta"
    /\ meta' = [meta EXCEPT ![job[p].handle] = None]
    /\ IF job[p].id = Nothing THEN Finish(p) ELSE Goto(p, "delete")
    /\ UNCHANGED <<disk, git, base, quarantine, holder, job>>

\* The directory is deleted only if it is the one that was captured.
Delete(p) ==
    LET mine == [by |-> p, id |-> job[p].id] IN
    /\ pc[p] = "delete"
    /\ IF mine \in trash THEN trash' = trash \ {mine} /\ Goto(p, "forget")
                         ELSE Goto(p, "failed") /\ UNCHANGED trash
    /\ UNCHANGED <<disk, git, config, pending, holder, job>>

Forget(p) ==
    /\ pc[p] = "forget"
    /\ pending' = pending \ {[by |-> p, id |-> job[p].id]}
    /\ Finish(p)
    /\ UNCHANGED <<disk, git, config, trash, holder, job>>

CleanUp(p) ==
    \/ Capture(p) \/ AwaitClose(p) \/ Unlock(p) \/ Record(p) \/ Validate(p)
    \/ MoveAway(p) \/ Prune(p) \/ DropBranch(p) \/ DropMeta(p) \/ Delete(p)
    \/ Forget(p)

-----------------------------------------------------------------------------
(***************************************************************************)
(* workmux rename, as far as the worktree and its metadata go.             *)
(***************************************************************************)

StartRename(n) ==
    /\ pc[n] = "start"
    /\ \E h, g \in Handle :
         /\ h # g
         /\ IF reg[h] = Nothing \/ tree[g] # Nothing \/ reg[g] # Nothing
            THEN Goto(n, "failed") /\ UNCHANGED job
            ELSE /\ job' = [job EXCEPT ![n] = [Idle EXCEPT !.handle = h,
                               !.other = g, !.id = reg[h], !.kind = meta[h]]]
                 /\ Goto(n, "copy-meta")
    /\ UNCHANGED <<disk, git, config, quarantine, holder>>

\* migrate_worktree_meta: the entries are copied, then the old section goes.  A
\* failure of git to list the entries is taken for there being none.
CopySection(n, from, to, next) ==
    /\ \/ /\ meta' = IF meta[from] = None THEN meta
                      ELSE [meta EXCEPT ![to] = meta[from]]
          /\ UNCHANGED job
       \/ /\ job' = [job EXCEPT ![n].unread = TRUE]
          /\ UNCHANGED meta
    /\ Goto(n, next)
    /\ UNCHANGED <<disk, git, base, quarantine, holder>>

\* Whether git removed the section is not looked at.
DropSection(n, from, next) ==
    /\ meta' \in {meta, [meta EXCEPT ![from] = None]}
    /\ Goto(n, next)
    /\ UNCHANGED <<disk, git, base, quarantine, holder, job>>

MigrateMeta(n) ==
    LET h == job[n].handle
        g == job[n].other
    IN
    \/ pc[n] = "copy-meta" /\ CopySection(n, h, g, "drop-old")
    \/ pc[n] = "drop-old"  /\ DropSection(n, h, "move-worktree")

\* The worktree could not be moved.
RestoreMeta(n) ==
    LET h == job[n].handle
        g == job[n].other
    IN
    \/ pc[n] = "copy-back" /\ CopySection(n, g, h, "drop-new")
    \/ pc[n] = "drop-new"  /\ DropSection(n, g, "failed")

\* Mutant: metadata stays under the new name when the move has failed.
MoveUnrestored(n) ==
    LET h == job[n].handle
        g == job[n].other
    IN
    /\ pc[n] = "move-worktree"
    /\ IF reg[h] # Nothing /\ tree[h] = reg[h] /\ reg[h] \notin locked
       THEN /\ tree' = [tree EXCEPT ![g] = tree[h], ![h] = Nothing]
            /\ reg' = [reg EXCEPT ![g] = reg[h], ![h] = Nothing]
            /\ Goto(n, "done")
       ELSE Goto(n, "failed") /\ UNCHANGED <<tree, reg>>
    /\ UNCHANGED <<made, locked, branches, config, quarantine, holder, job>>

\* git worktree move refuses a worktree that is locked or gone.
MoveWorktree(n) ==
    LET h == job[n].handle
        g == job[n].other
    IN
    /\ pc[n] = "move-worktree"
    /\ IF reg[h] # Nothing /\ tree[h] = reg[h] /\ reg[h] \notin locked
       THEN /\ tree' = [tree EXCEPT ![g] = tree[h], ![h] = Nothing]
            /\ reg' = [reg EXCEPT ![g] = reg[h], ![h] = Nothing]
            /\ Goto(n, "done")
       ELSE Goto(n, "copy-back") /\ UNCHANGED <<tree, reg>>
    /\ UNCHANGED <<made, locked, branches, config, quarantine, holder, job>>

Rename(n) ==
    \/ StartRename(n) \/ MigrateMeta(n) \/ MoveWorktree(n) \/ RestoreMeta(n)

-----------------------------------------------------------------------------
\* A process is killed, or a call that changes nothing fails.  The operating
\* system releases the lock of a killed process.
Stop(p) ==
    /\ pc[p] \notin Ended
    /\ stops > 0
    /\ stops' = stops - 1
    /\ End(p, "stopped")
    /\ UNCHANGED <<disk, git, config, quarantine, job>>

Step(p) ==
    \/ p \in Creator /\ Create(p)
    \/ p \in Remover /\ StartRemove(p)
    \/ p \in Creator \cup Remover /\ CleanUp(p)
    \/ p \in Renamer /\ Rename(p)

Next ==
    \E p \in Process : (Step(p) /\ UNCHANGED stops) \/ Stop(p)

Spec == Init /\ [][Next]_vars

\* While a command can go on, some command does: hooks and git commands end.
FairSpec == Spec /\ WF_vars(\E p \in Process : Step(p) /\ UNCHANGED stops)

-----------------------------------------------------------------------------
(***************************************************************************)
(* What is checked.                                                        *)
(***************************************************************************)

\* Every variable has its type.
TypeOK ==
    LET Id == Identity \cup {Nothing} IN
    /\ tree \in [Handle -> Id \cup {Leftover}] /\ reg \in [Handle -> Id]
    /\ made \in Seq(Branch)
    /\ locked \subseteq Identity
    /\ branches \subseteq Branch /\ base \in [Branch -> Base \cup {None}]
    /\ meta \in [Handle -> Kind \cup {None}]
    /\ trash \cup pending \subseteq [by : Process, id : Identity]
    /\ holder \in Process \cup {Free}
    /\ stops \in Nat
    /\ DOMAIN pc = Process
    /\ job \in [Process ->
         [handle : Handle \cup {None}, other : Handle \cup {None},
          branch : Branch \cup {None}, base : Base \cup {None},
          fresh : BOOLEAN, kind : Kind \cup {None}, id : Id,
          intact : BOOLEAN, keep : BOOLEAN, unread : BOOLEAN]]

\* A worktree's directory leaves the disk only at the hands of a command that
\* captured its identity (cleanup_tree.rs checks it again before it deletes):
\* a path that was used again in between never costs the new worktree its
\* files, though it may find itself in quarantine.
TreesKept ==
    \A i \in Identity :
      OnDisk(i) \/ \E p \in Creator \cup Remover : job[p].id = i

\* Whatever a killed or failed cleanup leaves in quarantine has a record
\* ("Persist evidence before rename", cleanup_retry.rs), and a cleanup that
\* ended well leaves neither.
TrashRecorded ==
    /\ \A t \in trash : \E r \in pending : r.by = t.by
    /\ \A p \in Process : pc[p] \in {"done", "undone"} =>
         \A t \in trash \cup pending : t.by # p

\* When a removal that found a worktree reports success, that worktree is gone:
\* no directory anywhere, and no registration that would keep its branch.
RemovedMeansGone ==
    \A p \in Creator \cup Remover :
      pc[p] \in {"done", "undone"} /\ job[p].id # Nothing =>
        /\ ~OnDisk(job[p].id)
        /\ \A h \in Handle : reg[h] # job[p].id

\* Renaming does not lose metadata that git could list, killed at whatever step
\* and whether or not the old section could be removed; a rename that ended has
\* it under the name the worktree ended up with.  (rename.rs, "so a successful
\* path move leaves attachment state keyed by the resulting handle".)  What git
\* failed to list is lost: migrate_worktree_meta removes the section all the same.
MetaKept ==
    \A n \in Renamer :
      LET j == job[n]
          ends == pc[n] \in {"done", "failed"}
      IN j.id # Nothing /\ ~j.unread =>
           \A h \in {j.handle, j.other} : tree[h] = j.id =>
             \E g \in {j.handle, j.other} : meta[g] = j.kind /\ (ends => g = h)

\* Every command ends, also when a process that held the lock was killed.
CommandsEnd == <>(\A p \in Process : pc[p] \in Ended)
=============================================================================
