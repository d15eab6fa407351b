--------------------------- MODULE WorktreesProof ---------------------------
(***************************************************************************)
(* Theorems about Worktrees, for any number of commands, paths, branches   *)
(* and worktrees: types, the records of what is in quarantine, what a      *)
(* removal promises when it reports success (all from IInv), that no       *)
(* worktree is deleted that was not captured (KInv), and that a rename     *)
(* keeps the metadata (MInv).                                              *)
(***************************************************************************)
EXTENDS Worktrees, TLAPS, SequenceTheorems

-----------------------------------------------------------------------------
(* What a process has done and has still to do. *)

\* The steps of a cleanup after it has looked at the worktree.
Captured == {"await-close", "unlock", "record", "validate", "move", "prune",
             "drop-branch", "drop-meta", "delete", "forget"}

Creating == {"read-branch", "inspect-path", "clear-path", "lock", "store-base",
             "add", "store-meta", "set-up"}

Renaming == {"copy-meta", "drop-old", "move-worktree", "copy-back", "drop-new"}

Unregistered(i) == \A h \in Handle : reg[h] # i

Mine(p) == [by |-> p, id |-> job[p].id]

NoneBy(p, S) == \A t \in S : t.by # p

\* What a process works on is known before it is used, and its worktree is
\* captured once.
Jobs ==
    \A p \in Process :
        /\ pc[p] \notin Ended \cup {"start"} => job[p].handle \in Handle
        /\ pc[p] \in Creating => job[p].branch \in Branch
        /\ pc[p] \in Renaming => job[p].other \in Handle
        /\ IF p \in Renamer
           THEN pc[p] \in Renaming \cup {"start", "done", "failed", "stopped"}
           ELSE pc[p] \notin Renaming
        /\ pc[p] \notin Captured \cup Renaming \cup Ended => job[p].id = Nothing
        /\ pc[p] \in {"record", "validate", "move", "delete", "forget"} =>
             job[p].id # Nothing

\* A directory is in one place, and registered nowhere else.
Placed ==
    /\ \A h, g \in Handle : tree[h] = tree[g] /\ tree[h] \in Identity => h = g
    /\ \A t \in trash, h \in Handle : tree[h] # t.id
    /\ \A t, u \in trash : t.id = u.id => t = u
    /\ \A h, g \in Handle : reg[h] = tree[g] /\ reg[h] # Nothing => h = g

\* A process has at most one directory in quarantine and one record, in the
\* order in which they come and go.
Recorded ==
    /\ \A t, u \in trash : t.by = u.by => t = u
    /\ \A t \in trash : \E r \in pending : r.by = t.by
    /\ \A r \in pending : r = Mine(r.by)
    /\ \A p \in Process :
         /\ pc[p] \notin {"validate", "move", "prune", "drop-branch", "drop-meta",
                          "delete", "forget", "failed", "stopped"} =>
              NoneBy(p, pending)
         /\ pc[p] \notin {"prune", "drop-branch", "drop-meta", "delete", "failed",
                          "stopped"} => NoneBy(p, trash)
         /\ pc[p] \in {"validate", "move"} => Mine(p) \in pending
         /\ pc[p] \in {"prune", "drop-branch", "drop-meta"} =>
              IF job[p].id = Nothing THEN NoneBy(p, pending) /\ NoneBy(p, trash)
                                     ELSE Mine(p) \in pending

\* A leftover directory is not captured, and none comes up later.
NotLeftover ==
    \A p \in Process :
        pc[p] \in {"await-close", "unlock", "record", "validate", "move"}
          /\ job[p].id # Nothing => tree[job[p].handle] # Leftover

\* The registration of a captured worktree can be pruned once it is unlocked,
\* and is gone once it was.
Unlocked ==
    \A p \in Process \ Renamer :
        LET i == job[p].id IN
        i # Nothing =>
          /\ pc[p] \in {"await-close", "unlock"} /\ ~job[p].intact => Unregistered(i)
          /\ pc[p] \in {"record", "validate", "move", "prune"} =>
               i \notin locked \/ Unregistered(i)
          /\ pc[p] \in {"drop-branch", "drop-meta", "delete"} /\ Mine(p) \in trash =>
               Unregistered(i)
          /\ pc[p] \in {"forget", "done", "undone"} => Unregistered(i) /\ ~OnDisk(i)

IInv == TypeOK /\ Jobs /\ Placed /\ Recorded /\ NotLeftover /\ Unlocked

\* No creation is about to clear a path where another is about to put its
\* worktree.
NoRival ==
    \A c, d \in Creator :
        c # d /\ pc[c] = "clear-path" /\ pc[d] = "add" => job[c].handle # job[d].handle

\* A rename runs with no creation and no other rename.
Alone ==
    \A n \in Renamer :
        pc[n] \notin Ended \/ job[n].id # Nothing =>
            /\ \A c \in Creator : pc[c] \in Ended
            /\ \A m \in Renamer \ {n} : pc[m] \in Ended /\ job[m].id = Nothing

\* A path that is to be cleared has nothing but a leftover directory.
PathLeft ==
    \A c \in Creator : pc[c] = "clear-path" => tree[job[c].handle] \in {Nothing, Leftover}

\* The name a worktree is renamed to is still free.
NameFree ==
    \A n \in Renamer : pc[n] \in Renaming =>
        tree[job[n].other] = Nothing /\ reg[job[n].other] = Nothing

Clear == PathLeft /\ NameFree

KInv == Alone /\ Clear /\ TreesKept

\* No cleanup is at work on the name of a rename.
NamesApart ==
    \A n \in Renamer, p \in Process \ Renamer :
        pc[n] \in Renaming /\ pc[p] \notin Ended => job[p].handle # job[n].other

\* Beside a rename, a cleanup that found no directory or has moved it away leaves
\* the path empty.
Emptied ==
    \A n \in Renamer, p \in Process \ Renamer :
      LET renames == pc[n] \notin Ended \/ job[n].id # Nothing
          empties == \/ pc[p] \in {"prune", "drop-branch", "drop-meta"}
                     \/ pc[p] \in {"await-close", "unlock"} /\ job[p].id = Nothing
      IN
      renames /\ empties => tree[job[p].handle] = Nothing

\* The metadata of a worktree is there when a rename begins.
MetaThere ==
    \A n \in Renamer :
       pc[n] = "start" => \A h \in Handle : tree[h] \in Identity => meta[h] # None

\* The worktree of a rename is still at its old name.
There(n) == tree[job[n].handle] = job[n].id

\* The metadata of a worktree that is still at its old name is where the step of
\* the rename says, once renamed, at the new name; unless git could not list it.
Followed(n) ==
    LET j == job[n] IN
    /\ j.handle \in Handle /\ j.other \in Handle /\ j.handle # j.other
    /\ There(n) => j.kind # None
    /\ pc[n] # "done" => tree[j.other] # j.id
    /\ pc[n] = "done" => ~There(n)
    /\ pc[n] = "stopped" /\ There(n) =>
         /\ tree[j.other] = Nothing /\ reg[j.other] = Nothing
         /\ \A p \in Process \ Renamer : pc[p] \notin Ended => job[p].handle # j.other
    /\ ~j.unread =>
         /\ pc[n] \in {"copy-meta", "drop-new", "failed"} /\ There(n) =>
              meta[j.handle] = j.kind
         /\ pc[n] \in {"drop-old", "move-worktree", "copy-back"} /\ There(n) =>
              meta[j.other] = j.kind
         /\ pc[n] = "done" /\ tree[j.other] = j.id => meta[j.other] = j.kind
         /\ pc[n] = "stopped" /\ There(n) =>
              meta[j.handle] = j.kind \/ meta[j.other] = j.kind

Renamed == \A n \in Renamer : job[n].id # Nothing => Followed(n)

MInv == Alone /\ NameFree /\ Emptied /\ MetaThere /\ Renamed
\* Every identity that has been given out has its branch (BranchOf).
LEMMA MadeType ==
  ASSUME made \in Seq(Branch)
  PROVE  /\ Len(made) \in Nat
         /\ \A i \in Identity : i \in Nat \ {0} /\ BranchOf(i) \in Branch
  BY LenProperties DEF Identity, BranchOf
-----------------------------------------------------------------------------
(* What the actions do to the job of a process. *)

Job == [handle : Handle \cup {None}, other : Handle \cup {None},
        branch : Branch \cup {None}, base : Base \cup {None},
        fresh : BOOLEAN, kind : Kind \cup {None}, id : Identity \cup {Nothing},
        intact : BOOLEAN, keep : BOOLEAN, unread : BOOLEAN]

\* The job of p is another one, with the same path, branch and worktree.
SameWork(p, j) ==
    /\ j \in Job
    /\ j.handle = job[p].handle /\ j.other = job[p].other
    /\ j.branch = job[p].branch
    /\ j.id = job[p].id /\ j.intact = job[p].intact /\ j.kind = job[p].kind

\* A new job on a path, which has captured nothing.
NewWork(j) == j \in Job /\ j.handle \in Handle /\ j.id = Nothing

\* A command's job is replaced as a whole; the jobs of others stay.
LEMMA JobSet ==
  ASSUME job \in [Process -> Job], NEW p \in Process, NEW j \in Job,
         job' = [job EXCEPT ![p] = j]
  PROVE  job' \in [Process -> Job] /\ job'[p] = j /\ \A q \in Process : q # p => job'[q] = job[q]
  OBVIOUS

\* create.rs: what a creation works on from its arguments on.
LEMMA StartCreateJob ==
  ASSUME job \in [Process -> Job], NEW c \in Process, StartCreate(c)
  PROVE  \E j \in Job : NewWork(j) /\ j.branch \in Branch /\ job' = [job EXCEPT ![c] = j]
  <1>1. PICK h \in Handle, b \in Branch, s \in Base, k \in Kind :
             job' = [job EXCEPT ![c] = [Idle EXCEPT !.handle = h, !.branch = b,
                                                    !.base = s, !.kind = k]]
    BY DEF StartCreate
  <1> DEFINE j == [Idle EXCEPT !.handle = h, !.branch = b, !.base = s, !.kind = k]
  <1>2. j \in Job
    BY DEF Job, Idle
  <1>3. j.handle = h /\ j.branch = b /\ j.id = Nothing
    BY DEF Idle
  <1> QED
    BY <1>1, <1>2, <1>3 DEF NewWork

\* Whether the branch is new is noted; the work stays the same.
LEMMA ReadBranchJob ==
  ASSUME job \in [Process -> Job], NEW c \in Process, ReadBranch(c)
  PROVE  \E j \in Job : SameWork(c, j) /\ job' = [job EXCEPT ![c] = j]
  <1> DEFINE j == [job[c] EXCEPT !.fresh = job[c].branch \notin branches]
  <1>1. job' = [job EXCEPT ![c] = j]
    BY DEF ReadBranch
  <1>2. j \in Job
    BY DEF Job
  <1>3. j.handle = job[c].handle /\ j.other = job[c].other /\ j.branch = job[c].branch
        /\ j.id = job[c].id /\ j.intact = job[c].intact /\ j.kind = job[c].kind
    BY DEF Job
  <1> QED
    BY <1>1, <1>2, <1>3 DEF SameWork

\* Undoing a creation keeps a branch it has found; the work stays the same.
LEMMA UndoCreateJob ==
  ASSUME job \in [Process -> Job], NEW c \in Process, UndoCreate(c)
  PROVE  \E j \in Job : SameWork(c, j) /\ job' = [job EXCEPT ![c] = j]
  <1> DEFINE j == [job[c] EXCEPT !.keep = ~job[c].fresh]
  <1>1. job' = [job EXCEPT ![c] = j]
    BY DEF UndoCreate
  <1>2. j \in Job
    BY DEF Job
  <1>3. j.handle = job[c].handle /\ j.other = job[c].other /\ j.branch = job[c].branch
        /\ j.id = job[c].id /\ j.intact = job[c].intact /\ j.kind = job[c].kind
    BY DEF Job
  <1> QED
    BY <1>1, <1>2, <1>3 DEF SameWork

\* Migrating metadata notes when it could not be read; the work stays the same.
LEMMA MigrateJob ==
  ASSUME job \in [Process -> Job], NEW n \in Process, MigrateMeta(n) \/ RestoreMeta(n)
  PROVE  \E j \in Job : /\ SameWork(n, j) /\ job' = [job EXCEPT ![n] = j]
                        /\ j.unread \/ UNCHANGED job
  <1> DEFINE j == [job[n] EXCEPT !.unread = TRUE]
  <1>1. CASE UNCHANGED job
    <2>1. job' = [job EXCEPT ![n] = job[n]] /\ job[n] \in Job
      BY <1>1
    <2> QED
      BY <1>1, <2>1 DEF SameWork
  <1>2. CASE job' = [job EXCEPT ![n].unread = TRUE]
    <2>1. j \in Job /\ j.unread
      BY DEF Job
    <2>2. j.handle = job[n].handle /\ j.other = job[n].other /\ j.branch = job[n].branch
          /\ j.id = job[n].id /\ j.intact = job[n].intact /\ j.kind = job[n].kind
      BY DEF Job
    <2> QED
      BY <1>2, <2>1, <2>2 DEF SameWork
  <1> QED
    BY <1>1, <1>2 DEF MigrateMeta, RestoreMeta, CopySection, DropSection

\* remove.rs: a removal fails, or works on a path with something to remove.
LEMMA StartRemoveJob ==
  ASSUME TypeOK, job \in [Process -> Job], NEW r \in Process, StartRemove(r)
  PROVE  \/ job' = job /\ Goto(r, "failed")
         \/ \E j \in Job : /\ NewWork(j) /\ job' = [job EXCEPT ![r] = j] /\ Goto(r, "capture")
                           /\ tree[j.handle] # Nothing \/ reg[j.handle] # Nothing
  <1>1. PICK h \in Handle, keep \in BOOLEAN :
          LET found == IF reg[h] # Nothing THEN BranchOf(reg[h]) ELSE None IN
            IF found = None /\ (tree[h] \in {Nothing, Leftover} \/ ~keep)
            THEN Goto(r, "failed") /\ UNCHANGED job
            ELSE /\ job' = [job EXCEPT ![r] = [Idle EXCEPT
                               !.handle = h, !.branch = found, !.keep = keep]]
                 /\ Goto(r, "capture")
    BY DEF StartRemove
  <1> DEFINE found == IF reg[h] # Nothing THEN BranchOf(reg[h]) ELSE None
             j == [Idle EXCEPT !.handle = h, !.branch = found, !.keep = keep]
  <1>2. found \in Branch \cup {None}
    BY MadeType DEF TypeOK
  <1>3. j \in Job
    BY <1>2 DEF Job, Idle
  <1>4. j.handle = h /\ j.id = Nothing
    BY DEF Idle
  <1>5. CASE found = None /\ (tree[h] \in {Nothing, Leftover} \/ ~keep)
    BY <1>1, <1>5
  <1>6. CASE ~(found = None /\ (tree[h] \in {Nothing, Leftover} \/ ~keep))
    <2>1. job' = [job EXCEPT ![r] = j] /\ Goto(r, "capture")
      BY <1>1, <1>6
    <2>2. tree[h] # Nothing \/ reg[h] # Nothing
      BY <1>6
    <2> QED
      BY <1>3, <1>4, <2>1, <2>2 DEF NewWork
  <1> QED
    BY <1>5, <1>6

\* The job of p with the directory at its path, which is not a leftover one,
\* captured.
CaptureOf(p, j) ==
    /\ job' = [job EXCEPT ![p] = j] /\ j.handle = job[p].handle
    /\ j.id = tree[j.handle] /\ j.id # Leftover
    /\ j.intact = (tree[j.handle] = reg[j.handle])
    /\ Goto(p, "unlock") \/ (Goto(p, "await-close") /\ j.id # Nothing /\ j.intact)

\* cleanup.rs: a cleanup fails, or captures the identity at its path.
LEMMA CaptureJob ==
  ASSUME TypeOK, job \in [Process -> Job], NEW p \in Process, Capture(p),
         job[p].handle \in Handle
  PROVE  (job' = job /\ Goto(p, "failed")) \/ \E j \in Job : CaptureOf(p, j)
  <1> DEFINE h == job[p].handle
             j == [job[p] EXCEPT !.id = tree[h], !.intact = (tree[h] = reg[h])]
  <1>1. CASE tree[h] = Leftover
    BY <1>1 DEF Capture
  <1>2. CASE tree[h] # Leftover
    <2>1. tree[h] \in Identity \cup {Nothing}
      BY <1>2 DEF TypeOK
    <2>2. j \in Job /\ j.handle = h
      BY <2>1 DEF Job
    <2>3. j.id = tree[h] /\ j.intact = (tree[h] = reg[h])
      BY DEF Job
    <2>4. [job EXCEPT ![p].id = tree[h], ![p].intact = (tree[h] = reg[h])] = [job EXCEPT ![p] = j]
      BY DEF Job
    <2> HIDE DEF j
    <2>5. \/ job' = job /\ Goto(p, "failed")
          \/ /\ job' = [job EXCEPT ![p] = j]
             /\ Goto(p, "unlock") \/ (Goto(p, "await-close") /\ tree[h] # Nothing /\ tree[h] = reg[h])
      BY <2>4 DEF Capture
    <2> QED
      BY <1>2, <2>2, <2>3, <2>5 DEF CaptureOf
  <1> QED
    BY <1>1, <1>2

\* A new job of n: to rename a registered worktree to a name nothing has.
RenameOf(n, j) ==
    /\ job' = [job EXCEPT ![n] = j] /\ Goto(n, "copy-meta")
    /\ j.handle \in Handle /\ j.other \in Handle /\ j.handle # j.other
    /\ j.id = reg[j.handle] /\ j.id # Nothing /\ j.kind = meta[j.handle]
    /\ tree[j.other] = Nothing /\ reg[j.other] = Nothing

\* rename.rs: a rename fails, or works on two different names, the second free.
LEMMA StartRenameJob ==
  ASSUME TypeOK, job \in [Process -> Job], NEW n \in Process, StartRename(n)
  PROVE  (job' = job /\ Goto(n, "failed")) \/ \E j \in Job : RenameOf(n, j)
  <1>1. PICK h, g \in Handle :
             /\ h # g
             /\ IF reg[h] = Nothing \/ tree[g] # Nothing \/ reg[g] # Nothing
                THEN Goto(n, "failed") /\ UNCHANGED job
                ELSE /\ job' = [job EXCEPT ![n] = [Idle EXCEPT
                               !.handle = h, !.other = g, !.id = reg[h], !.kind = meta[h]]]
                     /\ Goto(n, "copy-meta")
    BY DEF StartRename
  <1> DEFINE j == [Idle EXCEPT !.handle = h, !.other = g, !.id = reg[h], !.kind = meta[h]]
  <1>2. reg[h] \in Identity \cup {Nothing} /\ meta[h] \in Kind \cup {None}
    BY DEF TypeOK
  <1>3. j \in Job
    BY <1>2 DEF Job, Idle
  <1>4. j.handle = h /\ j.other = g /\ j.id = reg[h] /\ j.kind = meta[h]
    BY DEF Idle
  <1> QED
    BY <1>1, <1>3, <1>4 DEF RenameOf
\* What git worktree add does: nothing to the worktrees, or a new one with an
\* identity nothing has had.
Added(c, i) ==
    LET h == job[c].handle IN
    /\ i \notin Identity \cup {Nothing, Leftover}
    /\ made' \in Seq(Branch) /\ Identity' = Identity \cup {i}
    /\ tree' = [tree EXCEPT ![h] = i] /\ reg' = [reg EXCEPT ![h] = i]
    /\ tree[h] = Nothing /\ reg[h] = Nothing
    /\ Goto(c, "store-meta") /\ UNCHANGED holder

\* git worktree add fails without a directory, or puts a new one at a free path.
LEMMA AddWorktreeEffect ==
  ASSUME TypeOK, NEW c \in Process, job[c].branch \in Branch, AddWorktree(c)
  PROVE  /\ (UNCHANGED <<disk, reg>> /\ End(c, "failed")) \/ \E i : Added(c, i)
         /\ branches' \subseteq Branch
  <1> DEFINE j == job[c]
             fits == /\ IF j.fresh THEN j.branch \notin branches
                        ELSE j.branch \in branches /\ ~CheckedOut(j.branch)
                     /\ tree[j.handle] = Nothing /\ reg[j.handle] = Nothing
             i == Len(made) + 1
  <1>1. branches' \subseteq Branch
    BY DEF AddWorktree, TypeOK
  <1>2. CASE ~fits
    BY <1>1, <1>2 DEF AddWorktree
  <1>3. CASE fits
    <2>1. made \in Seq(Branch)
      BY DEF TypeOK
    <2>2. /\ made' = Append(made, j.branch) /\ Goto(c, "store-meta") /\ UNCHANGED holder
          /\ tree' = [tree EXCEPT ![j.handle] = i] /\ reg' = [reg EXCEPT ![j.handle] = i]
      BY <1>3 DEF AddWorktree
    <2>3. made' \in Seq(Branch) /\ Len(made') = i /\ Len(made) \in Nat
      BY <2>1, <2>2, AppendProperties, LenProperties
    <2>4. Identity' = Identity \cup {i} /\ i \notin Identity \cup {Nothing, Leftover}
      BY <2>3 DEF Identity, Nothing, Leftover
    <2> HIDE DEF i
    <2>5. Added(c, i)
      BY <1>3, <2>2, <2>3, <2>4 DEF Added
    <2> QED
      BY <1>1, <2>5
  <1> QED
    BY <1>2, <1>3

\* Every step of a creation keeps the invariant.
LEMMA CreateKeeps ==
  ASSUME IInv, NEW c \in Creator, Create(c), UNCHANGED stops
  PROVE  IInv'
  <1> USE KindsAssumption DEF IInv, TypeOK, Jobs, Process, Identity, Nothing, Leftover,
          Captured, Creating, Renaming, Ended, Goto, disk, git, config, quarantine
  <1>1. CASE StartCreate(c)
    <2>1. PICK j \in Job : NewWork(j) /\ j.branch \in Branch /\ job' = [job EXCEPT ![c] = j]
      BY <1>1, StartCreateJob DEF Job
    <2>2. job' \in [Process -> Job] /\ job'[c] = j /\ \A q \in Process : q # c => job'[q] = job[q]
      BY <2>1, JobSet DEF Job
    <2>9. UNCHANGED <<disk, git, config, quarantine, holder>> /\ pc[c] = "start"
          /\ \E s \in {"failed", "read-branch"} : Goto(c, s)
      BY <1>1 DEF StartCreate
    <2> USE <2>1, <2>2, <2>9 DEF Job, NewWork
    <2>3. TypeOK'
      BY DEF NotLeftover
    <2>4. Jobs'
      OBVIOUS
    <2>5. Placed'
      BY DEF Placed, NotLeftover
    <2>6. Recorded'
      <3>1. NoneBy(c, trash) /\ NoneBy(c, pending)
        BY DEF Recorded
      <3>2. \A r \in pending : r.by \in Process \ {c} /\ r = Mine(r.by)
        BY <3>1 DEF Recorded, NoneBy
      <3>3. \A q \in Process \ {c} : pc'[q] = pc[q] /\ job'[q] = job[q] /\ Mine(q)' = Mine(q)
        BY DEF Mine
      <3> QED
        BY <3>1, <3>2, <3>3 DEF Recorded, NoneBy
    <2>7. NotLeftover'
      BY DEF NotLeftover
    <2>8. Unlocked'
      BY DEF Unlocked, Unregistered, Mine, OnDisk, Placed
    <2> QED
      BY <2>3, <2>4, <2>5, <2>6, <2>7, <2>8
  <1>2. CASE ReadBranch(c)
    <2>1. PICK j \in Job : SameWork(c, j) /\ job' = [job EXCEPT ![c] = j]
      BY <1>2, ReadBranchJob DEF Job
    <2>2. job' \in [Process -> Job] /\ job'[c] = j /\ \A q \in Process : q # c => job'[q] = job[q]
      BY <2>1, JobSet DEF Job
    <2> USE <1>2, <2>1, <2>2 DEF ReadBranch, Job, NewWork, SameWork
    <2>3. TypeOK'
      BY DEF NotLeftover
    <2>4. Jobs'
      BY DEF NotLeftover
    <2>5. Placed'
      BY DEF Placed, NotLeftover
    <2>6. Recorded'
      BY DEF Recorded, Mine, NoneBy, NotLeftover
    <2>7. NotLeftover'
      BY DEF NotLeftover
    <2>8. Unlocked'
      BY DEF Unlocked, Unregistered, Mine, OnDisk, Placed
    <2> QED
      BY <2>3, <2>4, <2>5, <2>6, <2>7, <2>8
  <1>3. CASE InspectPath(c)
    <2> USE <1>3 DEF InspectPath
    <2>1. TypeOK'
      BY DEF NotLeftover
    <2>2. Jobs'
      BY DEF NotLeftover
    <2>3. Placed'
      BY DEF Placed, NotLeftover
    <2>4. Recorded'
      BY DEF Recorded, Mine, NoneBy, NotLeftover
    <2>5. NotLeftover'
      BY DEF NotLeftover
    <2>6. Unlocked'
      BY DEF Unlocked, Unregistered, Mine, OnDisk, Placed
    <2> QED
      BY <2>1, <2>2, <2>3, <2>4, <2>5, <2>6
  <1>4. CASE ClearPath(c)
    <2> USE <1>4 DEF ClearPath
    <2>1. TypeOK'
      BY DEF NotLeftover
    <2>2. Jobs'
      BY DEF NotLeftover
    <2>3. Placed'
      BY DEF Placed, NotLeftover
    <2>4. Recorded'
      BY DEF Recorded, Mine, NoneBy, NotLeftover
    <2>5. NotLeftover'
      BY DEF NotLeftover
    <2>6. Unlocked'
      BY DEF Unlocked, Unregistered, Mine, OnDisk, Placed
    <2> QED
      BY <2>1, <2>2, <2>3, <2>4, <2>5, <2>6
  <1>5. CASE Lock(c)
    <2> USE <1>5 DEF Lock
    <2>1. TypeOK'
      BY DEF NotLeftover
    <2>2. Jobs'
      BY DEF NotLeftover
    <2>3. Placed'
      BY DEF Placed, NotLeftover
    <2>4. Recorded'
      BY DEF Recorded, Mine, NoneBy, NotLeftover
    <2>5. NotLeftover'
      BY DEF NotLeftover
    <2>6. Unlocked'
      BY DEF Unlocked, Unregistered, Mine, OnDisk, Placed
    <2> QED
      BY <2>1, <2>2, <2>3, <2>4, <2>5, <2>6
  <1>6. CASE StoreBase(c)
    <2> USE <1>6 DEF StoreBase
    <2>1. TypeOK'
      BY DEF NotLeftover
    <2>2. Jobs'
      BY DEF NotLeftover
    <2>3. Placed'
      BY DEF Placed, NotLeftover
    <2>4. Recorded'
      BY DEF Recorded, Mine, NoneBy, NotLeftover
    <2>5. NotLeftover'
      BY DEF NotLeftover
    <2>6. Unlocked'
      BY DEF Unlocked, Unregistered, Mine, OnDisk, Placed
    <2> QED
      BY <2>1, <2>2, <2>3, <2>4, <2>5, <2>6
  <1>7. CASE AddWorktree(c)
    <2>1. job[c].branch \in Branch /\ job[c].handle \in Handle /\ pc[c] = "add"
      BY <1>7 DEF AddWorktree
    <2>2. branches' \subseteq Branch /\ UNCHANGED <<locked, config, quarantine, job>>
      BY <1>7, <2>1, AddWorktreeEffect DEF AddWorktree
    <2>3. CASE UNCHANGED <<disk, reg>> /\ End(c, "failed")
      <3> USE <2>1, <2>2, <2>3 DEF End
      <3>1. TypeOK'
        BY DEF NotLeftover
      <3>2. Jobs'
        BY DEF NotLeftover
      <3>3. Placed'
        BY DEF Placed, NotLeftover
      <3>4. Recorded'
        BY DEF Recorded, Mine, NoneBy, NotLeftover
      <3>5. NotLeftover'
        BY DEF NotLeftover
      <3>6. Unlocked'
        BY DEF Unlocked, Unregistered, Mine, OnDisk, Placed
      <3> QED
        BY <3>1, <3>2, <3>3, <3>4, <3>5, <3>6
    <2>4. CASE \E i : Added(c, i)
      <3>0. PICK i : Added(c, i)
        BY <2>4
      <3> USE <2>1, <2>2, <3>0 DEF Added
      <3> HIDE DEF Identity
      <3>1. TypeOK'
        BY DEF NotLeftover
      <3>2. Jobs'
        BY DEF NotLeftover
      <3>3. Placed'
        BY DEF Placed, NotLeftover
      <3>4. Recorded'
        BY DEF Recorded, Mine, NoneBy, NotLeftover
      <3>5. NotLeftover'
        BY DEF NotLeftover
      <3>6. Unlocked'
        BY DEF Unlocked, Unregistered, Mine, OnDisk, Placed
      <3> QED
        BY <3>1, <3>2, <3>3, <3>4, <3>5, <3>6
    <2> QED
      BY <1>7, <2>1, <2>3, <2>4, AddWorktreeEffect
  <1>8. CASE StoreMeta(c)
    <2> USE <1>8 DEF StoreMeta, End
    <2>1. TypeOK'
      BY DEF NotLeftover
    <2>2. Jobs'
      BY DEF NotLeftover
    <2>3. Placed'
      BY DEF Placed, NotLeftover
    <2>4. Recorded'
      BY DEF Recorded, Mine, NoneBy, NotLeftover
    <2>5. NotLeftover'
      BY DEF NotLeftover
    <2>6. Unlocked'
      BY DEF Unlocked, Unregistered, Mine, OnDisk, Placed
    <2> QED
      BY <2>1, <2>2, <2>3, <2>4, <2>5, <2>6
  <1>9. CASE SetUp(c)
    <2> USE <1>9 DEF SetUp
    <2>1. TypeOK'
      BY DEF NotLeftover
    <2>2. Jobs'
      BY DEF NotLeftover
    <2>3. Placed'
      BY DEF Placed, NotLeftover
    <2>4. Recorded'
      BY DEF Recorded, Mine, NoneBy, NotLeftover
    <2>5. NotLeftover'
      BY DEF NotLeftover
    <2>6. Unlocked'
      BY DEF Unlocked, Unregistered, Mine, OnDisk, Placed
    <2> QED
      BY <2>1, <2>2, <2>3, <2>4, <2>5, <2>6
  <1>10. CASE UndoCreate(c)
    <2>1. PICK j \in Job : SameWork(c, j) /\ job' = [job EXCEPT ![c] = j]
      BY <1>10, UndoCreateJob DEF Job
    <2>2. job' \in [Process -> Job] /\ job'[c] = j /\ \A q \in Process : q # c => job'[q] = job[q]
      BY <2>1, JobSet DEF Job
    <2> USE <1>10, <2>1, <2>2 DEF UndoCreate, Job, NewWork, SameWork, End
    <2>3. TypeOK'
      BY DEF NotLeftover
    <2>4. Jobs'
      BY DEF NotLeftover
    <2>5. Placed'
      BY DEF Placed, NotLeftover
    <2>6. Recorded'
      BY DEF Recorded, Mine, NoneBy, NotLeftover
    <2>7. NotLeftover'
      BY DEF NotLeftover
    <2>8. Unlocked'
      BY DEF Unlocked, Unregistered, Mine, OnDisk, Placed
    <2> QED
      BY <2>3, <2>4, <2>5, <2>6, <2>7, <2>8
  <1> QED
    BY <1>1, <1>2, <1>3, <1>4, <1>5, <1>6, <1>7, <1>8, <1>9, <1>10 DEF Create

\* Every step of a cleanup keeps the invariant.
LEMMA CleanUpKeeps ==
  ASSUME IInv, NEW p \in Process \ Renamer, CleanUp(p), UNCHANGED stops
  PROVE  IInv'
  <1> USE KindsAssumption DEF IInv, TypeOK, Jobs, Process, Identity, Nothing, Leftover,
          Captured, Creating, Renaming, Ended, Goto, disk, git, config, quarantine
  <1>1. CASE Capture(p)
    <2>0. UNCHANGED <<disk, git, config, quarantine, holder>> /\ pc[p] = "capture"
          /\ job[p].handle \in Handle
      BY <1>1 DEF Capture
    <2>1. CASE job' = job /\ Goto(p, "failed")
      <3> USE <2>0, <2>1
      <3>1. TypeOK'
        BY DEF NotLeftover
      <3>2. Jobs'
        BY DEF NotLeftover
      <3>3. Placed'
        BY DEF Placed, NotLeftover
      <3>4. Recorded'
        BY DEF Recorded, Mine, NoneBy, NotLeftover
      <3>5. NotLeftover'
        BY DEF NotLeftover
      <3>6. Unlocked'
        BY DEF Unlocked, Unregistered, Mine, OnDisk, Placed
      <3> QED
        BY <3>1, <3>2, <3>3, <3>4, <3>5, <3>6
    <2>2. CASE \E j \in Job : CaptureOf(p, j)
      <3>7. PICK j \in Job : CaptureOf(p, j)
        BY <2>2
      <3>8. job' \in [Process -> Job] /\ job'[p] = j /\ \A q \in Process : q # p => job'[q] = job[q]
        BY <3>7, JobSet DEF Job, CaptureOf
      <3> USE <2>0, <3>7, <3>8 DEF Job, CaptureOf
      <3>1. TypeOK'
        BY DEF NotLeftover
      <3>2. Jobs'
        BY DEF NotLeftover
      <3>3. Placed'
        BY DEF Placed, NotLeftover
      <3>4. Recorded'
        <4>1. NoneBy(p, trash) /\ NoneBy(p, pending)
          BY DEF Recorded
        <4>2. \A r \in pending : r.by \in Process \ {p} /\ r = Mine(r.by)
          BY <4>1 DEF Recorded, NoneBy
        <4>3. \A q \in Process \ {p} : pc'[q] = pc[q] /\ job'[q] = job[q] /\ Mine(q)' = Mine(q)
          BY DEF Mine
        <4> QED
          BY <4>1, <4>2, <4>3 DEF Recorded, NoneBy
      <3>5. NotLeftover'
        BY DEF NotLeftover
      <3>6. Unlocked'
        BY DEF Unlocked, Unregistered, Mine, OnDisk, Placed
      <3> QED
        BY <3>1, <3>2, <3>3, <3>4, <3>5, <3>6
    <2> QED
      BY <1>1, <2>0, <2>1, <2>2, CaptureJob DEF Job
  <1>2. CASE AwaitClose(p)
    <2> USE <1>2 DEF AwaitClose
    <2>1. TypeOK'
      BY DEF NotLeftover
    <2>2. Jobs'
      BY DEF NotLeftover
    <2>3. Placed'
      BY DEF Placed, NotLeftover
    <2>4. Recorded'
      BY DEF Recorded, Mine, NoneBy, NotLeftover
    <2>5. NotLeftover'
      BY DEF NotLeftover
    <2>6. Unlocked'
      BY DEF Unlocked, Unregistered, Mine, OnDisk, Placed
    <2> QED
      BY <2>1, <2>2, <2>3, <2>4, <2>5, <2>6
  <1>3. CASE Unlock(p)
    <2> USE <1>3 DEF Unlock, AdminDir
    <2>1. TypeOK'
      BY DEF NotLeftover
    <2>2. Jobs'
      BY DEF NotLeftover
    <2>3. Placed'
      BY DEF Placed, NotLeftover
    <2>4. Recorded'
      BY DEF Recorded, Mine, NoneBy, NotLeftover
    <2>5. NotLeftover'
      BY DEF NotLeftover
    <2>6. Unlocked'
      BY DEF Unlocked, Unregistered, Mine, OnDisk, Placed
    <2> QED
      BY <2>1, <2>2, <2>3, <2>4, <2>5, <2>6
  <1>4. CASE Record(p)
    <2> USE <1>4 DEF Record
    <2>1. TypeOK'
      BY DEF NotLeftover
    <2>2. Jobs'
      BY DEF NotLeftover
    <2>3. Placed'
      BY DEF Placed, NotLeftover
    <2>4. Recorded'
      BY DEF Recorded, Mine, NoneBy, NotLeftover
    <2>5. NotLeftover'
      BY DEF NotLeftover
    <2>6. Unlocked'
      BY DEF Unlocked, Unregistered, Mine, OnDisk, Placed
    <2> QED
      BY <2>1, <2>2, <2>3, <2>4, <2>5, <2>6
  <1>5. CASE Validate(p)
    <2> USE <1>5 DEF Validate
    <2>1. TypeOK'
      BY DEF NotLeftover
    <2>2. Jobs'
      BY DEF NotLeftover
    <2>3. Placed'
      BY DEF Placed, NotLeftover
    <2>4. Recorded'
      BY DEF Recorded, Mine, NoneBy, NotLeftover
    <2>5. NotLeftover'
      BY DEF NotLeftover
    <2>6. Unlocked'
      BY DEF Unlocked, Unregistered, Mine, OnDisk, Placed
    <2> QED
      BY <2>1, <2>2, <2>3, <2>4, <2>5, <2>6
  <1>6. CASE MoveAway(p)
    <2>1. /\ job[p].handle \in Handle /\ job[p].id # Nothing /\ pc[p] = "move"
          /\ UNCHANGED <<made, git, config, pending, holder, job>>
      BY <1>6 DEF MoveAway
    <2>2. CASE UNCHANGED <<tree, trash>> /\ Goto(p, "failed")
      <3> USE <2>1, <2>2
      <3>1. TypeOK'
        BY DEF NotLeftover
      <3>2. Jobs'
        BY DEF NotLeftover
      <3>3. Placed'
        BY DEF Placed, NotLeftover
      <3>4. Recorded'
        BY DEF Recorded, Mine, NoneBy, NotLeftover
      <3>5. NotLeftover'
        BY DEF NotLeftover
      <3>6. Unlocked'
        BY DEF Unlocked, Unregistered, Mine, OnDisk, Placed
      <3> QED
        BY <3>1, <3>2, <3>3, <3>4, <3>5, <3>6
    <2>3. CASE \E i \in Identity :
                 /\ i = tree[job[p].handle] /\ tree' = [tree EXCEPT ![job[p].handle] = Nothing]
                 /\ trash' = trash \cup {[by |-> p, id |-> i]} /\ Goto(p, "prune")
      <3>0. PICK i \in Identity :
                 /\ i = tree[job[p].handle] /\ tree' = [tree EXCEPT ![job[p].handle] = Nothing]
                 /\ trash' = trash \cup {[by |-> p, id |-> i]} /\ Goto(p, "prune")
        BY <2>3
      <3> USE <2>1, <3>0
      <3>1. TypeOK'
        BY DEF NotLeftover
      <3>2. Jobs'
        BY DEF NotLeftover
      <3>3. Placed'
        BY DEF Placed, NotLeftover
      <3>4. Recorded'
        <4>1. Mine(p) \in pending /\ NoneBy(p, trash)
          BY DEF Recorded
        <4>2. \A q \in Process : Mine(q)' = Mine(q) /\ (q # p => pc'[q] = pc[q])
          BY DEF Mine
        <4>3. /\ \A t, u \in trash' : t.by = u.by => t = u
              /\ \A t \in trash' : \E r \in pending' : r.by = t.by
          BY <4>1 DEF Recorded, Mine, NoneBy
        <4>4. \A q \in Process : NoneBy(q, trash) /\ q # p => NoneBy(q, trash')
          BY DEF NoneBy
        <4> QED
          BY <4>1, <4>2, <4>3, <4>4 DEF Recorded, NoneBy
      <3>5. NotLeftover'
        BY DEF NotLeftover
      <3>6. Unlocked'
        BY DEF Unlocked, Unregistered, Mine, OnDisk, Placed
      <3> QED
        BY <3>1, <3>2, <3>3, <3>4, <3>5, <3>6
    <2> QED
      BY <1>6, <2>1, <2>2, <2>3 DEF MoveAway, NotLeftover
  <1>7. CASE Prune(p)
    <2> USE <1>7 DEF Prune, Pruned
    <2>1. TypeOK'
      BY DEF NotLeftover
    <2>2. Jobs'
      BY DEF NotLeftover
    <2>3. Placed'
      BY DEF Placed, NotLeftover
    <2>4. Recorded'
      BY DEF Recorded, Mine, NoneBy, NotLeftover
    <2>5. NotLeftover'
      BY DEF NotLeftover
    <2>6. Unlocked'
      BY DEF Unlocked, Unregistered, Mine, OnDisk, Placed
    <2> QED
      BY <2>1, <2>2, <2>3, <2>4, <2>5, <2>6
  <1>8. CASE DropBranch(p)
    <2> USE <1>8 DEF DropBranch
    <2>1. TypeOK'
      BY DEF NotLeftover
    <2>2. Jobs'
      BY DEF NotLeftover
    <2>3. Placed'
      BY DEF Placed, NotLeftover
    <2>4. Recorded'
      BY DEF Recorded, Mine, NoneBy, NotLeftover
    <2>5. NotLeftover'
      BY DEF NotLeftover
    <2>6. Unlocked'
      BY DEF Unlocked, Unregistered, Mine, OnDisk, Placed
    <2> QED
      BY <2>1, <2>2, <2>3, <2>4, <2>5, <2>6
  <1>9. CASE DropMeta(p)
    <2> USE <1>9 DEF DropMeta, Finish
    <2>1. TypeOK'
      BY DEF NotLeftover
    <2>2. Jobs'
      BY DEF NotLeftover
    <2>3. Placed'
      BY DEF Placed, NotLeftover
    <2>4. Recorded'
      BY DEF Recorded, Mine, NoneBy, NotLeftover
    <2>5. NotLeftover'
      BY DEF NotLeftover
    <2>6. Unlocked'
      BY DEF Unlocked, Unregistered, Mine, OnDisk, Placed
    <2> QED
      BY <2>1, <2>2, <2>3, <2>4, <2>5, <2>6
  <1>10. CASE Delete(p)
    <2> USE <1>10 DEF Delete
    <2>1. TypeOK'
      BY DEF NotLeftover
    <2>2. Jobs'
      BY DEF NotLeftover
    <2>3. Placed'
      BY DEF Placed, NotLeftover
    <2>4. Recorded'
      BY DEF Recorded, Mine, NoneBy, NotLeftover
    <2>5. NotLeftover'
      BY DEF NotLeftover
    <2>6. Unlocked'
      BY DEF Unlocked, Unregistered, Mine, OnDisk, Placed
    <2> QED
      BY <2>1, <2>2, <2>3, <2>4, <2>5, <2>6
  <1>11. CASE Forget(p)
    <2> USE <1>11 DEF Forget, Finish
    <2>1. TypeOK'
      BY DEF NotLeftover
    <2>2. Jobs'
      BY DEF NotLeftover
    <2>3. Placed'
      BY DEF Placed, NotLeftover
    <2>4. Recorded'
      BY DEF Recorded, Mine, NoneBy, NotLeftover
    <2>5. NotLeftover'
      BY DEF NotLeftover
    <2>6. Unlocked'
      BY DEF Unlocked, Unregistered, Mine, OnDisk, Placed
    <2> QED
      BY <2>1, <2>2, <2>3, <2>4, <2>5, <2>6
  <1> QED
    BY <1>1, <1>2, <1>3, <1>4, <1>5, <1>6, <1>7, <1>8, <1>9, <1>10, <1>11 DEF CleanUp

\* What git worktree move does to a worktree that is where it is registered.
Moved(n) ==
    LET h == job[n].handle
        g == job[n].other
    IN
    /\ reg[h] # Nothing /\ tree[h] = reg[h]
    /\ tree' = [tree EXCEPT ![g] = tree[h], ![h] = Nothing]
    /\ reg' = [reg EXCEPT ![g] = reg[h], ![h] = Nothing]
    /\ Goto(n, "done")

\* Every step of a rename keeps the invariant.
LEMMA RenameKeeps ==
  ASSUME IInv, NEW n \in Renamer, Rename(n), UNCHANGED stops
  PROVE  IInv'
  <1> USE KindsAssumption DEF IInv, TypeOK, Jobs, Process, Identity, Nothing, Leftover,
          Captured, Creating, Renaming, Ended, Goto, disk, git, config, quarantine
  <1>1. CASE StartRename(n)
    <2>0. UNCHANGED <<disk, git, config, quarantine, holder>> /\ pc[n] = "start"
      BY <1>1 DEF StartRename
    <2>1. CASE job' = job /\ Goto(n, "failed")
      <3> USE <2>0, <2>1
      <3>1. TypeOK'
        BY DEF NotLeftover
      <3>2. Jobs'
        BY DEF NotLeftover
      <3>3. Placed'
        BY DEF Placed, NotLeftover
      <3>4. Recorded'
        BY DEF Recorded, Mine, NoneBy, NotLeftover
      <3>5. NotLeftover'
        BY DEF NotLeftover
      <3>6. Unlocked'
        BY DEF Unlocked, Unregistered, Mine, OnDisk, Placed
      <3> QED
        BY <3>1, <3>2, <3>3, <3>4, <3>5, <3>6
    <2>2. CASE \E j \in Job : RenameOf(n, j)
      <3>7. PICK j \in Job : RenameOf(n, j)
        BY <2>2
      <3>8. job' \in [Process -> Job] /\ job'[n] = j /\ \A q \in Process : q # n => job'[q] = job[q]
        BY <3>7, JobSet DEF Job, RenameOf
      <3> USE <2>0, <3>7, <3>8 DEF Job, RenameOf
      <3>1. TypeOK'
        BY DEF NotLeftover
      <3>2. Jobs'
        BY DEF NotLeftover
      <3>3. Placed'
        BY DEF Placed, NotLeftover
      <3>4. Recorded'
        <4>1. NoneBy(n, trash) /\ NoneBy(n, pending)
          BY DEF Recorded
        <4>2. \A r \in pending : r.by \in Process \ {n} /\ r = Mine(r.by)
          BY <4>1 DEF Recorded, NoneBy
        <4>3. \A q \in Process \ {n} : pc'[q] = pc[q] /\ job'[q] = job[q] /\ Mine(q)' = Mine(q)
          BY DEF Mine
        <4> QED
          BY <4>1, <4>2, <4>3 DEF Recorded, NoneBy
      <3>5. NotLeftover'
        BY DEF NotLeftover
      <3>6. Unlocked'
        BY DEF Unlocked, Unregistered, Mine, OnDisk, Placed
      <3> QED
        BY <3>1, <3>2, <3>3, <3>4, <3>5, <3>6
    <2> QED
      BY <1>1, <2>0, <2>1, <2>2, StartRenameJob DEF Job
  <1>2. CASE MigrateMeta(n)
    <2>1. /\ UNCHANGED <<disk, git, base, quarantine, holder>>
          /\ meta' \in [Handle -> Kind \cup {None}]
      BY <1>2 DEF MigrateMeta, CopySection, DropSection
    <2>2. \/ pc[n] = "copy-meta" /\ Goto(n, "drop-old")
          \/ pc[n] = "drop-old" /\ Goto(n, "move-worktree")
      BY <1>2 DEF MigrateMeta, CopySection, DropSection
    <2>9. PICK j \in Job : SameWork(n, j) /\ job' = [job EXCEPT ![n] = j]
      BY <1>2, MigrateJob DEF Job
    <2>10. job' \in [Process -> Job] /\ job'[n] = j /\ \A q \in Process : q # n => job'[q] = job[q]
      BY <2>9, JobSet DEF Job
    <2> USE <2>1, <2>2, <2>9, <2>10 DEF Job, SameWork
    <2>3. TypeOK'
      BY DEF NotLeftover
    <2>4. Jobs'
      BY DEF NotLeftover
    <2>5. Placed'
      BY DEF Placed, NotLeftover
    <2>6. Recorded'
      BY DEF Recorded, Mine, NoneBy, NotLeftover
    <2>7. NotLeftover'
      BY DEF NotLeftover
    <2>8. Unlocked'
      BY DEF Unlocked, Unregistered, Mine, OnDisk, Placed
    <2> QED
      BY <2>3, <2>4, <2>5, <2>6, <2>7, <2>8
  <1>3. CASE MoveWorktree(n)
    <2>1. /\ job[n].handle \in Handle /\ pc[n] = "move-worktree"
          /\ UNCHANGED <<made, locked, branches, config, quarantine, holder, job>>
      BY <1>3 DEF MoveWorktree
    <2>2. CASE UNCHANGED <<tree, reg>> /\ Goto(n, "copy-back")
      <3> USE <2>1, <2>2
      <3>1. TypeOK'
        BY DEF NotLeftover
      <3>2. Jobs'
        BY DEF NotLeftover
      <3>3. Placed'
        BY DEF Placed, NotLeftover
      <3>4. Recorded'
        BY DEF Recorded, Mine, NoneBy, NotLeftover
      <3>5. NotLeftover'
        BY DEF NotLeftover
      <3>6. Unlocked'
        BY DEF Unlocked, Unregistered, Mine, OnDisk, Placed
      <3> QED
        BY <3>1, <3>2, <3>3, <3>4, <3>5, <3>6
    <2>3. CASE Moved(n)
      <3> USE <2>1, <2>3 DEF Moved
      <3>1. TypeOK'
        BY DEF NotLeftover
      <3>2. Jobs'
        BY DEF NotLeftover
      <3>3. Placed'
        <4>1. job[n].other \in Handle /\ tree[job[n].handle] \in Identity
          OBVIOUS
        <4>2. \A h, g \in Handle : tree'[h] = tree'[g] /\ tree'[h] \in Identity => h = g
          BY <4>1 DEF Placed
        <4>3. \A t \in trash, h \in Handle : tree'[h] # t.id
          BY <4>1 DEF Placed
        <4>4. \A h, g \in Handle : reg'[h] = tree'[g] /\ reg'[h] # Nothing => h = g
          BY <4>1 DEF Placed
        <4> QED
          BY <4>2, <4>3, <4>4 DEF Placed
      <3>4. Recorded'
        BY DEF Recorded, Mine, NoneBy, NotLeftover
      <3>5. NotLeftover'
        <4>1. \A x \in Handle : tree'[x] # tree[x] => tree'[x] # Leftover
          OBVIOUS
        <4> QED
          BY <4>1 DEF NotLeftover
      <3>6. Unlocked'
        BY DEF Unlocked, Unregistered, Mine, OnDisk, Placed
      <3> QED
        BY <3>1, <3>2, <3>3, <3>4, <3>5, <3>6
    <2> QED
      BY <1>3, <2>1, <2>2, <2>3 DEF MoveWorktree, Moved
  <1>4. CASE RestoreMeta(n)
    <2>1. /\ UNCHANGED <<disk, git, base, quarantine, holder>>
          /\ meta' \in [Handle -> Kind \cup {None}]
      BY <1>4 DEF RestoreMeta, CopySection, DropSection
    <2>2. \/ pc[n] = "copy-back" /\ Goto(n, "drop-new")
          \/ pc[n] = "drop-new" /\ Goto(n, "failed")
      BY <1>4 DEF RestoreMeta, CopySection, DropSection
    <2>9. PICK j \in Job : SameWork(n, j) /\ job' = [job EXCEPT ![n] = j]
      BY <1>4, MigrateJob DEF Job
    <2>10. job' \in [Process -> Job] /\ job'[n] = j /\ \A q \in Process : q # n => job'[q] = job[q]
      BY <2>9, JobSet DEF Job
    <2> USE <2>1, <2>2, <2>9, <2>10 DEF Job, SameWork
    <2>3. TypeOK'
      BY DEF NotLeftover
    <2>4. Jobs'
      BY SMTT(30) DEF NotLeftover
    <2>5. Placed'
      BY DEF Placed, NotLeftover
    <2>6. Recorded'
      BY DEF Recorded, Mine, NoneBy, NotLeftover
    <2>7. NotLeftover'
      BY DEF NotLeftover
    <2>8. Unlocked'
      BY DEF Unlocked, Unregistered, Mine, OnDisk, Placed
    <2> QED
      BY <2>3, <2>4, <2>5, <2>6, <2>7, <2>8
  <1> QED
    BY <1>1, <1>2, <1>3, <1>4 DEF Rename

\* The first look of a removal keeps the invariant.
LEMMA StartRemoveKeeps ==
  ASSUME IInv, NEW r \in Remover, StartRemove(r), UNCHANGED stops
  PROVE  IInv'
  <1> USE KindsAssumption DEF IInv, TypeOK, Jobs, Process, Identity, Nothing, Leftover,
          Captured, Creating, Renaming, Ended, Goto, disk, git, config, quarantine
  <1>1. UNCHANGED <<disk, git, config, quarantine, holder>> /\ pc[r] = "start"
    BY DEF StartRemove
  <1>2. CASE job' = job /\ Goto(r, "failed")
    <2> USE <1>1, <1>2
    <2>1. TypeOK'
      OBVIOUS
    <2>2. Jobs'
      OBVIOUS
    <2>3. Placed'
      BY DEF Placed
    <2>4. Recorded'
      BY DEF Recorded, Mine, NoneBy
    <2>5. NotLeftover'
      BY DEF NotLeftover
    <2>6. Unlocked'
      BY DEF Unlocked, Unregistered, Mine, OnDisk
    <2> QED
      BY <2>1, <2>2, <2>3, <2>4, <2>5, <2>6
  <1>3. CASE \E j \in Job : NewWork(j) /\ job' = [job EXCEPT ![r] = j] /\ Goto(r, "capture")
    <2>1. PICK j \in Job : NewWork(j) /\ job' = [job EXCEPT ![r] = j] /\ Goto(r, "capture")
      BY <1>3
    <2>2. job' \in [Process -> Job] /\ job'[r] = j /\ \A q \in Process : q # r => job'[q] = job[q]
      BY <2>1, JobSet DEF Job
    <2> USE <1>1, <2>1, <2>2 DEF Job, NewWork
    <2>3. TypeOK'
      OBVIOUS
    <2>4. Jobs'
      OBVIOUS
    <2>5. Placed'
      BY DEF Placed
    <2>6. Recorded'
      <3>1. NoneBy(r, trash) /\ NoneBy(r, pending)
        BY DEF Recorded
      <3>2. \A x \in pending : x.by \in Process \ {r} /\ x = Mine(x.by)
        BY <3>1 DEF Recorded, NoneBy
      <3>3. \A q \in Process \ {r} : pc'[q] = pc[q] /\ job'[q] = job[q] /\ Mine(q)' = Mine(q)
        BY DEF Mine
      <3> QED
        BY <3>1, <3>2, <3>3 DEF Recorded, NoneBy
    <2>7. NotLeftover'
      BY DEF NotLeftover
    <2>8. Unlocked'
      BY DEF Unlocked, Unregistered, Mine, OnDisk
    <2> QED
      BY <2>3, <2>4, <2>5, <2>6, <2>7, <2>8
  <1> QED
    BY <1>2, <1>3, StartRemoveJob DEF Job

\* A kill keeps the invariant: what the process has begun stays recorded.
LEMMA StopKeeps ==
  ASSUME IInv, NEW p \in Process, Stop(p)
  PROVE  IInv'
  <1> USE KindsAssumption DEF IInv, TypeOK, Jobs, Process, Identity, Nothing, Leftover,
          Captured, Creating, Renaming, Ended, Goto, End, Stop, disk, git, config, quarantine
  <1>1. TypeOK'
    OBVIOUS
  <1>2. Jobs'
    OBVIOUS
  <1>3. Placed'
    BY DEF Placed
  <1>4. Recorded'
    BY DEF Recorded, Mine, NoneBy
  <1>5. NotLeftover'
    BY DEF NotLeftover
  <1>6. Unlocked'
    BY DEF Unlocked, Unregistered, Mine, OnDisk
  <1> QED
    BY <1>1, <1>2, <1>3, <1>4, <1>5, <1>6

\* At first every worktree is at its own path, where git knows it if at all,
\* with its metadata; no process has begun.
Homed(cast, left, kind) ==
    LET home == cast.home IN
    /\ Identity = DOMAIN home /\ left \subseteq cast.debris /\ kind \in Kind
    /\ \A i \in Identity :
         /\ home[i] \in [handle : Handle, branch : Branch]
         /\ home[i].handle \notin left /\ tree[home[i].handle] = i
    /\ \A h \in Handle :
         /\ tree[h] = Leftover \/ tree[h] = Nothing
              \/ (tree[h] \in Identity /\ home[tree[h]].handle = h)
         /\ tree[h] = Leftover => h \in left
         /\ reg[h] = Nothing \/ (reg[h] \in Identity /\ home[reg[h]].handle = h)
         /\ tree[h] \in Identity => meta[h] = kind
    /\ made \in Seq(Branch) /\ locked \subseteq Identity /\ trash = {} /\ pending = {}
    /\ DOMAIN pc = Process
    /\ \A p \in Process : /\ pc[p] = (IF p \in cast.who THEN "start" ELSE "done")
                           /\ job[p].id = Nothing

\* The first states, without the choices of which worktrees are locked or lost.
LEMMA InitHomed ==
  ASSUME Init
  PROVE  \E cast \in Casts, left \in SUBSET Handle, kind \in Kind : Homed(cast, left, kind)
  <1>1. PICK cast \in Casts, k \in Kind :
          \E left \in SUBSET cast.debris,
             known \in IF cast.rough THEN SUBSET DOMAIN cast.home ELSE {DOMAIN cast.home} :
          \E lock \in IF cast.rough THEN SUBSET known ELSE {{}} :
            InitFrom(cast, known, lock, left, k)
    BY DEF Init
  <1>2. PICK left \in SUBSET cast.debris, known \in SUBSET DOMAIN cast.home,
               lock \in SUBSET DOMAIN cast.home :
          lock \subseteq known
            /\ InitFrom(cast, known, lock, left, k)
    <2>1. PICK left \in SUBSET cast.debris,
               known \in IF cast.rough THEN SUBSET DOMAIN cast.home ELSE {DOMAIN cast.home} :
            \E lock \in IF cast.rough THEN SUBSET known ELSE {{}} :
              InitFrom(cast, known, lock, left, k)
      BY <1>1
    <2> QED
      BY <2>1
  <1> DEFINE homes == DOMAIN cast.home
             home == cast.home
  <1>3. /\ cast.who \subseteq Process /\ cast.stops \in Nat
        /\ cast.home \in Seq([handle : Handle, branch : Branch])
        /\ cast.debris \subseteq Handle
        /\ \A i, j \in homes :
             /\ cast.home[i].handle \notin cast.debris
             /\ i # j => cast.home[i].handle # cast.home[j].handle
    BY CastsAssumption
  <1>4. /\ Len(cast.home) \in Nat /\ homes = 1..Len(cast.home)
        /\ \A i \in homes : cast.home[i] \in [handle : Handle, branch : Branch]
    BY <1>3, LenProperties, ElementOfSeq
  <1>5. made \in Seq(Branch) /\ Len(made) = Len(cast.home)
    <2>1. made = [i \in 1..Len(cast.home) |-> cast.home[i].branch]
      BY <1>2, <1>4 DEF InitFrom
    <2>2. \A i \in 1..Len(cast.home) : cast.home[i].branch \in Branch
      BY <1>4
    <2> QED
      BY <1>4, <2>1, <2>2
  <1>6. ASSUME NEW h \in Handle, NEW I \in SUBSET homes
        PROVE  \/ HomeAt(home, h, I) = Nothing /\ \A i \in I : cast.home[i].handle # h
               \/ HomeAt(home, h, I) \in I /\ home[HomeAt(home, h, I)].handle = h
    BY DEF HomeAt
  <1>7. known \subseteq homes /\ homes \subseteq homes /\ lock \subseteq known
    BY <1>2
  <1>8. \A h \in Handle : tree[h] = (IF h \in left THEN Leftover ELSE HomeAt(home, h, homes))
                          /\ reg[h] = HomeAt(home, h, known)
    BY <1>2 DEF InitFrom
  <1>9. Nothing # Leftover /\ Nothing \notin homes /\ Leftover \notin homes /\ homes = Identity
    BY <1>4, <1>5 DEF Identity, Nothing, Leftover
  <1>10. \A i \in homes : \A h \in Handle : h = cast.home[i].handle => HomeAt(home, h, homes) = i
    BY <1>3, <1>4, <1>6, <1>7
  <1>11. \A i \in homes : tree[cast.home[i].handle] = i
    BY <1>3, <1>4, <1>8, <1>10
  <1>12. \A h \in Handle : tree[h] \in homes => meta[h] = k
    BY <1>2, <1>8, <1>9 DEF InitFrom
  <1>13. /\ trash = {} /\ pending = {} /\ locked \subseteq homes /\ DOMAIN pc = Process
         /\ \A p \in Process : /\ pc[p] = (IF p \in cast.who THEN "start" ELSE "done")
                                /\ job[p].id = Nothing
    BY <1>2 DEF InitFrom, Idle
  <1>14. \A h \in Handle :
           /\ tree[h] = Leftover \/ tree[h] = Nothing
                \/ (tree[h] \in homes /\ cast.home[tree[h]].handle = h)
           /\ tree[h] = Leftover => h \in left
           /\ reg[h] = Nothing \/ (reg[h] \in homes /\ cast.home[reg[h]].handle = h)
    <2>1. \A h \in Handle : HomeAt(home, h, homes) = Nothing
                             \/ (HomeAt(home, h, homes) \in homes /\ home[HomeAt(home, h, homes)].handle = h)
      BY <1>6
    <2>2. \A h \in Handle : HomeAt(home, h, known) = Nothing
                             \/ (HomeAt(home, h, known) \in homes /\ home[HomeAt(home, h, known)].handle = h)
      BY <1>6, <1>7
    <2> QED
      BY <1>8, <1>9, <2>1, <2>2
  <1>15. \A i \in homes : cast.home[i].handle \notin left
    BY <1>2, <1>3
  <1>16. left \in SUBSET cast.debris /\ k \in Kind
    BY <1>2
  <1>17. left \in SUBSET Handle
    BY <1>2, <1>3
  <1>18. Homed(cast, left, k)
    BY <1>4, <1>5, <1>9, <1>16, <1>11, <1>12, <1>13, <1>14, <1>15 DEF Homed
  <1> QED
    BY <1>17, <1>18

\* The first states are well typed.
LEMMA InitType == Init => TypeOK
  <1> SUFFICES ASSUME Init PROVE TypeOK
    OBVIOUS
  <1>1. PICK cast \in Casts, left \in SUBSET Handle, kind \in Kind : Homed(cast, left, kind)
    BY InitHomed
  <1>2. PICK c \in Casts, k \in Kind : \E l, n, o : InitFrom(c, n, o, l, k)
    BY DEF Init
  <1>3. /\ c.stops \in Nat /\ c.home \in Seq([handle : Handle, branch : Branch])
    BY CastsAssumption
  <1>4. \A i \in DOMAIN c.home : c.home[i].branch \in Branch
    <2>1. \A i \in DOMAIN c.home : c.home[i] \in [handle : Handle, branch : Branch]
      BY <1>3, LenProperties, ElementOfSeq
    <2> QED
      BY <2>1
  <1>5. job \in [Process -> Job]
    BY <1>2 DEF InitFrom, Job, Idle
  <1>6. /\ tree \in [Handle -> Identity \cup {Nothing, Leftover}]
        /\ reg \in [Handle -> Identity \cup {Nothing}]
    BY <1>1, <1>2 DEF InitFrom, Homed
  <1>7. /\ holder = Free /\ stops \in Nat
        /\ branches \subseteq Branch /\ base \in [Branch -> Base \cup {None}]
        /\ meta \in [Handle -> Kind \cup {None}]
    BY <1>2, <1>3, <1>4 DEF InitFrom
  <1> QED
    BY <1>1, <1>5, <1>6, <1>7 DEF TypeOK, Homed, Job

\* The invariant holds at first.
LEMMA InitKeeps == Init => IInv
  <1> SUFFICES ASSUME Init PROVE IInv
    OBVIOUS
  <1>1. PICK cast \in Casts, left \in SUBSET Handle, kind \in Kind : Homed(cast, left, kind)
    BY InitHomed
  <1>2. TypeOK
    BY InitType
  <1>3. Jobs
    BY <1>1 DEF Homed, Jobs, Ended, Creating, Renaming, Captured
  <1>4. Placed
    BY <1>1 DEF Homed, Placed, Identity, Nothing, Leftover
  <1>5. Recorded /\ NotLeftover /\ Unlocked
    BY <1>1 DEF Homed, Recorded, NoneBy, NotLeftover, Unlocked
  <1> QED
    BY <1>2, <1>3, <1>4, <1>5 DEF IInv

\* Every step of a command keeps the invariant.
LEMMA StepKeeps ==
  ASSUME IInv, NEW p \in Process, Step(p), UNCHANGED stops
  PROVE  IInv'
  <1>1. CASE p \in Creator /\ Create(p)
    BY <1>1, CreateKeeps
  <1>2. CASE p \in Remover /\ StartRemove(p)
    BY <1>2, StartRemoveKeeps
  <1>3. CASE p \in Creator \cup Remover /\ CleanUp(p)
    <2>1. p \in Process \ Renamer
      BY <1>3, KindsAssumption DEF Process
    <2> QED
      BY <1>3, <2>1, CleanUpKeeps
  <1>4. CASE p \in Renamer /\ Rename(p)
    BY <1>4, RenameKeeps
  <1> QED
    BY <1>1, <1>2, <1>3, <1>4 DEF Step

\* So does a step of others.
LEMMA StutterKeeps == IInv /\ UNCHANGED vars => IInv'
  BY DEF IInv, TypeOK, Identity, Jobs, Placed, Recorded, NoneBy, Mine, NotLeftover, Unlocked,
         Unregistered, OnDisk, vars, disk, git, config, quarantine

\* The invariant implies three of the properties.
LEMMA IInvImplies == IInv => TypeOK /\ TrashRecorded /\ RemovedMeansGone
  <1> SUFFICES ASSUME IInv PROVE TypeOK /\ TrashRecorded /\ RemovedMeansGone
    OBVIOUS
  <1>1. TrashRecorded
    BY DEF IInv, Recorded, NoneBy, TrashRecorded
  <1>2. RemovedMeansGone
    BY KindsAssumption DEF IInv, Unlocked, Unregistered, RemovedMeansGone, Process
  <1> QED
    BY <1>1, <1>2 DEF IInv

\* The commands keep the invariant.
THEOREM Inductive == Spec => []IInv
  <1>1. IInv /\ [Next]_vars => IInv'
    <2> SUFFICES ASSUME IInv, [Next]_vars PROVE IInv'
      OBVIOUS
    <2>1. CASE UNCHANGED vars
      BY <2>1, StutterKeeps
    <2>2. ASSUME NEW p \in Process, Step(p), UNCHANGED stops PROVE IInv'
      BY <2>2, StepKeeps
    <2>3. ASSUME NEW p \in Process, Stop(p) PROVE IInv'
      BY <2>3, StopKeeps
    <2> QED
      BY <2>1, <2>2, <2>3 DEF Next
  <1> QED
    BY <1>1, InitKeeps, PTL DEF Spec

\* Every variable has its type, whichever commands run together.
THEOREM TypeCorrect == Spec => []TypeOK
  BY Inductive, IInvImplies, PTL

\* What a cleanup has moved to quarantine has a record in the repository from
\* before the move until it is deleted (cleanup_retry.rs), at whatever step cleanups
\* are killed or fail.
THEOREM TrashIsRecorded == Spec => []TrashRecorded
  BY Inductive, IInvImplies, PTL

\* When a removal reports success (cleanup.rs, remove.rs) the worktree it captured
\* is neither on disk nor registered, whatever others did meanwhile.
THEOREM RemovedIsGone == Spec => []RemovedMeansGone
  BY Inductive, IInvImplies, PTL

\* Only p moves.
Solo(p) ==
    /\ pc[p] \notin Ended
    /\ \A q \in Process \ {p} : pc'[q] = pc[q] /\ job'[q] = job[q]

\* A creation moves alone.
LEMMA SoloCreate ==
  ASSUME TypeOK, NEW c \in Process, Create(c)
  PROVE  Solo(c)
  <1> USE DEF TypeOK, Process, Ended, Goto, End, Solo
  <1>1. CASE StartCreate(c) \/ ReadBranch(c) \/ UndoCreate(c)
    BY <1>1 DEF StartCreate, ReadBranch, UndoCreate
  <1>2. CASE InspectPath(c) \/ ClearPath(c) \/ Lock(c) \/ StoreBase(c)
    BY <1>2 DEF InspectPath, ClearPath, Lock, StoreBase
  <1>3. CASE AddWorktree(c) \/ StoreMeta(c) \/ SetUp(c)
    BY <1>3 DEF AddWorktree, StoreMeta, SetUp
  <1> QED
    BY <1>1, <1>2, <1>3 DEF Create

\* So does a cleanup,
LEMMA SoloCleanUp ==
  ASSUME TypeOK, NEW p \in Process, CleanUp(p)
  PROVE  Solo(p)
  <1> USE DEF TypeOK, Process, Ended, Goto, Finish, Solo
  <1>1. CASE Capture(p)
    BY <1>1 DEF Capture
  <1>2. CASE AwaitClose(p) \/ Unlock(p) \/ Record(p) \/ Validate(p) \/ MoveAway(p)
    BY <1>2 DEF AwaitClose, Unlock, Record, Validate, MoveAway
  <1>3. CASE Prune(p) \/ DropBranch(p) \/ DropMeta(p) \/ Delete(p) \/ Forget(p)
    BY <1>3 DEF Prune, DropBranch, DropMeta, Delete, Forget
  <1> QED
    BY <1>1, <1>2, <1>3 DEF CleanUp

\* and so does every command.
LEMMA SoloStep ==
  ASSUME TypeOK, NEW p \in Process, Step(p)
  PROVE  Solo(p)
  <1>1. CASE StartRemove(p)
    BY <1>1 DEF StartRemove, TypeOK, Process, Ended, Goto, Solo
  <1>2. CASE Rename(p)
    BY <1>2 DEF Rename, StartRename, MigrateMeta, RestoreMeta, MoveWorktree, CopySection,
                DropSection, TypeOK, Process, Ended, Goto, Solo
  <1> QED
    BY <1>1, <1>2, SoloCreate, SoloCleanUp DEF Step

\* That a rename is alone is kept by every step, for no command starts again.
LEMMA AloneStays ==
  ASSUME Alone, NEW p \in Process, Solo(p)
  PROVE  Alone'
  BY DEF Alone, Solo, Process

\* A step that moves no directory, of a command that has captured none, loses none.
LEMMA TreesStay ==
  ASSUME TreesKept, NEW p \in Process, Solo(p), UNCHANGED <<disk, trash>>,
         job[p].id = Nothing
  PROVE  TreesKept'
  <1>1. \A i \in Identity : i # Nothing
    BY DEF Identity, Nothing
  <1>2. Identity' = Identity
    BY DEF Identity, disk
  <1>3. \A i : OnDisk(i)' <=> OnDisk(i)
    BY DEF OnDisk, disk
  <1> QED
    BY <1>1, <1>2, <1>3 DEF TreesKept, Solo, Process

\* A creation clears nothing away but leftover directories, unless it has a rival.
LEMMA CreateTrees ==
  ASSUME IInv, Alone, Clear, TreesKept, NoRival, NEW c \in Creator, Create(c)
  PROVE  Clear' /\ TreesKept'
  <1> USE KindsAssumption DEF IInv, TypeOK, Jobs, Process, Identity, Nothing, Leftover,
          Captured, Creating, Renaming, Ended, Goto, disk, git, config, quarantine
  <1>1. CASE StartCreate(c)
    <2>1. PICK j \in Job : NewWork(j) /\ job' = [job EXCEPT ![c] = j]
      BY <1>1, StartCreateJob DEF Job
    <2>2. job' \in [Process -> Job] /\ job'[c] = j /\ \A q \in Process : q # c => job'[q] = job[q]
      BY <2>1, JobSet DEF Job
    <2> USE <1>1, <2>1, <2>2 DEF StartCreate, Job, NewWork, SameWork
    <2>3. Clear'
      BY DEF Clear, PathLeft, NameFree, Alone, NoRival
    <2>4. TreesKept'
      BY SoloCreate, TreesStay DEF Create
    <2> QED
      BY <2>3, <2>4
  <1>2. CASE ReadBranch(c)
    <2>1. PICK j \in Job : SameWork(c, j) /\ job' = [job EXCEPT ![c] = j]
      BY <1>2, ReadBranchJob DEF Job
    <2>2. job' \in [Process -> Job] /\ job'[c] = j /\ \A q \in Process : q # c => job'[q] = job[q]
      BY <2>1, JobSet DEF Job
    <2> USE <1>2, <2>1, <2>2 DEF ReadBranch, Job, NewWork, SameWork
    <2>3. Clear'
      BY DEF Clear, PathLeft, NameFree, Alone, NoRival
    <2>4. TreesKept'
      BY DEF TreesKept, OnDisk, Clear, PathLeft, NameFree
    <2> QED
      BY <2>3, <2>4
  <1>3. CASE InspectPath(c)
    <2> USE <1>3 DEF InspectPath
    <2>1. Clear'
      BY DEF Clear, PathLeft, NameFree, Alone, NoRival
    <2>2. TreesKept'
      BY DEF TreesKept, OnDisk, Clear, PathLeft, NameFree
    <2> QED
      BY <2>1, <2>2
  <1>4. CASE ClearPath(c)
    <2> USE <1>4 DEF ClearPath
    <2>1. Clear'
      BY DEF Clear, PathLeft, NameFree, Alone, NoRival
    <2>2. TreesKept'
      BY DEF TreesKept, OnDisk, Clear, PathLeft, NameFree
    <2> QED
      BY <2>1, <2>2
  <1>5. CASE Lock(c)
    <2> USE <1>5 DEF Lock
    <2>1. Clear'
      BY DEF Clear, PathLeft, NameFree, Alone, NoRival
    <2>2. TreesKept'
      BY DEF TreesKept, OnDisk, Clear, PathLeft, NameFree
    <2> QED
      BY <2>1, <2>2
  <1>6. CASE StoreBase(c)
    <2> USE <1>6 DEF StoreBase
    <2>1. Clear'
      BY DEF Clear, PathLeft, NameFree, Alone, NoRival
    <2>2. TreesKept'
      BY DEF TreesKept, OnDisk, Clear, PathLeft, NameFree
    <2> QED
      BY <2>1, <2>2
  <1>7. CASE AddWorktree(c)
    <2>1. job[c].branch \in Branch /\ job[c].handle \in Handle /\ pc[c] = "add"
      BY <1>7 DEF AddWorktree
    <2>2. UNCHANGED <<quarantine, job>>
      BY <1>7 DEF AddWorktree
    <2>3. CASE UNCHANGED <<disk, reg>> /\ End(c, "failed")
      <3> USE <2>1, <2>2, <2>3 DEF End
      <3>1. Clear'
        BY DEF Clear, PathLeft, NameFree, Alone, NoRival
      <3>2. TreesKept'
        BY DEF TreesKept, OnDisk, Clear, PathLeft, NameFree
      <3> QED
        BY <3>1, <3>2
    <2>4. CASE \E i : Added(c, i)
      <3>0. PICK i : Added(c, i)
        BY <2>4
      <3> USE <2>1, <2>2, <3>0 DEF Added
      <3>00. Nothing \notin Identity
        OBVIOUS
      <3> HIDE DEF Identity
      <3>1. Clear'
        BY DEF Clear, PathLeft, NameFree, Alone, NoRival
      <3>2. TreesKept'
        <4>1. \A k \in Identity : OnDisk(k) => OnDisk(k)'
          BY <3>00 DEF OnDisk
        <4>2. OnDisk(i)'
          BY DEF OnDisk
        <4> QED
          BY <4>1, <4>2 DEF TreesKept
      <3> QED
        BY <3>1, <3>2
    <2> QED
      BY <1>7, <2>1, <2>3, <2>4, AddWorktreeEffect
  <1>8. CASE StoreMeta(c)
    <2> USE <1>8 DEF StoreMeta, End
    <2>1. Clear'
      BY DEF Clear, PathLeft, NameFree, Alone, NoRival
    <2>2. TreesKept'
      BY DEF TreesKept, OnDisk, Clear, PathLeft, NameFree
    <2> QED
      BY <2>1, <2>2
  <1>9. CASE SetUp(c)
    <2> USE <1>9 DEF SetUp
    <2>1. Clear'
      BY DEF Clear, PathLeft, NameFree, Alone, NoRival
    <2>2. TreesKept'
      BY DEF TreesKept, OnDisk, Clear, PathLeft, NameFree
    <2> QED
      BY <2>1, <2>2
  <1>10. CASE UndoCreate(c)
    <2>1. PICK j \in Job : SameWork(c, j) /\ job' = [job EXCEPT ![c] = j]
      BY <1>10, UndoCreateJob DEF Job
    <2>2. job' \in [Process -> Job] /\ job'[c] = j /\ \A q \in Process : q # c => job'[q] = job[q]
      BY <2>1, JobSet DEF Job
    <2> USE <1>10, <2>1, <2>2 DEF UndoCreate, Job, NewWork, SameWork, End
    <2>3. Clear'
      BY DEF Clear, PathLeft, NameFree, Alone, NoRival
    <2>4. TreesKept'
      BY DEF TreesKept, OnDisk, Clear, PathLeft, NameFree
    <2> QED
      BY <2>3, <2>4
  <1> QED
    BY <1>1, <1>2, <1>3, <1>4, <1>5, <1>6, <1>7, <1>8, <1>9, <1>10 DEF Create

\* A cleanup takes from the disk only what it has captured.
LEMMA CleanUpTrees ==
  ASSUME IInv, Alone, Clear, TreesKept, NoRival, NEW p \in Process \ Renamer, CleanUp(p)
  PROVE  Clear' /\ TreesKept'
  <1> USE KindsAssumption DEF IInv, TypeOK, Jobs, Process, Identity, Nothing, Leftover,
          Captured, Creating, Renaming, Ended, Goto, disk, git, config, quarantine
  <1>1. CASE Capture(p)
    <2>1. UNCHANGED <<disk, git, config, quarantine, holder>> /\ pc[p] = "capture" /\ job[p].handle \in Handle
      BY <1>1 DEF Capture
    <2>2. CASE job' = job /\ Goto(p, "failed")
      <3> USE <2>1, <2>2
      <3>1. Clear'
        BY DEF Clear, PathLeft, NameFree, Alone, NoRival
      <3>2. TreesKept'
        BY DEF TreesKept, OnDisk, Clear, PathLeft, NameFree
      <3> QED
        BY <3>1, <3>2
    <2>3. CASE \E j \in Job : CaptureOf(p, j)
      <3>1. PICK j \in Job : CaptureOf(p, j)
        BY <2>3
      <3>2. job' \in [Process -> Job] /\ job'[p] = j /\ \A q \in Process : q # p => job'[q] = job[q]
        BY <3>1, JobSet DEF Job, CaptureOf
      <3> USE <2>1, <3>1, <3>2 DEF Job, CaptureOf
      <3>3. Clear'
        BY DEF Clear, PathLeft, NameFree, Alone, NoRival
      <3>4. TreesKept'
        BY <1>1, SoloCleanUp, TreesStay DEF CleanUp
      <3> QED
        BY <3>3, <3>4
    <2> QED
      BY <1>1, <2>1, <2>2, <2>3, CaptureJob DEF Job
  <1>2. CASE AwaitClose(p)
    <2> USE <1>2 DEF AwaitClose
    <2>1. Clear'
      BY DEF Clear, PathLeft, NameFree, Alone, NoRival
    <2>2. TreesKept'
      BY DEF TreesKept, OnDisk, Clear, PathLeft, NameFree
    <2> QED
      BY <2>1, <2>2
  <1>3. CASE Unlock(p)
    <2> USE <1>3 DEF Unlock, AdminDir
    <2>1. Clear'
      BY DEF Clear, PathLeft, NameFree, Alone, NoRival
    <2>2. TreesKept'
      BY DEF TreesKept, OnDisk, Clear, PathLeft, NameFree
    <2> QED
      BY <2>1, <2>2
  <1>4. CASE Record(p)
    <2> USE <1>4 DEF Record
    <2>1. Clear'
      BY DEF Clear, PathLeft, NameFree, Alone, NoRival
    <2>2. TreesKept'
      BY DEF TreesKept, OnDisk, Clear, PathLeft, NameFree
    <2> QED
      BY <2>1, <2>2
  <1>5. CASE Validate(p)
    <2> USE <1>5 DEF Validate
    <2>1. Clear'
      BY DEF Clear, PathLeft, NameFree, Alone, NoRival
    <2>2. TreesKept'
      BY DEF TreesKept, OnDisk, Clear, PathLeft, NameFree
    <2> QED
      BY <2>1, <2>2
  <1>6. CASE MoveAway(p)
    <2> USE <1>6 DEF MoveAway
    <2>1. Clear'
      BY DEF Clear, PathLeft, NameFree, Alone, NoRival
    <2>2. TreesKept'
      <3>1. CASE UNCHANGED <<tree, trash>>
        BY <3>1 DEF TreesKept, OnDisk
      <3>2. CASE /\ trash' = trash \cup {[by |-> p, id |-> tree[job[p].handle]]}
                 /\ tree' = [tree EXCEPT ![job[p].handle] = Nothing]
        <4>1. ASSUME NEW i \in Identity, OnDisk(i)
              PROVE  OnDisk(i)'
          <5>1. CASE i = tree[job[p].handle]
            <6>1. [by |-> p, id |-> i] \in trash'
              BY <3>2, <5>1
            <6> QED
              BY <6>1 DEF OnDisk
          <5>2. CASE \E t \in trash : t.id = i
            BY <3>2, <5>2 DEF OnDisk
          <5>3. CASE \E h \in Handle \ {job[p].handle} : tree[h] = i
            BY <3>2, <5>3 DEF OnDisk
          <5> QED
            BY <4>1, <5>1, <5>2, <5>3 DEF OnDisk
        <4> QED
          BY <4>1 DEF TreesKept
      <3> QED
        BY <3>1, <3>2
    <2> QED
      BY <2>1, <2>2
  <1>7. CASE Prune(p)
    <2> USE <1>7 DEF Prune, Pruned
    <2>1. Clear'
      BY DEF Clear, PathLeft, NameFree, Alone, NoRival
    <2>2. TreesKept'
      BY DEF TreesKept, OnDisk, Clear, PathLeft, NameFree
    <2> QED
      BY <2>1, <2>2
  <1>8. CASE DropBranch(p)
    <2> USE <1>8 DEF DropBranch
    <2>1. Clear'
      BY DEF Clear, PathLeft, NameFree, Alone, NoRival
    <2>2. TreesKept'
      BY DEF TreesKept, OnDisk, Clear, PathLeft, NameFree
    <2> QED
      BY <2>1, <2>2
  <1>9. CASE DropMeta(p)
    <2> USE <1>9 DEF DropMeta, Finish
    <2>1. Clear'
      BY DEF Clear, PathLeft, NameFree, Alone, NoRival
    <2>2. TreesKept'
      BY DEF TreesKept, OnDisk, Clear, PathLeft, NameFree
    <2> QED
      BY <2>1, <2>2
  <1>10. CASE Delete(p)
    <2> USE <1>10 DEF Delete
    <2>1. Clear'
      BY DEF Clear, PathLeft, NameFree, Alone, NoRival
    <2>2. TreesKept'
      <3>1. UNCHANGED <<tree, job, made>>
        BY DEF disk, git
      <3>2. \A t \in trash : t \in trash' \/ t.id = job[p].id
        OBVIOUS
      <3> QED
        BY <3>1, <3>2 DEF TreesKept, OnDisk
    <2> QED
      BY <2>1, <2>2
  <1>11. CASE Forget(p)
    <2> USE <1>11 DEF Forget, Finish
    <2>1. Clear'
      BY DEF Clear, PathLeft, NameFree, Alone, NoRival
    <2>2. TreesKept'
      BY DEF TreesKept, OnDisk, Clear, PathLeft, NameFree
    <2> QED
      BY <2>1, <2>2
  <1> QED
    BY <1>1, <1>2, <1>3, <1>4, <1>5, <1>6, <1>7, <1>8, <1>9, <1>10, <1>11 DEF CleanUp

\* A rename moves a worktree to a name that is free.
LEMMA RenameTrees ==
  ASSUME IInv, Alone, Clear, TreesKept, NoRival, NEW n \in Renamer, Rename(n)
  PROVE  Clear' /\ TreesKept'
  <1> USE KindsAssumption DEF IInv, TypeOK, Jobs, Process, Identity, Nothing, Leftover,
          Captured, Creating, Renaming, Ended, Goto, disk, git, config, quarantine
  <1>1. CASE StartRename(n)
    <2>1. UNCHANGED <<disk, git, config, quarantine, holder>> /\ pc[n] = "start"
      BY <1>1 DEF StartRename
    <2>2. CASE job' = job /\ Goto(n, "failed")
      <3> USE <2>1, <2>2
      <3>1. Clear'
        BY DEF Clear, PathLeft, NameFree, Alone, NoRival
      <3>2. TreesKept'
        BY DEF TreesKept, OnDisk, Clear, PathLeft, NameFree
      <3> QED
        BY <3>1, <3>2
    <2>3. CASE \E j \in Job : RenameOf(n, j)
      <3>1. PICK j \in Job : RenameOf(n, j)
        BY <2>3
      <3>2. job' \in [Process -> Job] /\ job'[n] = j /\ \A q \in Process : q # n => job'[q] = job[q]
        BY <3>1, JobSet DEF Job, RenameOf
      <3> USE <2>1, <3>1, <3>2 DEF Job, RenameOf
      <3>3. Clear'
        BY DEF Clear, PathLeft, NameFree, Alone, NoRival
      <3>4. TreesKept'
        BY DEF TreesKept, OnDisk, Clear, PathLeft, NameFree
      <3> QED
        BY <3>3, <3>4
    <2> QED
      BY <1>1, <2>1, <2>2, <2>3, StartRenameJob DEF Job
  <1>2. CASE MigrateMeta(n)
    <2>3. PICK j \in Job : SameWork(n, j) /\ job' = [job EXCEPT ![n] = j]
      BY <1>2, MigrateJob DEF Job
    <2>4. job' \in [Process -> Job] /\ job'[n] = j /\ \A q \in Process : q # n => job'[q] = job[q]
      BY <2>3, JobSet DEF Job
    <2>5. /\ UNCHANGED <<disk, git, base, quarantine, holder>> /\ pc[n] \in Renaming
          /\ \E next \in Renaming \cup {"failed"} : Goto(n, next)
      BY <1>2 DEF MigrateMeta, CopySection, DropSection
    <2> USE <2>3, <2>4, <2>5 DEF Job, SameWork
    <2>1. Clear'
      BY DEF Clear, PathLeft, NameFree, Alone, NoRival
    <2>2. TreesKept'
      BY DEF TreesKept, OnDisk, Clear, PathLeft, NameFree
    <2> QED
      BY <2>1, <2>2
  <1>3. CASE MoveWorktree(n)
    <2> USE <1>3 DEF MoveWorktree
    <2>1. Clear'
      <3>1. /\ \A c \in Creator : pc[c] \in Ended /\ c # n
            /\ \A m \in Renamer \ {n} : pc[m] \in Ended
        BY DEF Alone
      <3>2. (\A m \in Renamer : pc'[m] \in Renaming => m = n) /\ \A c \in Creator : pc'[c] = pc[c]
        BY <3>1
      <3>3. (pc'[n] = "copy-back" /\ UNCHANGED <<tree, reg, job>>) \/ pc'[n] = "done"
        OBVIOUS
      <3>4. PathLeft'
        BY <3>1, <3>2 DEF PathLeft
      <3>5. NameFree'
        BY <3>2, <3>3 DEF Clear, NameFree
      <3> QED
        BY <3>4, <3>5 DEF Clear
    <2>2. TreesKept'
      <3>1. tree[job[n].other] = Nothing /\ job[n].other \in Handle /\ job[n].handle \in Handle
        BY DEF Clear, NameFree
      <3>2. \A i \in Identity : \A h \in Handle : tree[h] = i => \E g \in Handle : tree'[g] = i
        BY <3>1
      <3> QED
        BY <3>2 DEF TreesKept, OnDisk
    <2> QED
      BY <2>1, <2>2
  <1>4. CASE RestoreMeta(n)
    <2>3. PICK j \in Job : SameWork(n, j) /\ job' = [job EXCEPT ![n] = j]
      BY <1>4, MigrateJob DEF Job
    <2>4. job' \in [Process -> Job] /\ job'[n] = j /\ \A q \in Process : q # n => job'[q] = job[q]
      BY <2>3, JobSet DEF Job
    <2>5. /\ UNCHANGED <<disk, git, base, quarantine, holder>> /\ pc[n] \in Renaming
          /\ \E next \in Renaming \cup {"failed"} : Goto(n, next)
      BY <1>4 DEF RestoreMeta, CopySection, DropSection
    <2> USE <2>3, <2>4, <2>5 DEF Job, SameWork
    <2>1. Clear'
      BY DEF Clear, PathLeft, NameFree, Alone, NoRival
    <2>2. TreesKept'
      BY DEF TreesKept, OnDisk, Clear, PathLeft, NameFree
    <2> QED
      BY <2>1, <2>2
  <1> QED
    BY <1>1, <1>2, <1>3, <1>4 DEF Rename

\* The first look of a removal takes nothing from the disk.
LEMMA StartRemoveTrees ==
  ASSUME IInv, Alone, Clear, TreesKept, NEW r \in Remover, StartRemove(r)
  PROVE  Clear' /\ TreesKept'
  <1>1. /\ UNCHANGED <<disk, git, config, quarantine, holder>> /\ pc[r] = "start"
        /\ \E s \in {"failed", "capture"} : Goto(r, s)
    BY DEF StartRemove
  <1>2. Solo(r) /\ r \in Process /\ r \notin Renamer
    BY SoloStep, KindsAssumption DEF IInv, Step, Process
  <1>3. Clear'
    BY <1>1, <1>2, KindsAssumption DEF Clear, PathLeft, NameFree, IInv, TypeOK, Solo, Goto, Process, Renaming,
                                       disk, git, config
  <1>4. job[r].id = Nothing
    BY <1>1, <1>2 DEF IInv, Jobs, Captured, Ended
  <1>5. TreesKept'
    BY <1>1, <1>2, <1>4, TreesStay DEF quarantine, disk
  <1> QED
    BY <1>3, <1>5

\* Neither does a kill.
LEMMA StopTrees ==
  ASSUME IInv, Alone, Clear, TreesKept, NEW p \in Process, Stop(p)
  PROVE  Clear' /\ TreesKept'
  BY DEF IInv, TypeOK, Clear, PathLeft, NameFree, TreesKept, OnDisk, Identity, Process, Stop, End, Goto, Renaming,
         disk, git, config, quarantine

\* A killed process moves alone.
LEMMA SoloStop ==
  ASSUME TypeOK, NEW p \in Process, Stop(p)
  PROVE  Solo(p)
  BY DEF TypeOK, Process, Stop, End, Goto, Solo

\* At first every worktree is where it belongs, and a rename is alone.
LEMMA InitTrees == Init => Alone /\ Clear /\ TreesKept
  <1> SUFFICES ASSUME Init PROVE Alone /\ Clear /\ TreesKept
    OBVIOUS
  <1>1. PICK cast \in Casts, left \in SUBSET Handle, kind \in Kind : Homed(cast, left, kind)
    BY InitHomed
  <1>2. Clear
    BY <1>1 DEF Homed, Clear, PathLeft, NameFree, Process, Renaming
  <1>3. Alone
    BY <1>1, CastsAssumption DEF Homed, Alone, Process, Ended
  <1>4. TreesKept
    BY <1>1 DEF Homed, TreesKept, OnDisk
  <1> QED
    BY <1>2, <1>3, <1>4

\* Every step keeps the worktrees, and what that rests on.
LEMMA KInvKeeps ==
  ASSUME IInv, KInv, NoRival, NEW p \in Process, Step(p) \/ Stop(p)
  PROVE  KInv'
  <1>1. Solo(p)
    BY SoloStep, SoloStop DEF IInv
  <1>2. Alone'
    BY <1>1, AloneStays DEF KInv
  <1>3. Clear' /\ TreesKept'
    <2>1. CASE p \in Creator /\ Create(p)
      BY <2>1, CreateTrees DEF KInv
    <2>2. CASE p \in Remover /\ StartRemove(p)
      BY <2>2, StartRemoveTrees DEF KInv
    <2>3. CASE p \in Creator \cup Remover /\ CleanUp(p)
      <3>1. p \in Process \ Renamer
        BY <2>3, KindsAssumption
      <3> QED
        BY <2>3, <3>1, CleanUpTrees DEF KInv
    <2>4. CASE p \in Renamer /\ Rename(p)
      BY <2>4, RenameTrees DEF KInv
    <2>5. CASE Stop(p)
      BY <2>5, StopTrees DEF KInv
    <2> QED
      BY <2>1, <2>2, <2>3, <2>4, <2>5 DEF Step
  <1> QED
    BY <1>2, <1>3 DEF KInv

\* So does a step of others.
LEMMA KInvStutters == KInv /\ UNCHANGED vars => KInv'
  BY DEF KInv, Alone, Clear, PathLeft, NameFree, TreesKept, Identity, OnDisk, vars, disk, git, quarantine

\* No command deletes a worktree it has not captured (cleanup_tree.rs), as long as
\* no creation clears the path (create.rs:443) where another is about to put its
\* worktree; two creations at a leftover directory do lose one without this.
THEOREM TreesAreKept == Spec /\ []NoRival => []TreesKept
  <1>1. IInv /\ KInv /\ NoRival /\ [Next]_vars => KInv'
    BY KInvKeeps, KInvStutters DEF Next
  <1>2. KInv => TreesKept
    BY DEF KInv
  <1>3. Init => KInv
    BY InitTrees DEF KInv
  <1> QED
    BY <1>1, <1>2, <1>3, Inductive, PTL DEF Spec

\* There is no leftover directory, or at most one creation.
NoDebris == (\A h \in Handle : tree[h] # Leftover) /\ \A c \in Creator : pc[c] # "clear-path"

OneCreation == \A c, d \in Creator : c = d \/ pc[c] \in Ended \/ pc[d] \in Ended

Tidy == NoDebris \/ OneCreation

\* No leftover directory comes up, and no creation starts again.
LEMMA TidyKeeps ==
  ASSUME IInv, Tidy, NEW p \in Process, Step(p) \/ Stop(p)
  PROVE  Tidy'
  <1>1. Solo(p)
    BY SoloStep, SoloStop DEF IInv
  <1>2. CASE OneCreation
    BY <1>1, <1>2 DEF Tidy, OneCreation, Solo, Process
  <1>3. CASE NoDebris
    <2> SUFFICES NoDebris'
      BY DEF Tidy
    <2> USE <1>1, <1>3, KindsAssumption
        DEF NoDebris, IInv, TypeOK, Jobs, Ended, Process, Goto, End, Nothing, Leftover, disk, git
    <2>1. CASE p \in Creator /\ Create(p)
      <3>1. CASE StartCreate(p) \/ ReadBranch(p) \/ UndoCreate(p) \/ Lock(p) \/ StoreBase(p)
        BY <3>1 DEF StartCreate, ReadBranch, UndoCreate, Lock, StoreBase
      <3>2. CASE InspectPath(p)
        BY <3>2 DEF InspectPath
      <3>3. CASE ClearPath(p) \/ StoreMeta(p) \/ SetUp(p)
        BY <3>3 DEF ClearPath, StoreMeta, SetUp
      <3>4. CASE AddWorktree(p)
        <4>1. pc[p] = "add" /\ job[p].branch \in Branch /\ job[p].handle \in Handle
          BY <3>4 DEF AddWorktree, Creating
        <4>2. CASE UNCHANGED <<disk, reg>> /\ End(p, "failed")
          BY <4>1, <4>2
        <4>3. CASE \E i : Added(p, i)
          BY <4>1, <4>3 DEF Added
        <4> QED
          BY <3>4, <4>1, <4>2, <4>3, AddWorktreeEffect
      <3> QED
        BY <2>1, <3>1, <3>2, <3>3, <3>4 DEF Create
    <2>2. CASE p \in Remover /\ StartRemove(p)
      BY <2>2 DEF StartRemove
    <2>3. CASE p \in Creator \cup Remover /\ CleanUp(p)
      <3>1. CASE Capture(p)
        BY <3>1 DEF Capture
      <3>2. CASE AwaitClose(p) \/ Unlock(p) \/ Record(p) \/ Validate(p) \/ MoveAway(p)
        BY <3>2 DEF AwaitClose, Unlock, Record, Validate, MoveAway
      <3>3. CASE Prune(p) \/ DropBranch(p) \/ DropMeta(p) \/ Delete(p) \/ Forget(p)
        BY <3>3 DEF Prune, DropBranch, DropMeta, Delete, Forget, Finish
      <3> QED
        BY <2>3, <3>1, <3>2, <3>3 DEF CleanUp
    <2>4. CASE p \in Renamer /\ Rename(p)
      <3>1. CASE StartRename(p)
        <4>1. UNCHANGED tree /\ \E s \in {"failed", "copy-meta"} : Goto(p, s)
          BY <3>1 DEF StartRename
        <4> QED
          BY <4>1
      <3>3. CASE MigrateMeta(p) \/ RestoreMeta(p)
        BY <3>3 DEF MigrateMeta, RestoreMeta, CopySection, DropSection
      <3>2. CASE MoveWorktree(p)
        BY <3>2 DEF MoveWorktree
      <3> QED
        BY <2>4, <3>1, <3>2, <3>3 DEF Rename
    <2>5. CASE Stop(p)
      BY <2>5 DEF Stop
    <2> QED
      BY <2>1, <2>2, <2>3, <2>4, <2>5 DEF Step
  <1> QED
    BY <1>2, <1>3 DEF Tidy

\* Without a leftover directory or without a second creation there is no rival.
LEMMA TidyImplies == Tidy => NoRival
  BY DEF Tidy, NoDebris, OneCreation, NoRival, Ended

\* A step of others changes nothing of this.
LEMMA TidyStutters == Tidy /\ UNCHANGED vars => Tidy'
  BY DEF Tidy, NoDebris, OneCreation, vars, disk

\* The casts with a leftover directory have no two creations.
TidyCasts ==
    \A cast \in Casts : cast.debris = {} \/ \A c, d \in cast.who \cap Creator : c = d

\* The casts that are tidy are so from the first state on.
LEMMA InitTidy == TidyCasts /\ Init => Tidy
  <1> SUFFICES ASSUME TidyCasts, Init PROVE Tidy
    OBVIOUS
  <1>1. PICK cast \in Casts, left \in SUBSET Handle, kind \in Kind : Homed(cast, left, kind)
    BY InitHomed
  <1>2. CASE cast.debris = {}
    BY <1>1, <1>2 DEF Homed, Tidy, NoDebris, Nothing, Leftover, Identity, Process
  <1>3. CASE \A c, d \in cast.who \cap Creator : c = d
    BY <1>1, <1>3 DEF Homed, Tidy, OneCreation, Ended, Process
  <1> QED
    BY <1>2, <1>3 DEF TidyCasts

\* No command deletes a worktree it has not captured if there is no leftover
\* directory at first (create.rs takes one for an orphan), or one creation at most.
THEOREM TreesAreKeptInTidyCasts == TidyCasts /\ Spec => []TreesKept
  <1>1. IInv /\ Tidy /\ [Next]_vars => Tidy'
    BY TidyKeeps, TidyStutters DEF Next
  <1> QED
    BY <1>1, InitTidy, TidyImplies, Inductive, TreesAreKept, PTL DEF Spec

\* A cleanup puts no directory or registration anywhere, touches metadata only to
\* drop it, and has its job from the start but for what it captures.
LEMMA CleanUpShrinks ==
  ASSUME IInv, NEW p \in Process \ Renamer, CleanUp(p)
  PROVE  /\ \A h \in Handle : tree'[h] \in {tree[h], Nothing} /\ reg'[h] \in {reg[h], Nothing}
         /\ Identity' = Identity
         /\ meta' = meta \/ (pc[p] = "drop-meta" /\ meta' = [meta EXCEPT ![job[p].handle] = None])
         /\ job[p].handle \in Handle /\ job'[p].handle = job[p].handle
  <1> USE DEF IInv, TypeOK, Jobs, Identity, Process, Ended, Goto, disk, git, config
  <1>1. CASE Capture(p)
    <2>1. pc[p] = "capture" /\ UNCHANGED <<disk, git, config>>
      BY <1>1 DEF Capture
    <2>2. job' = job \/ \E j \in Job : CaptureOf(p, j)
      BY <1>1, <2>1, CaptureJob DEF Job
    <2> QED
      BY <2>1, <2>2 DEF CaptureOf
  <1>2. CASE AwaitClose(p) \/ Unlock(p) \/ Record(p) \/ Validate(p)
    BY <1>2 DEF AwaitClose, Unlock, Record, Validate
  <1>3. CASE MoveAway(p)
    BY <1>3 DEF MoveAway
  <1>4. CASE Prune(p)
    BY <1>4 DEF Prune, Pruned
  <1>5. CASE DropBranch(p) \/ DropMeta(p) \/ Delete(p) \/ Forget(p)
    BY <1>5 DEF DropBranch, DropMeta, Delete, Forget
  <1> QED
    BY <1>1, <1>2, <1>3, <1>4, <1>5 DEF CleanUp

\* A rename keeps out of what concerns it all that is not alone.
LEMMA MetaCreate ==
  ASSUME MInv, NEW c \in Creator, Solo(c)
  PROVE  MInv'
  <1>1. \A n \in Renamer : pc[n] \in Ended /\ job[n].id = Nothing
    BY DEF MInv, Alone, Solo
  <1>2. \A n \in Renamer : pc'[n] \in Ended /\ job'[n].id = Nothing
    BY <1>1, KindsAssumption DEF Solo, Process
  <1> QED
    BY <1>1, <1>2 DEF MInv, Alone, NameFree, Emptied, MetaThere, Renamed, Renaming, Ended

\* Once a path is empty beside a rename, it stays so until the metadata is gone.
LEMMA EmptyStays ==
  ASSUME IInv, Emptied, NEW p \in Process \ Renamer, CleanUp(p),
         NEW n \in Renamer, pc[n] \notin Ended \/ job[n].id # Nothing,
         (\/ pc[p] \in {"prune", "drop-branch", "drop-meta"}
          \/ pc[p] \in {"await-close", "unlock"} /\ job[p].id = Nothing)'
  PROVE  tree'[job'[p].handle] = Nothing
  <1> USE DEF IInv, TypeOK, Process, Goto, disk, Emptied, Nothing
  <1>0. job[p].handle \in Handle /\ job'[p].handle = job[p].handle
        /\ tree'[job[p].handle] \in {tree[job[p].handle], Nothing}
    BY CleanUpShrinks
  <1>1. CASE Capture(p)
    <2>1. pc[p] = "capture" /\ UNCHANGED disk
      BY <1>1 DEF Capture
    <2>2. (job' = job /\ Goto(p, "failed")) \/ \E j \in Job : CaptureOf(p, j)
      BY <1>0, <1>1, CaptureJob DEF Job
    <2>3. CASE job' = job /\ Goto(p, "failed")
      BY <2>3
    <2>4. CASE \E j \in Job : CaptureOf(p, j)
      BY <2>1, <2>4 DEF CaptureOf
    <2> QED
      BY <2>2, <2>3, <2>4
  <1>2. CASE AwaitClose(p) \/ Unlock(p) \/ Record(p) \/ Validate(p)
    BY <1>0, <1>2 DEF AwaitClose, Unlock, Record, Validate
  <1>3. CASE MoveAway(p)
    BY <1>0, <1>3 DEF MoveAway
  <1>4. CASE Prune(p) \/ DropBranch(p)
    BY <1>0, <1>4 DEF Prune, DropBranch
  <1>5. CASE DropMeta(p) \/ Delete(p) \/ Forget(p)
    BY <1>0, <1>5 DEF DropMeta, Delete, Forget, Finish
  <1> QED
    BY <1>1, <1>2, <1>3, <1>4, <1>5 DEF CleanUp

\* What a step of another command leaves to a rename: no directory or
\* registration comes up, metadata goes only where there is no directory.
Beside(p) ==
    /\ Solo(p)
    /\ \A h \in Handle : tree'[h] \in {tree[h], Nothing} /\ reg'[h] \in {reg[h], Nothing}
    /\ Identity' = Identity
    /\ \A n \in Renamer : pc[n] \notin Ended \/ job[n].id # Nothing =>
         \A h \in Handle : meta'[h] = meta[h] \/ (h = job[p].handle /\ tree[h] = Nothing)
    /\ pc'[p] \in Ended \/ job'[p].handle = job[p].handle
         \/ \E h \in Handle : job'[p].handle = h /\ (tree[h] # Nothing \/ reg[h] # Nothing)

\* What runs beside a rename and stays away from its names loses no metadata.
LEMMA MetaBeside ==
  ASSUME IInv, MInv, NamesApart, NEW p \in Process \ Renamer, Beside(p), Emptied'
  PROVE  MInv'
  <1> USE DEF MInv
  <1>1. \A n \in Renamer : pc'[n] = pc[n] /\ job'[n] = job[n]
    BY DEF Beside, Solo, Process
  <1>2. Alone'
    BY AloneStays DEF Beside
  <1>3. NameFree'
    BY <1>1 DEF Beside, NameFree, IInv, Jobs, Process
  <1>4. MetaThere'
    BY <1>1 DEF Beside, MetaThere, Ended, Identity, Nothing
  <1>5. Renamed'
    <2>1. SUFFICES ASSUME NEW n \in Renamer, job[n].id # Nothing
                   PROVE  Followed(n)'
      BY <1>1 DEF Renamed
    <2>2. Followed(n) /\ pc'[n] = pc[n] /\ job'[n] = job[n]
      BY <1>1, <2>1 DEF Renamed
    <2>3. There(n)' => There(n)
      BY <2>1, <2>2 DEF Beside, There, Followed
    <2>4. \A h \in Handle : meta'[h] = meta[h] \/ (h = job[p].handle /\ tree[h] = Nothing)
      BY <2>1 DEF Beside
    <2>5. pc[n] \in Renaming => job[p].handle # job[n].other
      BY <2>1 DEF NamesApart, Beside, Solo
    <2>6. There(n) => meta'[job[n].handle] = meta[job[n].handle]
      BY <2>1, <2>2, <2>4 DEF There, Followed
    <2>7. pc[n] = "stopped" /\ There(n) =>
            /\ meta'[job[n].other] = meta[job[n].other]
            /\ \A q \in Process \ Renamer : pc'[q] \notin Ended => job'[q].handle # job[n].other
      BY <2>2, <2>4 DEF Followed, Beside, Solo
    <2> QED
      BY <2>1, <2>2, <2>3, <2>4, <2>5, <2>6, <2>7 DEF Beside, Followed, Renaming
  <1> QED
    BY <1>2, <1>3, <1>4, <1>5

\* A cleanup drops the metadata of a worktree that is gone.
LEMMA MetaCleanUp ==
  ASSUME IInv, MInv, NamesApart, NEW p \in Remover, CleanUp(p)
  PROVE  MInv'
  <1>1. p \in Process \ Renamer /\ Solo(p)
    BY KindsAssumption, SoloCleanUp DEF Process, IInv
  <1>2. /\ \A h \in Handle : tree'[h] \in {tree[h], Nothing} /\ reg'[h] \in {reg[h], Nothing}
        /\ Identity' = Identity
        /\ meta' = meta \/ (pc[p] = "drop-meta" /\ meta' = [meta EXCEPT ![job[p].handle] = None])
        /\ job[p].handle \in Handle /\ job'[p].handle = job[p].handle
    BY <1>1, CleanUpShrinks
  <1>3. ASSUME NEW n \in Renamer, pc[n] \notin Ended \/ job[n].id # Nothing,
               NEW h \in Handle
        PROVE  meta'[h] = meta[h] \/ (h = job[p].handle /\ tree[h] = Nothing)
    <2>1. pc[p] = "drop-meta" => tree[job[p].handle] = Nothing
      BY <1>1, <1>3 DEF MInv, Emptied
    <2> QED
      BY <1>2, <2>1 DEF IInv, TypeOK
  <1>4. Beside(p)
    BY <1>1, <1>2, <1>3 DEF Beside
  <1>5. Emptied'
    <2>1. SUFFICES ASSUME NEW n \in Renamer, NEW q \in Process \ Renamer,
                          (pc[n] \notin Ended \/ job[n].id # Nothing)',
                          (\/ pc[q] \in {"prune", "drop-branch", "drop-meta"}
                           \/ pc[q] \in {"await-close", "unlock"} /\ job[q].id = Nothing)'
                   PROVE  tree'[job'[q].handle] = Nothing
      BY DEF Emptied
    <2>2. pc[n] \notin Ended \/ job[n].id # Nothing
      BY <1>1, <2>1 DEF Solo, Process
    <2>3. CASE q # p
      <3>1. pc'[q] = pc[q] /\ job'[q] = job[q]
        BY <1>1, <2>3 DEF Solo
      <3>2. tree[job[q].handle] = Nothing /\ job[q].handle \in Handle
        BY <2>1, <2>2, <3>1 DEF MInv, Emptied, IInv, Jobs, Ended
      <3> QED
        BY <1>2, <3>1, <3>2
    <2>4. CASE q = p
      BY <1>1, <2>1, <2>2, <2>4, EmptyStays DEF MInv
    <2> QED
      BY <2>3, <2>4
  <1> QED
    BY <1>1, <1>4, <1>5, MetaBeside

\* A removal starts on a name that has a directory or a registration.
LEMMA MetaStartRemove ==
  ASSUME IInv, MInv, NamesApart, NEW r \in Remover, StartRemove(r)
  PROVE  MInv'
  <1>1. r \in Process \ Renamer /\ Solo(r)
    BY KindsAssumption, SoloStep DEF Process, IInv, Step
  <1>2. /\ UNCHANGED <<disk, git, config, quarantine, holder>>
        /\ \E s \in {"failed", "capture"} : Goto(r, s)
    BY DEF StartRemove
  <1>3. pc'[r] = "failed" \/ \E h \in Handle : job'[r].handle = h /\ (tree[h] # Nothing \/ reg[h] # Nothing)
    <2>1. CASE Goto(r, "failed")
      BY <1>1, <2>1 DEF IInv, TypeOK, Goto
    <2>2. CASE \E j \in Job : /\ NewWork(j) /\ job' = [job EXCEPT ![r] = j] /\ Goto(r, "capture")
                              /\ tree[j.handle] # Nothing \/ reg[j.handle] # Nothing
      <3>1. PICK j \in Job : /\ NewWork(j) /\ job' = [job EXCEPT ![r] = j]
                             /\ tree[j.handle] # Nothing \/ reg[j.handle] # Nothing
        BY <2>2
      <3>2. job'[r] = j
        BY <1>1, <3>1, JobSet DEF IInv, TypeOK, Job
      <3> QED
        BY <3>1, <3>2 DEF NewWork
    <2> QED
      BY <1>1, <2>1, <2>2, StartRemoveJob DEF IInv, TypeOK, Job
  <1>4. Beside(r)
    BY <1>1, <1>2, <1>3 DEF Beside, Ended, disk, git, config, Identity
  <1>5. Emptied'
    BY <1>1, <1>2 DEF MInv, Emptied, Solo, Process, disk, Goto, IInv, TypeOK
  <1> QED
    BY <1>1, <1>4, <1>5, MetaBeside

\* A rename that is killed has the metadata under one of its two names.
LEMMA MetaStop ==
  ASSUME IInv, MInv, NamesApart, NEW p \in Process, Stop(p)
  PROVE  MInv'
  <1>1. Solo(p) /\ UNCHANGED <<disk, git, config, quarantine, job>> /\ Goto(p, "stopped")
    BY SoloStop DEF Stop, End, IInv
  <1>2. Identity' = Identity /\ tree' = tree /\ reg' = reg /\ meta' = meta /\ job' = job
    BY <1>1 DEF disk, git, config, Identity
  <1>3. \A q \in Process : pc'[q] = IF q = p THEN "stopped" ELSE pc[q]
    BY <1>1 DEF IInv, TypeOK, Goto
  <1>4. Alone'
    BY <1>1, AloneStays DEF MInv
  <1>5. NameFree' /\ MetaThere'
    BY <1>2, <1>3 DEF MInv, NameFree, MetaThere, Renaming, Process
  <1>6. Emptied'
    BY <1>2, <1>3 DEF MInv, Emptied, Ended, Process
  <1>7. Renamed'
    <2>1. SUFFICES ASSUME NEW n \in Renamer, job[n].id # Nothing
                   PROVE  Followed(n)'
      BY <1>2 DEF Renamed
    <2>2. Followed(n) /\ There(n)' = There(n)
      BY <1>2, <2>1 DEF MInv, Renamed, There
    <2>3. CASE n # p
      BY <1>2, <1>3, <2>2, <2>3 DEF Followed, Ended, Process
    <2>4. CASE n = p
      <3>1. pc[n] \in Renaming
        BY <1>1, <2>1, <2>4 DEF Solo, IInv, Jobs, Captured, Renaming, Ended
      <3>2. tree[job[n].other] = Nothing /\ reg[job[n].other] = Nothing
        BY <3>1 DEF MInv, NameFree
      <3>3. \A q \in Process \ Renamer : pc[q] \notin Ended => job[q].handle # job[n].other
        BY <3>1 DEF NamesApart
      <3>4. There(n) /\ ~job[n].unread =>
              meta[job[n].handle] = job[n].kind \/ meta[job[n].other] = job[n].kind
        BY <2>2, <3>1 DEF Followed, Renaming
      <3>5. pc'[n] = "stopped" /\ \A q \in Process \ Renamer : pc'[q] = pc[q]
        BY <1>3, <2>4
      <3> QED
        BY <1>2, <2>1, <2>2, <3>2, <3>3, <3>4, <3>5 DEF Followed
    <2> QED
      BY <2>3, <2>4
  <1> QED
    BY <1>4, <1>5, <1>6, <1>7 DEF MInv

\* A rename carries the metadata with it: to the new name before the worktree is
\* moved, back when it cannot be.
LEMMA MetaRename ==
  ASSUME IInv, MInv, NamesApart, NEW n \in Renamer, Rename(n)
  PROVE  MInv'
  <1> USE DEF MInv
  <1>1. n \in Process /\ n \notin Creator \cup Remover /\ Solo(n)
    BY KindsAssumption, SoloStep DEF Process, IInv, Step
  <1>2. Alone'
    BY <1>1, AloneStays
  <1>3. \A m \in Renamer \ {n} : pc'[m] \in Ended /\ job'[m].id = Nothing
    BY <1>1 DEF Alone, Solo, Process
  <1>4. \A q \in Process \ {n} : pc'[q] = pc[q] /\ job'[q] = job[q]
    BY <1>1 DEF Solo
  <1>5. MetaThere' /\ pc'[n] # "start"
    BY <1>1, <1>3 DEF Rename, StartRename, MigrateMeta, RestoreMeta, MoveWorktree, CopySection,
                DropSection, Goto, MetaThere, Ended, IInv, TypeOK
  <1>6. CASE StartRename(n)
    <2>1. UNCHANGED <<disk, git, config, quarantine, holder>> /\ pc[n] = "start"
      BY <1>6 DEF StartRename
    <2>2. Emptied'
      BY <1>4, <2>1 DEF Emptied, Ended, disk
    <2>3. job[n].id = Nothing
      BY <1>1, <2>1 DEF IInv, Jobs, Captured, Renaming, Ended
    <2>4. CASE job' = job /\ Goto(n, "failed")
      <3>1. pc'[n] = "failed" /\ job'[n].id = Nothing
        BY <1>1, <2>3, <2>4 DEF Goto, IInv, TypeOK
      <3>2. NameFree' /\ Renamed'
        BY <1>3, <3>1 DEF NameFree, Renamed, Renaming, Ended
      <3> QED
        BY <1>2, <1>5, <2>2, <3>2
    <2>5. CASE \E j \in Job : RenameOf(n, j)
      <3>1. PICK j \in Job : RenameOf(n, j)
        BY <2>5
      <3>2. job'[n] = j /\ pc'[n] = "copy-meta"
        BY <1>1, <3>1 DEF RenameOf, IInv, TypeOK, Goto
      <3>3. NameFree'
        BY <1>3, <2>1, <3>1, <3>2 DEF NameFree, RenameOf, disk, git, Renaming, Ended
      <3>4. j.id \in Identity
        BY <3>1 DEF RenameOf, IInv, TypeOK
      <3>5. Followed(n)'
        BY <2>1, <3>1, <3>2, <3>4 DEF Followed, There, RenameOf, MetaThere, disk, git, config,
                                     Identity, Nothing
      <3> QED
        BY <1>2, <1>3, <1>5, <2>2, <3>3, <3>5 DEF Renamed
    <2> QED
      BY <1>1, <1>6, <2>1, <2>4, <2>5, StartRenameJob DEF IInv, TypeOK, Job
  <1>7. CASE MigrateMeta(n) \/ RestoreMeta(n)
    <2>1. UNCHANGED <<tree, made, reg>> /\ pc[n] \in Renaming
      BY <1>7 DEF MigrateMeta, RestoreMeta, CopySection, DropSection, disk, git, Renaming
    <2>6. PICK j \in Job : /\ SameWork(n, j) /\ job' = [job EXCEPT ![n] = j]
                           /\ j.unread \/ UNCHANGED job
      BY <1>1, <1>7, MigrateJob DEF IInv, TypeOK, Job
    <2>7. job'[n] = j
      BY <1>1, <2>6 DEF IInv, TypeOK
    <2>2. Emptied'
      BY <1>4, <2>1, <2>6, <2>7 DEF Emptied, Ended, Renaming, SameWork
    <2>3. NameFree'
      BY <1>3, <2>1, <2>6, <2>7 DEF NameFree, Ended, Renaming, SameWork
    <2>4. ASSUME job[n].id # Nothing
          PROVE  Followed(n)'
      <3>1. Followed(n) /\ There(n)' = There(n)
        BY <2>1, <2>4, <2>6, <2>7 DEF Renamed, There, SameWork
      <3>4. meta \in [Handle -> Kind \cup {None}] /\ \A s : Goto(n, s) => pc'[n] = s
        BY <1>1 DEF IInv, TypeOK, Goto
      <3>5. pc'[n] \in Renaming \cup {"failed"}
        BY <1>7, <3>4 DEF MigrateMeta, RestoreMeta, CopySection, DropSection, Renaming
      <3>6. CASE j.unread
        BY <2>1, <2>6, <2>7, <3>1, <3>5, <3>6 DEF Followed, SameWork, Renaming
      <3>7. CASE ~j.unread
        <4> USE <2>1, <3>1, <3>4, <3>7
        <4>0. UNCHANGED job /\ ~job[n].unread
          BY <2>6, <2>7
        <4>5. job[n].handle \in Handle /\ job[n].other \in Handle /\ job[n].handle # job[n].other
          BY DEF Followed
        <4>6. job'[n].unread = FALSE /\ job \in [Process -> Job] /\ n \in Process
          BY <1>1, <4>0 DEF IInv, TypeOK, Job, Process
        <4>7. ~(job' = [job EXCEPT ![n].unread = TRUE])
          <5>1. [job[n] EXCEPT !.unread = TRUE].unread
            BY <4>6 DEF Job
          <5> QED
            BY <4>6, <5>1
        <4>1. CASE pc[n] = "copy-meta"
          <5>1. CopySection(n, job[n].handle, job[n].other, "drop-old")
            BY <1>7, <4>1 DEF MigrateMeta, RestoreMeta
          <5>2. meta' = IF meta[job[n].handle] = None
                        THEN meta ELSE [meta EXCEPT ![job[n].other] = meta[job[n].handle]]
            BY <4>7, <5>1 DEF CopySection
          <5>3. pc'[n] = "drop-old" /\ (meta[job[n].handle] # None => meta'[job[n].other] = meta[job[n].handle])
            BY <4>5, <5>1, <5>2 DEF CopySection
          <5> QED
            BY <4>0, <4>1, <5>3 DEF Followed
        <4>2. CASE pc[n] = "drop-old"
          <5>1. DropSection(n, job[n].handle, "move-worktree")
            BY <1>7, <4>2 DEF MigrateMeta, RestoreMeta
          <5>3. pc'[n] = "move-worktree" /\ meta'[job[n].other] = meta[job[n].other]
            BY <4>5, <5>1 DEF DropSection
          <5> QED
            BY <4>0, <4>2, <5>3 DEF Followed
        <4>3. CASE pc[n] = "copy-back"
          <5>1. CopySection(n, job[n].other, job[n].handle, "drop-new")
            BY <1>7, <4>3 DEF MigrateMeta, RestoreMeta
          <5>2. meta' = IF meta[job[n].other] = None
                        THEN meta ELSE [meta EXCEPT ![job[n].handle] = meta[job[n].other]]
            BY <4>7, <5>1 DEF CopySection
          <5>3. pc'[n] = "drop-new" /\ (meta[job[n].other] # None => meta'[job[n].handle] = meta[job[n].other])
            BY <4>5, <5>1, <5>2 DEF CopySection
          <5> QED
            BY <4>0, <4>3, <5>3 DEF Followed
        <4>4. CASE pc[n] = "drop-new"
          <5>1. DropSection(n, job[n].other, "failed")
            BY <1>7, <4>4 DEF MigrateMeta, RestoreMeta
          <5>3. pc'[n] = "failed" /\ meta'[job[n].handle] = meta[job[n].handle]
            BY <4>5, <5>1 DEF DropSection
          <5> QED
            BY <4>0, <4>4, <5>3 DEF Followed
        <4> QED
          BY <1>7, <4>1, <4>2, <4>3, <4>4 DEF MigrateMeta, RestoreMeta
      <3> QED
        BY <3>6, <3>7
    <2>5. Renamed'
      BY <1>3, <2>1, <2>4, <2>6, <2>7 DEF Renamed, SameWork
    <2> QED
      BY <1>2, <1>5, <2>2, <2>3, <2>5
  <1>8. CASE MoveWorktree(n)
    <2>1. /\ job[n].handle \in Handle /\ job[n].other \in Handle /\ pc[n] = "move-worktree"
          /\ UNCHANGED <<made, meta, job>>
      BY <1>1, <1>8 DEF MoveWorktree, IInv, Jobs, Ended, Renaming, config
    <2>2. CASE UNCHANGED <<tree, reg>> /\ Goto(n, "copy-back")
      <3>1. Emptied' /\ NameFree'
        BY <1>1, <1>3, <1>4, <2>1, <2>2 DEF Emptied, NameFree, Ended, Renaming, IInv, TypeOK, Goto
      <3>2. job[n].id # Nothing => Followed(n)'
        BY <1>1, <2>1, <2>2 DEF Renamed, Followed, There, IInv, TypeOK, Goto
      <3>3. Renamed'
        BY <1>3, <2>1, <3>2 DEF Renamed
      <3> QED
        BY <1>2, <1>5, <3>1, <3>3
    <2>3. CASE Moved(n)
      <3>1. \A p \in Process \ Renamer : pc[p] \notin Ended => job[p].handle # job[n].other
        BY <2>1 DEF NamesApart, Renaming
      <3>2. /\ tree' = [tree EXCEPT ![job[n].other] = tree[job[n].handle], ![job[n].handle] = Nothing]
            /\ tree[job[n].other] = Nothing /\ tree[job[n].handle] \in Identity
            /\ pc'[n] = "done"
        BY <1>1, <2>1, <2>3 DEF Moved, NameFree, Renaming, IInv, TypeOK, Goto
      <3>3. Emptied'
        BY <1>4, <2>1, <3>1, <3>2 DEF Emptied, IInv, TypeOK, Jobs, Ended, Process
      <3>4. NameFree'
        BY <1>3, <3>2 DEF NameFree, Ended, Renaming
      <3>5. job[n].id # Nothing => Followed(n)'
        BY <2>1, <3>2 DEF Renamed, Followed, There, IInv, TypeOK
      <3>6. Renamed'
        BY <1>3, <2>1, <3>5 DEF Renamed
      <3> QED
        BY <1>2, <1>5, <3>3, <3>4, <3>6
    <2> QED
      BY <1>8, <2>2, <2>3 DEF MoveWorktree, Moved
  <1> QED
    BY <1>6, <1>7, <1>8 DEF Rename

\* Every step keeps the metadata of a worktree that is renamed.
LEMMA MInvKeeps ==
  ASSUME IInv, MInv, NamesApart, NEW p \in Process, Step(p) \/ Stop(p)
  PROVE  MInv'
  <1>1. CASE p \in Creator /\ Step(p)
    BY <1>1, MetaCreate, SoloStep DEF IInv
  <1>2. CASE p \in Remover /\ StartRemove(p)
    BY <1>2, MetaStartRemove
  <1>3. CASE p \in Remover /\ CleanUp(p)
    BY <1>3, MetaCleanUp
  <1>4. CASE p \in Renamer /\ Rename(p)
    BY <1>4, MetaRename
  <1>5. CASE Stop(p)
    BY <1>5, MetaStop
  <1> QED
    BY <1>1, <1>2, <1>3, <1>4, <1>5 DEF Step, Process

\* So does a step of others.
LEMMA MInvStutters == MInv /\ UNCHANGED vars => MInv'
  BY DEF MInv, Alone, NameFree, Emptied, MetaThere, Renamed, Followed, There, Identity,
         vars, disk, git, config

\* At first every worktree has its metadata, and nothing is renamed.
LEMMA InitMeta == Init => MInv
  <1> SUFFICES ASSUME Init PROVE MInv
    OBVIOUS
  <1>1. PICK cast \in Casts, left \in SUBSET Handle, kind \in Kind : Homed(cast, left, kind)
    BY InitHomed
  <1>2. Alone /\ NameFree
    BY InitTrees DEF Clear
  <1>3. Emptied /\ Renamed
    BY <1>1 DEF Homed, Emptied, Renamed, Process
  <1>4. MetaThere
    BY <1>1, NoneAssumption DEF Homed, MetaThere
  <1> QED
    BY <1>2, <1>3, <1>4 DEF MInv

\* What is known of each step of a rename implies that the metadata is kept.
LEMMA MInvImplies == IInv /\ MInv => MetaKept
  <1> SUFFICES ASSUME IInv, MInv, NEW n \in Renamer, job[n].id # Nothing,
                      ~job[n].unread, NEW h \in {job[n].handle, job[n].other}, tree[h] = job[n].id
               PROVE  \E g \in {job[n].handle, job[n].other} :
                        meta[g] = job[n].kind /\ (pc[n] \in {"done", "failed"} => g = h)
    BY DEF MetaKept
  <1>1. Followed(n)
    BY DEF MInv, Renamed
  <1>2. pc[n] \in Renaming \cup {"done", "failed", "stopped"}
    BY DEF IInv, Jobs, Captured, Renaming, Ended, Process
  <1> QED
    BY <1>1, <1>2 DEF Followed, There, Renaming

\* A rename does not lose metadata of the worktree that git could list, and has it
\* under the name the worktree ended up with (rename.rs), killed at whatever step,
\* whether or not git removed the old section, and beside any removals that stay
\* away from the new name; cleanup.rs:424 removes metadata by name, so that one
\* that does not can take it.
THEOREM MetaIsKept == Spec /\ []NamesApart => []MetaKept
  <1>1. IInv /\ MInv /\ NamesApart /\ [Next]_vars => MInv'
    BY MInvKeeps, MInvStutters DEF Next
  <1> QED
    BY <1>1, InitMeta, MInvImplies, Inductive, PTL DEF Spec

=============================================================================
