------------------------- MODULE AgentStoreProof --------------------------
(***************************************************************************)
(* Proofs about AgentStore, for every set of panes, directories, pids,     *)
(* daemons and commands and every value of the bounds.                     *)
(*                                                                         *)
(*   ShapeCorrect         types, one file per pane, well-formed entries    *)
(*   TypeCorrect          TypeOK                                           *)
(*   EntriesNotUndercounted   NeverUndercounts                             *)
(*   HistoryPreserved     HistoryKept, for one resurrect at a time         *)
(*   OnlyPlannedConsumed  ConsumesOnlyPlanned, for one resurrect at a time *)
(*   HooksCompactEnded    HookCompactsEnded                                *)
(*   CompactedIsMoved     CompactedMeansMoved                              *)
(*   FormerIsNotPruned    FormerNotPruned, when no two servers start in    *)
(*                        the same second                                  *)
(*                                                                         *)
(* HistoryKept is not inductive.  A compaction deletes files it scanned    *)
(* earlier, a hook overwrites a file it archived earlier, and a resurrect  *)
(* consumes what it planned earlier, so the invariant IInv adds what each  *)
(* of them may still rely on: the batch and the record to be overwritten   *)
(* are archived (BatchArchived, OverwriteArchived), which the lock         *)
(* protects (MutualExclusion); a planned file revision still means the     *)
(* same record (RevisionsUnique); the planned entries are continued by     *)
(* those of the manifest, so an equal revision means equal content         *)
(* (PlanInStore); and an entry holding only its last batch is what the     *)
(* count says it is (EntriesWellFormed).                                   *)
(*                                                                         *)
(* PlanInStore is what a second resurrect destroys: it may consume the     *)
(* planned entry, and a later compaction creates another one, numbered     *)
(* from 1 again.  Hence the assumption of the two theorems, and the run    *)
(* `twoplans`, which violates HistoryKept without it.                      *)
(*                                                                         *)
(* BootInv follows the boot ids: a hook may act for a server that has      *)
(* ended meanwhile, but under the lock no file and no compaction of a      *)
(* later server comes before it.  SeenEarlier is what this leaves of a     *)
(* listing made without the lock.                                          *)
(***************************************************************************)
EXTENDS AgentStore, FiniteSetTheorems, TLAPS

\* The initial states have the right types.
LEMMA TypeInit == Init => TypeOK
<1> SUFFICES ASSUME Init PROVE TypeOK
  OBVIOUS
<1> USE BoundsAssumption, SetsAssumption DEF Init
<1>1. flat \subseteq Record /\ disk \subseteq Record
  <2>1. ASSUME NEW r \in OldRecord
        PROVE  r \in Record
    <3>1. 1 \in Boot /\ 0 \in Nat
      BY DEF Boot
    <3>2. r.boot = 1 /\ r.legacy = TRUE /\ r.ts = 0 /\ r.rev = 0
      BY DEF OldRecord
    <3> QED
      BY <3>1, <3>2 DEF OldRecord, Record
  <2> QED
    BY <2>1
<1>2. /\ entries \subseteq Entry /\ compacted \in 0..MaxBoot
      /\ lock \in Actor \cup {Free} /\ writes \in Nat /\ boot \in Boot
      /\ failures \in Nat /\ losses \in Nat
      /\ ended \subseteq Source /\ restored \subseteq Source
      /\ job \subseteq [pane : Pane, dir : Dir, pid : Pid]
  BY DEF Boot
<1>3. pc \in [Actor -> Steps]
  BY DEF Steps
<1>4. obs \in [Compactors \cup Clis -> 0..MaxBoot] /\ known \in [Daemons -> 0..MaxBoot]
  OBVIOUS
<1>5. panes \in [Reconcilers -> [Pane -> Pid \cup {NoPid}]]
  OBVIOUS
<1>6. /\ batch \in [Compactors -> SUBSET Record]
      /\ seen \in [Reconcilers -> SUBSET Record]
      /\ doomed \in [Reconcilers -> SUBSET Record]
      /\ planFlats \in [Resurrectors -> SUBSET Record]
      /\ planEntries \in [Resurrectors -> SUBSET Entry]
      /\ todo \in [Resurrectors -> SUBSET Record]
      /\ missed \in [Resurrectors -> SUBSET Record]
  OBVIOUS
<1> QED
  BY <1>1, <1>2, <1>3, <1>4, <1>5, <1>6 DEF TypeOK

\* What remains of the processes after a kill has the right types.
LEMMA TypeForget ==
  ASSUME TypeOK, NEW A, Forget(A)
  PROVE  /\ pc' \in [Actor -> Steps]
         /\ obs' \in [Compactors \cup Clis -> 0..MaxBoot]
         /\ job' \subseteq [pane : Pane, dir : Dir, pid : Pid]
         /\ batch' \in [Compactors -> SUBSET Record]
         /\ known' \in [Daemons -> 0..MaxBoot]
         /\ panes' \in [Reconcilers -> [Pane -> Pid \cup {NoPid}]]
         /\ seen' \in [Reconcilers -> SUBSET Record]
         /\ doomed' \in [Reconcilers -> SUBSET Record]
         /\ planFlats' \in [Resurrectors -> SUBSET Record]
         /\ planEntries' \in [Resurrectors -> SUBSET Entry]
         /\ todo' \in [Resurrectors -> SUBSET Record]
         /\ missed' \in [Resurrectors -> SUBSET Record]
<1> USE BoundsAssumption DEF Forget, TypeOK
<1>1. pc' \in [Actor -> Steps]
  BY DEF Steps
<1>2. obs' \in [Compactors \cup Clis -> 0..MaxBoot] /\ known' \in [Daemons -> 0..MaxBoot]
  BY DEF Compactors
<1>3. job' \subseteq [pane : Pane, dir : Dir, pid : Pid]
  OBVIOUS
<1>4. panes' \in [Reconcilers -> [Pane -> Pid \cup {NoPid}]]
  BY DEF Reconcilers
<1>5. /\ batch' \in [Compactors -> SUBSET Record]
      /\ seen' \in [Reconcilers -> SUBSET Record]
      /\ doomed' \in [Reconcilers -> SUBSET Record]
  BY DEF Reconcilers, Compactors
<1>6. /\ planFlats' \in [Resurrectors -> SUBSET Record]
      /\ planEntries' \in [Resurrectors -> SUBSET Entry]
      /\ todo' \in [Resurrectors -> SUBSET Record]
      /\ missed' \in [Resurrectors -> SUBSET Record]
  OBVIOUS
<1> QED
  BY <1>1, <1>2, <1>3, <1>4, <1>5, <1>6

-----------------------------------------------------------------------------

\* A pane has one file (agents/<pane>.json), on the disk as well.
OneFilePerPane ==
    /\ \A r, q \in flat : r.pane = q.pane => r = q
    /\ \A r, q \in disk : r.pane = q.pane => r = q

\* Past its question to tmux, a hook has a boot id.
HookKnowsServer ==
    pc[Hook] \in {"compact", "delete", "write", "overwrite", "finalize"} => obs[Hook] \in Boot

\* An entry holds its batches and counts at least what it holds.
WellFormed(e) ==
    /\ e.pending \cup e.recent \subseteq e.members
    /\ IsFiniteSet(e.members)
    /\ Cardinality(e.members) <= e.count

\* The manifest is keyed by directory.
EntriesWellFormed ==
    /\ \A e \in entries : WellFormed(e)
    /\ \A e, f \in entries : e.dir = f.dir => e = f

\* The inductive type invariant.
Shape == TypeOK /\ OneFilePerPane /\ HookKnowsServer /\ EntriesWellFormed

\* The manifest identity of a record is a source.
LEMMA SrcType ==
  ASSUME NEW r \in Record
  PROVE  Src(r) \in Source
BY DEF Record, Source, Src

\* Writing a record leaves records on file.
LEMMA PutType ==
  ASSUME TypeOK, NEW r \in Record
  PROVE  Put(flat, r) \subseteq Record
BY DEF TypeOK, Put

\* Renewing the history to be kept leaves sources.
LEMMA RenewedType ==
  ASSUME TypeOK, NEW r \in Record
  PROVE  Renewed(r) \subseteq Source
BY SrcType DEF TypeOK, Renewed

\* What a hook writes is a record.
LEMMA NewRecordType ==
  ASSUME TypeOK, NEW j \in job, obs[Hook] \in Boot
  PROVE  NewRecord(j) \in Record
<1>1. /\ j.pane \in Pane /\ j.dir \in Dir /\ j.pid \in Pid
      /\ writes + 1 \in Nat
  BY DEF TypeOK
<1> QED
  BY <1>1 DEF NewRecord, Record

\* A rewritten record is a record.
LEMMA RewriteType ==
  ASSUME NEW r \in Record, NEW n \in Nat
  PROVE  /\ [r EXCEPT !.rev = n] \in Record
         /\ [r EXCEPT !.ts = n, !.rev = n] \in Record
BY DEF Record

-----------------------------------------------------------------------------
(***************************************************************************)
(* What merging and finalizing do to the manifest.                         *)
(***************************************************************************)

\* One file per pane, so finitely many files.
LEMMA FlatFinite ==
  ASSUME TypeOK, OneFilePerPane
  PROVE  IsFiniteSet(flat)
<1> DEFINE f == [r \in flat |-> r.pane]
<1>1. f \in Injection(flat, Pane)
  BY DEF Injection, IsInjective, TypeOK, OneFilePerPane, Record
<1> QED
  BY <1>1, FS_Injection, SetsAssumption

\* What a compaction merges into one entry is a finite set of sources.
LEMMA SourcesFinite ==
  ASSUME TypeOK, OneFilePerPane, NEW R \in SUBSET flat, NEW d
  PROVE  SourcesIn(R, d) \in SUBSET Source /\ IsFiniteSet(SourcesIn(R, d))
<1> DEFINE Q == {q \in R : q.dir = d}
           f == [r \in Q |-> Src(r)]
<1>1. IsFiniteSet(Q)
  BY FlatFinite, FS_Subset
<1>2. f \in Surjection(Q, SourcesIn(R, d))
  BY DEF Surjection, SourcesIn
<1>3. IsFiniteSet(SourcesIn(R, d))
  BY <1>1, <1>2, FS_Surjection
<1> QED
  BY <1>3, SrcType DEF SourcesIn, TypeOK

\* f is e after further history was merged into it.
Continues(f, e) ==
    /\ f.dir = e.dir
    /\ e.members \subseteq f.members
    /\ e.revision <= f.revision
    /\ f.revision = e.revision => f.members = e.members

\* Merging new sources continues a well-formed entry.
LEMMA MergeIntoShape ==
  ASSUME NEW e \in Entry, WellFormed(e), NEW S \in SUBSET Source, IsFiniteSet(S)
  PROVE  /\ MergeInto(e, S) \in Entry
         /\ WellFormed(MergeInto(e, S))
         /\ Continues(MergeInto(e, S), e)
         /\ MergeInto(e, S).members = e.members \cup S
<1> DEFINE m == MergeInto(e, S)
<1>1. Cardinality(S) \in Nat /\ Cardinality(e.members) \in Nat
  BY FS_CardinalityType DEF WellFormed
<1>2. e.count \in Nat /\ e.revision \in Nat
  BY DEF Entry
<1>3. /\ m.count = e.count + Cardinality(S)
      /\ m.revision = e.revision + Cardinality(S)
      /\ m.pending = e.pending \cup S
      /\ m.recent = e.recent
      /\ m.members = e.members \cup S
      /\ m.dir = e.dir
  BY DEF MergeInto, Entry
<1>4. m \in Entry
  <2>1. /\ e.count + Cardinality(S) \in Nat
        /\ e.revision + Cardinality(S) \in Nat
    BY <1>1, <1>2
  <2>2. /\ e.pending \cup S \in SUBSET Source
        /\ e.members \cup S \in SUBSET Source
    BY DEF Entry
  <2> QED
    BY <2>1, <2>2 DEF MergeInto, Entry
<1>5. /\ IsFiniteSet(m.members)
      /\ Cardinality(m.members) <= e.count + Cardinality(S)
  <2>1. /\ IsFiniteSet(e.members \cup S)
        /\ Cardinality(e.members \cup S) =
             Cardinality(e.members) + Cardinality(S) - Cardinality(e.members \cap S)
    BY FS_Union DEF WellFormed
  <2>2. Cardinality(e.members \cap S) \in Nat
    BY FS_Subset, FS_CardinalityType, e.members \cap S \in SUBSET S
  <2> QED
    BY <1>1, <1>2, <1>3, <2>1, <2>2 DEF WellFormed
<1>6. WellFormed(m)
  BY <1>3, <1>5 DEF WellFormed
<1>7. Continues(m, e)
  <2>1. e.revision <= m.revision
    BY <1>1, <1>2, <1>3
  <2>2. m.revision = e.revision => S = {}
    BY <1>1, <1>2, <1>3, FS_EmptySet
  <2> QED
    BY <1>3, <2>1, <2>2 DEF Continues
<1> QED
  BY <1>3, <1>4, <1>6, <1>7

\* A new entry is well-formed and holds what was merged.
LEMMA NewEntryShape ==
  ASSUME NEW d \in Dir, NEW S \in SUBSET Source, IsFiniteSet(S)
  PROVE  /\ NewEntry(d, S) \in Entry
         /\ WellFormed(NewEntry(d, S))
         /\ NewEntry(d, S).dir = d
         /\ NewEntry(d, S).members = S
BY FS_CardinalityType DEF NewEntry, Entry, WellFormed

\* Finalizing an entry forgets no member and keeps its revision.
LEMMA SettleShape ==
  ASSUME NEW e \in Entry, WellFormed(e)
  PROVE  /\ Settle(e) \in Entry
         /\ WellFormed(Settle(e))
         /\ Continues(Settle(e), e)
<1>1. CASE e.pending = {}
  BY <1>1 DEF Settle, Entry, Continues
<1>2. CASE e.pending # {}
  <2>1. Settle(e) = [e EXCEPT !.recent = e.pending, !.pending = {}]
    BY <1>2 DEF Settle
  <2>2. Settle(e) \in Entry
    BY <2>1 DEF Entry
  <2>3. /\ Settle(e).recent = e.pending /\ Settle(e).pending = {}
        /\ Settle(e).members = e.members /\ Settle(e).count = e.count
        /\ Settle(e).dir = e.dir /\ Settle(e).revision = e.revision
    BY <2>1 DEF Entry
  <2>4. e.revision \in Nat
    BY DEF Entry
  <2> QED
    BY <2>2, <2>3, <2>4 DEF WellFormed, Continues
<1> QED
  BY <1>1, <1>2

\* The manifest E continues as F: no entry goes and none loses a source.
Extends(F, E) == \A e \in E : \E f \in F : Continues(f, e)

\* merge_recovery_locked: the manifest stays well-formed, loses nothing,
\* and afterwards holds every merged record.
LEMMA MergeShape ==
  ASSUME TypeOK, OneFilePerPane, EntriesWellFormed, NEW R \in SUBSET flat
  PROVE  /\ Merge(entries, R) \in SUBSET Entry
         /\ \A e \in Merge(entries, R) : WellFormed(e)
         /\ \A e, f \in Merge(entries, R) : e.dir = f.dir => e = f
         /\ Extends(Merge(entries, R), entries)
         /\ \A r \in R : \E e \in Merge(entries, R) : Src(r) \in e.members
<1> DEFINE New(e) == SourcesIn(R, e.dir) \ (e.pending \cup e.recent)
           Old == {MergeInto(e, New(e)) : e \in entries}
           Fresh == {r.dir : r \in R} \ {e.dir : e \in entries}
           Added == {NewEntry(d, SourcesIn(R, d)) : d \in Fresh}
<1>1. Merge(entries, R) = Old \cup Added
  BY DEF Merge
<1>2. ASSUME NEW e \in entries
      PROVE  /\ MergeInto(e, New(e)) \in Entry
             /\ WellFormed(MergeInto(e, New(e)))
             /\ Continues(MergeInto(e, New(e)), e)
             /\ MergeInto(e, New(e)).members = e.members \cup New(e)
  <2>1. New(e) \in SUBSET Source /\ IsFiniteSet(New(e))
    BY SourcesFinite, FS_Subset
  <2>2. e \in Entry /\ WellFormed(e)
    BY DEF TypeOK, EntriesWellFormed
  <2> HIDE DEF New
  <2> QED
    BY <2>1, <2>2, MergeIntoShape
<1>3. ASSUME NEW d \in Fresh
      PROVE  /\ NewEntry(d, SourcesIn(R, d)) \in Entry
             /\ WellFormed(NewEntry(d, SourcesIn(R, d)))
             /\ NewEntry(d, SourcesIn(R, d)).dir = d
             /\ NewEntry(d, SourcesIn(R, d)).members = SourcesIn(R, d)
  <2>1. d \in Dir
    BY DEF TypeOK, Record
  <2> QED
    BY <2>1, SourcesFinite, NewEntryShape
<1>4. \A e \in entries : MergeInto(e, New(e)).dir = e.dir
  BY <1>2 DEF Continues
<1>5. \A e, f \in entries : e.dir = f.dir => e = f
  BY DEF EntriesWellFormed
<1>6. ASSUME NEW r \in R
      PROVE  \E e \in Merge(entries, R) : Src(r) \in e.members
  <2>1. Src(r) \in SourcesIn(R, r.dir)
    BY DEF SourcesIn
  <2>2. CASE \E e \in entries : e.dir = r.dir
    <3>1. PICK e \in entries : e.dir = r.dir
      BY <2>2
    <3>2. e.pending \cup e.recent \subseteq e.members
      BY DEF EntriesWellFormed, WellFormed
    <3>3. Src(r) \in MergeInto(e, New(e)).members
      BY <2>1, <3>1, <3>2, <1>2
    <3> HIDE DEF New
    <3> QED
      BY <3>3, <1>1
  <2>3. CASE ~ \E e \in entries : e.dir = r.dir
    <3>1. r.dir \in Fresh
      BY <2>3
    <3>2. Src(r) \in NewEntry(r.dir, SourcesIn(R, r.dir)).members
      BY <2>1, <3>1, <1>3
    <3> HIDE DEF Fresh
    <3> QED
      BY <3>1, <3>2, <1>1
  <2> QED
    BY <2>2, <2>3
<1>7. \A d \in Fresh, e \in entries : d # e.dir
  OBVIOUS
<1> HIDE DEF New, Fresh
<1>8. \A e, f \in Merge(entries, R) : e.dir = f.dir => e = f
  BY <1>1, <1>3, <1>4, <1>5, <1>7
<1>9. Extends(Merge(entries, R), entries)
  BY <1>1, <1>2 DEF Extends
<1>10. \A e \in Merge(entries, R) : e \in Entry /\ WellFormed(e)
  BY <1>1, <1>2, <1>3
<1> QED
  BY <1>6, <1>8, <1>9, <1>10

\* finalize_recovery_locked: the manifest stays well-formed, loses nothing.
LEMMA FinalizeShape ==
  ASSUME TypeOK, EntriesWellFormed
  PROVE  /\ Finalize(entries) \in SUBSET Entry
         /\ \A e \in Finalize(entries) : WellFormed(e)
         /\ \A e, f \in Finalize(entries) : e.dir = f.dir => e = f
         /\ Extends(Finalize(entries), entries)
<1>1. \A e \in entries : /\ Settle(e) \in Entry
                         /\ WellFormed(Settle(e))
                         /\ Continues(Settle(e), e)
  BY SettleShape DEF TypeOK, EntriesWellFormed
<1>2. \A e, f \in entries : Settle(e).dir = Settle(f).dir => e = f
  BY <1>1 DEF EntriesWellFormed, Continues
<1> QED
  BY <1>1, <1>2 DEF Finalize, Extends
\* Every action preserves the types.
LEMMA TypeNext ==
  ASSUME Shape, [Next]_vars
  PROVE  TypeOK'
<1>0. /\ \A R \in SUBSET flat : Merge(entries, R) \in SUBSET Entry
      /\ Finalize(entries) \in SUBSET Entry
  BY MergeShape, FinalizeShape DEF Shape
<1> USE BoundsAssumption, SetsAssumption, ActorsAssumption DEF Shape, TypeOK
<1>1. ASSUME NEW p \in Pane, NEW q \in Pid \cup {NoPid}, PaneChange(p, q)
      PROVE TypeOK'
  BY <1>1 DEF PaneChange, store, locals, history, bounds
<1>2. CASE ServerRestart
  BY <1>2 DEF ServerRestart, store, locals, bounds, Boot, Src, Source, Record
<1>3. ASSUME NEW p \in Pane, Flush(p)
      PROVE TypeOK'
  BY <1>3 DEF Flush, tmux, locals, history, bounds
<1>4. ASSUME NEW a \in Actor, Crash(a)
      PROVE TypeOK'
  <2>1. Forget({a})
    BY <1>4 DEF Crash
  <2> QED
    <3>1. lock' \in {lock, Free} /\ failures' \in Nat
      BY <1>4 DEF Crash
    <3>2. UNCHANGED <<flat, disk, entries, compacted, writes, boot, live, ended, restored, losses>>
      BY <1>4 DEF Crash, store, tmux, history
    <3> QED
      BY <2>1, <3>1, <3>2, TypeForget
<1>5. CASE PowerLoss
  <2>1. Forget(Actor)
    BY <1>5 DEF PowerLoss
  <2>2. ended' \subseteq Source
    BY <1>5, SrcType DEF PowerLoss
  <2> QED
    <3>1. boot' \in Boot /\ losses' \in Nat
      BY <1>5 DEF PowerLoss, Boot
    <3> QED
      BY <1>5, <2>1, <2>2, <3>1, TypeForget DEF PowerLoss
<1>6. ASSUME NEW p \in Pane, NEW d \in Dir, HookLock(p, d)
      PROVE TypeOK'
  BY <1>6 DEF HookLock, store, tmux, history, bounds, Steps, Actor, Compactors
<1>7. CASE HookNoServer
  BY <1>7 DEF HookNoServer, HookDone, store, tmux, history, bounds, Steps, Actor, Compactors
<1>8. CASE HookBoot
  BY <1>8 DEF HookBoot, store, tmux, history, bounds, Boot, Steps, Actor, Compactors
<1>9. CASE HookArchive
  BY <1>0, <1>9 DEF HookArchive, tmux, locals, history, bounds, Steps, Actor, Compactors
<1>10. CASE HookWrite
  <2>1. obs[Hook] \in Boot
    BY <1>10 DEF HookWrite, HookKnowsServer
  <2>2. flat' \subseteq Record /\ ended' \subseteq Source
    BY <1>10, <2>1, NewRecordType, PutType, RenewedType DEF HookWrite
  <2> QED
    BY <1>10, <2>2 DEF HookWrite, HookDone, tmux, bounds, Steps, Actor, Compactors
<1>11. CASE HookOverwrite
  <2>1. obs[Hook] \in Boot
    BY <1>11 DEF HookOverwrite, HookKnowsServer
  <2>2. flat' \subseteq Record
    BY <1>11, <2>1, NewRecordType, PutType DEF HookOverwrite
  <2> QED
    BY <1>11, <2>2 DEF HookOverwrite, tmux, locals, history, bounds, Steps, Actor, Compactors
<1>12. CASE HookFinalize
  BY <1>0, <1>12 DEF HookFinalize, HookDone, tmux, history, bounds, Steps, Actor, Compactors
<1>13. ASSUME NEW r \in flat, ClearStatus(r)
      PROVE TypeOK'
  <2>1. [r EXCEPT !.ts = writes + 1, !.rev = writes + 1] \in Record
    <3>1. r \in Record /\ writes + 1 \in Nat
      OBVIOUS
    <3> QED
      BY <3>1, RewriteType
  <2>2. flat' \subseteq Record /\ ended' \subseteq Source
    BY <1>13, <2>1, PutType, RenewedType DEF ClearStatus
  <2> QED
    BY <1>13, <2>2 DEF ClearStatus, tmux, locals, bounds
<1>14. ASSUME NEW r \in flat, Touch(r)
      PROVE TypeOK'
  <2>1. [r EXCEPT !.rev = writes + 1] \in Record
    <3>1. r \in Record /\ writes + 1 \in Nat
      OBVIOUS
    <3> QED
      BY <3>1, RewriteType
  <2>2. flat' \subseteq Record
    BY <1>14, <2>1, PutType DEF Touch
  <2> QED
    <3>1. writes' \in Nat /\ UNCHANGED <<disk, entries, compacted, lock, tmux, pc,
       locals, history, bounds>>
      BY <1>14 DEF Touch
    <3> QED
      BY <2>2, <3>1 DEF tmux, locals, history, bounds
<1>15. ASSUME NEW a \in Compactors, CompactSkip(a)
      PROVE TypeOK'
  BY <1>15 DEF CompactSkip, Compacted, store, tmux, history, bounds, Steps, Actor, Compactors
<1>16. ASSUME NEW a \in Compactors, CompactMerge(a)
      PROVE TypeOK'
  BY <1>0, <1>16 DEF CompactMerge, Former, tmux, history, bounds, Steps, Actor, Compactors
<1>17. ASSUME NEW a \in Compactors, CompactDelete(a)
      PROVE TypeOK'
  BY <1>17 DEF CompactDelete, tmux, history, bounds, Steps, Actor, Compactors
<1>18. ASSUME NEW a \in Compactors, CompactFinalize(a)
      PROVE TypeOK'
  <2>1. entries' \subseteq Entry /\ compacted' \in 0..MaxBoot
    BY <1>0, <1>18 DEF CompactFinalize, Compactors
  <2> QED
    BY <1>18, <2>1 DEF CompactFinalize, Compacted, tmux, history, bounds, Steps, Actor, Compactors
<1>19. ASSUME NEW a \in Compactors, CompactFails(a)
      PROVE TypeOK'
  BY <1>19 DEF CompactFails, store, tmux, history, bounds, Steps, Actor, Compactors
<1>20. ASSUME NEW d \in Daemons, DaemonObserve(d)
      PROVE TypeOK'
  BY <1>20 DEF DaemonObserve, store, tmux, history, bounds, Boot, Steps, Actor,
       Compactors, Reconcilers
<1>21. ASSUME NEW d \in Daemons, DaemonLock(d)
      PROVE TypeOK'
  BY <1>21 DEF DaemonLock, store, tmux, locals, history, bounds, Steps, Actor, Compactors
<1>22. ASSUME NEW d \in Daemons, DaemonRead(d)
      PROVE TypeOK'
  BY <1>22 DEF DaemonRead, store, tmux, history, bounds, Steps, Actor, Compactors, Reconcilers
<1>23. ASSUME NEW c \in Clis, CliRead(c)
      PROVE TypeOK'
  BY <1>23 DEF CliRead, store, tmux, history, bounds, Steps, Actor, Compactors, Reconcilers
<1>24. ASSUME NEW c \in Clis, CliPanes(c)
      PROVE TypeOK'
  BY <1>24 DEF CliPanes, store, tmux, history, bounds, Steps, Actor, Compactors, Reconcilers
<1>25. ASSUME NEW c \in Clis, CliBoot(c)
      PROVE TypeOK'
  BY <1>25 DEF CliBoot, store, tmux, history, bounds, Boot, Steps, Actor, Compactors, Reconcilers
<1>26. ASSUME NEW a \in Reconcilers, NEW r \in seen[a], Judge(a, r)
      PROVE TypeOK'
  <2>1. /\ seen' \in [Reconcilers -> SUBSET Record]
        /\ doomed' \in [Reconcilers -> SUBSET Record]
    <3>1. r \in Record /\ a \in Reconcilers
      OBVIOUS
    <3>2. seen' = [seen EXCEPT ![a] = @ \ {r}]
      BY <1>26 DEF Judge
    <3>3. doomed' = doomed \/ doomed' = [doomed EXCEPT ![a] = {r}]
      BY <1>26 DEF Judge
    <3>4. seen' \in [Reconcilers -> SUBSET Record]
      BY <3>1, <3>2
    <3>5. doomed' \in [Reconcilers -> SUBSET Record]
      BY <3>1, <3>3
    <3> QED
      BY <3>4, <3>5
  <2>2. pc' \in [Actor -> Steps]
    BY <1>26 DEF Judge, Steps, Actor, Compactors, Reconcilers
  <2> QED
    BY <1>26, <2>1, <2>2 DEF Judge, store, tmux, history, bounds
<1>27. ASSUME NEW a \in Reconcilers, Prune(a)
      PROVE TypeOK'
  BY <1>27 DEF Prune, tmux, bounds, Steps, Actor, Compactors, Reconcilers
<1>28. ASSUME NEW a \in Reconcilers, EndPass(a)
      PROVE TypeOK'
  BY <1>28 DEF EndPass, store, tmux, history, bounds, Steps, Actor, Compactors, Reconcilers
<1>29. ASSUME NEW r \in Resurrectors, NEW d \in Dir, MakePlan(r, d)
      PROVE TypeOK'
  BY <1>29 DEF MakePlan, store, tmux, history, bounds, Steps, Actor
<1>30. ASSUME NEW r \in Resurrectors, Open(r)
      PROVE TypeOK'
  BY <1>30 DEF Open, Covers, store, tmux, locals, bounds, Steps, Actor, Src, Source, Record, Entry
<1>31. ASSUME NEW r \in Resurrectors, OpenFails(r)
      PROVE TypeOK'
  BY <1>31 DEF OpenFails, ResurrectDone, store, tmux, history, bounds, Steps, Actor
<1>32. ASSUME NEW r \in Resurrectors, ConsumeLock(r)
      PROVE TypeOK'
  BY <1>32 DEF ConsumeLock, store, tmux, history, bounds, Steps, Actor
<1>33. ASSUME NEW r \in Resurrectors, NEW f \in todo[r], ConsumeFlat(r, f)
      PROVE TypeOK'
  BY <1>33 DEF ConsumeFlat, tmux, history, bounds
<1>34. ASSUME NEW r \in Resurrectors, ConsumeSave(r)
      PROVE TypeOK'
  BY <1>34 DEF ConsumeSave, ResurrectDone, tmux, history, bounds, Steps, Actor
<1>35. CASE UNCHANGED vars
  BY <1>35 DEF vars, store, tmux, locals, history, bounds
<1> QED
  <2> HIDE DEF Shape, TypeOK
  <2> QED
    BY <1>1, <1>2, <1>3, <1>4, <1>5, <1>6, <1>7, <1>8, <1>9, <1>10, <1>11, <1>12, <1>13,
       <1>14, <1>15, <1>16, <1>17, <1>18, <1>19, <1>20, <1>21, <1>22, <1>23, <1>24,
       <1>25, <1>26, <1>27, <1>28, <1>29, <1>30, <1>31, <1>32, <1>33, <1>34, <1>35
    DEF Next, Environment, HookStep, Compact, DaemonStep, CliStep, ResurrectStep, Reconcilers

-----------------------------------------------------------------------------
(***************************************************************************)
(* What one step can do to the files and to the manifest.                  *)
(***************************************************************************)

\* A step deletes files, rolls them back to the disk, or writes one.
FlatStep ==
    \/ flat' \subseteq flat
    \/ flat' = disk
    \/ \E r : flat' = Put(flat, r)

\* A step leaves the disk alone or flushes the file of one pane.
DiskStep ==
    \/ disk' = disk
    \/ \E p : disk' = {r \in disk : r.pane # p} \cup {r \in flat : r.pane = p}

\* A step drops entries, finalizes the manifest, or merges files into it.
ManifestStep ==
    \/ entries' \subseteq entries
    \/ entries' = Finalize(entries)
    \/ \E R \in SUBSET flat : entries' = Merge(entries, R)

\* Every action is a step of these three kinds.
LEMMA Frames ==
  ASSUME [Next]_vars
  PROVE  FlatStep /\ DiskStep /\ ManifestStep
<1> USE DEF FlatStep, DiskStep, ManifestStep
<1>1. ASSUME NEW p \in Pane, \/ \E q \in Pid \cup {NoPid} : PaneChange(p, q)
                             \/ Flush(p)
      PROVE  FlatStep /\ DiskStep /\ ManifestStep
  BY <1>1 DEF PaneChange, Flush, store, tmux, locals, history, bounds, Former
<1>2. CASE ServerRestart
  BY <1>2 DEF ServerRestart, store, tmux, locals, history, bounds, Former
<1>3. ASSUME NEW a \in Actor, Crash(a)
      PROVE  FlatStep /\ DiskStep /\ ManifestStep
  BY <1>3 DEF Crash, Forget, store, tmux, locals, history, bounds, Former
<1>4. CASE PowerLoss
  BY <1>4 DEF PowerLoss, Forget, store, tmux, locals, history, bounds, Former
<1>5. ASSUME NEW p \in Pane, NEW d \in Dir, HookLock(p, d)
      PROVE  FlatStep /\ DiskStep /\ ManifestStep
  BY <1>5 DEF HookLock, store, tmux, locals, history, bounds, Former
<1>6. CASE HookStep
  BY <1>6 DEF HookStep, HookNoServer, HookBoot, HookArchive, HookWrite,
      HookOverwrite, HookFinalize, HookDone, store, tmux, locals, history,
      bounds, Former
<1>7. ASSUME NEW r \in flat, ClearStatus(r) \/ Touch(r)
      PROVE  FlatStep /\ DiskStep /\ ManifestStep
  BY <1>7 DEF ClearStatus, Touch, store, tmux, locals, history, bounds, Former
<1>8. ASSUME NEW a \in Compactors, Compact(a) \/ CompactFails(a)
      PROVE  FlatStep /\ DiskStep /\ ManifestStep
  BY <1>8 DEF Compact, CompactSkip, CompactMerge, CompactDelete,
      CompactFinalize, CompactFails, Compacted, store, tmux, locals, history,
      bounds, Former
<1>9. ASSUME NEW d \in Daemons, DaemonStep(d)
      PROVE  FlatStep /\ DiskStep /\ ManifestStep
  BY <1>9 DEF DaemonStep, DaemonObserve, DaemonLock, DaemonRead, Judge, Prune,
      EndPass, store, tmux, locals, history, bounds, Former
<1>10. ASSUME NEW c \in Clis, CliStep(c)
      PROVE  FlatStep /\ DiskStep /\ ManifestStep
  BY <1>10 DEF CliStep, CliRead, CliPanes, CliBoot, Judge, Prune, EndPass,
      store, tmux, locals, history, bounds, Former
<1>11. ASSUME NEW r \in Resurrectors, ResurrectStep(r)
      PROVE  FlatStep /\ DiskStep /\ ManifestStep
  BY <1>11 DEF ResurrectStep, MakePlan, Open, OpenFails, ConsumeLock,
      ConsumeFlat, ConsumeSave, ResurrectDone, store, tmux, locals, history,
      bounds, Former
<1>12. CASE UNCHANGED vars
  BY <1>12 DEF vars, store, tmux, locals, history, bounds, Former
<1> HIDE DEF FlatStep, DiskStep, ManifestStep
<1> QED
  BY <1>1, <1>2, <1>3, <1>4, <1>5, <1>6, <1>7, <1>8, <1>9, <1>10, <1>11,
      <1>12 DEF Next, Environment

\* Every action keeps one file per pane.
LEMMA OneFileNext ==
  ASSUME OneFilePerPane, [Next]_vars
  PROVE  OneFilePerPane'
<1>1. FlatStep /\ DiskStep
  BY Frames
<1>2. \A r, q \in flat' : r.pane = q.pane => r = q
  BY <1>1 DEF FlatStep, OneFilePerPane, Put
<1>3. \A r, q \in disk' : r.pane = q.pane => r = q
  BY <1>1 DEF DiskStep, OneFilePerPane
<1> QED
  BY <1>2, <1>3 DEF OneFilePerPane

\* Every action keeps the manifest well-formed.
LEMMA EntriesNext ==
  ASSUME TypeOK, OneFilePerPane, EntriesWellFormed, [Next]_vars
  PROVE  EntriesWellFormed'
<1>1. ManifestStep
  BY Frames
<1>2. CASE entries' \subseteq entries
  BY <1>2 DEF EntriesWellFormed, WellFormed
<1>3. CASE entries' = Finalize(entries)
  BY <1>3, FinalizeShape DEF EntriesWellFormed, WellFormed
<1>4. CASE \E R \in SUBSET flat : entries' = Merge(entries, R)
  BY <1>4, MergeShape DEF EntriesWellFormed, WellFormed
<1> QED
  BY <1>1, <1>2, <1>3, <1>4 DEF ManifestStep

\* A hook never compacts or writes without a boot id.
LEMMA HookKnowsNext ==
  ASSUME TypeOK, HookKnowsServer, [Next]_vars
  PROVE  HookKnowsServer'
<1> USE ActorsAssumption DEF TypeOK, HookKnowsServer
<1>1. ASSUME NEW p \in Pane, \/ \E q \in Pid \cup {NoPid} : PaneChange(p, q)
                             \/ Flush(p)
      PROVE  HookKnowsServer'
  BY <1>1 DEF PaneChange, Flush, store, tmux, locals, history, bounds, Actor,
      Compactors, Reconcilers
<1>2. CASE ServerRestart
  BY <1>2 DEF ServerRestart, store, tmux, locals, history, bounds, Actor,
      Compactors, Reconcilers
<1>3. ASSUME NEW a \in Actor, Crash(a)
      PROVE  HookKnowsServer'
  BY <1>3 DEF Crash, Forget, store, tmux, locals, history, bounds, Actor,
      Compactors, Reconcilers
<1>4. CASE PowerLoss
  BY <1>4 DEF PowerLoss, Forget, store, tmux, locals, history, bounds, Actor,
      Compactors, Reconcilers
<1>5. ASSUME NEW p \in Pane, NEW d \in Dir, HookLock(p, d)
      PROVE  HookKnowsServer'
  BY <1>5 DEF HookLock, store, tmux, locals, history, bounds, Actor,
      Compactors, Reconcilers
<1>6. CASE HookStep
  BY <1>6 DEF HookStep, HookNoServer, HookBoot, HookArchive, HookWrite,
      HookOverwrite, HookFinalize, HookDone, store, tmux, locals, history,
      bounds, Actor, Compactors, Reconcilers
<1>7. ASSUME NEW r \in flat, ClearStatus(r) \/ Touch(r)
      PROVE  HookKnowsServer'
  BY <1>7 DEF ClearStatus, Touch, store, tmux, locals, history, bounds, Actor,
      Compactors, Reconcilers
<1>8. ASSUME NEW a \in Compactors, Compact(a) \/ CompactFails(a)
      PROVE  HookKnowsServer'
  BY <1>8 DEF Compact, CompactSkip, CompactMerge, CompactDelete,
      CompactFinalize, CompactFails, Compacted, store, tmux, locals, history,
      bounds, Actor, Compactors, Reconcilers
<1>9. ASSUME NEW d \in Daemons, DaemonStep(d)
      PROVE  HookKnowsServer'
  BY <1>9 DEF DaemonStep, DaemonObserve, DaemonLock, DaemonRead, Judge, Prune,
      EndPass, store, tmux, locals, history, bounds, Actor, Compactors,
      Reconcilers
<1>10. ASSUME NEW c \in Clis, CliStep(c)
      PROVE  HookKnowsServer'
  BY <1>10 DEF CliStep, CliRead, CliPanes, CliBoot, Judge, Prune, EndPass,
      store, tmux, locals, history, bounds, Actor, Compactors, Reconcilers
<1>11. ASSUME NEW r \in Resurrectors, ResurrectStep(r)
      PROVE  HookKnowsServer'
  BY <1>11 DEF ResurrectStep, MakePlan, Open, OpenFails, ConsumeLock,
      ConsumeFlat, ConsumeSave, ResurrectDone, store, tmux, locals, history,
      bounds, Actor, Compactors, Reconcilers
<1>12. CASE UNCHANGED vars
  BY <1>12 DEF vars, store, tmux, locals, history, bounds, Actor, Compactors,
      Reconcilers
<1> HIDE DEF TypeOK, HookKnowsServer
<1> QED
  BY <1>1, <1>2, <1>3, <1>4, <1>5, <1>6, <1>7, <1>8, <1>9, <1>10, <1>11,
      <1>12 DEF Next, Environment

\* At all times the store has its types, one file per pane, and a manifest
\* keyed by directory whose entries count at least what they hold
\* (AgentStateStore; merge_recovery_locked, finalize_recovery_locked).
THEOREM ShapeCorrect == Spec => []Shape
<1>1. Init => Shape
  <2> SUFFICES ASSUME Init PROVE Shape
    OBVIOUS
  <2>1. TypeOK
    BY TypeInit
  <2>2. OneFilePerPane /\ HookKnowsServer /\ EntriesWellFormed
    BY DEF Init, OneFilePerPane, HookKnowsServer, EntriesWellFormed, Actor, Compactors
  <2> QED
    BY <2>1, <2>2 DEF Shape
<1>2. Shape /\ [Next]_vars => Shape'
  BY TypeNext, OneFileNext, EntriesNext, HookKnowsNext DEF Shape
<1> QED
  BY <1>1, <1>2, PTL DEF Spec

\* Every variable has its type at all times (AgentStateStore).
THEOREM TypeCorrect == Spec => []TypeOK
<1>1. Shape => TypeOK
  BY DEF Shape
<1> QED
  BY ShapeCorrect, <1>1, PTL

\* An entry counts at least the sources merged into it, whatever was killed
\* or rolled back in between: the fully_planned test of
\* consume_agent_sources, which compares the count with the size of the last
\* batch, cannot pass for an entry that holds older history as well.
THEOREM EntriesNotUndercounted == Spec => []NeverUndercounts
<1>1. Shape => NeverUndercounts
  BY DEF Shape, EntriesWellFormed, WellFormed, NeverUndercounts
<1> QED
  BY ShapeCorrect, <1>1, PTL

-----------------------------------------------------------------------------
(***************************************************************************)
(* The lock.                                                               *)
(***************************************************************************)

\* The steps a process takes under agent-state.lock.
Critical(a) ==
    IF a = Hook THEN pc[a] # "idle" ELSE pc[a] \in {"compact", "delete", "flats"}

\* A process in its critical steps holds the lock.
MutualExclusion == \A a \in Actor : Critical(a) => lock = a

\* Every action keeps the lock exclusive (AgentStateLock, with_agent_lock).
LEMMA LockNext ==
  ASSUME TypeOK, MutualExclusion, [Next]_vars
  PROVE  MutualExclusion'
<1> USE SetsAssumption, ActorsAssumption DEF TypeOK, MutualExclusion, Critical
<1>1. ASSUME NEW p \in Pane, \/ \E q \in Pid \cup {NoPid} : PaneChange(p, q)
                             \/ Flush(p)
      PROVE  MutualExclusion'
  BY <1>1 DEF PaneChange, Flush, store, tmux, locals, history, bounds, Actor,
      Compactors, Reconcilers
<1>2. CASE ServerRestart
  BY <1>2 DEF ServerRestart, store, tmux, locals, history, bounds, Actor,
      Compactors, Reconcilers
<1>3. ASSUME NEW a \in Actor, Crash(a)
      PROVE  MutualExclusion'
  BY <1>3 DEF Crash, Forget, store, tmux, locals, history, bounds, Actor,
      Compactors, Reconcilers
<1>4. CASE PowerLoss
  BY <1>4 DEF PowerLoss, Forget, store, tmux, locals, history, bounds, Actor,
      Compactors, Reconcilers
<1>5. ASSUME NEW p \in Pane, NEW d \in Dir, HookLock(p, d)
      PROVE  MutualExclusion'
  BY <1>5 DEF HookLock, store, tmux, locals, history, bounds, Actor,
      Compactors, Reconcilers
<1>6. CASE HookStep
  BY <1>6 DEF HookStep, HookNoServer, HookBoot, HookArchive, HookWrite,
      HookOverwrite, HookFinalize, HookDone, store, tmux, locals, history,
      bounds, Actor, Compactors, Reconcilers
<1>7. ASSUME NEW r \in flat, ClearStatus(r) \/ Touch(r)
      PROVE  MutualExclusion'
  BY <1>7 DEF ClearStatus, Touch, store, tmux, locals, history, bounds, Actor,
      Compactors, Reconcilers
<1>8. ASSUME NEW a \in Compactors, Compact(a) \/ CompactFails(a)
      PROVE  MutualExclusion'
  BY <1>8 DEF Compact, CompactSkip, CompactMerge, CompactDelete,
      CompactFinalize, CompactFails, Compacted, store, tmux, locals, history,
      bounds, Actor, Compactors, Reconcilers
<1>9. ASSUME NEW d \in Daemons, DaemonStep(d)
      PROVE  MutualExclusion'
  BY <1>9 DEF DaemonStep, DaemonObserve, DaemonLock, DaemonRead, Judge, Prune,
      EndPass, store, tmux, locals, history, bounds, Actor, Compactors,
      Reconcilers
<1>10. ASSUME NEW c \in Clis, CliStep(c)
      PROVE  MutualExclusion'
  BY <1>10 DEF CliStep, CliRead, CliPanes, CliBoot, Judge, Prune, EndPass,
      store, tmux, locals, history, bounds, Actor, Compactors, Reconcilers
<1>11. ASSUME NEW r \in Resurrectors, ResurrectStep(r)
      PROVE  MutualExclusion'
  BY <1>11 DEF ResurrectStep, MakePlan, Open, OpenFails, ConsumeLock,
      ConsumeFlat, ConsumeSave, ResurrectDone, store, tmux, locals, history,
      bounds, Actor, Compactors, Reconcilers
<1>12. CASE UNCHANGED vars
  BY <1>12 DEF vars, store, tmux, locals, history, bounds, Actor, Compactors,
      Reconcilers
<1> HIDE DEF TypeOK, MutualExclusion, Critical
<1> QED
  BY <1>1, <1>2, <1>3, <1>4, <1>5, <1>6, <1>7, <1>8, <1>9, <1>10, <1>11,
      <1>12 DEF Next, Environment

\* What the others cannot be doing while one actor holds the lock.
LEMMA ConsumerAlone ==
  ASSUME MutualExclusion, NEW r \in Resurrectors, pc[r] = "flats"
  PROVE  /\ \A a \in Compactors : pc[a] # "delete"
         /\ pc[Hook] = "idle"
BY SetsAssumption, ActorsAssumption DEF MutualExclusion, Critical, Actor, Compactors

\* While one process compacts no other one does, and no hook overwrites.
LEMMA CompactorAlone ==
  ASSUME MutualExclusion, NEW a \in Compactors, pc[a] \in {"compact", "delete"}
  PROVE  /\ \A c \in Compactors : pc[c] = "delete" => c = a
         /\ pc[Hook] # "overwrite"
BY SetsAssumption, ActorsAssumption DEF MutualExclusion, Critical, Actor, Compactors

\* A hook reports one pane.
OneJob == \A i, j \in job : i = j

\* Every action keeps it so.
LEMMA OneJobNext ==
  ASSUME OneJob, [Next]_vars
  PROVE  OneJob'
<1> USE DEF OneJob
<1>1. ASSUME NEW p \in Pane, \/ \E q \in Pid \cup {NoPid} : PaneChange(p, q)
                             \/ Flush(p)
      PROVE  OneJob'
  BY <1>1 DEF PaneChange, Flush, store, tmux, locals, history, bounds
<1>2. CASE ServerRestart
  BY <1>2 DEF ServerRestart, store, tmux, locals, history, bounds
<1>3. ASSUME NEW a \in Actor, Crash(a)
      PROVE  OneJob'
  BY <1>3 DEF Crash, Forget, store, tmux, locals, history, bounds
<1>4. CASE PowerLoss
  BY <1>4 DEF PowerLoss, Forget, store, tmux, locals, history, bounds
<1>5. ASSUME NEW p \in Pane, NEW d \in Dir, HookLock(p, d)
      PROVE  OneJob'
  BY <1>5 DEF HookLock, store, tmux, locals, history, bounds
<1>6. CASE HookStep
  BY <1>6 DEF HookStep, HookNoServer, HookBoot, HookArchive, HookWrite,
      HookOverwrite, HookFinalize, HookDone, store, tmux, locals, history,
      bounds
<1>7. ASSUME NEW r \in flat, ClearStatus(r) \/ Touch(r)
      PROVE  OneJob'
  BY <1>7 DEF ClearStatus, Touch, store, tmux, locals, history, bounds
<1>8. ASSUME NEW a \in Compactors, Compact(a) \/ CompactFails(a)
      PROVE  OneJob'
  BY <1>8 DEF Compact, CompactSkip, CompactMerge, CompactDelete,
      CompactFinalize, CompactFails, Compacted, store, tmux, locals, history,
      bounds
<1>9. ASSUME NEW d \in Daemons, DaemonStep(d)
      PROVE  OneJob'
  BY <1>9 DEF DaemonStep, DaemonObserve, DaemonLock, DaemonRead, Judge, Prune,
      EndPass, store, tmux, locals, history, bounds
<1>10. ASSUME NEW c \in Clis, CliStep(c)
      PROVE  OneJob'
  BY <1>10 DEF CliStep, CliRead, CliPanes, CliBoot, Judge, Prune, EndPass,
      store, tmux, locals, history, bounds
<1>11. ASSUME NEW r \in Resurrectors, ResurrectStep(r)
      PROVE  OneJob'
  BY <1>11 DEF ResurrectStep, MakePlan, Open, OpenFails, ConsumeLock,
      ConsumeFlat, ConsumeSave, ResurrectDone, store, tmux, locals, history,
      bounds
<1>12. CASE UNCHANGED vars
  BY <1>12 DEF vars, store, tmux, locals, history, bounds
<1> HIDE DEF OneJob
<1> QED
  BY <1>1, <1>2, <1>3, <1>4, <1>5, <1>6, <1>7, <1>8, <1>9, <1>10, <1>11,
      <1>12 DEF Next, Environment

-----------------------------------------------------------------------------
(***************************************************************************)
(* File revisions are never used twice.                                    *)
(***************************************************************************)

\* The file revisions somebody can still see or compare with.
Known(q) == q \in flat \/ q \in disk \/ \E r \in Resurrectors : q \in planFlats[r]

\* A revision (device, inode, times) means one record.
RevisionsUnique ==
    /\ \A q : Known(q) => q.rev <= writes
    /\ \A q, r : Known(q) /\ Known(r) /\ SameFile(q, r) => q = r

\* A step shows no record that was unknown, or one with a new revision.
FilesStep ==
    \/ /\ \A q : Known(q)' => Known(q)
       /\ writes' = writes
    \/ \E n : /\ \A q : Known(q)' => Known(q) \/ q = n
             /\ n.rev = writes + 1
             /\ writes' = writes + 1

\* Every action is a step of this kind.
LEMMA RevisionsStep ==
  ASSUME TypeOK, [Next]_vars
  PROVE  FilesStep
<1> USE DEF FilesStep, Known
<1>1. ASSUME NEW p \in Pane, \/ \E q \in Pid \cup {NoPid} : PaneChange(p, q)
                             \/ Flush(p)
      PROVE  FilesStep
  BY <1>1 DEF PaneChange, Flush, store, tmux, locals, history, bounds
<1>2. CASE ServerRestart
  BY <1>2 DEF ServerRestart, store, tmux, locals, history, bounds
<1>3. ASSUME NEW a \in Actor, Crash(a)
      PROVE  FilesStep
  BY <1>3 DEF Crash, Forget, store, tmux, locals, history, bounds
<1>4. CASE PowerLoss
  BY <1>4 DEF PowerLoss, Forget, store, tmux, locals, history, bounds
<1>5. ASSUME NEW p \in Pane, NEW d \in Dir, HookLock(p, d)
      PROVE  FilesStep
  BY <1>5 DEF HookLock, store, tmux, locals, history, bounds
<1>6. CASE HookStep
  <2>1. CASE HookWrite \/ HookOverwrite
    <3>1. PICK j \in job : flat' = Put(flat, NewRecord(j))
      BY <2>1 DEF HookWrite, HookOverwrite
    <3>2. NewRecord(j).rev = writes + 1
      BY DEF NewRecord
    <3>3. disk' = disk /\ planFlats' = planFlats /\ writes' = writes + 1
      BY <2>1 DEF HookWrite, HookOverwrite, locals
    <3> QED
      BY <3>1, <3>2, <3>3 DEF Put
  <2>2. CASE HookNoServer \/ HookBoot \/ HookArchive \/ HookFinalize
    BY <2>2 DEF HookNoServer, HookBoot, HookArchive, HookFinalize, store,
        locals
  <2> QED
    BY <1>6, <2>1, <2>2 DEF HookStep
<1>7. ASSUME NEW r \in flat, ClearStatus(r) \/ Touch(r)
      PROVE  FilesStep
  <2>1. \E n : flat' = Put(flat, n) /\ n.rev = writes + 1
    <3> DEFINE c == [r EXCEPT !.ts = writes + 1, !.rev = writes + 1]
               t == [r EXCEPT !.rev = writes + 1]
    <3>1. c.rev = writes + 1 /\ t.rev = writes + 1
      BY DEF TypeOK, Record
    <3>2. flat' = Put(flat, c) \/ flat' = Put(flat, t)
      BY <1>7 DEF ClearStatus, Touch
    <3> HIDE DEF c, t
    <3> QED
      BY <3>1, <3>2
  <2>2. disk' = disk /\ planFlats' = planFlats /\ writes' = writes + 1
    BY <1>7 DEF ClearStatus, Touch, locals
  <2> QED
    BY <2>1, <2>2 DEF Put
<1>8. ASSUME NEW a \in Compactors, Compact(a) \/ CompactFails(a)
      PROVE  FilesStep
  BY <1>8 DEF Compact, CompactSkip, CompactMerge, CompactDelete,
      CompactFinalize, CompactFails, Compacted, store, tmux, locals, history,
      bounds
<1>9. ASSUME NEW d \in Daemons, DaemonStep(d)
      PROVE  FilesStep
  BY <1>9 DEF DaemonStep, DaemonObserve, DaemonLock, DaemonRead, Judge, Prune,
      EndPass, store, tmux, locals, history, bounds
<1>10. ASSUME NEW c \in Clis, CliStep(c)
      PROVE  FilesStep
  BY <1>10 DEF CliStep, CliRead, CliPanes, CliBoot, Judge, Prune, EndPass,
      store, tmux, locals, history, bounds
<1>11. ASSUME NEW r \in Resurrectors, ResurrectStep(r)
      PROVE  FilesStep
  <2>1. flat' \subseteq flat /\ disk' = disk /\ writes' = writes
    BY <1>11 DEF ResurrectStep, MakePlan, Open, OpenFails, ConsumeLock,
        ConsumeFlat,
             ConsumeSave, store
  <2>2. \A x \in Resurrectors : planFlats'[x] \subseteq flat \/ planFlats'[x] = planFlats[x]
    BY <1>11 DEF ResurrectStep, MakePlan, Open, OpenFails, ConsumeLock,
        ConsumeFlat,
             ConsumeSave, ResurrectDone, locals, TypeOK
  <2> QED
    BY <2>1, <2>2
<1>12. CASE UNCHANGED vars
  BY <1>12 DEF vars, store, tmux, locals, history, bounds
<1> HIDE DEF FilesStep, Known
<1> QED
  BY <1>1, <1>2, <1>3, <1>4, <1>5, <1>6, <1>7, <1>8, <1>9, <1>10, <1>11,
      <1>12 DEF Next, Environment

\* Hence revisions stay unique.
LEMMA RevisionsNext ==
  ASSUME TypeOK, RevisionsUnique, [Next]_vars
  PROVE  RevisionsUnique'
<1>1. FilesStep
  BY RevisionsStep
<1>2. \A q : Known(q) => q.rev \in Nat
  BY DEF TypeOK, Known, Record
<1>3. writes \in Nat
  BY DEF TypeOK
<1>4. CASE (\A q : Known(q)' => Known(q)) /\ writes' = writes
  BY <1>4 DEF RevisionsUnique, SameFile
<1>5. ASSUME NEW n, \A q : Known(q)' => Known(q) \/ q = n,
             n.rev = writes + 1, writes' = writes + 1
      PROVE  RevisionsUnique'
  BY <1>2, <1>3, <1>5 DEF RevisionsUnique, SameFile
<1> QED
  BY <1>1, <1>4, <1>5 DEF FilesStep

-----------------------------------------------------------------------------
(***************************************************************************)
(* The manifest only grows, except when a resurrect consumes.              *)
(***************************************************************************)

\* The manifest changes that lose nothing.
GrowthStep ==
    \/ entries' = entries
    \/ entries' = Finalize(entries)
    \/ \E R \in SUBSET flat : entries' = Merge(entries, R)

\* Every action but the save of a resurrect changes the manifest so.
LEMMA GrowthFrame ==
  ASSUME [Next]_vars, \A r \in Resurrectors : ~ConsumeSave(r)
  PROVE  GrowthStep
<1> USE DEF GrowthStep
<1>1. ASSUME NEW p \in Pane, \/ \E q \in Pid \cup {NoPid} : PaneChange(p, q)
                             \/ Flush(p)
      PROVE  GrowthStep
  BY <1>1 DEF PaneChange, Flush, store, tmux, locals, history, bounds, Former
<1>2. CASE ServerRestart
  BY <1>2 DEF ServerRestart, store, tmux, locals, history, bounds, Former
<1>3. ASSUME NEW a \in Actor, Crash(a)
      PROVE  GrowthStep
  BY <1>3 DEF Crash, Forget, store, tmux, locals, history, bounds, Former
<1>4. CASE PowerLoss
  BY <1>4 DEF PowerLoss, Forget, store, tmux, locals, history, bounds, Former
<1>5. ASSUME NEW p \in Pane, NEW d \in Dir, HookLock(p, d)
      PROVE  GrowthStep
  BY <1>5 DEF HookLock, store, tmux, locals, history, bounds, Former
<1>6. CASE HookStep
  BY <1>6 DEF HookStep, HookNoServer, HookBoot, HookArchive, HookWrite,
      HookOverwrite, HookFinalize, HookDone, store, tmux, locals, history,
      bounds, Former
<1>7. ASSUME NEW r \in flat, ClearStatus(r) \/ Touch(r)
      PROVE  GrowthStep
  BY <1>7 DEF ClearStatus, Touch, store, tmux, locals, history, bounds, Former
<1>8. ASSUME NEW a \in Compactors, Compact(a) \/ CompactFails(a)
      PROVE  GrowthStep
  BY <1>8 DEF Compact, CompactSkip, CompactMerge, CompactDelete,
      CompactFinalize, CompactFails, Compacted, store, tmux, locals, history,
      bounds, Former
<1>9. ASSUME NEW d \in Daemons, DaemonStep(d)
      PROVE  GrowthStep
  BY <1>9 DEF DaemonStep, DaemonObserve, DaemonLock, DaemonRead, Judge, Prune,
      EndPass, store, tmux, locals, history, bounds, Former
<1>10. ASSUME NEW c \in Clis, CliStep(c)
      PROVE  GrowthStep
  BY <1>10 DEF CliStep, CliRead, CliPanes, CliBoot, Judge, Prune, EndPass,
      store, tmux, locals, history, bounds, Former
<1>11. ASSUME NEW r \in Resurrectors, ResurrectStep(r)
      PROVE  GrowthStep
  BY <1>11 DEF ResurrectStep, MakePlan, Open, OpenFails, ConsumeLock,
      ConsumeFlat,
           store
<1>12. CASE UNCHANGED vars
  BY <1>12 DEF vars, store, tmux, locals, history, bounds, Former
<1> HIDE DEF GrowthStep
<1> QED
  BY <1>1, <1>2, <1>3, <1>4, <1>5, <1>6, <1>7, <1>8, <1>9, <1>10, <1>11,
      <1>12 DEF Next, Environment

\* Hence the manifest is continued by its successor.
LEMMA ManifestGrows ==
  ASSUME Shape, [Next]_vars, \A r \in Resurrectors : ~ConsumeSave(r)
  PROVE  Extends(entries', entries)
<1>1. GrowthStep
  BY GrowthFrame
<1>2. CASE entries' = entries
  BY <1>2 DEF Extends, Continues, Shape, TypeOK, Entry
<1>3. CASE entries' = Finalize(entries)
  BY <1>3, FinalizeShape DEF Shape
<1>4. CASE \E R \in SUBSET flat : entries' = Merge(entries, R)
  BY <1>4, MergeShape DEF Shape
<1> QED
  BY <1>1, <1>2, <1>3, <1>4 DEF GrowthStep

\* A continued manifest keeps what was archived.
LEMMA ArchivedStays ==
  ASSUME Extends(entries', entries), NEW s, Archived(s)
  PROVE  Archived(s)'
BY DEF Extends, Continues, Archived

\* Continuing is transitive.
LEMMA ExtendsTransitive ==
  ASSUME NEW E \in SUBSET Entry, NEW F \in SUBSET Entry, NEW G \in SUBSET Entry,
         Extends(F, E), Extends(G, F)
  PROVE  Extends(G, E)
<1> SUFFICES ASSUME NEW e \in E
             PROVE  \E g \in G : Continues(g, e)
  BY DEF Extends
<1>1. PICK f \in F : Continues(f, e)
  BY DEF Extends
<1>2. PICK g \in G : Continues(g, f)
  BY DEF Extends
<1>3. e.revision \in Nat /\ f.revision \in Nat /\ g.revision \in Nat
  BY DEF Entry
<1>4. Continues(g, e)
  BY <1>1, <1>2, <1>3 DEF Continues
<1> QED
  BY <1>4

-----------------------------------------------------------------------------
(***************************************************************************)
(* Nothing is deleted or overwritten before it is archived.                *)
(***************************************************************************)

\* What a compaction has still to delete is in the manifest.
BatchArchived ==
    \A a \in Compactors : pc[a] = "delete" => \A q \in batch[a] : Archived(Src(q))

\* So is what a hook is about to overwrite.
OverwriteArchived ==
    pc[Hook] = "overwrite" =>
        \A q \in flat, j \in job : q.pane = j.pane => Archived(Src(q))

\* A record enters a batch together with its archiving.
BatchStep ==
    \A a \in Compactors : \A q : pc'[a] = "delete" /\ q \in batch'[a] =>
        (pc[a] = "delete" /\ q \in batch[a]) \/ Archived(Src(q))'

\* Every action is a step of this kind.
LEMMA BatchFrame ==
  ASSUME Shape, [Next]_vars
  PROVE  BatchStep
<1> USE DEF BatchStep, Shape, TypeOK
<1>1. ASSUME NEW p \in Pane, \/ \E q \in Pid \cup {NoPid} : PaneChange(p, q)
                             \/ Flush(p)
      PROVE  BatchStep
  BY <1>1 DEF PaneChange, Flush, store, tmux, locals, history, bounds, Actor,
      Compactors, Reconcilers
<1>2. CASE ServerRestart
  BY <1>2 DEF ServerRestart, store, tmux, locals, history, bounds, Actor,
      Compactors, Reconcilers
<1>3. ASSUME NEW a \in Actor, Crash(a)
      PROVE  BatchStep
  BY <1>3 DEF Crash, Forget, store, tmux, locals, history, bounds, Actor,
      Compactors, Reconcilers
<1>4. CASE PowerLoss
  BY <1>4 DEF PowerLoss, Forget, store, tmux, locals, history, bounds, Actor,
      Compactors, Reconcilers
<1>5. ASSUME NEW p \in Pane, NEW d \in Dir, HookLock(p, d)
      PROVE  BatchStep
  BY <1>5 DEF HookLock, store, tmux, locals, history, bounds, Actor,
      Compactors, Reconcilers
<1>6. CASE HookStep
  BY <1>6 DEF HookStep, HookNoServer, HookBoot, HookArchive, HookWrite,
      HookOverwrite, HookFinalize, HookDone, store, tmux, locals, history,
      bounds, Actor, Compactors, Reconcilers
<1>7. ASSUME NEW r \in flat, ClearStatus(r) \/ Touch(r)
      PROVE  BatchStep
  BY <1>7 DEF ClearStatus, Touch, store, tmux, locals, history, bounds, Actor,
      Compactors, Reconcilers
<1>8. ASSUME NEW a \in Compactors, Compact(a) \/ CompactFails(a)
      PROVE  BatchStep
  <2>1. CASE CompactMerge(a)
    <3>1. Former(obs[a]) \in SUBSET flat
      BY DEF Former
    <3>2. /\ entries' = Merge(entries, Former(obs[a]))
          /\ pc' = [pc EXCEPT ![a] = "delete"]
          /\ batch' = [batch EXCEPT ![a] = Former(obs[a])]
      BY <2>1 DEF CompactMerge
    <3>3. \A q \in Former(obs[a]) : Archived(Src(q))'
      BY <3>1, <3>2, MergeShape DEF Shape, Archived
    <3> QED
      BY <3>2, <3>3
  <2>2. CASE CompactSkip(a) \/ CompactDelete(a) \/ CompactFinalize(a) \/ CompactFails(a)
    BY <2>2 DEF CompactSkip, CompactDelete, CompactFinalize, CompactFails,
        Compacted, Actor,
                Compactors
  <2> QED
    BY <1>8, <2>1, <2>2 DEF Compact
<1>9. ASSUME NEW d \in Daemons, DaemonStep(d)
      PROVE  BatchStep
  BY <1>9 DEF DaemonStep, DaemonObserve, DaemonLock, DaemonRead, Judge, Prune,
      EndPass, store, tmux, locals, history, bounds, Actor, Compactors,
      Reconcilers
<1>10. ASSUME NEW c \in Clis, CliStep(c)
      PROVE  BatchStep
  BY <1>10 DEF CliStep, CliRead, CliPanes, CliBoot, Judge, Prune, EndPass,
      store, tmux, locals, history, bounds, Actor, Compactors, Reconcilers
<1>11. ASSUME NEW r \in Resurrectors, ResurrectStep(r)
      PROVE  BatchStep
  BY <1>11 DEF ResurrectStep, MakePlan, Open, OpenFails, ConsumeLock,
      ConsumeFlat, ConsumeSave, ResurrectDone, store, tmux, locals, history,
      bounds, Actor, Compactors, Reconcilers
<1>12. CASE UNCHANGED vars
  BY <1>12 DEF vars, store, tmux, locals, history, bounds, Actor, Compactors,
      Reconcilers
<1> HIDE DEF BatchStep, Shape, TypeOK
<1> QED
  BY <1>1, <1>2, <1>3, <1>4, <1>5, <1>6, <1>7, <1>8, <1>9, <1>10, <1>11,
      <1>12 DEF Next, Environment

\* Every action keeps the batches archived.
LEMMA BatchNext ==
  ASSUME Shape, MutualExclusion, BatchArchived, [Next]_vars
  PROVE  BatchArchived'
<1>1. CASE \E r \in Resurrectors : ConsumeSave(r)
  <2>1. PICK r \in Resurrectors : ConsumeSave(r)
    BY <1>1
  <2>2. \A a \in Compactors : pc[a] # "delete"
    BY <2>1, ConsumerAlone DEF ConsumeSave
  <2>3. pc' = [pc EXCEPT ![r] = "idle"]
    BY <2>1 DEF ConsumeSave, ResurrectDone
  <2> QED
    BY <2>2, <2>3 DEF BatchArchived, Shape, TypeOK
<1>2. CASE \A r \in Resurrectors : ~ConsumeSave(r)
  <2>1. \A s : Archived(s) => Archived(s)'
    BY <1>2, ManifestGrows, ArchivedStays
  <2>2. BatchStep
    BY BatchFrame
  <2> QED
    BY <2>1, <2>2 DEF BatchStep, BatchArchived
<1> QED
  BY <1>1, <1>2

\* A hook comes to overwriting by archiving, and the files wait for it.
OverwriteStep ==
    pc'[Hook] = "overwrite" =>
        \/ pc[Hook] = "overwrite" /\ flat' = flat /\ job' = job
        \/ HookArchive

\* Every action is a step of this kind: the hook holds the lock.
LEMMA OverwriteFrame ==
  ASSUME Shape, MutualExclusion, [Next]_vars
  PROVE  OverwriteStep
<1>1. pc[Hook] # "idle" => lock = Hook
  BY DEF MutualExclusion, Critical, Actor, Compactors
<1>2. \A r \in Resurrectors : pc[r] = "flats" => pc[Hook] = "idle"
  BY ConsumerAlone
<1>3. \A a \in Compactors : pc[a] \in {"compact", "delete"} => pc[Hook] # "overwrite"
  BY CompactorAlone
<1> USE SetsAssumption, ActorsAssumption DEF OverwriteStep, Shape, TypeOK
<1>4. ASSUME NEW p \in Pane, \/ \E q \in Pid \cup {NoPid} : PaneChange(p, q)
                             \/ Flush(p)
      PROVE  OverwriteStep
  BY <1>4, <1>1, <1>2, <1>3 DEF PaneChange, Flush, store, tmux, locals,
      history, bounds, Actor, Compactors, Reconcilers
<1>5. CASE ServerRestart
  BY <1>5, <1>1, <1>2, <1>3 DEF ServerRestart, store, tmux, locals, history,
      bounds, Actor, Compactors, Reconcilers
<1>6. ASSUME NEW a \in Actor, Crash(a)
      PROVE  OverwriteStep
  BY <1>6, <1>1, <1>2, <1>3 DEF Crash, Forget, store, tmux, locals, history,
      bounds, Actor, Compactors, Reconcilers
<1>7. CASE PowerLoss
  BY <1>7, <1>1, <1>2, <1>3 DEF PowerLoss, Forget, store, tmux, locals,
      history, bounds, Actor, Compactors, Reconcilers
<1>8. ASSUME NEW p \in Pane, NEW d \in Dir, HookLock(p, d)
      PROVE  OverwriteStep
  BY <1>8, <1>1, <1>2, <1>3 DEF HookLock, store, tmux, locals, history,
      bounds, Actor, Compactors, Reconcilers
<1>9. CASE HookStep
  BY <1>9, <1>1, <1>2, <1>3 DEF HookStep, HookNoServer, HookBoot, HookArchive,
      HookWrite, HookOverwrite, HookFinalize, HookDone, store, tmux, locals,
      history, bounds, Actor, Compactors, Reconcilers
<1>10. ASSUME NEW r \in flat, ClearStatus(r) \/ Touch(r)
      PROVE  OverwriteStep
  BY <1>10, <1>1, <1>2, <1>3 DEF ClearStatus, Touch, store, tmux, locals,
      history, bounds, Actor, Compactors, Reconcilers
<1>11. ASSUME NEW a \in Compactors, Compact(a) \/ CompactFails(a)
      PROVE  OverwriteStep
  BY <1>11, <1>1, <1>2, <1>3 DEF Compact, CompactSkip, CompactMerge,
      CompactDelete, CompactFinalize, CompactFails, Compacted, store, tmux,
      locals, history, bounds, Actor, Compactors, Reconcilers
<1>12. ASSUME NEW d \in Daemons, DaemonStep(d)
      PROVE  OverwriteStep
  BY <1>12, <1>1, <1>2, <1>3 DEF DaemonStep, DaemonObserve, DaemonLock,
      DaemonRead, Judge, Prune, EndPass, store, tmux, locals, history, bounds,
      Actor, Compactors, Reconcilers
<1>13. ASSUME NEW c \in Clis, CliStep(c)
      PROVE  OverwriteStep
  BY <1>13, <1>1, <1>2, <1>3 DEF CliStep, CliRead, CliPanes, CliBoot, Judge,
      Prune, EndPass, store, tmux, locals, history, bounds, Actor, Compactors,
      Reconcilers
<1>14. ASSUME NEW r \in Resurrectors, ResurrectStep(r)
      PROVE  OverwriteStep
  BY <1>14, <1>1, <1>2, <1>3 DEF ResurrectStep, MakePlan, Open, OpenFails,
      ConsumeLock, ConsumeFlat, ConsumeSave, ResurrectDone, store, tmux,
      locals, history, bounds, Actor, Compactors, Reconcilers
<1>15. CASE UNCHANGED vars
  BY <1>15, <1>1, <1>2, <1>3 DEF vars, store, tmux, locals, history, bounds,
      Actor, Compactors, Reconcilers
<1> HIDE DEF OverwriteStep, Shape, TypeOK
<1> QED
  BY <1>4, <1>5, <1>6, <1>7, <1>8, <1>9, <1>10, <1>11, <1>12, <1>13, <1>14,
      <1>15 DEF Next, Environment

\* Every action keeps the overwritten record archived.
LEMMA OverwriteNext ==
  ASSUME Shape, OneJob, MutualExclusion, OverwriteArchived, [Next]_vars
  PROVE  OverwriteArchived'
<1> SUFFICES ASSUME pc'[Hook] = "overwrite", NEW q \in flat', NEW j \in job',
                    q.pane = j.pane
             PROVE  Archived(Src(q))'
  BY DEF OverwriteArchived
<1>1. \A r \in Resurrectors : ~ConsumeSave(r)
  <2>1. ASSUME NEW r \in Resurrectors, ConsumeSave(r)
        PROVE  FALSE
    <3>1. pc[Hook] = "idle" /\ pc' = [pc EXCEPT ![r] = "idle"]
      BY <2>1, ConsumerAlone DEF ConsumeSave, ResurrectDone
    <3> QED
      BY <3>1 DEF Shape, TypeOK
  <2> QED
    BY <2>1
<1>2. \A s : Archived(s) => Archived(s)'
  BY <1>1, ManifestGrows, ArchivedStays
<1>3. CASE pc[Hook] = "overwrite" /\ flat' = flat /\ job' = job
  BY <1>2, <1>3 DEF OverwriteArchived
<1>4. CASE HookArchive
  <2>1. PICK i \in job, r \in flat : r.pane = i.pane /\ entries' = Merge(entries, {r})
    BY <1>4 DEF HookArchive
  <2>2. flat' = flat /\ job' = job
    BY <1>4 DEF HookArchive, locals
  <2>3. q = r
    BY <2>1, <2>2 DEF OneJob, Shape, OneFilePerPane
  <2>4. \E e \in Merge(entries, {r}) : Src(r) \in e.members
    BY MergeShape, {r} \in SUBSET flat DEF Shape
  <2> QED
    BY <2>1, <2>3, <2>4 DEF Archived
<1> QED
  BY <1>3, <1>4, OverwriteFrame DEF OverwriteStep

-----------------------------------------------------------------------------
(***************************************************************************)
(* What a resurrect knows of its plan, when no other one runs.             *)
(***************************************************************************)

\* The planned entries are continued by those of the manifest.
PlanInStore == \A r \in Resurrectors : Extends(entries, planEntries[r])

\* A resurrect consumes planned files only, and only while it holds the lock.
TodoInPlan ==
    \A r \in Resurrectors :
        /\ todo[r] \cup missed[r] \subseteq planFlats[r]
        /\ pc[r] # "flats" => todo[r] \cup missed[r] = {}

\* It consumes only what it has reopened.
OpenedFirst ==
    \A r \in Resurrectors : pc[r] \in {"consume", "flats"} => Covers(r) \subseteq restored

\* Every action keeps consumption within the plan.
LEMMA TodoNext ==
  ASSUME TypeOK, TodoInPlan, [Next]_vars
  PROVE  TodoInPlan'
<1> USE ActorsAssumption DEF TypeOK, TodoInPlan
<1>1. ASSUME NEW p \in Pane, \/ \E q \in Pid \cup {NoPid} : PaneChange(p, q)
                             \/ Flush(p)
      PROVE  TodoInPlan'
  BY <1>1 DEF PaneChange, Flush, store, tmux, locals, history, bounds, Actor,
      Compactors, Reconcilers
<1>2. CASE ServerRestart
  BY <1>2 DEF ServerRestart, store, tmux, locals, history, bounds, Actor,
      Compactors, Reconcilers
<1>3. ASSUME NEW a \in Actor, Crash(a)
      PROVE  TodoInPlan'
  BY <1>3 DEF Crash, Forget, store, tmux, locals, history, bounds, Actor,
      Compactors, Reconcilers
<1>4. CASE PowerLoss
  BY <1>4 DEF PowerLoss, Forget, store, tmux, locals, history, bounds, Actor,
      Compactors, Reconcilers
<1>5. ASSUME NEW p \in Pane, NEW d \in Dir, HookLock(p, d)
      PROVE  TodoInPlan'
  BY <1>5 DEF HookLock, store, tmux, locals, history, bounds, Actor,
      Compactors, Reconcilers
<1>6. CASE HookStep
  BY <1>6 DEF HookStep, HookNoServer, HookBoot, HookArchive, HookWrite,
      HookOverwrite, HookFinalize, HookDone, store, tmux, locals, history,
      bounds, Actor, Compactors, Reconcilers
<1>7. ASSUME NEW r \in flat, ClearStatus(r) \/ Touch(r)
      PROVE  TodoInPlan'
  BY <1>7 DEF ClearStatus, Touch, store, tmux, locals, history, bounds, Actor,
      Compactors, Reconcilers
<1>8. ASSUME NEW a \in Compactors, Compact(a) \/ CompactFails(a)
      PROVE  TodoInPlan'
  BY <1>8 DEF Compact, CompactSkip, CompactMerge, CompactDelete,
      CompactFinalize, CompactFails, Compacted, store, tmux, locals, history,
      bounds, Actor, Compactors, Reconcilers
<1>9. ASSUME NEW d \in Daemons, DaemonStep(d)
      PROVE  TodoInPlan'
  BY <1>9 DEF DaemonStep, DaemonObserve, DaemonLock, DaemonRead, Judge, Prune,
      EndPass, store, tmux, locals, history, bounds, Actor, Compactors,
      Reconcilers
<1>10. ASSUME NEW c \in Clis, CliStep(c)
      PROVE  TodoInPlan'
  BY <1>10 DEF CliStep, CliRead, CliPanes, CliBoot, Judge, Prune, EndPass,
      store, tmux, locals, history, bounds, Actor, Compactors, Reconcilers
<1>11. ASSUME NEW r \in Resurrectors, ResurrectStep(r)
      PROVE  TodoInPlan'
  <2>1. ASSUME NEW d \in Dir, MakePlan(r, d)
        PROVE  TodoInPlan'
    BY <2>1 DEF MakePlan, Actor
  <2>2. CASE Open(r) \/ OpenFails(r)
    BY <2>2 DEF Open, OpenFails, ResurrectDone, locals, Actor
  <2>3. CASE ConsumeLock(r)
    BY <2>3 DEF ConsumeLock, Actor
  <2>4. ASSUME NEW f \in todo[r], ConsumeFlat(r, f)
        PROVE  TodoInPlan'
    BY <2>4 DEF ConsumeFlat, Actor
  <2>5. CASE ConsumeSave(r)
    BY <2>5 DEF ConsumeSave, ResurrectDone, Actor
  <2> QED
    BY <1>11, <2>1, <2>2, <2>3, <2>4, <2>5 DEF ResurrectStep
<1>12. CASE UNCHANGED vars
  BY <1>12 DEF vars, store, tmux, locals, history, bounds, Actor, Compactors,
      Reconcilers
<1> HIDE DEF TypeOK, TodoInPlan
<1> QED
  BY <1>1, <1>2, <1>3, <1>4, <1>5, <1>6, <1>7, <1>8, <1>9, <1>10, <1>11,
      <1>12 DEF Next, Environment

\* Every action keeps consumption after the reopening.
LEMMA OpenedNext ==
  ASSUME TypeOK, OpenedFirst, [Next]_vars
  PROVE  OpenedFirst'
<1> USE ActorsAssumption DEF TypeOK, OpenedFirst, Covers
<1>1. ASSUME NEW p \in Pane, \/ \E q \in Pid \cup {NoPid} : PaneChange(p, q)
                             \/ Flush(p)
      PROVE  OpenedFirst'
  BY <1>1 DEF PaneChange, Flush, store, tmux, locals, history, bounds, Actor,
      Compactors, Reconcilers
<1>2. CASE ServerRestart
  BY <1>2 DEF ServerRestart, store, tmux, locals, history, bounds, Actor,
      Compactors, Reconcilers
<1>3. ASSUME NEW a \in Actor, Crash(a)
      PROVE  OpenedFirst'
  BY <1>3 DEF Crash, Forget, store, tmux, locals, history, bounds, Actor,
      Compactors, Reconcilers
<1>4. CASE PowerLoss
  BY <1>4 DEF PowerLoss, Forget, store, tmux, locals, history, bounds, Actor,
      Compactors, Reconcilers
<1>5. ASSUME NEW p \in Pane, NEW d \in Dir, HookLock(p, d)
      PROVE  OpenedFirst'
  BY <1>5 DEF HookLock, store, tmux, locals, history, bounds, Actor,
      Compactors, Reconcilers
<1>6. CASE HookStep
  BY <1>6 DEF HookStep, HookNoServer, HookBoot, HookArchive, HookWrite,
      HookOverwrite, HookFinalize, HookDone, store, tmux, locals, history,
      bounds, Actor, Compactors, Reconcilers
<1>7. ASSUME NEW r \in flat, ClearStatus(r) \/ Touch(r)
      PROVE  OpenedFirst'
  BY <1>7 DEF ClearStatus, Touch, store, tmux, locals, history, bounds, Actor,
      Compactors, Reconcilers
<1>8. ASSUME NEW a \in Compactors, Compact(a) \/ CompactFails(a)
      PROVE  OpenedFirst'
  BY <1>8 DEF Compact, CompactSkip, CompactMerge, CompactDelete,
      CompactFinalize, CompactFails, Compacted, store, tmux, locals, history,
      bounds, Actor, Compactors, Reconcilers
<1>9. ASSUME NEW d \in Daemons, DaemonStep(d)
      PROVE  OpenedFirst'
  BY <1>9 DEF DaemonStep, DaemonObserve, DaemonLock, DaemonRead, Judge, Prune,
      EndPass, store, tmux, locals, history, bounds, Actor, Compactors,
      Reconcilers
<1>10. ASSUME NEW c \in Clis, CliStep(c)
      PROVE  OpenedFirst'
  BY <1>10 DEF CliStep, CliRead, CliPanes, CliBoot, Judge, Prune, EndPass,
      store, tmux, locals, history, bounds, Actor, Compactors, Reconcilers
<1>11. ASSUME NEW r \in Resurrectors, ResurrectStep(r)
      PROVE  OpenedFirst'
  BY <1>11 DEF ResurrectStep, MakePlan, Open, OpenFails, ConsumeLock,
      ConsumeFlat, ConsumeSave, ResurrectDone, store, tmux, locals, history,
      bounds, Actor, Compactors, Reconcilers
<1>12. CASE UNCHANGED vars
  BY <1>12 DEF vars, store, tmux, locals, history, bounds, Actor, Compactors,
      Reconcilers
<1> HIDE DEF TypeOK, OpenedFirst, Covers
<1> QED
  BY <1>1, <1>2, <1>3, <1>4, <1>5, <1>6, <1>7, <1>8, <1>9, <1>10, <1>11,
      <1>12 DEF Next, Environment

\* A planned entry is dropped or was read from the manifest of the moment.
PlanStep ==
    \A r \in Resurrectors :
        \/ planEntries'[r] = planEntries[r] /\ ~ConsumeSave(r)
        \/ planEntries'[r] = {}
        \/ planEntries'[r] \subseteq entries /\ entries' = entries

\* Every action is a step of this kind.
LEMMA PlanFrame ==
  ASSUME TypeOK, [Next]_vars
  PROVE  PlanStep
<1> USE ActorsAssumption DEF TypeOK, PlanStep
<1>1. ASSUME NEW p \in Pane, \/ \E q \in Pid \cup {NoPid} : PaneChange(p, q)
                             \/ Flush(p)
      PROVE  PlanStep
  BY <1>1 DEF PaneChange, Flush, store, tmux, locals, history, bounds, Actor,
      Compactors, Reconcilers, ConsumeSave, ResurrectDone
<1>2. CASE ServerRestart
  BY <1>2 DEF ServerRestart, store, tmux, locals, history, bounds, Actor,
      Compactors, Reconcilers, ConsumeSave, ResurrectDone
<1>3. ASSUME NEW a \in Actor, Crash(a)
      PROVE  PlanStep
  BY <1>3 DEF Crash, Forget, store, tmux, locals, history, bounds, Actor,
      Compactors, Reconcilers, ConsumeSave, ResurrectDone
<1>4. CASE PowerLoss
  BY <1>4 DEF PowerLoss, Forget, store, tmux, locals, history, bounds, Actor,
      Compactors, Reconcilers, ConsumeSave, ResurrectDone
<1>5. ASSUME NEW p \in Pane, NEW d \in Dir, HookLock(p, d)
      PROVE  PlanStep
  BY <1>5 DEF HookLock, store, tmux, locals, history, bounds, Actor,
      Compactors, Reconcilers, ConsumeSave, ResurrectDone
<1>6. CASE HookStep
  BY <1>6 DEF HookStep, HookNoServer, HookBoot, HookArchive, HookWrite,
      HookOverwrite, HookFinalize, HookDone, store, tmux, locals, history,
      bounds, Actor, Compactors, Reconcilers, ConsumeSave, ResurrectDone
<1>7. ASSUME NEW r \in flat, ClearStatus(r) \/ Touch(r)
      PROVE  PlanStep
  BY <1>7 DEF ClearStatus, Touch, store, tmux, locals, history, bounds, Actor,
      Compactors, Reconcilers, ConsumeSave, ResurrectDone
<1>8. ASSUME NEW a \in Compactors, Compact(a) \/ CompactFails(a)
      PROVE  PlanStep
  BY <1>8 DEF Compact, CompactSkip, CompactMerge, CompactDelete,
      CompactFinalize, CompactFails, Compacted, store, tmux, locals, history,
      bounds, Actor, Compactors, Reconcilers, ConsumeSave, ResurrectDone
<1>9. ASSUME NEW d \in Daemons, DaemonStep(d)
      PROVE  PlanStep
  BY <1>9 DEF DaemonStep, DaemonObserve, DaemonLock, DaemonRead, Judge, Prune,
      EndPass, store, tmux, locals, history, bounds, Actor, Compactors,
      Reconcilers, ConsumeSave, ResurrectDone
<1>10. ASSUME NEW c \in Clis, CliStep(c)
      PROVE  PlanStep
  BY <1>10 DEF CliStep, CliRead, CliPanes, CliBoot, Judge, Prune, EndPass,
      store, tmux, locals, history, bounds, Actor, Compactors, Reconcilers,
      ConsumeSave, ResurrectDone
<1>11. ASSUME NEW r \in Resurrectors, ResurrectStep(r)
      PROVE  PlanStep
  BY <1>11 DEF ResurrectStep, MakePlan, Open, OpenFails, ConsumeLock,
      ConsumeFlat, ConsumeSave, ResurrectDone, store, tmux, locals, history,
      bounds, Actor, Compactors, Reconcilers, ConsumeSave, ResurrectDone
<1>12. CASE UNCHANGED vars
  BY <1>12 DEF vars, store, tmux, locals, history, bounds, Actor, Compactors,
      Reconcilers, ConsumeSave, ResurrectDone
<1> HIDE DEF TypeOK, PlanStep
<1> QED
  BY <1>1, <1>2, <1>3, <1>4, <1>5, <1>6, <1>7, <1>8, <1>9, <1>10, <1>11,
      <1>12 DEF Next, Environment

\* With one resurrect, the only one to drop entries is the planner itself.
LEMMA PlanInStoreNext ==
  ASSUME Shape, PlanInStore, [Next]_vars, \A r, x \in Resurrectors : r = x
  PROVE  PlanInStore'
<1> SUFFICES ASSUME NEW r \in Resurrectors
             PROVE  Extends(entries', planEntries'[r])
  BY DEF PlanInStore
<1>1. PlanStep
  BY PlanFrame DEF Shape
<1>2. CASE planEntries'[r] = planEntries[r] /\ ~ConsumeSave(r)
  <2>1. Extends(entries', entries)
    BY <1>2, ManifestGrows
  <2>2. entries' \in SUBSET Entry /\ entries \in SUBSET Entry /\ planEntries[r] \in SUBSET Entry
    BY TypeNext DEF Shape, TypeOK
  <2> QED
    BY <1>2, <2>1, <2>2, ExtendsTransitive DEF PlanInStore
<1>3. CASE planEntries'[r] = {}
  BY <1>3 DEF Extends
<1>4. CASE planEntries'[r] \subseteq entries /\ entries' = entries
  BY <1>4 DEF Extends, Continues, Shape, TypeOK, Entry
<1> QED
  BY <1>1, <1>2, <1>3, <1>4 DEF PlanStep

-----------------------------------------------------------------------------
(***************************************************************************)
(* History.                                                                *)
(***************************************************************************)

\* A consumed entry holds nothing but what the plan covers: neither the
\* comparison of revisions nor the one of counts deletes unplanned history.
LEMMA ConsumedRestored ==
  ASSUME Shape, PlanInStore, NEW r \in Resurrectors, NEW e \in entries, Consumed(r, e),
         missed[r] \subseteq planFlats[r]
  PROVE  e.members \subseteq Covers(r)
<1>1. CASE FullyPlanned(r, e)
  <2>1. e.recent \subseteq e.members /\ IsFiniteSet(e.members)
        /\ Cardinality(e.members) <= e.count
    BY DEF Shape, EntriesWellFormed, WellFormed
  <2>2. Cardinality(e.recent) <= Cardinality(e.members)
        /\ (Cardinality(e.members) = Cardinality(e.recent) => e.members = e.recent)
    BY <2>1, FS_Subset
  <2>3. Cardinality(e.recent) \in Nat /\ Cardinality(e.members) \in Nat
    BY <2>1, FS_Subset, FS_CardinalityType
  <2>4. e.members = e.recent
    BY <1>1, <2>1, <2>2, <2>3 DEF FullyPlanned
  <2> QED
    BY <1>1, <2>4 DEF FullyPlanned, Covers
<1>2. CASE \E q \in planEntries[r] : q.dir = e.dir /\ q.revision = e.revision
  <2>1. PICK q \in planEntries[r] : q.dir = e.dir /\ q.revision = e.revision
    BY <1>2
  <2>2. PICK f \in entries : Continues(f, q)
    BY DEF PlanInStore, Extends
  <2>3. f = e
    BY <2>1, <2>2 DEF Continues, Shape, EntriesWellFormed
  <2>4. e.members = q.members
    BY <2>1, <2>2, <2>3 DEF Continues
  <2> QED
    BY <2>4 DEF Covers
<1> QED
  BY <1>1, <1>2 DEF Consumed

\* Rewriting the file of a pane for the same agent keeps the history.
LEMMA RenewedKept ==
  ASSUME HistoryKept, NEW n, flat' = Put(flat, n), ended' = Renewed(n), restored' = restored,
         \A q \in flat : q.pane = n.pane => Succeeds(n, q),
         \A s : Archived(s) => Archived(s)'
  PROVE  HistoryKept'
<1> SUFFICES ASSUME NEW s \in ended' \ restored', ~Archived(s)'
             PROVE  OnFile(s)'
  BY DEF HistoryKept
<1>1. n \in flat'
  BY DEF Put
<1>2. CASE s = Src(n)
  BY <1>1, <1>2 DEF OnFile
<1>3. CASE s # Src(n)
  <2>1. s \in ended \ restored /\ s \notin {Src(q) : q \in {x \in flat : Succeeds(n, x)}}
    BY <1>3 DEF Renewed
  <2>2. PICK q \in flat : Src(q) = s
    BY <2>1 DEF HistoryKept, OnFile
  <2>3. q.pane # n.pane
    BY <2>1, <2>2
  <2>4. q \in flat'
    BY <2>3 DEF Put
  <2> QED
    BY <2>2, <2>4 DEF OnFile
<1> QED
  BY <1>2, <1>3

\* The steps that neither write, delete nor end anything.
LEMMA SameFilesKept ==
  ASSUME HistoryKept, flat' = flat, ended' = ended, restored \subseteq restored',
         \A s : Archived(s) => Archived(s)'
  PROVE  HistoryKept'
BY DEF HistoryKept, OnFile

\* Pruning keeps the history, of which the pruned record is no longer part.
LEMMA PruneKept ==
  ASSUME HistoryKept, NEW a, Prune(a), \A s : Archived(s) => Archived(s)'
  PROVE  HistoryKept'
<1> DEFINE gone == {r \in flat : \E s \in doomed[a] : s.pane = r.pane}
<1>1. /\ flat' = flat \ gone
      /\ ended' = ended \ {Src(r) : r \in gone}
      /\ restored' = restored
  BY DEF Prune
<1> HIDE DEF gone
<1> QED
  BY <1>1 DEF HistoryKept, OnFile

\* Every action keeps the history.
LEMMA HistoryNext ==
  ASSUME Shape, MutualExclusion, BatchArchived, OverwriteArchived, RevisionsUnique,
         PlanInStore, TodoInPlan, OpenedFirst, HistoryKept, [Next]_vars
  PROVE  HistoryKept'
<1>1. ASSUME NEW r \in Resurrectors, ConsumeSave(r)
      PROVE  HistoryKept'
  <2>1. flat' = flat /\ ended' = ended /\ restored' = restored
    BY <1>1 DEF ConsumeSave, history
  <2>2. ASSUME NEW s \in ended \ restored, Archived(s)
        PROVE  Archived(s)'
    <3>1. PICK e \in entries : s \in e.members
      BY <2>2 DEF Archived
    <3>2. Covers(r) \subseteq restored
      BY <1>1 DEF ConsumeSave, OpenedFirst
    <3>3. ~Consumed(r, e)
      BY <3>1, <3>2, ConsumedRestored DEF TodoInPlan
    <3>4. e \in entries'
      BY <1>1, <3>3 DEF ConsumeSave
    <3> QED
      BY <3>1, <3>4 DEF Archived
  <2> QED
    BY <2>1, <2>2 DEF HistoryKept, OnFile
<1>2. SUFFICES ASSUME \A r \in Resurrectors : ~ConsumeSave(r)
               PROVE  HistoryKept'
  BY <1>1
<1>3. \A s : Archived(s) => Archived(s)'
  BY <1>2, ManifestGrows, ArchivedStays
<1>4. ASSUME flat' = flat, ended' = ended, restored \subseteq restored'
      PROVE  HistoryKept'
  BY <1>3, <1>4, SameFilesKept
<1>5. ASSUME NEW p \in Pane, \/ \E q \in Pid \cup {NoPid} : PaneChange(p, q)
                             \/ Flush(p)
      PROVE  HistoryKept'
  BY <1>5, <1>4 DEF PaneChange, Flush, store, tmux, locals, history, bounds
<1>6. CASE ServerRestart
  <2>1. flat' = flat /\ ended' = ended \cup {Src(q) : q \in {x \in flat : x.boot = boot}}
        /\ restored' = restored
    BY <1>6 DEF ServerRestart, store
  <2> QED
    BY <1>3, <2>1 DEF HistoryKept, OnFile
<1>7. ASSUME NEW a \in Actor, Crash(a)
      PROVE  HistoryKept'
  BY <1>7, <1>4 DEF Crash, store, tmux, locals, history, bounds
<1>8. CASE PowerLoss
  <2>1. /\ flat' = disk /\ restored' = restored
        /\ ended' = {s \in ended : Archived(s)} \cup
                     {Src(q) : q \in {x \in disk : Src(x) \in ended \/ x.boot = boot}}
    BY <1>8 DEF PowerLoss
  <2> QED
    BY <1>3, <2>1 DEF HistoryKept, OnFile
<1>9. ASSUME NEW p \in Pane, NEW d \in Dir, HookLock(p, d)
      PROVE  HistoryKept'
  BY <1>9, <1>4 DEF HookLock, store, tmux, locals, history, bounds
<1>10. CASE HookStep
  <2>1. CASE HookWrite
    <3>1. PICK j \in job : /\ \A q \in flat : q.pane = j.pane => ~Superseded(q, NewRecord(j))
                          /\ flat' = Put(flat, NewRecord(j))
                          /\ ended' = Renewed(NewRecord(j))
      BY <2>1 DEF HookWrite
    <3>2. \A q \in flat : q.pane = NewRecord(j).pane => Succeeds(NewRecord(j),
        q)
      BY <3>1 DEF Superseded, Succeeds, SameServer, NewRecord
    <3>3. restored' = restored
      BY <2>1 DEF HookWrite
    <3> QED
      BY <1>3, <3>1, <3>2, <3>3, RenewedKept
  <2>2. CASE HookOverwrite
    <3>1. PICK j \in job : flat' = Put(flat, NewRecord(j))
      BY <2>2 DEF HookOverwrite
    <3>2. \A q \in flat : q.pane = j.pane => Archived(Src(q))
      BY <2>2 DEF HookOverwrite, OverwriteArchived
    <3>3. NewRecord(j).pane = j.pane
      BY DEF NewRecord
    <3>4. ended' = ended /\ restored' = restored
      BY <2>2 DEF HookOverwrite, history
    <3>5. \A q \in flat : q \in flat' \/ Archived(Src(q))'
      BY <1>3, <3>1, <3>2, <3>3 DEF Put
    <3> QED
      BY <1>3, <3>4, <3>5 DEF HistoryKept, OnFile
  <2>3. CASE HookNoServer \/ HookBoot \/ HookArchive \/ HookFinalize
    BY <2>3, <1>4 DEF HookNoServer, HookBoot, HookArchive, HookFinalize,
        HookDone, store,
                      history
  <2> QED
    BY <1>10, <2>1, <2>2, <2>3 DEF HookStep
<1>11. ASSUME NEW r \in flat, ClearStatus(r) \/ Touch(r)
      PROVE  HistoryKept'
  <2>1. r \in Record /\ (\A q \in flat : q.pane = r.pane => q = r)
    BY DEF Shape, TypeOK, OneFilePerPane
  <2>2. CASE ClearStatus(r)
    <3> DEFINE n == [r EXCEPT !.ts = writes + 1, !.rev = writes + 1]
    <3>1. flat' = Put(flat, n) /\ ended' = Renewed(n) /\ restored' = restored
      BY <2>2 DEF ClearStatus
    <3>2. n.pane = r.pane /\ n.boot = r.boot
      BY <2>1 DEF Record
    <3> HIDE DEF n
    <3>3. \A q \in flat : q.pane = n.pane => Succeeds(n, q)
      BY <2>1, <3>2 DEF Succeeds
    <3> QED
      BY <1>3, <3>1, <3>3, RenewedKept
  <2>3. CASE Touch(r)
    <3> DEFINE n == [r EXCEPT !.rev = writes + 1]
    <3>1. flat' = Put(flat, n) /\ ended' = ended /\ restored' = restored
      BY <2>3 DEF Touch, history
    <3>2. n.pane = r.pane /\ Src(n) = Src(r)
      BY <2>1 DEF Record, Src
    <3> HIDE DEF n
    <3>3. \A q \in flat : \E x \in flat' : Src(x) = Src(q)
      BY <2>1, <3>1, <3>2 DEF Put
    <3> QED
      BY <1>3, <3>1, <3>3 DEF HistoryKept, OnFile
  <2> QED
    BY <1>11, <2>2, <2>3
<1>12. ASSUME NEW a \in Compactors, Compact(a) \/ CompactFails(a)
      PROVE  HistoryKept'
  <2>1. CASE CompactDelete(a)
    <3>1. PICK x \in batch[a] : flat' = flat \ {x}
      BY <2>1 DEF CompactDelete
    <3>2. Archived(Src(x))
      BY <2>1 DEF CompactDelete, BatchArchived
    <3>3. ended' = ended /\ restored' = restored
      BY <2>1 DEF CompactDelete, history
    <3> QED
      BY <1>3, <3>1, <3>2, <3>3 DEF HistoryKept, OnFile
  <2>2. CASE CompactSkip(a) \/ CompactMerge(a) \/ CompactFinalize(a) \/ CompactFails(a)
    BY <2>2, <1>4 DEF CompactSkip, CompactMerge, CompactFinalize,
        CompactFails, store, history
  <2> QED
    BY <1>12, <2>1, <2>2 DEF Compact
<1>13. ASSUME NEW d \in Daemons, DaemonStep(d)
      PROVE  HistoryKept'
  <2>1. CASE Prune(d)
    BY <1>3, <2>1, PruneKept
  <2>2. CASE ~Prune(d)
    BY <1>13, <2>2, <1>4 DEF DaemonStep, DaemonObserve, DaemonLock,
        DaemonRead, Judge, EndPass, store, history
  <2> QED
    BY <2>1, <2>2
<1>14. ASSUME NEW c \in Clis, CliStep(c)
      PROVE  HistoryKept'
  <2>1. CASE Prune(c)
    BY <1>3, <2>1, PruneKept
  <2>2. CASE ~Prune(c)
    BY <1>14, <2>2, <1>4 DEF CliStep, CliRead, CliPanes, CliBoot, Judge,
        EndPass, store, history
  <2> QED
    BY <2>1, <2>2
<1>15. ASSUME NEW r \in Resurrectors, ResurrectStep(r)
      PROVE  HistoryKept'
  <2>1. ASSUME NEW f \in todo[r], ConsumeFlat(r, f)
        PROVE  HistoryKept'
    <3>1. Known(f)
      BY DEF TodoInPlan, Known
    <3>2. Src(f) \in restored
      BY <2>1 DEF ConsumeFlat, TodoInPlan, OpenedFirst, Covers
    <3>3. flat' = {q \in flat : ~SameFile(q,
        f)} /\ ended' = ended /\ restored' = restored
      BY <2>1 DEF ConsumeFlat, history
    <3>4. \A q \in flat : q \in flat' \/ Src(q) \in restored
      BY <3>1, <3>2, <3>3 DEF Known, RevisionsUnique
    <3> QED
      BY <1>3, <3>3, <3>4 DEF HistoryKept, OnFile
  <2>2. CASE (\E d \in Dir : MakePlan(r,
      d)) \/ Open(r) \/ OpenFails(r) \/ ConsumeLock(r)
    BY <2>2, <1>4 DEF MakePlan, Open, OpenFails, ConsumeLock, store, history
  <2> QED
    BY <1>15, <1>2, <2>1, <2>2 DEF ResurrectStep
<1>16. CASE UNCHANGED vars
  BY <1>16, <1>4 DEF vars, store, tmux, locals, history, bounds
<1> QED
  BY <1>5, <1>6, <1>7, <1>8, <1>9, <1>10, <1>11, <1>12, <1>13, <1>14, <1>15,
      <1>16 DEF Next, Environment

-----------------------------------------------------------------------------
\* The inductive invariant behind HistoryKept.
IInv ==
    /\ Shape /\ MutualExclusion /\ OneJob /\ RevisionsUnique
    /\ BatchArchived /\ OverwriteArchived
    /\ PlanInStore /\ TodoInPlan /\ OpenedFirst
    /\ HistoryKept

\* It holds initially.
LEMMA IInvInit == Init => IInv
<1> SUFFICES ASSUME Init PROVE IInv
  OBVIOUS
<1>1. TypeOK
  BY TypeInit
<1>2. OneFilePerPane /\ HookKnowsServer /\ EntriesWellFormed
  BY DEF Init, OneFilePerPane, HookKnowsServer, EntriesWellFormed, Actor, Compactors
<1>3. MutualExclusion /\ OneJob
  BY DEF Init, MutualExclusion, Critical, OneJob
<1>4. RevisionsUnique
  <2>1. \A q : Known(q) => q \in flat
    BY DEF Init, Known
  <2>2. \A q \in flat : q.rev = 0
    BY DEF Init, OldRecord
  <2>3. writes = 0
    BY DEF Init
  <2> QED
    BY <1>2, <2>1, <2>2, <2>3 DEF RevisionsUnique, OneFilePerPane, SameFile
<1>5. BatchArchived /\ OverwriteArchived
  BY DEF Init, BatchArchived, OverwriteArchived, Actor, Compactors
<1>6. PlanInStore /\ TodoInPlan /\ OpenedFirst
  BY DEF Init, PlanInStore, TodoInPlan, OpenedFirst, Extends, Actor
<1>7. HistoryKept
  BY DEF Init, HistoryKept
<1> QED
  BY <1>1, <1>2, <1>3, <1>4, <1>5, <1>6, <1>7 DEF IInv, Shape

\* It is inductive when there is at most one resurrect.
LEMMA IInvNext ==
  ASSUME IInv, [Next]_vars, \A r, x \in Resurrectors : r = x
  PROVE  IInv'
<1>1. Shape'
  BY TypeNext, OneFileNext, EntriesNext, HookKnowsNext DEF IInv, Shape
<1>2. MutualExclusion' /\ OneJob' /\ RevisionsUnique'
  BY LockNext, OneJobNext, RevisionsNext DEF IInv, Shape
<1>3. BatchArchived' /\ OverwriteArchived'
  BY BatchNext, OverwriteNext DEF IInv
<1>4. PlanInStore' /\ TodoInPlan' /\ OpenedFirst'
  BY PlanInStoreNext, TodoNext, OpenedNext DEF IInv, Shape
<1>5. HistoryKept'
  BY HistoryNext DEF IInv
<1> QED
  BY <1>1, <1>2, <1>3, <1>4, <1>5 DEF IInv

\* No history is lost, for every number of panes, hooks, daemons and server
\* lifecycles, kills and power losses, as long as one resurrect runs at a time
\* (compact_context_locked, upsert_agent_locked, consume_agent_sources).
THEOREM HistoryPreserved ==
  ASSUME \A r, x \in Resurrectors : r = x
  PROVE  Spec => []HistoryKept
<1>1. IInv /\ [Next]_vars => IInv'
  BY IInvNext
<1>2. IInv => HistoryKept
  BY DEF IInv
<1> QED
  BY IInvInit, <1>1, <1>2, PTL DEF Spec

\* One step loses a source only by consuming it with its plan.
LEMMA ConsumesStep ==
  ASSUME IInv, [Next]_vars, NEW e \in entries, NEW s \in e.members
  PROVE  \/ \E q \in entries' : q.dir = e.dir /\ s \in q.members
         \/ \E r \in Resurrectors : pc[r] = "flats" /\ s \in Covers(r)
<1>1. CASE \A r \in Resurrectors : ~ConsumeSave(r)
  BY <1>1, ManifestGrows DEF IInv, Extends, Continues
<1>2. ASSUME NEW r \in Resurrectors, ConsumeSave(r)
      PROVE  e \in entries' \/ (pc[r] = "flats" /\ s \in Covers(r))
  <2>1. pc[r] = "flats" /\ entries' = {f \in entries : ~Consumed(r, f)}
    BY <1>2 DEF ConsumeSave
  <2>2. Consumed(r, e) => e.members \subseteq Covers(r)
    BY ConsumedRestored DEF IInv, TodoInPlan
  <2> QED
    BY <2>1, <2>2
<1> QED
  BY <1>1, <1>2

\* A resurrect deletes only history its plan covered, as long as one resurrect
\* runs at a time (consume_agent_sources: revision and fully_planned tests).
THEOREM OnlyPlannedConsumed ==
  ASSUME \A r, x \in Resurrectors : r = x
  PROVE  Spec => ConsumesOnlyPlanned
<1>1. IInv /\ [Next]_vars => IInv'
  BY IInvNext
<1>2. IInv /\ [Next]_vars =>
        [\A e \in entries : \A s \in e.members :
            \/ \E q \in entries' : q.dir = e.dir /\ s \in q.members
            \/ \E r \in Resurrectors : pc[r] = "flats" /\ s \in Covers(r)]_vars
  BY ConsumesStep
<1> QED
  BY IInvInit, <1>1, <1>2, PTL DEF Spec, ConsumesOnlyPlanned

-----------------------------------------------------------------------------
(***************************************************************************)
(* The boot ids on file and in memory.                                     *)
(***************************************************************************)

\* The steps of a hook between its question to tmux and the file it writes.
Asked == {"compact", "delete", "write", "overwrite"}

\* No boot id on file or in memory is of a server yet to come.
BootsKnown ==
    /\ \A r \in flat \cup disk : r.boot <= boot
    /\ \A a \in Compactors \cup Clis : obs[a] <= boot
    /\ compacted <= boot

\* While a hook holds the lock, no file is of a later server than the one it was
\* told of, and no later one was compacted for.
HookCurrent ==
    pc[Hook] \in Asked => compacted <= obs[Hook] /\ \A r \in flat : r.boot <= obs[Hook]

\* A record of another server that is still on file is in the batch.
BatchComplete ==
    \A a \in Compactors : pc[a] = "delete" =>
        \A r \in flat : SameServer(r, obs[a]) \/ r \in batch[a]

\* The inductive invariant of HookCompactsEnded and CompactedMeansMoved.
BootInv == BootsKnown /\ HookCurrent /\ BatchComplete /\ HookCompactsEnded /\ CompactedMeansMoved

\* Files go away, or are flushed, and actors learn the running boot id or forget
\* one; no actor comes closer to a deletion or to a write.
Still ==
    /\ flat' \subseteq flat /\ disk' \subseteq flat \cup disk
    /\ compacted' = compacted /\ boot' = boot
    /\ \A a \in Compactors \cup Clis : obs'[a] \in {obs[a], boot, 0}
    /\ pc'[Hook] \in Asked => pc[Hook] \in Asked /\ obs'[Hook] = obs[Hook]
    /\ \A a \in Compactors : pc'[a] = "delete" =>
         pc[a] = "delete" /\ obs'[a] = obs[a] /\ batch'[a] = batch[a]
    /\ batch'[Hook] \subseteq batch[Hook]

\* Such a step disturbs nothing.
LEMMA BootStill ==
  ASSUME TypeOK, BootInv, Still
  PROVE  BootInv'
<1> USE DEF Still, TypeOK, Boot, Compactors
<1>1. BootsKnown'
  BY DEF BootInv, BootsKnown
<1>2. HookCurrent'
  BY DEF BootInv, HookCurrent
<1>3. BatchComplete'
  BY DEF BootInv, BatchComplete
<1>4. HookCompactsEnded' /\ CompactedMeansMoved'
  BY DEF BootInv, HookCompactsEnded, CompactedMeansMoved
<1> QED
  BY <1>1, <1>2, <1>3, <1>4 DEF BootInv

\* A server is the same as itself.
LEMMA SameAsItself ==
  ASSUME NEW r \in Record
  PROVE  SameServer(r, r.boot)
BY DEF SameServer, SameSecond, Boot, Record

\* Who compacts or writes is alone: no other file is written meanwhile.
LEMMA WriterAlone ==
  ASSUME MutualExclusion
  PROVE  /\ lock = Free => pc[Hook] = "idle" /\ \A a \in Compactors : pc[a] \notin {"compact", "delete"}
         /\ pc[Hook] # "idle" => \A d \in Daemons : pc[d] \notin {"compact", "delete"}
         /\ \A d \in Daemons : pc[d] \in {"compact", "delete"} =>
              pc[Hook] = "idle" /\ \A a \in Compactors \ {d} : pc[a] # "delete"
BY SetsAssumption, ActorsAssumption DEF MutualExclusion, Critical, Actor, Compactors

\* A file that is written is of the server its writer knows.
LEMMA BootWrite ==
  ASSUME TypeOK, BootInv, MutualExclusion, NEW n \in Record, flat' = Put(flat, n),
         UNCHANGED <<disk, compacted, boot, batch>>,
         \/ /\ pc[Hook] \in Asked /\ n.boot = obs[Hook] /\ ~n.legacy
            /\ pc' = [pc EXCEPT ![Hook] = "idle"] \/ pc' = [pc EXCEPT ![Hook] = "finalize"]
            /\ obs' = obs \/ obs' = [obs EXCEPT ![Hook] = 0]
         \/ /\ lock = Free /\ UNCHANGED <<pc, obs>>
            /\ \E r \in flat : n.boot = r.boot /\ n.legacy = r.legacy
  PROVE  BootInv'
<1> USE DEF TypeOK, Boot, Record
<1>1. pc'[Hook] \notin Asked /\ \A a \in Compactors : pc'[a] # "delete"
  BY WriterAlone, ActorsAssumption DEF Asked, Actor, Compactors
<1>2. n.boot <= boot /\ \A a \in Compactors \cup Clis : obs'[a] <= boot
  BY DEF BootInv, BootsKnown, Asked, Compactors
<1>3. BootsKnown'
  BY <1>2 DEF BootInv, BootsKnown, Put
<1>4. HookCurrent' /\ BatchComplete' /\ HookCompactsEnded'
  BY <1>1 DEF BootInv, HookCurrent, BatchComplete, HookCompactsEnded
<1>5. compacted = boot => SameServer(n, boot)
  <2>1. CASE pc[Hook] \in Asked /\ n.boot = obs[Hook] /\ ~n.legacy
    <3>1. compacted <= obs[Hook] /\ obs[Hook] <= boot /\ obs[Hook] \in Nat /\ compacted \in Nat
      BY <2>1 DEF BootInv, BootsKnown, HookCurrent, Compactors
    <3>2. boot \in Nat
      OBVIOUS
    <3>3. compacted = boot => n.boot = boot
      <4> HIDE DEF TypeOK, Boot, Record
      <4> QED
        BY <2>1, <3>1, <3>2
    <3> QED
      BY <2>1, <3>3 DEF SameServer
  <2>2. CASE \E r \in flat : n.boot = r.boot /\ n.legacy = r.legacy
    BY <2>2 DEF BootInv, CompactedMeansMoved, SameServer
  <2> QED
    BY <2>1, <2>2
<1>6. CompactedMeansMoved'
  BY <1>5 DEF BootInv, CompactedMeansMoved, Put
<1> QED
  BY <1>3, <1>4, <1>6 DEF BootInv

\* Every action keeps the boot ids as BootInv says.
LEMMA BootNext ==
  ASSUME TypeOK, HookKnowsServer, MutualExclusion, BootInv, [Next]_vars
  PROVE  BootInv'
<1>s. Still => BootInv'
  BY BootStill
<1> USE ActorsAssumption DEF TypeOK, Asked, Actor, Compactors, Reconcilers
<1>1. ASSUME NEW p \in Pane, \/ \E q \in Pid \cup {NoPid} : PaneChange(p, q)
                             \/ Flush(p)
      PROVE  BootInv'
  BY <1>s, <1>1 DEF Still, PaneChange, Flush, store, tmux, locals, history, bounds
<1>2. CASE ServerRestart
  <2>1. /\ boot' = boot + 1 /\ boot \in Nat
        /\ UNCHANGED <<flat, disk, compacted, pc, obs, batch>>
    BY <1>2 DEF ServerRestart, store, locals, Boot
  <2>2. BootsKnown' /\ HookCurrent' /\ BatchComplete'
    BY <2>1 DEF BootInv, BootsKnown, HookCurrent, BatchComplete, Record, Boot
  <2>3. HookCompactsEnded' /\ CompactedMeansMoved'
    BY <2>1 DEF BootInv, BootsKnown, HookCompactsEnded, CompactedMeansMoved, Record, Boot
  <2> QED
    BY <2>2, <2>3 DEF BootInv
<1>3. ASSUME NEW a \in Actor, Crash(a)
      PROVE  BootInv'
  BY <1>s, <1>3 DEF Still, Crash, Forget, store, tmux, history
<1>4. CASE PowerLoss
  <2>1. /\ boot' = boot + 1 /\ boot \in Nat /\ flat' = disk /\ UNCHANGED <<disk, compacted>>
        /\ \A a \in Actor : pc'[a] = "idle"
        /\ \A a \in Compactors \cup Clis : obs'[a] = 0
        /\ \A a \in Compactors : batch'[a] = {}
    BY <1>4 DEF PowerLoss, Forget, Boot
  <2>2. BootsKnown' /\ HookCurrent' /\ BatchComplete'
    BY <2>1 DEF BootInv, BootsKnown, HookCurrent, BatchComplete, Record, Boot
  <2>3. HookCompactsEnded' /\ CompactedMeansMoved'
    BY <2>1 DEF BootInv, BootsKnown, HookCompactsEnded, CompactedMeansMoved, Record, Boot
  <2> QED
    BY <2>2, <2>3 DEF BootInv
<1>5. ASSUME NEW p \in Pane, NEW d \in Dir, HookLock(p, d)
      PROVE  BootInv'
  BY <1>s, <1>5 DEF Still, HookLock, store, tmux
<1>6. CASE HookStep
  <2>1. CASE HookNoServer \/ HookArchive \/ HookFinalize
    BY <1>s, <2>1 DEF Still, HookNoServer, HookArchive, HookFinalize, HookDone, store, tmux, locals
  <2>2. CASE HookBoot
    <3>1. /\ obs'[Hook] = boot /\ boot \in Nat /\ UNCHANGED <<flat, disk, compacted, boot, batch>>
          /\ \A a \in Compactors \cup Clis : obs'[a] \in {obs[a], boot}
          /\ \A a \in Compactors : pc'[a] = "delete" => pc[a] = "delete" /\ obs'[a] = obs[a]
      BY <2>2 DEF HookBoot, store, tmux, Boot
    <3>2. BootsKnown'
      BY <3>1 DEF BootInv, BootsKnown
    <3>3. HookCurrent'
      BY <3>1 DEF BootInv, BootsKnown, HookCurrent
    <3>4. BatchComplete' /\ HookCompactsEnded' /\ CompactedMeansMoved'
      BY <3>1 DEF BootInv, BatchComplete, HookCompactsEnded, CompactedMeansMoved
    <3> QED
      BY <3>2, <3>3, <3>4 DEF BootInv
  <2>3. CASE HookWrite \/ HookOverwrite
    <3>1. PICK j \in job : flat' = Put(flat, NewRecord(j))
      BY <2>3 DEF HookWrite, HookOverwrite
    <3>2. pc[Hook] \in Asked /\ obs[Hook] \in Boot
      BY <2>3 DEF HookWrite, HookOverwrite, HookKnowsServer
    <3>3. /\ NewRecord(j) \in Record /\ NewRecord(j).boot = obs[Hook]
          /\ ~NewRecord(j).legacy
      BY <3>2 DEF NewRecord, Record
    <3>4. /\ UNCHANGED <<disk, compacted, boot, batch>>
          /\ pc' = [pc EXCEPT ![Hook] = "idle"] \/ pc' = [pc EXCEPT ![Hook] = "finalize"]
          /\ obs' = obs \/ obs' = [obs EXCEPT ![Hook] = 0]
      BY <2>3 DEF HookWrite, HookOverwrite, HookDone, tmux, locals
    <3> HIDE DEF TypeOK
    <3> QED
      BY <3>1, <3>2, <3>3, <3>4, BootWrite
  <2> QED
    BY <1>6, <2>1, <2>2, <2>3 DEF HookStep
<1>7. ASSUME NEW r \in flat, ClearStatus(r) \/ Touch(r)
      PROVE  BootInv'
  <2> DEFINE c == [r EXCEPT !.ts = writes + 1, !.rev = writes + 1]
             t == [r EXCEPT !.rev = writes + 1]
  <2>1. /\ c \in Record /\ c.boot = r.boot /\ c.legacy = r.legacy
        /\ t \in Record /\ t.boot = r.boot /\ t.legacy = r.legacy
    <3>1. r \in Record /\ writes + 1 \in Nat
      OBVIOUS
    <3> HIDE DEF TypeOK
    <3> QED
      BY <3>1 DEF Record
  <2>2. flat' = Put(flat, c) \/ flat' = Put(flat, t)
    BY <1>7 DEF ClearStatus, Touch
  <2>3. lock = Free /\ UNCHANGED <<disk, compacted, boot, batch, pc, obs>>
    BY <1>7 DEF ClearStatus, Touch, tmux, locals
  <2> HIDE DEF c, t, TypeOK
  <2> QED
    BY <2>1, <2>2, <2>3, BootWrite
<1>8. ASSUME NEW a \in Compactors, Compact(a) \/ CompactFails(a)
      PROVE  BootInv'
  <2>1. CASE CompactSkip(a) \/ CompactFails(a)
    BY <1>s, <2>1 DEF Still, CompactSkip, CompactFails, Compacted, store, tmux
  <2>2. CASE CompactMerge(a)
    <3>1. /\ pc[a] = "compact" /\ batch' = [batch EXCEPT ![a] = Former(obs[a])]
          /\ pc' = [pc EXCEPT ![a] = "delete"]
          /\ UNCHANGED <<flat, disk, compacted, boot, obs>>
      BY <2>2 DEF CompactMerge, tmux
    <3>2. \A c \in Compactors \ {a} : pc'[c] # "delete"
      BY <3>1, WriterAlone
    <3>3. BootsKnown' /\ CompactedMeansMoved'
      BY <3>1 DEF BootInv, BootsKnown, CompactedMeansMoved
    <3>4. HookCurrent'
      BY <3>1 DEF BootInv, HookCurrent
    <3>5. BatchComplete'
      BY <3>1, <3>2 DEF BootInv, BatchComplete, Former
    <3>6. HookCompactsEnded'
      <4>1. CASE a = Hook
        <5>1. \A r \in Former(obs[Hook]) : r.boot <= obs[Hook] /\ r.boot # obs[Hook] /\ r \in flat
          BY <3>1, <4>1, SameAsItself DEF Former, BootInv, HookCurrent
        <5>2. obs[Hook] <= boot /\ obs[Hook] \in Nat /\ boot \in Nat
          BY DEF BootInv, BootsKnown, Boot
        <5>3. \A r \in flat : r.boot \in Nat
          BY DEF Record, Boot
        <5>4. \A r \in Former(obs[Hook]) : r.boot < boot
          <6> HIDE DEF TypeOK
          <6> QED
            BY <5>1, <5>2, <5>3
        <5> QED
          BY <3>1, <4>1, <5>4 DEF HookCompactsEnded
      <4>2. CASE a # Hook
        BY <3>1, <4>2 DEF BootInv, HookCompactsEnded
      <4> QED
        BY <4>1, <4>2
    <3> QED
      BY <3>3, <3>4, <3>5, <3>6 DEF BootInv
  <2>3. CASE CompactDelete(a)
    <3>1. PICK r \in batch[a] \cap flat :
             flat' = flat \ {r} /\ batch' = [batch EXCEPT ![a] = @ \ {r}]
      BY <2>3 DEF CompactDelete
    <3>2. pc[a] = "delete" /\ UNCHANGED <<disk, compacted, boot, obs, pc>>
      BY <2>3 DEF CompactDelete, tmux
    <3>3. BootsKnown' /\ HookCurrent'
      BY <3>1, <3>2 DEF BootInv, BootsKnown, HookCurrent
    <3>4. BatchComplete'
      BY <3>1, <3>2, WriterAlone DEF BootInv, BatchComplete
    <3>5. HookCompactsEnded' /\ CompactedMeansMoved'
      BY <3>1, <3>2 DEF BootInv, HookCompactsEnded, CompactedMeansMoved
    <3> QED
      BY <3>3, <3>4, <3>5 DEF BootInv
  <2>4. CASE CompactFinalize(a) /\ batch[a] # {}
    BY <1>s, <2>4 DEF Still, CompactFinalize, Compacted, tmux
  <2>5. CASE CompactFinalize(a) /\ batch[a] = {}
    <3>1. /\ pc[a] = "delete" /\ compacted' = obs[a] /\ UNCHANGED <<flat, disk, boot, obs>>
          /\ batch'[Hook] \subseteq batch[Hook]
          /\ pc'[a] # "delete" /\ \A c \in Compactors \ {a} : pc'[c] = pc[c]
      BY <2>5 DEF CompactFinalize, Compacted, tmux
    <3>2. BootsKnown'
      BY <3>1 DEF BootInv, BootsKnown
    <3>3. HookCurrent'
      <4>1. CASE a = Hook
        BY <3>1, <4>1 DEF BootInv, HookCurrent
      <4>2. CASE a # Hook
        BY <3>1, <4>2, WriterAlone DEF HookCurrent
      <4> QED
        BY <4>1, <4>2
    <3>4. BatchComplete' /\ HookCompactsEnded'
      BY <3>1, WriterAlone DEF BootInv, BatchComplete, HookCompactsEnded
    <3>5. CompactedMeansMoved'
      <4>1. \A r \in flat : SameServer(r, obs[a])
        BY <2>5, <3>1 DEF BootInv, BatchComplete
      <4>2. SUFFICES ASSUME compacted' = boot', NEW r \in flat'
                     PROVE  SameServer(r, boot')
        BY DEF CompactedMeansMoved
      <4>3. r \in flat /\ obs[a] = boot'
        BY <3>1, <4>2
      <4>4. SameServer(r, obs[a])
        BY <4>1, <4>3
      <4> QED
        BY <4>3, <4>4
    <3> QED
      BY <3>2, <3>3, <3>4, <3>5 DEF BootInv
  <2> QED
    BY <1>8, <2>1, <2>2, <2>3, <2>4, <2>5 DEF Compact
<1>9. ASSUME NEW d \in Daemons, DaemonStep(d)
      PROVE  BootInv'
  BY <1>s, <1>9 DEF Still, DaemonStep, DaemonObserve, DaemonLock, DaemonRead, Judge, Prune,
      EndPass, store, tmux, locals
<1>10. ASSUME NEW c \in Clis, CliStep(c)
      PROVE  BootInv'
  BY <1>s, <1>10 DEF Still, CliStep, CliRead, CliPanes, CliBoot, Judge, Prune, EndPass,
      store, tmux, locals
<1>11. ASSUME NEW r \in Resurrectors, ResurrectStep(r)
      PROVE  BootInv'
  BY <1>s, <1>11 DEF Still, ResurrectStep, MakePlan, Open, OpenFails, ConsumeLock,
      ConsumeFlat, ConsumeSave, ResurrectDone, store, tmux, locals
<1>12. CASE UNCHANGED vars
  BY <1>s, <1>12 DEF Still, vars, store, tmux, locals
<1> HIDE DEF TypeOK
<1> QED
  BY <1>1, <1>2, <1>3, <1>4, <1>5, <1>6, <1>7, <1>8, <1>9, <1>10, <1>11,
      <1>12 DEF Next, Environment

\* No server but the first has been there at first.
LEMMA BootInit == Init => Shape /\ MutualExclusion /\ BootInv
<1> SUFFICES ASSUME Init PROVE Shape /\ MutualExclusion /\ BootInv
  OBVIOUS
<1>1. Shape /\ MutualExclusion
  BY IInvInit DEF IInv
<1>2. /\ \A r \in flat \cup disk : r.boot = 1
      /\ boot = 1 /\ compacted = 0 /\ \A a \in Compactors \cup Clis : obs[a] = 0
      /\ \A a \in Actor : pc[a] = "idle"
      /\ \A a \in Compactors : batch[a] = {} /\ a \in Actor
      /\ Hook \in Compactors
  BY DEF Init, OldRecord, Actor, Compactors
<1>3. BootInv
  BY <1>2 DEF BootInv, BootsKnown, HookCurrent, Asked, BatchComplete, HookCompactsEnded,
              CompactedMeansMoved
<1> QED
  BY <1>1, <1>3

\* A hook only ever compacts what a server that has ended left, and a context
\* that counts as compacted for the running server has no file of another one.
LEMMA BootsCorrect == Spec => [](HookCompactsEnded /\ CompactedMeansMoved)
<1>1. Init => Shape /\ MutualExclusion /\ BootInv
  BY BootInit
<1>2. Shape /\ MutualExclusion /\ BootInv /\ [Next]_vars => (Shape /\ MutualExclusion /\ BootInv)'
  BY TypeNext, OneFileNext, EntriesNext, HookKnowsNext, LockNext, BootNext DEF Shape
<1>3. BootInv => HookCompactsEnded /\ CompactedMeansMoved
  BY DEF BootInv
<1> QED
  BY <1>1, <1>2, <1>3, PTL DEF Spec

\* What a hook compacts belongs to a server that has ended, although it asks
\* for the boot id long before it deletes and servers restart meanwhile
\* (compact_context_locked, persist_agent_update).
THEOREM HooksCompactEnded == Spec => []HookCompactsEnded
BY BootsCorrect, PTL

\* Once a context counts as compacted for the running server, no file of a former
\* server is left, whichever of the hooks and daemons, told of different servers,
\* compacted last (compact_context_locked, finalize_recovery_locked).
THEOREM CompactedIsMoved == Spec => []CompactedMeansMoved
BY BootsCorrect, PTL

-----------------------------------------------------------------------------
(***************************************************************************)
(* What a reconciler deletes.                                              *)
(***************************************************************************)

\* The file of a pane a reconciler has read is not replaced by one of an earlier
\* server, and what it has judged belongs to the server it was told of.
SeenEarlier ==
    \A a \in Reconcilers :
        /\ \A s \in seen[a] \cup doomed[a] :
             /\ s.boot <= boot
             /\ pc[Hook] \in Asked => s.boot <= obs[Hook]
             /\ \A r \in flat : r.pane = s.pane => s.boot <= r.boot
        /\ \A s \in doomed[a] : SameServer(s, obs[a])
        /\ pc[a] # "prune" => doomed[a] = {}

\* Nothing is read or judged, and no file is written.
Unread ==
    /\ flat' \subseteq flat /\ boot' \in Nat /\ boot <= boot'
    /\ pc'[Hook] \in Asked => obs'[Hook] = boot \/ (pc[Hook] \in Asked /\ obs'[Hook] = obs[Hook])
    /\ \A a \in Reconcilers :
         /\ seen'[a] \subseteq seen[a]
         /\ doomed'[a] = {} \/ /\ doomed'[a] = doomed[a] /\ obs'[a] = obs[a]
                               /\ pc'[a] = "prune" \/ doomed[a] = {}

\* Such a step disturbs nothing.
LEMMA SeenStill ==
  ASSUME TypeOK, SeenEarlier, Unread
  PROVE  SeenEarlier'
<1> SUFFICES ASSUME NEW a \in Reconcilers
             PROVE  /\ \A s \in seen'[a] \cup doomed'[a] :
                         /\ s.boot <= boot'
                         /\ pc'[Hook] \in Asked => s.boot <= obs'[Hook]
                         /\ \A r \in flat' : r.pane = s.pane => s.boot <= r.boot
                    /\ \A s \in doomed'[a] : SameServer(s, obs'[a])
                    /\ pc'[a] # "prune" => doomed'[a] = {}
  BY DEF SeenEarlier
<1>1. \A s \in seen[a] \cup doomed[a] : s.boot \in Nat
  BY DEF TypeOK, Record, Boot
<1>2. boot \in Nat
  BY DEF TypeOK, Boot
<1> QED
  BY <1>1, <1>2 DEF SeenEarlier, Unread

\* A file that is written is of no earlier server than the one it replaces.
LEMMA SeenWrite ==
  ASSUME TypeOK, SeenEarlier, NEW n, flat' = Put(flat, n),
         UNCHANGED <<boot, seen, doomed>>, pc'[Hook] \in Asked => pc[Hook] \in Asked /\ obs'[Hook] = obs[Hook],
         \A a \in Reconcilers : pc'[a] = pc[a] /\ obs'[a] = obs[a],
         \/ pc[Hook] \in Asked /\ n.boot = obs[Hook]
         \/ \E r \in flat : n.boot = r.boot /\ n.pane = r.pane
  PROVE  SeenEarlier'
BY DEF SeenEarlier, Put

\* Every action keeps it so.
LEMMA SeenNext ==
  ASSUME TypeOK, OneFilePerPane, BootInv, SeenEarlier, [Next]_vars
  PROVE  SeenEarlier'
<1>u. Unread => SeenEarlier'
  BY SeenStill
<1>b. boot \in Nat /\ boot <= boot
  BY DEF TypeOK, Boot
<1> USE ActorsAssumption, <1>b DEF TypeOK, Asked, Actor, Compactors, Reconcilers
<1>1. ASSUME NEW p \in Pane, \/ \E q \in Pid \cup {NoPid} : PaneChange(p, q)
                             \/ Flush(p)
      PROVE  SeenEarlier'
  BY <1>u, <1>1 DEF Unread, SeenEarlier, PaneChange, Flush, store, tmux, locals
<1>2. CASE ServerRestart
  BY <1>u, <1>2 DEF Unread, SeenEarlier, ServerRestart, store, locals
<1>3. ASSUME NEW a \in Actor, Crash(a)
      PROVE  SeenEarlier'
  BY <1>u, <1>3 DEF Unread, SeenEarlier, Crash, Forget, store, tmux
<1>4. CASE PowerLoss
  <2>1. \A a \in Reconcilers : seen'[a] = {} /\ doomed'[a] = {}
    BY <1>4 DEF PowerLoss, Forget
  <2> QED
    BY <2>1 DEF SeenEarlier
<1>5. ASSUME NEW p \in Pane, NEW d \in Dir, HookLock(p, d)
      PROVE  SeenEarlier'
  BY <1>u, <1>5 DEF Unread, SeenEarlier, HookLock, store, tmux
<1>6. CASE HookStep
  <2>1. CASE HookNoServer \/ HookBoot \/ HookArchive \/ HookFinalize
    BY <1>u, <2>1 DEF Unread, SeenEarlier, HookNoServer, HookBoot, HookArchive, HookFinalize,
                      HookDone, store, tmux, locals
  <2>2. CASE HookWrite \/ HookOverwrite
    <3>1. PICK j \in job : flat' = Put(flat, NewRecord(j))
      BY <2>2 DEF HookWrite, HookOverwrite
    <3>2. NewRecord(j).boot = obs[Hook]
      BY DEF NewRecord
    <3>3. /\ UNCHANGED <<boot, seen, doomed>> /\ pc[Hook] \in Asked /\ pc'[Hook] \notin Asked
          /\ \A a \in Reconcilers : pc'[a] = pc[a] /\ obs'[a] = obs[a]
      BY <2>2 DEF HookWrite, HookOverwrite, HookDone, tmux, locals
    <3> HIDE DEF TypeOK
    <3> QED
      BY <3>1, <3>2, <3>3, SeenWrite
  <2> QED
    BY <1>6, <2>1, <2>2 DEF HookStep
<1>7. ASSUME NEW r \in flat, ClearStatus(r) \/ Touch(r)
      PROVE  SeenEarlier'
  <2> DEFINE c == [r EXCEPT !.ts = writes + 1, !.rev = writes + 1]
             t == [r EXCEPT !.rev = writes + 1]
  <2>1. c.boot = r.boot /\ c.pane = r.pane /\ t.boot = r.boot /\ t.pane = r.pane
    <3>1. r \in Record
      OBVIOUS
    <3> QED
      BY <3>1 DEF Record
  <2>2. flat' = Put(flat, c) \/ flat' = Put(flat, t)
    BY <1>7 DEF ClearStatus, Touch
  <2>3. UNCHANGED <<boot, seen, doomed, pc, obs>>
    BY <1>7 DEF ClearStatus, Touch, tmux, locals
  <2> HIDE DEF c, t, TypeOK
  <2> QED
    BY <2>1, <2>2, <2>3, SeenWrite
<1>8. ASSUME NEW a \in Compactors, Compact(a) \/ CompactFails(a)
      PROVE  SeenEarlier'
  BY <1>u, <1>8 DEF Unread, SeenEarlier, Compact, CompactSkip, CompactMerge, CompactDelete,
                    CompactFinalize, CompactFails, Compacted, store, tmux
<1>9. ASSUME NEW a \in Reconcilers, pc[a] # "prune", seen' = [seen EXCEPT ![a] = flat],
             UNCHANGED <<flat, boot, doomed, obs>>,
             \E s \in {"judge", "panes"} : pc' = [pc EXCEPT ![a] = s]
      PROVE  SeenEarlier'
  <2>1. /\ \A s \in flat : s.boot <= boot
        /\ pc[Hook] \in Asked => \A s \in flat : s.boot <= obs[Hook]
        /\ \A s, r \in flat : r.pane = s.pane => s.boot <= r.boot
    BY DEF BootInv, BootsKnown, HookCurrent, OneFilePerPane, Record, Boot
  <2> QED
    BY <1>9, <2>1 DEF SeenEarlier
<1>10. ASSUME NEW a \in Reconcilers, NEW r \in seen[a], Judge(a, r)
       PROVE  SeenEarlier'
  BY <1>10 DEF Judge, Stale, SeenEarlier, store, tmux
<1>11. ASSUME NEW a \in Reconcilers, Prune(a) \/ EndPass(a)
       PROVE  SeenEarlier'
  BY <1>u, <1>11 DEF Unread, SeenEarlier, Prune, EndPass, store, tmux
<1>12. ASSUME NEW d \in Daemons, DaemonStep(d)
       PROVE  SeenEarlier'
  <2>1. CASE DaemonObserve(d) \/ DaemonLock(d)
    BY <1>u, <2>1 DEF Unread, SeenEarlier, DaemonObserve, DaemonLock, store, tmux, locals
  <2>2. CASE DaemonRead(d)
    BY <1>9, <2>2 DEF DaemonRead, store, tmux
  <2> QED
    BY <1>10, <1>11, <1>12, <2>1, <2>2 DEF DaemonStep
<1>13. ASSUME NEW c \in Clis, CliStep(c)
       PROVE  SeenEarlier'
  <2>1. CASE CliPanes(c) \/ CliBoot(c)
    BY <1>u, <2>1 DEF Unread, SeenEarlier, CliPanes, CliBoot, store, tmux
  <2>2. CASE CliRead(c)
    BY <1>9, <2>2 DEF CliRead, store, tmux
  <2> QED
    BY <1>10, <1>11, <1>13, <2>1, <2>2 DEF CliStep
<1>14. ASSUME NEW r \in Resurrectors, ResurrectStep(r)
       PROVE  SeenEarlier'
  BY <1>u, <1>14 DEF Unread, SeenEarlier, ResurrectStep, MakePlan, Open, OpenFails, ConsumeLock,
      ConsumeFlat, ConsumeSave, ResurrectDone, store, tmux, locals
<1>15. CASE UNCHANGED vars
  BY <1>u, <1>15 DEF Unread, SeenEarlier, vars, store, tmux, locals
<1> HIDE DEF TypeOK
<1> QED
  BY <1>1, <1>2, <1>3, <1>4, <1>5, <1>6, <1>7, <1>8, <1>12, <1>13, <1>14, <1>15
     DEF Next, Environment

\* Only the deletion takes a reconciler from its decision to the next record.
LEMMA OnlyPrune ==
  ASSUME TypeOK, [Next]_vars, NEW a \in Reconcilers, pc[a] = "prune", pc'[a] = "judge"
  PROVE  Prune(a)
<1> USE ActorsAssumption DEF TypeOK, Actor, Compactors, Reconcilers
<1>1. ~\E p \in Pane, q \in Pid \cup {NoPid} : PaneChange(p, q)
  BY DEF PaneChange
<1>2. ~ServerRestart /\ ~PowerLoss /\ ~\E p \in Pane : Flush(p)
  BY DEF ServerRestart, PowerLoss, Forget, Flush
<1>3. ~\E b \in Actor : Crash(b)
  BY DEF Crash, Forget
<1>4. ~HookStep /\ ~\E p \in Pane, d \in Dir : HookLock(p, d)
  BY DEF HookStep, HookLock, HookNoServer, HookBoot, HookArchive, HookWrite, HookOverwrite,
         HookFinalize, HookDone
<1>5. ~\E r \in flat : ClearStatus(r) \/ Touch(r)
  BY DEF ClearStatus, Touch
<1>6. ~\E b \in Compactors : Compact(b) \/ CompactFails(b)
  BY DEF Compact, CompactSkip, CompactMerge, CompactDelete, CompactFinalize, CompactFails,
         Compacted
<1>7. ~\E r \in Resurrectors : ResurrectStep(r)
  BY DEF ResurrectStep, MakePlan, Open, OpenFails, ConsumeLock, ConsumeFlat, ConsumeSave,
         ResurrectDone
<1>8. ASSUME NEW d \in Daemons, DaemonStep(d) PROVE Prune(a)
  BY <1>8 DEF DaemonStep, DaemonObserve, DaemonLock, DaemonRead, Judge, Prune, EndPass
<1>9. ASSUME NEW c \in Clis, CliStep(c) PROVE Prune(a)
  BY <1>9 DEF CliStep, CliRead, CliPanes, CliBoot, Judge, Prune, EndPass
<1>10. pc' # pc
  OBVIOUS
<1> QED
  BY <1>1, <1>2, <1>3, <1>4, <1>5, <1>6, <1>7, <1>8, <1>9, <1>10 DEF Next, Environment, vars

\* What it deletes is of the server it was told of, or of a later one.
LEMMA PruneStep ==
  ASSUME TypeOK, SeenEarlier, Twins = {}, NEW a \in Reconcilers, Prune(a), NEW r \in flat \ flat'
  PROVE  r.boot > obs[a] \/ SameServer(r, obs[a])
<1>1. PICK s \in doomed[a] : s.pane = r.pane
  BY DEF Prune
<1>2. SameServer(s, obs[a]) /\ s.boot <= r.boot
  BY <1>1 DEF SeenEarlier
<1>3. s.boot \in Boot /\ r.boot \in Boot /\ obs[a] \in 0..MaxBoot
  BY DEF TypeOK, Record, Reconcilers, Compactors
<1>4. obs[a] <= s.boot
  <2>1. CASE ~s.legacy
    BY <1>2, <1>3, <2>1 DEF SameServer, Boot
  <2>2. CASE s.legacy /\ s.boot < obs[a]
    <3>1. obs[a] \in Boot /\ s.boot < obs[a] /\ obs[a] <= obs[a]
      BY <1>3, <2>2 DEF Boot
    <3> QED
      BY <1>2, <2>2, <3>1 DEF SameServer, SameSecond
  <2> QED
    BY <1>3, <2>1, <2>2 DEF Boot
<1>5. r.boot > obs[a] \/ r.boot = obs[a]
  BY <1>2, <1>3, <1>4 DEF Boot
<1>6. r \in Record
  BY DEF TypeOK
<1> QED
  BY <1>5, <1>6, SameAsItself

\* A reconciliation deletes no file of a server older than the one it observed,
\* whatever was written between its listing and the deletion, as long as no two
\* servers start within the same second (reconcile_agents_from_snapshot,
\* delete_agent).  Twins make it false: the file that is deleted for a legacy
\* record may be one whose boot id tells the two servers apart.
THEOREM FormerIsNotPruned ==
  ASSUME Twins = {}
  PROVE  Spec => FormerNotPruned
<1> DEFINE Inv == Shape /\ MutualExclusion /\ BootInv /\ SeenEarlier
<1>1. Init => Inv
  <2> SUFFICES ASSUME Init PROVE Inv
    OBVIOUS
  <2>1. Shape /\ MutualExclusion /\ BootInv
    BY BootInit
  <2>2. SeenEarlier
    BY DEF Init, SeenEarlier
  <2> QED
    BY <2>1, <2>2
<1>2. Inv /\ [Next]_vars => Inv'
  BY TypeNext, OneFileNext, EntriesNext, HookKnowsNext, LockNext, BootNext, SeenNext DEF Shape
<1>3. Inv /\ [Next]_vars =>
        [ \A a \in Reconcilers : pc[a] = "prune" /\ pc'[a] = "judge" =>
            \A r \in flat \ flat' : r.boot > obs[a] \/ SameServer(r, obs[a]) ]_vars
  BY OnlyPrune, PruneStep DEF Shape
<1> QED
  BY <1>1, <1>2, <1>3, PTL DEF Spec, FormerNotPruned
=============================================================================
