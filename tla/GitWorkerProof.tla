--------------------------- MODULE GitWorkerProof ---------------------------
(***************************************************************************)
(* Theorems of GitWorker, for any directories, worktrees and bounds: its   *)
(* types, that a status belongs to the worktree of its directory, that a   *)
(* reported change is not forgotten, and that changes of the cache are     *)
(* announced.                                                              *)
(*                                                                         *)
(* IInv adds what the properties leave unsaid: the worker goes round with  *)
(* nothing to announce (Quiet), a status that git has printed and that is  *)
(* not stored yet may be as outdated as one that is (Noticed), and the     *)
(* versions stay in their bound (Bounded).                                 *)
(***************************************************************************)
EXTENDS GitWorker, TLAPS, FiniteSetTheorems, WellFoundedInduction

\* A change of the worktree is on its way to the worker, or known to be lost.
Underway(r) == r \in pending \cup channel \cup lost \/ overflow \/ recovery \/ failed

BeingRead(r) == reading # None /\ reading.root = r

Noticed ==
    \A r \in Root : Watched(r) =>
        /\ Behind(r) => Underway(r) \/ BeingRead(r)
        /\ BeingRead(r) /\ reading.version # version[r] => Underway(r)

Quiet == pc \in {"receive", "resolve"} => ~changed

Bounded == \A r \in Root : version[r] + budget["changes"] <= MaxVersion

IInv == TypeOK /\ OwnStatus /\ Noticed /\ Quiet /\ Bounded /\ ChangesAnnounced

-----------------------------------------------------------------------------
(* What the operators yield. *)

\* The worktrees the worker knows are finitely many.
LEMMA UniqueFinite == TypeOK => Unique \subseteq Root /\ IsFiniteSet(Unique)
  <1> SUFFICES ASSUME TypeOK PROVE Unique \subseteq Root /\ IsFiniteSet(Unique)
    OBVIOUS
  <1>1. Unique \subseteq Root
    BY DEF TypeOK, Unique
  <1> QED
    BY <1>1, RootAssumption, FS_Subset

\* The audit takes a completely watched worktree, if any, and its cursor is a
\* position in the list.
LEMMA TurnTaken ==
  ASSUME NEW S, IsFiniteSet(S), S # {}, NEW whole, cursor \in Nat
  PROVE  Turn(S, whole).roots \subseteq whole /\ Turn(S, whole).cursor \in Nat
  <1> DEFINE n == Cardinality(S)
             Nth(i) == CHOOSE r \in S : Cardinality({s \in S : s < r}) = i % n
             steps == {i \in 0..(n - 1) : Nth(cursor + i) \in whole}
             first == CHOOSE i \in steps : \A j \in steps : i <= j
  <1>1. n \in Nat \ {0}
    BY FS_CardinalityType, FS_EmptySet
  <1> HIDE DEF n, Nth
  <1>2. Turn(S, whole) = IF steps = {} THEN [roots |-> {}, cursor |-> cursor % n]
                         ELSE [roots |-> {Nth(cursor + first)}, cursor |-> (cursor + first + 1) % n]
    BY DEF Turn, n, Nth
  <1>3. CASE steps = {}
    BY <1>1, <1>2, <1>3
  <1>4. CASE steps # {}
    <2>1. steps \subseteq Nat
      BY <1>1
    <2>2. PICK m \in steps : \A j \in steps : ~(<<j, m>> \in OpToRel(<, Nat))
      BY <1>4, <2>1, NatLessThanWellFounded, WFMin, Zenon
    <2>3. \A j \in steps : m <= j
      <3>1. ASSUME NEW j \in steps, j < m PROVE FALSE
        <4>1. j \in Nat /\ m \in Nat
          BY <2>1
        <4>2. <<j, m>> \in OpToRel(<, Nat)
          BY <3>1, <4>1 DEF OpToRel
        <4> QED
          BY <2>2, <4>2
      <3> QED
        BY <2>1, <3>1
    <2>4. first \in steps
      BY <2>3
    <2>5. first \in Nat /\ Nth(cursor + first) \in whole
      BY <2>1, <2>4
    <2> HIDE DEF steps, first
    <2>6. (cursor + first + 1) % n \in Nat
      BY <1>1, <2>5
    <2> QED
      BY <1>2, <1>4, <2>5, <2>6
  <1> QED
    BY <1>3, <1>4

\* A directory has the status that the directories of its worktree had.
LEMMA ProjectedStatus ==
  ASSUME TypeOK, OwnStatus, NEW paths \in SUBSET Path,
         NEW found1 \in [Path -> Root \cup {None}], NEW p \in Path
  PROVE  /\ Projected(paths, found1)[p] \in Status \cup {None}
         /\ p \notin paths \/ found1[p] = None => Projected(paths, found1)[p] = None
         /\ p \in paths /\ found1[p] # None =>
              /\ PathsOf(found1[p]) = {} => Projected(paths, found1)[p] = None
              /\ \A q \in PathsOf(found1[p]) : Projected(paths, found1)[p] = cache[q]
  <1> DEFINE has(r) == {q \in PathsOf(r) : cache[q] # None}
             StatusOf(r) == IF has(r) = {} THEN None ELSE cache[CHOOSE q \in has(r) : TRUE]
  <1>1. Projected(paths, found1)[p] =
          IF p \notin paths \/ found1[p] = None THEN None
          ELSE IF p \in active /\ roots[p] = found1[p] /\ cache[p] # None THEN cache[p]
               ELSE StatusOf(found1[p])
    BY DEF Projected
  <1>2. ASSUME NEW r \in Root, NEW q \in PathsOf(r) PROVE StatusOf(r) = cache[q]
    <2>1. \A q1, q2 \in PathsOf(r) : cache[q1] = cache[q2]
      BY DEF OwnStatus, PathsOf, TypeOK
    <2> QED
      BY <1>2, <2>1
  <1>3. \A r : PathsOf(r) = {} => StatusOf(r) = None
    OBVIOUS
  <1>4. \A r : PathsOf(r) \subseteq active
    BY DEF PathsOf
  <1>5. p \in active /\ roots[p] = found1[p] => p \in PathsOf(found1[p])
    BY DEF PathsOf
  <1>6. \A q \in active : cache[q] \in Status \cup {None}
    BY DEF TypeOK
  <1>7. found1[p] \in Root \cup {None}
    OBVIOUS
  <1> HIDE DEF StatusOf
  <1>8. CASE p \notin paths \/ found1[p] = None
    BY <1>1, <1>8
  <1>9. CASE ~(p \notin paths \/ found1[p] = None)
    <2>1. \A q \in PathsOf(found1[p]) : Projected(paths, found1)[p] = cache[q]
      BY <1>1, <1>2, <1>5, <1>7, <1>9
    <2>2. PathsOf(found1[p]) = {} => Projected(paths, found1)[p] = None
      BY <1>1, <1>3, <1>5, <1>9
    <2> QED
      BY <1>4, <1>6, <1>9, <2>1, <2>2
  <1> QED
    BY <1>8, <1>9

-----------------------------------------------------------------------------
(* Types. *)

\* A change that is spent is one less that can come.
LEMMA SpendTyped ==
  ASSUME budget \in Budget, NEW what \in {"changes", "moves", "mishaps"}, Spend(what)
  PROVE  /\ budget' \in Budget
         /\ budget'["changes"] <= budget["changes"]
         /\ what = "changes" => budget'["changes"] + 1 = budget["changes"]
  BY SceneAssumption DEF Budget, Spend

\* The bound on versions depends on the changes that are left only.
LEMMA BoundKept ==
  ASSUME TypeOK, Bounded, version' = version, budget' \in Budget,
         budget'["changes"] <= budget["changes"]
  PROVE  Bounded'
  <1>1. budget["changes"] \in Nat /\ budget'["changes"] \in Nat
    BY DEF TypeOK, Budget
  <1>2. \A r \in Root : version[r] \in Nat
    BY SceneAssumption DEF TypeOK
  <1> QED
    BY <1>1, <1>2, SceneAssumption DEF Bounded

\* The types and the bound hold at the start.
LEMMA TypeInit == Init => TypeOK /\ Bounded
  <1> SUFFICES ASSUME Init PROVE TypeOK /\ Bounded
    OBVIOUS
  <1>1. PICK scene \in Scene : home = scene.home /\ agents = scene.agents
                               /\ watches = scene.watches /\ budget = scene.budget
    BY DEF Init
  <1>2. /\ home \in [Path -> Root \cup {None}] /\ agents \subseteq Path
        /\ watches \in {"nothing", "metadata", "files"} /\ budget \in Budget
    BY <1>1, SceneAssumption
  <1>3. 0 \in 0..MaxVersion /\ budget["changes"] \in 0..MaxVersion
    BY <1>2, SceneAssumption DEF Budget
  <1>4. version = [r \in Root |-> 0] /\ Bounded
    BY <1>3 DEF Init, Bounded
  <1>5. pending \subseteq Unique /\ complete \subseteq Unique /\ pc \in Step
    BY DEF Init, Step
  <1>6. roots \in [Path -> Root \cup {None}] /\ shown \in [Path -> Status \cup {None}]
        /\ cache \in [Path -> Status \cup {None}] /\ version \in [Root -> 0..MaxVersion]
    BY <1>3, <1>4 DEF Init
  <1> QED
    BY <1>2, <1>4, <1>5, <1>6 DEF Init, TypeOK

\* What the main loop does to its own variables keeps the worker's types.
LEMMA LoopTyped ==
    ASSUME TypeOK, Bounded, UNCHANGED <<world, watching, agents, pc, found, cache, worker>>,
           due' \in BOOLEAN, main' \in {"loop", "send"}, flag' \in BOOLEAN,
           shown' \in [Path -> Status \cup {None}], inbox' \in (SUBSET Path) \cup {None}
    PROVE  TypeOK' /\ Bounded'
  <1>1. Bounded' /\ UNCHANGED <<Unique, active, roots>>
    BY DEF Bounded, Unique, world, found
  <1>2. UNCHANGED <<home, version, budget, lost, watches, channel, overflow, failed>>
    BY DEF world, watching
  <1>3. UNCHANGED <<pending, complete, recovery, degraded, cursor, changed, reading>>
    BY DEF worker
  <1> QED
    BY <1>1, <1>2, <1>3 DEF TypeOK

\* Every step keeps the types and the bound.
LEMMA TypeStep == TypeOK /\ Bounded /\ OwnStatus /\ [Next]_vars => TypeOK' /\ Bounded'
  <1> SUFFICES ASSUME TypeOK, Bounded, OwnStatus, [Next]_vars PROVE TypeOK' /\ Bounded'
    OBVIOUS
  <1> USE DEF Step
  <1>1. ASSUME NEW r \in Root, Change(r) PROVE TypeOK' /\ Bounded'
    <2>1. /\ budget' \in Budget /\ budget'["changes"] + 1 = budget["changes"]
          /\ budget["changes"] \in Nat /\ budget'["changes"] \in Nat
      BY <1>1, SpendTyped DEF Change, TypeOK, Budget
    <2>2. version' = [version EXCEPT ![r] = version[r] + 1]
      BY <1>1 DEF Change
    <2>3. \A s \in Root : version[s] \in 0..MaxVersion /\ version[s] + budget["changes"] <= MaxVersion
      BY DEF TypeOK, Bounded
    <2>4. \A s \in Root : version'[s] \in 0..MaxVersion /\ version'[s] + budget'["changes"] <= MaxVersion
      BY <2>1, <2>2, <2>3, SceneAssumption DEF TypeOK
    <2>5. version' \in [Root -> 0..MaxVersion]
      BY <2>2, <2>4 DEF TypeOK
    <2>6. channel' \subseteq Root
      BY <1>1 DEF Change, TypeOK
    <2> QED
      BY <1>1, <2>1, <2>4, <2>5, <2>6 DEF Change, TypeOK, Bounded, Unique, loop, found, worker
  <1>2. ASSUME NEW r \in Root, Mishap(r) PROVE TypeOK' /\ Bounded'
    <2>1. budget' \in Budget /\ budget'["changes"] <= budget["changes"]
      BY <1>2, SpendTyped DEF Mishap, TypeOK
    <2>2. Bounded'
      BY <1>2, <2>1, BoundKept DEF Mishap
    <2>3. /\ channel' \subseteq Root /\ lost' \subseteq Root
          /\ overflow' \in BOOLEAN /\ failed' \in BOOLEAN
      BY <1>2 DEF Mishap, TypeOK
    <2> QED
      BY <1>2, <2>1, <2>2, <2>3 DEF Mishap, TypeOK, Unique, loop, found, worker
  <1>3. ASSUME NEW p \in Path, Move(p) PROVE TypeOK' /\ Bounded'
    <2>1. budget' \in Budget /\ budget'["changes"] <= budget["changes"]
      BY <1>3, SpendTyped DEF Move, TypeOK
    <2> QED
      BY <1>3, <2>1, BoundKept DEF Move, TypeOK, Unique, watching, loop, found, worker
  <1>4. CASE Observe
    <2>1. budget' \in Budget /\ budget'["changes"] <= budget["changes"]
      BY <1>4, SpendTyped DEF Observe, TypeOK
    <2> QED
      BY <1>4, <2>1, BoundKept DEF Observe, TypeOK, Unique, watching, loop, found, worker
  <1>5. CASE TakeFlag
    <2>1. due' \in BOOLEAN /\ flag' \in BOOLEAN /\ main' \in {"loop", "send"}
      BY <1>5 DEF TakeFlag, TypeOK
    <2> QED
      BY <1>5, <2>1, LoopTyped DEF TakeFlag, TypeOK
  <1>6. CASE Publish
    <2>1. shown' \in [Path -> Status \cup {None}]
      BY <1>6 DEF Publish, TypeOK
    <2>2. due' \in BOOLEAN /\ main' \in {"loop", "send"}
      BY <1>6 DEF Publish, TypeOK
    <2> QED
      BY <1>6, <2>1, <2>2, LoopTyped DEF Publish, TypeOK
  <1>7. CASE Send
    <2>1. inbox' \in (SUBSET Path) \cup {None} /\ main' \in {"loop", "send"}
      BY <1>7 DEF Send, TypeOK
    <2> QED
      BY <1>7, <2>1, LoopTyped DEF Send, TypeOK
  <1>8. CASE Receive
    <2>1. Bounded' /\ UNCHANGED <<Unique, active, roots, home, version, budget, lost>>
      BY <1>8 DEF Receive, Bounded, Unique, world, found
    <2>2. pc' = "resolve" /\ pending' \subseteq Unique /\ reading = None
      BY <1>8 DEF Receive, TypeOK
    <2>3. recovery' \in BOOLEAN /\ degraded' \in BOOLEAN
      BY <1>8 DEF Receive, TypeOK
    <2> QED
      BY <1>8, <2>1, <2>2, <2>3 DEF Receive, TypeOK, loop
  <1>9. ASSUME NEW expired \in BOOLEAN, Resolve(expired) PROVE TypeOK' /\ Bounded'
    <2>1. budget' \in Budget /\ budget'["changes"] <= budget["changes"]
      BY <1>9, SpendTyped DEF Resolve, Rewatch, TypeOK, Budget
    <2>2. active' \subseteq Path
      BY <1>9 DEF Resolve, TypeOK
    <2>3. roots' \in [Path -> Root \cup {None}]
      BY <1>9 DEF Resolve, TypeOK
    <2>4. Unique' = {roots'[p] : p \in active'} \ {None}
      BY DEF Unique
    <2>5. cache' \in [Path -> Status \cup {None}]
      <3>1. CASE UNCHANGED cache
        BY <3>1 DEF TypeOK
      <3>2. CASE cache' = Projected(active', roots')
        <4>1. \A p \in Path : cache'[p] \in Status \cup {None}
          BY <2>2, <2>3, <3>2, ProjectedStatus
        <4>2. cache' = [p \in Path |-> cache'[p]]
          BY <3>2 DEF Projected
        <4> QED
          BY <4>1, <4>2
      <3> QED
        BY <1>9, <3>1, <3>2 DEF Resolve
    <2>6. pending' \subseteq Unique' /\ complete' \subseteq Unique'
      <3>1. CASE UNCHANGED <<active, roots, pending, complete>>
        BY <3>1, <2>4 DEF TypeOK, Unique
      <3>2. CASE pending' \subseteq Unique' /\ Rewatch(Unique')
        BY <3>2 DEF Rewatch
      <3> QED
        BY <1>9, <2>4, <3>1, <3>2 DEF Resolve
    <2> QED
      BY <1>9, <2>1, <2>2, <2>3, <2>5, <2>6, BoundKept DEF Resolve, TypeOK, watching, loop
  <1>10. ASSUME NEW elapsed \in Interval, Tend(elapsed) PROVE TypeOK' /\ Bounded'
    <2>1. UNCHANGED Unique
      BY <1>10 DEF Tend, Unique, found
    <2>2. complete' \subseteq Unique
      BY <1>10 DEF Tend, TypeOK
    <2>3. CASE "audit" \in elapsed /\ ~Polling /\ Unique # {}
      <3>1. Turn(Unique, complete').roots \subseteq complete' /\ Turn(Unique, complete').cursor \in Nat
        BY <2>3, UniqueFinite, TurnTaken DEF TypeOK
      <3>2. pending' \subseteq Unique /\ cursor' \in Nat
        BY <1>10, <2>2, <2>3, <3>1 DEF Tend, TypeOK
      <3> QED
        BY <1>10, <2>1, <2>2, <3>2 DEF Tend, TypeOK, Bounded, Announce, world, watching, loop, found
    <2>4. CASE ~("audit" \in elapsed /\ ~Polling /\ Unique # {})
      <3>2. pending' \subseteq Unique /\ cursor' \in Nat
        BY <1>10, <2>4 DEF Tend, TypeOK
      <3> QED
        BY <1>10, <2>1, <2>2, <3>2 DEF Tend, TypeOK, Bounded, Announce, world, watching, loop, found
    <2> QED
      BY <2>3, <2>4
  <1>11. ASSUME NEW r \in Root, Read(r) PROVE TypeOK' /\ Bounded'
    <2>1. reading' \in Status /\ reading' # None
      BY <1>11, NoneAssumption DEF Read, TypeOK, Status
    <2> QED
      BY <1>11, <2>1 DEF Read, TypeOK, Bounded, Unique, watching, loop, found
  <1>12. CASE Store
    BY <1>12 DEF Store, TypeOK, Bounded, Unique, PathsOf, world, watching, loop, found
  <1>13. CASE Refreshed
    <2>1. Bounded' /\ UNCHANGED <<Unique, active, roots, home, version, budget, lost>>
      BY <1>13 DEF Refreshed, Bounded, Unique, world, found
    <2>2. pc' = "receive" /\ flag' \in BOOLEAN /\ changed' \in BOOLEAN /\ reading = None
      BY <1>13 DEF Refreshed, Announce, TypeOK
    <2> QED
      BY <1>13, <2>1, <2>2 DEF Refreshed, TypeOK, watching, loop
  <1>14. CASE UNCHANGED vars
    BY <1>14 DEF TypeOK, Bounded, Unique, vars, world, watching, loop, found, worker
  <1> QED
    BY <1>1, <1>2, <1>3, <1>4, <1>5, <1>6, <1>7, <1>8, <1>9, <1>10, <1>11, <1>12, <1>13, <1>14
    DEF Next, Main, Worker

-----------------------------------------------------------------------------
(* Statuses, announcements and changes. *)

\* Only resolving and storing touch what the worker knows of directories.
LEMMA StatusStep == TypeOK /\ OwnStatus /\ [Next]_vars => OwnStatus'
  <1> SUFFICES ASSUME TypeOK, OwnStatus, [Next]_vars PROVE OwnStatus'
    OBVIOUS
  <1>1. CASE UNCHANGED <<active, roots, cache>>
    BY <1>1 DEF OwnStatus
  <1>2. ASSUME NEW expired \in BOOLEAN, Resolve(expired), ~UNCHANGED <<active, roots, cache>>
        PROVE OwnStatus'
    <2>1. /\ active' \in SUBSET Path /\ roots' \in [Path -> Root \cup {None}]
          /\ cache' = Projected(active', roots')
          /\ \A p \in Path \ active' : roots'[p] = None
      BY <1>2 DEF Resolve, TypeOK
    <2>2. ASSUME NEW p \in Path, cache'[p] # None
          PROVE  p \in active' /\ cache'[p].root = roots'[p]
      <3>1. p \in active' /\ roots'[p] # None /\ PathsOf(roots'[p]) # {}
        BY <2>1, <2>2, ProjectedStatus
      <3>2. PICK q \in PathsOf(roots'[p]) : cache[q] = cache'[p]
        BY <2>1, <3>1, ProjectedStatus
      <3>3. q \in Path /\ roots[q] = roots'[p]
        BY DEF PathsOf, TypeOK
      <3> QED
        BY <2>2, <3>1, <3>2, <3>3 DEF OwnStatus
    <2>3. ASSUME NEW p \in Path, NEW q \in active', p \in active', roots'[p] = roots'[q]
          PROVE  cache'[p] = cache'[q]
      <3>1. CASE roots'[p] = None
        BY <2>1, <2>3, <3>1, ProjectedStatus
      <3>2. CASE roots'[p] # None /\ PathsOf(roots'[p]) = {}
        BY <2>1, <2>3, <3>2, ProjectedStatus
      <3>3. CASE roots'[p] # None /\ PathsOf(roots'[p]) # {}
        <4>1. PICK x \in PathsOf(roots'[p]) : TRUE
          BY <3>3
        <4>2. cache'[p] = cache[x]
          BY <2>1, <2>3, <3>3, <4>1, ProjectedStatus
        <4>3. cache'[q] = cache[x]
          BY <2>1, <2>3, <3>3, <4>1, ProjectedStatus
        <4> QED
          BY <4>2, <4>3
      <3> QED
        BY <3>1, <3>2, <3>3
    <2> QED
      BY <2>2, <2>3 DEF OwnStatus
  <1>3. CASE Store
    <2>1. cache' = [p \in Path |-> IF p \in PathsOf(reading.root) THEN reading ELSE cache[p]]
          /\ UNCHANGED <<active, roots>>
      BY <1>3 DEF Store, found
    <2>2. \A p \in Path : p \in PathsOf(reading.root) <=> p \in active /\ roots[p] = reading.root
      BY DEF PathsOf
    <2>3. active \subseteq Path
      BY DEF TypeOK
    <2> QED
      BY <2>1, <2>2, <2>3 DEF OwnStatus
  <1>4. CASE ~Store /\ ~\E expired \in BOOLEAN : Resolve(expired)
    <2>1. UNCHANGED <<active, roots, cache>>
      BY <1>4 DEF Next, Main, Worker, vars, found, Change, Mishap, Move, Observe,
         TakeFlag, Publish, Send, Receive, Tend, Read, Refreshed
    <2> QED
      BY <1>1, <2>1
  <1> QED
    BY <1>1, <1>2, <1>3, <1>4

\* Whoever changes the cache notes it, and a note becomes the flag.
LEMMA AnnouncedStep == Quiet /\ ChangesAnnounced /\ [Next]_vars => Quiet' /\ ChangesAnnounced'
  <1> SUFFICES ASSUME Quiet, ChangesAnnounced, [Next]_vars PROVE Quiet' /\ ChangesAnnounced'
    OBVIOUS
  <1> USE DEF Quiet, ChangesAnnounced
  <1>1. CASE UNCHANGED <<pc, flag, due, changed, cache, shown>>
    BY <1>1
  <1>2. ASSUME NEW r \in Root, Change(r) \/ Mishap(r) PROVE Quiet' /\ ChangesAnnounced'
    BY <1>1, <1>2 DEF Change, Mishap, loop, worker
  <1>3. CASE (\E p \in Path : Move(p)) \/ Send
    BY <1>1, <1>3 DEF Move, Send, loop, worker
  <1>4. CASE Observe \/ TakeFlag \/ Publish
    BY <1>4 DEF Observe, TakeFlag, Publish, worker
  <1>5. CASE Receive
    BY <1>5 DEF Receive, loop
  <1>6. ASSUME NEW expired \in BOOLEAN, Resolve(expired) PROVE Quiet' /\ ChangesAnnounced'
    <2>1. /\ pc = "resolve" /\ pc' = "tend" /\ changed' = (cache' # cache)
          /\ UNCHANGED <<flag, due, shown>>
      BY <1>6 DEF Resolve, loop
    <2>2. CASE cache' = cache
      BY <2>1, <2>2
    <2>3. CASE cache' # cache
      BY <2>1, <2>3
    <2> QED
      BY <2>2, <2>3
  <1>7. CASE (\E elapsed \in Interval : Tend(elapsed)) \/ Refreshed
    BY <1>7 DEF Tend, Refreshed, Announce, loop
  <1>8. CASE (\E r \in Root : Read(r)) \/ Store
    BY <1>8 DEF Read, Store, loop
  <1> QED
    BY <1>1, <1>2, <1>3, <1>4, <1>5, <1>6, <1>7, <1>8 DEF Next, Main, Worker, vars, loop, worker

\* A reported change stays underway from step to step until git is asked.
LEMMA NoticedStep == IInv /\ [Next]_vars => Noticed'
  <1> SUFFICES ASSUME IInv, [Next]_vars PROVE Noticed'
    OBVIOUS
  <1>a. TypeOK /\ OwnStatus /\ Noticed
    BY DEF IInv
  <1>t. \A r \in Root : version[r] \in Nat
    BY <1>a DEF TypeOK
  <1>n. Noticed' <=> \A r \in Root : Watched(r)' =>
          /\ Behind(r)' => Underway(r)' \/ BeingRead(r)'
          /\ BeingRead(r)' /\ reading'.version # version'[r] => Underway(r)'
    BY DEF Noticed
  <1> DEFINE Same == UNCHANGED <<active, roots, cache, reading, complete, watches>>
  <1>s. Same => /\ UNCHANGED <<Unique>> /\ \A r \in Root : Watched(r)' = Watched(r)
                /\ \A r \in Root : BeingRead(r)' = BeingRead(r)
                /\ \A r \in Root : version'[r] = version[r] => Behind(r)' = Behind(r)
    BY DEF Watched, Unique, BeingRead, Behind, PathsOf
  <1> HIDE DEF Same
  <1>1. CASE UNCHANGED <<active, roots, cache, reading, complete, watches, version,
                         pending, channel, lost, overflow, recovery, failed>>
    BY <1>1, <1>a DEF Noticed, Watched, Behind, Underway, BeingRead, Unique, PathsOf
  <1>2. ASSUME NEW r \in Root, Change(r) PROVE Noticed'
    <2>1. Same /\ UNCHANGED <<pending, lost, overflow, recovery, failed>> /\ channel \subseteq channel'
      BY <1>2 DEF Change, Same, found, worker
    <2>2. Watched(r) => r \in channel'
      BY <1>2 DEF Change, Watched
    <2>3. \A s \in Root : s # r => version'[s] = version[s]
      BY <1>2, <1>a DEF Change, TypeOK
    <2>4. \A s \in Root : Underway(s) => Underway(s)'
      BY <2>1 DEF Underway
    <2>5. Watched(r) => Underway(r)'
      BY <2>2 DEF Underway
    <2>6. reading' = reading
      BY <2>1 DEF Same
    <2> QED
      BY <2>1, <2>3, <2>4, <2>5, <2>6, <1>a, <1>n, <1>s DEF Noticed
  <1>3. ASSUME NEW r \in Root, Mishap(r) PROVE Noticed'
    <2>1. Same /\ UNCHANGED <<version, pending, recovery>>
      BY <1>3 DEF Mishap, Same, found, worker
    <2>2. \A s \in Root : Underway(s) => Underway(s)'
      BY <1>3, <2>1, <1>a DEF Mishap, Underway, TypeOK
    <2>3. reading' = reading
      BY <2>1 DEF Same
    <2> QED
      BY <2>1, <2>2, <2>3, <1>a, <1>n, <1>s DEF Noticed
  <1>4. CASE Receive
    <2>1. Same /\ UNCHANGED <<version, lost>>
      BY <1>4 DEF Receive, Same, found, world
    <2>2. \A s \in Root : Watched(s) /\ Underway(s) => Underway(s)'
      BY <1>4, <2>1 DEF Receive, Underway, Watched
    <2>3. reading' = reading
      BY <2>1 DEF Same
    <2> QED
      BY <2>1, <2>2, <2>3, <1>a, <1>n, <1>s DEF Noticed
  <1>5. ASSUME NEW expired \in BOOLEAN, Resolve(expired),
               ~UNCHANGED <<cache, active, roots, pending, complete>>
        PROVE Noticed'
    <2>1. /\ active' \in SUBSET Path /\ roots' \in [Path -> Root \cup {None}]
          /\ cache' = Projected(active', roots')
          /\ Unique' = {roots'[p] : p \in active'} \ {None}
      BY <1>5, <1>a DEF Resolve, TypeOK, Unique
    <2>2. /\ {r \in Unique' : \A p \in PathsOf(r) : cache[p] = None} \subseteq pending'
          /\ pending \cap Unique' \subseteq pending'
          /\ complete' \subseteq complete \cup (Unique' \ Unique)
      BY <1>5, <2>1 DEF Resolve, Rewatch
    <2>3. /\ UNCHANGED <<watches, version, channel, lost, overflow, recovery, failed, reading>>
          /\ reading = None
      BY <1>5, <1>a DEF Resolve, watching, TypeOK
    <2>4. ASSUME NEW r \in Root, Watched(r)', Behind(r)' PROVE Underway(r)'
      <3>1. r \in Unique' /\ r \in complete' /\ watches = "files"
        BY <2>3, <2>4 DEF Watched
      <3>2. CASE \A p \in PathsOf(r) : cache[p] = None
        BY <2>2, <3>1, <3>2 DEF Underway
      <3>3. ASSUME NEW q \in PathsOf(r), cache[q] # None PROVE Underway(r)'
        <4>1. r \in Unique
          BY <3>3, NoneAssumption DEF PathsOf, Unique
        <4>2. Watched(r)
          BY <2>2, <3>1, <4>1 DEF Watched
        <4>3. PICK p \in PathsOf(r)' : cache'[p] # [root |-> r, version |-> version[r]]
          BY <2>3, <2>4 DEF Behind
        <4>4. p \in active' /\ roots'[p] = r /\ r # None
          BY NoneAssumption DEF PathsOf
        <4>5. cache'[p] = cache[q]
          BY <1>a, <2>1, <3>3, <4>4, ProjectedStatus
        <4>6. Behind(r)
          BY <3>3, <4>3, <4>5 DEF Behind
        <4>7. Underway(r)
          BY <1>a, <2>3, <4>2, <4>6 DEF Noticed, BeingRead
        <4> QED
          BY <2>2, <2>3, <3>1, <4>7 DEF Underway
      <3> QED
        BY <3>2, <3>3
    <2> QED
      BY <1>n, <2>3, <2>4 DEF BeingRead
  <1>6. ASSUME NEW elapsed \in Interval, Tend(elapsed) PROVE Noticed'
    <2>1. /\ UNCHANGED <<active, roots, cache, reading, watches, version, channel, lost, overflow, failed>>
          /\ pending \subseteq pending'
      BY <1>6 DEF Tend, world, watching, found
    <2>2. UNCHANGED Unique /\ \A r \in Root : Behind(r)' = Behind(r) /\ BeingRead(r)' = BeingRead(r)
      BY <2>1 DEF Unique, Behind, PathsOf, BeingRead
    <2>3. complete' \subseteq complete \cup pending'
      BY <1>6 DEF Tend
    <2>4. recovery => recovery' \/ Unique \subseteq pending'
      BY <1>6 DEF Tend
    <2>5. ASSUME NEW r \in Root, Watched(r)' PROVE Watched(r) \/ r \in pending'
      BY <2>1, <2>2, <2>3, <2>5 DEF Watched
    <2>6. \A r \in Root : Watched(r)' /\ Underway(r) => Underway(r)'
      BY <2>1, <2>2, <2>4 DEF Underway, Watched
    <2>7. \A r \in Root : r \in pending' => Underway(r)'
      BY DEF Underway
    <2> QED
      BY <1>a, <1>n, <2>1, <2>2, <2>5, <2>6, <2>7 DEF Noticed
  <1>7. ASSUME NEW r \in Root, Read(r) PROVE Noticed'
    <2>1. /\ UNCHANGED <<active, roots, cache, complete, watches, version, channel, overflow, recovery, failed>>
          /\ pending' = pending \ {r} /\ lost' = lost \ {r} /\ pc = "refresh"
          /\ reading' = [root |-> r, version |-> version[r]]
      BY <1>7 DEF Read, watching, found
    <2>2. UNCHANGED Unique /\ \A s \in Root : Behind(s)' = Behind(s) /\ Watched(s)' = Watched(s)
      BY <2>1 DEF Unique, Behind, PathsOf, Watched
    <2>3. reading = None
      BY <1>a, <2>1 DEF TypeOK
    <2>4. BeingRead(r)' /\ reading'.version = version'[r]
      BY <1>a, <2>1, NoneAssumption DEF BeingRead, Status, TypeOK
    <2>5. \A s \in Root : s # r => ~BeingRead(s)' /\ ~BeingRead(s)
      BY <2>1, <2>3 DEF BeingRead
    <2>6. \A s \in Root : s # r /\ Underway(s) => Underway(s)'
      BY <2>1 DEF Underway
    <2> QED
      BY <1>a, <1>n, <2>2, <2>4, <2>5, <2>6 DEF Noticed
  <1>8. CASE Store
    <2>1. /\ UNCHANGED <<active, roots, complete, watches, version, pending, channel, lost, overflow, recovery, failed>>
          /\ cache' = [p \in Path |-> IF p \in PathsOf(reading.root) THEN reading ELSE cache[p]]
          /\ reading' = None /\ reading # None
      BY <1>8, <1>a DEF Store, world, watching, found, TypeOK
    <2>2. UNCHANGED Unique /\ \A s \in Root : Watched(s)' = Watched(s) /\ Underway(s)' = Underway(s)
      BY <2>1 DEF Unique, Watched, Underway
    <2>3. \A s \in Root : ~BeingRead(s)'
      BY <2>1 DEF BeingRead
    <2>4. ASSUME NEW s \in Root, Behind(s)', Watched(s) PROVE Underway(s)
      <3>1. PICK p \in PathsOf(s) : cache'[p] # [root |-> s, version |-> version[s]]
        BY <2>1, <2>4 DEF Behind, PathsOf
      <3>2. p \in Path /\ p \in active /\ roots[p] = s
        BY <1>a DEF PathsOf, TypeOK
      <3>3. reading \in [root : Root, version : 0..MaxVersion]
        BY <1>a, <2>1 DEF TypeOK, Status
      <3>4. CASE reading.root = s
        <4>1. cache'[p] = reading
          BY <2>1, <3>2, <3>4 DEF PathsOf
        <4>2. reading.version # version[s]
          BY <3>1, <3>3, <3>4, <4>1
        <4> QED
          BY <1>a, <2>1, <2>4, <3>4, <4>2 DEF Noticed, BeingRead
      <3>5. CASE reading.root # s
        <4>1. cache'[p] = cache[p]
          BY <2>1, <3>2, <3>5 DEF PathsOf
        <4>2. Behind(s)
          BY <3>1, <4>1 DEF Behind
        <4> QED
          BY <1>a, <2>4, <3>5, <4>2 DEF Noticed, BeingRead
      <3> QED
        BY <3>4, <3>5
    <2> QED
      BY <1>n, <2>2, <2>3, <2>4
  <1>9. CASE \/ \E p \in Path : Move(p)
             \/ Observe \/ TakeFlag \/ Publish \/ Send \/ Refreshed \/ UNCHANGED vars
    BY <1>1, <1>9 DEF Move, Observe, TakeFlag, Publish, Send, Refreshed, vars,
       world, watching, found, worker
  <1>10. ASSUME NEW expired \in BOOLEAN, Resolve(expired),
                UNCHANGED <<cache, active, roots, pending, complete>>
         PROVE Noticed'
    BY <1>1, <1>10 DEF Resolve, watching
  <1> QED
    BY <1>2, <1>3, <1>4, <1>5, <1>6, <1>7, <1>8, <1>9, <1>10 DEF Next, Main, Worker

-----------------------------------------------------------------------------
(* The theorems. *)

\* The parts of the invariant hold together in every behaviour.
LEMMA Invariant == Spec => []IInv
  <1>1. Init => IInv
    <2> SUFFICES ASSUME Init PROVE IInv
      OBVIOUS
    <2>1. TypeOK /\ Bounded
      BY TypeInit
    <2>2. OwnStatus /\ Noticed /\ Quiet /\ ChangesAnnounced
      BY DEF Init, OwnStatus, Noticed, Watched, Quiet, ChangesAnnounced
    <2> QED
      BY <2>1, <2>2 DEF IInv
  <1>2. IInv /\ [Next]_vars => IInv'
    <2> SUFFICES ASSUME IInv, [Next]_vars PROVE IInv'
      OBVIOUS
    <2>1. TypeOK' /\ Bounded'
      BY TypeStep DEF IInv
    <2>2. OwnStatus' /\ Noticed' /\ Quiet' /\ ChangesAnnounced'
      BY StatusStep, NoticedStep, AnnouncedStep DEF IInv
    <2> QED
      BY <2>1, <2>2 DEF IInv
  <1> QED
    BY <1>1, <1>2, PTL DEF Spec

\* What the worker knows, watches and keeps belongs to the directories it was
\* sent last, whatever comes, goes or changes.
THEOREM TypeCorrect == Spec => []TypeOK
  <1>1. IInv => TypeOK
    BY DEF IInv
  <1> QED
    BY <1>1, Invariant, PTL

\* A directory has the status of the worktree it was last found in, the same as
\* all others in it.
THEOREM StatusesOwned == Spec => []OwnStatus
  <1>1. IInv => OwnStatus
    BY DEF IInv
  <1> QED
    BY <1>1, Invariant, PTL

\* A change that a watch has reported is not forgotten before git is asked.
THEOREM NoticedKept == Spec => []NoticedStaysKnown
  <1>1. IInv => NoticedStaysKnown
    <2> SUFFICES ASSUME IInv, NEW r \in Root, Watched(r), Behind(r)
                 PROVE  \/ r \in pending \cup channel \cup lost
                        \/ overflow \/ recovery \/ failed
                        \/ reading = [root |-> r, version |-> version[r]]
      BY DEF NoticedStaysKnown
    <2>1. reading # None => reading \in [root : Root, version : 0..MaxVersion]
      BY DEF IInv, TypeOK, Status
    <2>2. Underway(r) \/ (BeingRead(r) /\ reading.version = version[r])
      BY DEF IInv, Noticed
    <2> QED
      BY <2>1, <2>2 DEF Underway, BeingRead
  <1> QED
    BY <1>1, Invariant, PTL

\* Whatever the worker changes in its cache is announced to the main loop.
THEOREM Announced == Spec => []ChangesAnnounced
  <1>1. IInv => ChangesAnnounced
    BY DEF IInv
  <1> QED
    BY <1>1, Invariant, PTL
=============================================================================
