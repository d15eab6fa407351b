-------------------------- MODULE ConfigReloadProof --------------------------
(***************************************************************************)
(* Theorems about ConfigReload, for any places, directories and bounds:    *)
(* the types, and that sidebars are told of every change as long as each   *)
(* change is reported by an event.                                         *)
(***************************************************************************)
EXTENDS ConfigReload, TLAPS, FiniteSetTheorems, WellFoundedInduction

\* A change of a file leaves an event, or the mark of an overflow, behind.
Reported == UNCHANGED <<file, broken>> \/ noticed'

\* The reload a stale sidebar waits for is on its way through the watcher, or
\* comes with the version the daemon has.
Told ==
    \A d \in Dir :
        Parses(d) /\ shown[d] # Current(d) =>
            noticed \/ deadline \/ wpc = "bump" \/ version # last[d]

-----------------------------------------------------------------------------
(* Types. *)

Found == [at : Place \cup {None}, stamp : Stamp]

\* The first place of a search that has a file is one of its places.
LEMMA LocationTyped ==
  ASSUME NEW d \in Dir
  PROVE  Location(d) \in Place \cup {None}
  <1> DEFINE hits == {i \in DOMAIN Search[d] : Exists(Search[d][i])}
             first == CHOOSE i \in hits : \A j \in hits : i <= j
  <1>1. Search[d] \in Seq(Place)
    BY SearchAssumption
  <1>2. \A i \in DOMAIN Search[d] : Search[d][i] \in Place
    BY <1>1
  <1>3. hits \subseteq Nat
    BY <1>1
  <1>4. CASE hits = {}
    BY <1>4 DEF Location
  <1>5. CASE hits # {}
    <2> HIDE DEF hits
    <2>1. PICK m \in hits : \A j \in hits : ~(<<j, m>> \in OpToRel(<, Nat))
      BY <1>3, <1>5, NatLessThanWellFounded, WFMin, Zenon
    <2>2. \A j \in hits : m <= j
      <3>1. ASSUME NEW j \in hits, j < m PROVE FALSE
        <4>1. j \in Nat /\ m \in Nat
          BY <1>3
        <4>2. <<j, m>> \in OpToRel(<, Nat)
          BY <3>1, <4>1 DEF OpToRel
        <4> QED
          BY <2>1, <4>2
      <3> QED
        BY <1>3, <3>1
    <2>3. first \in hits
      BY <2>2
    <2> QED
      BY <1>2, <1>5, <2>3 DEF Location, hits
  <1> QED
    BY <1>4, <1>5

\* What a client finds for its directory is a place and a stamp.
LEMMA DiscoveryTyped ==
  ASSUME file \in [File -> Stamp], MaxStamp \in Nat, NEW d \in Dir
  PROVE  Discovery(d) \in Found
  <1>1. 0 \in Stamp
    BY DEF Stamp
  <1> QED
    BY <1>1, LocationTyped DEF Discovery, Found, File

\* The types hold at the start.
LEMMA TypeInit == Init => TypeOK
  <1> SUFFICES ASSUME Init PROVE TypeOK
    OBVIOUS
  <1>1. PICK scene \in Scene : file = [f \in File |-> IF f \in scene.there THEN 1 ELSE 0]
                               /\ budget = scene.budget
    BY DEF Init
  <1>2. 0 \in Stamp /\ 1 \in Stamp /\ MaxStamp \in Nat
    BY SceneAssumption DEF Stamp
  <1>3. file \in [File -> Stamp] /\ budget \in Budget
    BY <1>1, <1>2, SceneAssumption
  <1>4. \A d \in Dir : Discovery(d) \in Found /\ Location(d) \in Place \cup {None}
    BY <1>2, <1>3, DiscoveryTyped, LocationTyped
  <1>5. observed \in [Dir -> Found] /\ dirs \subseteq Place
    BY <1>4 DEF Init
  <1>6. config \in Stamp
    BY <1>3 DEF Init, File
  <1>7. shown \in [Dir -> [global : Stamp, project : Found]]
    BY <1>3, <1>4 DEF Init, Current, File
  <1>8. version = 0 /\ sent = [version |-> 0, config |-> config] /\ last = [d \in Dir |-> 0]
    BY DEF Init
  <1>9. 0 \in 0..0
    OBVIOUS
  <1>10. sent \in [version : 0..version, config : Stamp] /\ sent.version = 0
    BY <1>6, <1>8, <1>9
  <1>11. last \in [Dir -> 0..sent.version]
    BY <1>8, <1>9, <1>10
  <1>12. stamp \in Stamp /\ broken \subseteq File /\ lost \subseteq File /\ noticed \in BOOLEAN
    BY <1>2 DEF Init
  <1>13. /\ watched \subseteq Place /\ wanted \in {None} \cup SUBSET Place
         /\ deadline \in BOOLEAN /\ wpc \in {"wait", "bump", "flag"}
         /\ found \in {None} \cup SUBSET Place /\ drawn \in Stamp
    BY <1>5, <1>6 DEF Init
  <1>14. /\ mpc = "loop" /\ due \in BOOLEAN /\ flag \in BOOLEAN
         /\ invalidated \in BOOLEAN /\ failing \subseteq Dir
    BY DEF Init
  <1>15. seen \in 0..version /\ version \in Nat
    <2>1. seen = 0
      BY DEF Init
    <2> QED
      BY <1>8, <1>9, <2>1
  <1> QED
    BY <1>2, <1>3, <1>5, <1>6, <1>7, <1>8, <1>10, <1>11, <1>12, <1>13, <1>14, <1>15 DEF TypeOK, Found

\* A budget that is spent is a budget.
LEMMA BudgetTyped ==
  ASSUME budget \in Budget, NEW f \in File, NEW losses \in Nat, Spend(f, losses)
  PROVE  budget' \in Budget
  <1>1. budget.edits \in [File -> Nat] /\ budget.losses \in Nat /\ budget.edits[f] > 0
    BY DEF Budget, Spend
  <1>2. budget.edits[f] - 1 \in Nat
    BY <1>1
  <1>3. [budget.edits EXCEPT ![f] = budget.edits[f] - 1] \in [File -> Nat]
    BY <1>1, <1>2
  <1>4. budget.losses - losses \in Nat
    BY <1>1 DEF Spend
  <1> QED
    BY <1>3, <1>4 DEF Budget, Spend

\* An increment of the version leaves everything that refers to it typed.
LEMMA VersionTyped ==
  ASSUME TypeOK, version' = version + 1, UNCHANGED <<seen, sent, last>>
  PROVE  /\ version' \in Nat /\ seen' \in 0..version' /\ version \in Nat
         /\ sent' \in [version : 0..version', config : Stamp]
         /\ last' \in [Dir -> 0..sent'.version]
  <1>1. version \in Nat /\ seen \in 0..version /\ sent \in [version : 0..version, config : Stamp]
        /\ last \in [Dir -> 0..sent.version]
    BY DEF TypeOK
  <1>2. 0..version \subseteq 0..version'
    BY <1>1
  <1> QED
    BY <1>1, <1>2

\* A step of the watcher or a file that leaves the loop and the sidebars alone.
LEMMA WatcherTyped ==
  ASSUME TypeOK, noticed' \in BOOLEAN, watched' \subseteq Place,
         wanted' \in {None} \cup SUBSET Place, deadline' \in BOOLEAN,
         wpc' \in {"wait", "bump", "flag"}, config' \in Stamp, flag' \in BOOLEAN,
         UNCHANGED <<files, loop, entries, version, sent, sidebars>>
  PROVE  TypeOK'
  <1>1. UNCHANGED <<file, stamp, broken, budget, lost, mpc, due, seen, invalidated, dirs, found, drawn,
                    observed, failing, last, shown>>
    BY DEF files, loop, entries, sidebars
  <1> QED
    BY <1>1 DEF TypeOK

\* A step of the loop that leaves the files, the watcher and the sidebars alone.
LEMMA LoopTyped ==
  ASSUME TypeOK, wanted' \in {None} \cup SUBSET Place, config' \in Stamp, flag' \in BOOLEAN,
         mpc' \in {"loop", "resolve", "reload", "bump", "send", "broadcast"},
         due' \in BOOLEAN, seen' \in 0..version, invalidated' \in BOOLEAN,
         found' \in {None} \cup SUBSET Place, drawn' \in Stamp,
         sent' = sent,
         UNCHANGED <<files, noticed, watcher, version, dirs, entries, sidebars>>
  PROVE  TypeOK'
  <1>1. UNCHANGED <<file, stamp, broken, budget, lost, watched, deadline, wpc, observed, failing, last, shown>>
    BY DEF files, watcher, entries, sidebars
  <1> QED
    BY <1>1 DEF TypeOK

\* The daemon's own configuration is a stamp of a file.
LEMMA OwnTyped ==
  ASSUME TypeOK, ReloadOwn
  PROVE  config' \in Stamp
  BY DEF TypeOK, ReloadOwn, File

\* Every step keeps the types.
LEMMA TypeStep == TypeOK /\ [Next]_vars => TypeOK'
  <1> SUFFICES ASSUME TypeOK, [Next]_vars PROVE TypeOK'
    OBVIOUS
  <1>1. ASSUME NEW f \in File, Edit(f) PROVE TypeOK'
    <2>1. budget' \in Budget
      BY <1>1, BudgetTyped DEF Edit, TypeOK
    <2>2. stamp' \in Stamp /\ file' \in [File -> Stamp] /\ broken' \subseteq File
      <3>1. CASE stamp < MaxStamp /\ stamp' = stamp + 1 /\ file' = [file EXCEPT ![f] = stamp + 1]
                 /\ broken' \in {broken \ {f}, broken \cup {f}}
        <4>1. stamp + 1 \in Stamp
          BY <3>1, SceneAssumption DEF TypeOK, Stamp
        <4> QED
          BY <3>1, <4>1 DEF TypeOK
      <3>2. CASE file' = [file EXCEPT ![f] = 0] /\ broken' = broken \ {f} /\ stamp' = stamp
        <4>1. 0 \in Stamp
          BY SceneAssumption DEF Stamp
        <4> QED
          BY <3>2, <4>1 DEF TypeOK
      <3> QED
        BY <1>1, <3>1, <3>2 DEF Edit, Replace
    <2>3. lost' \subseteq File /\ noticed' \in BOOLEAN
      BY <1>1 DEF Edit, TypeOK
    <2>4. UNCHANGED <<watched, deadline, wpc, wanted, config, version, flag, mpc, due, seen, invalidated,
                      dirs, found, drawn, observed, failing, sent, last, shown>>
      BY <1>1 DEF Edit, watcher, loop, entries, sidebars
    <2> QED
      BY <2>1, <2>2, <2>3, <2>4 DEF TypeOK
  <1>2. CASE TakePaths
    <2>1. watched' \subseteq Place
      BY <1>2 DEF TakePaths, TypeOK
    <2> QED
      BY <1>2, <2>1, WatcherTyped DEF TakePaths, TypeOK
  <1>3. CASE Receive
    BY <1>3, WatcherTyped DEF Receive, TypeOK
  <1>4. CASE WatcherReload
    BY <1>4, OwnTyped, WatcherTyped DEF WatcherReload, TypeOK
  <1>5. CASE WatcherBump
    <2>1. /\ version' \in Nat /\ seen' \in 0..version'
          /\ sent' \in [version : 0..version', config : Stamp] /\ last' \in [Dir -> 0..sent'.version]
      BY <1>5, VersionTyped DEF WatcherBump, loop, sidebars
    <2>2. UNCHANGED <<file, stamp, broken, budget, lost, mpc, due, invalidated, dirs, found, drawn,
                      observed, failing, shown, noticed, watched, deadline, wanted, config, flag>>
      BY <1>5 DEF WatcherBump, files, loop, entries, sidebars
    <2> QED
      BY <1>5, <2>1, <2>2 DEF WatcherBump, TypeOK
  <1>6. CASE WatcherFlag
    BY <1>6, WatcherTyped DEF WatcherFlag, TypeOK
  <1>7. CASE Wake
    BY <1>7, LoopTyped DEF Wake, TypeOK
  <1>8. CASE LoadVersion
    <2>1. seen' \in 0..version
      BY <1>8 DEF LoadVersion, TypeOK
    <2> QED
      BY <1>8, <2>1, LoopTyped DEF LoadVersion, TypeOK
  <1>9. ASSUME NEW sweep \in BOOLEAN, Resolve(sweep) PROVE TypeOK'
    <2>1. PICK S \in SUBSET Dir, F \in SUBSET Dir :
              /\ F \subseteq S /\ Cardinality(F) <= budget.failures
              /\ budget' = [budget EXCEPT !.failures = @ - Cardinality(F)]
              /\ observed' = [d \in Dir |-> IF d \in S \ F THEN Discovery(d) ELSE observed[d]]
              /\ failing' = (failing \cup F) \ (S \ F)
              /\ mpc' \in {"reload", "send"}
      BY <1>9 DEF Resolve
    <2>2. observed' \in [Dir -> Found]
      BY <2>1, DiscoveryTyped, SceneAssumption DEF TypeOK, Found
    <2>3. Directories({observed'[d] : d \in Dir}) \subseteq Place
      BY <2>2 DEF Directories, Found
    <2>4. dirs' \subseteq Place /\ found' \in {None} \cup SUBSET Place
      BY <1>9, <2>3 DEF Resolve
    <2>5. failing' \subseteq Dir
      BY <2>1 DEF TypeOK
    <2>6. budget' \in Budget
      <3>1. IsFiniteSet(F)
        BY DirAssumption, FS_Subset
      <3>2. Cardinality(F) \in Nat
        BY <3>1, FS_CardinalityType
      <3> QED
        BY <2>1, <3>2 DEF TypeOK, Budget
    <2>7. UNCHANGED <<watched, deadline, wpc, last, shown>>
      BY <1>9 DEF Resolve, watcher, sidebars
    <2> QED
      BY <1>9, <2>1, <2>2, <2>4, <2>5, <2>6, <2>7 DEF Resolve, TypeOK, Found
  <1>10. CASE LoopReload
    BY <1>10, OwnTyped, LoopTyped DEF LoopReload, TypeOK
  <1>11. CASE LoopBump
    <2>1. version \in Nat /\ seen \in 0..version /\ sent \in [version : 0..version, config : Stamp]
      BY DEF TypeOK
    <2>2. version' \in Nat /\ seen' \in 0..version'
      BY <1>11, <2>1 DEF LoopBump, SeenAfterBump
    <2>3. 0..version \subseteq 0..version'
      BY <1>11, <2>1 DEF LoopBump
    <2>4. UNCHANGED <<file, stamp, broken, budget, lost, watched, deadline, wpc, observed, failing, last, shown>>
      BY <1>11 DEF LoopBump, files, watcher, entries, sidebars
    <2>5. sent' \in [version : 0..version', config : Stamp]
      BY <1>11, <2>1, <2>3 DEF LoopBump
    <2> QED
      BY <1>11, <2>2, <2>4, <2>5 DEF LoopBump, TypeOK
  <1>12. CASE SendPaths
    BY <1>12, LoopTyped DEF SendPaths, TypeOK
  <1>13. CASE Broadcast
    <2>1. version \in Nat /\ sent \in [version : 0..version, config : Stamp]
          /\ last \in [Dir -> 0..sent.version] /\ drawn \in Stamp
      BY DEF TypeOK
    <2>2. sent' \in [version : 0..version', config : Stamp] /\ sent'.version = version
      BY <1>13, <2>1 DEF Broadcast
    <2>3. last' \in [Dir -> 0..sent'.version]
      BY <1>13, <2>1, <2>2 DEF Broadcast, sidebars
    <2>4. UNCHANGED <<file, stamp, broken, budget, lost, watched, deadline, wpc, observed, failing, shown>>
      BY <1>13 DEF Broadcast, files, watcher, entries, sidebars
    <2> QED
      BY <1>13, <2>2, <2>3, <2>4 DEF Broadcast, TypeOK
  <1>14. ASSUME NEW d \in Dir, Apply(d) PROVE TypeOK'
    <2>1. last' \in [Dir -> 0..sent.version]
      BY <1>14 DEF Apply, TypeOK
    <2>2. Current(d) \in [global : Stamp, project : Found]
      BY DiscoveryTyped, SceneAssumption DEF TypeOK, Current, File
    <2>3. shown' \in [Dir -> [global : Stamp, project : Found]]
      BY <1>14, <2>2 DEF Apply, TypeOK, Found
    <2>4. UNCHANGED <<file, stamp, broken, budget, lost, watched, deadline, wpc, observed, failing,
                      mpc, due, seen, invalidated, dirs, found, drawn>>
      BY <1>14 DEF Apply, files, watcher, entries, loop
    <2> QED
      BY <1>14, <2>1, <2>3, <2>4 DEF Apply, TypeOK, Found
  <1>15. CASE UNCHANGED vars
    <2>1. UNCHANGED <<file, stamp, broken, budget, lost, noticed, watched, wanted, deadline, wpc, config,
                      version, flag, mpc, due, seen, invalidated, observed, failing, dirs, found, drawn,
                      sent, last, shown>>
      BY <1>15 DEF vars, files, watcher, entries, loop, sidebars
    <2> QED
      BY <2>1 DEF TypeOK
  <1> QED
    BY <1>1, <1>2, <1>3, <1>4, <1>5, <1>6, <1>7, <1>8, <1>9, <1>10, <1>11, <1>12, <1>13, <1>14, <1>15
    DEF Next, Watcher, Loop

\* The variables of the files, the watcher, the loop and the sidebars keep their
\* types; versions go from the daemon to the snapshot to the sidebars and none
\* is ahead of where it comes from.
THEOREM TypeCorrect == Spec => []TypeOK
  BY TypeInit, TypeStep, PTL DEF Spec

-----------------------------------------------------------------------------
(* Changes that are reported. *)

\* What a directory should show depends on the files and on whether they parse.
LEMMA SameFiles ==
  ASSUME UNCHANGED <<file, broken>>, NEW d \in Dir
  PROVE  Current(d)' = Current(d) /\ (Parses(d)' <=> Parses(d))
  <1>1. Location(d)' = Location(d)
    BY DEF Location, Exists
  <1>2. Discovery(d)' = Discovery(d)
    BY <1>1 DEF Discovery
  <1> QED
    BY <1>1, <1>2 DEF Current, Parses

\* A step that changes no file keeps sidebars told, if it keeps what tells them.
LEMMA ToldKept ==
  ASSUME Told, UNCHANGED <<file, broken, last, shown>>,
         \A d \in Dir : noticed \/ deadline \/ wpc = "bump" \/ version # last[d] =>
                        noticed' \/ deadline' \/ wpc' = "bump" \/ version' # last[d]
  PROVE  Told'
  BY SameFiles DEF Told

\* As long as no change is lost, every step leaves what will tell a sidebar.
LEMMA ToldStep == TypeOK /\ Told /\ [Next]_vars /\ [Reported]_vars => Told'
  <1> SUFFICES ASSUME TypeOK, Told, [Next]_vars, [Reported]_vars PROVE Told'
    OBVIOUS
  <1>0. version \in Nat /\ \A d \in Dir : last[d] \in 0..version
    <2>1. version \in Nat /\ sent.version \in 0..version /\ \A d \in Dir : last[d] \in 0..sent.version
      BY DEF TypeOK
    <2> QED
      BY <2>1
  <1>1. ASSUME NEW f \in File, Edit(f) PROVE Told'
    <2>1. CASE noticed'
      BY <2>1 DEF Told
    <2>2. CASE UNCHANGED <<file, broken>>
      <3>1. UNCHANGED <<deadline, wpc, version, last, shown>> /\ (noticed => noticed')
        BY <1>1 DEF Edit, watcher, sidebars
      <3> QED
        BY <2>2, <3>1, ToldKept
    <2>3. CASE UNCHANGED vars
      <3>1. UNCHANGED <<file, broken>>
        BY <2>3 DEF vars, files
      <3>2. UNCHANGED <<deadline, wpc, version, last, shown>> /\ noticed' = noticed
        BY <2>3 DEF vars, watcher, sidebars
      <3> QED
        BY <3>1, <3>2, ToldKept
    <2> QED
      BY <2>1, <2>2, <2>3 DEF Reported
  <1>2. CASE Watcher
    <2>1. UNCHANGED <<file, broken, last, shown>>
      BY <1>2 DEF Watcher, TakePaths, Receive, WatcherReload, WatcherBump, WatcherFlag, files, sidebars
    <2>2. CASE TakePaths \/ WatcherFlag
      BY <2>1, <2>2, ToldKept DEF TakePaths, WatcherFlag
    <2>3. CASE Receive
      <3>1. deadline'
        BY <2>3 DEF Receive
      <3> QED
        BY <2>1, <3>1, ToldKept
    <2>4. CASE WatcherReload
      <3>1. wpc' = "bump"
        BY <2>4 DEF WatcherReload
      <3> QED
        BY <2>1, <3>1, ToldKept
    <2>5. CASE WatcherBump
      <3>1. \A d \in Dir : version' # last[d]
        BY <1>0, <2>5 DEF WatcherBump
      <3> QED
        BY <2>1, <3>1, ToldKept
    <2> QED
      BY <1>2, <2>2, <2>3, <2>4, <2>5 DEF Watcher
  <1>3. CASE Loop
    <2>1. CASE LoopBump
      <3>1. \A d \in Dir : version' # last[d]
        BY <1>0, <2>1 DEF LoopBump
      <3>2. UNCHANGED <<file, broken, last, shown>>
        BY <2>1 DEF LoopBump, files, sidebars
      <3> QED
        BY <3>1, <3>2, ToldKept
    <2>2. ASSUME NEW sweep \in BOOLEAN, Resolve(sweep) PROVE Told'
      <3>1. UNCHANGED <<file, broken, last, shown, noticed, deadline, wpc, version>>
        BY <2>2 DEF Resolve, watcher, sidebars
      <3> QED
        BY <3>1, ToldKept
    <2>3. CASE Wake \/ LoadVersion \/ LoopReload \/ SendPaths \/ Broadcast
      <3>1. UNCHANGED <<file, broken, last, shown, noticed, deadline, wpc, version>>
        BY <2>3 DEF Wake, LoadVersion, LoopReload, SendPaths, Broadcast, files, watcher, sidebars
      <3> QED
        BY <3>1, ToldKept
    <2> QED
      BY <1>3, <2>1, <2>2, <2>3 DEF Loop
  <1>4. ASSUME NEW d \in Dir, Apply(d) PROVE Told'
    <2>1. UNCHANGED <<file, broken, noticed, deadline, wpc, version>>
      BY <1>4 DEF Apply, files, watcher
    <2>2. ASSUME NEW e \in Dir, Parses(e)', shown'[e] # Current(e)'
          PROVE  (noticed \/ deadline \/ wpc = "bump" \/ version # last[e])'
      <3>1. Parses(e) /\ Current(e)' = Current(e)
        BY <2>1, <2>2, SameFiles
      <3>2. CASE e = d
        BY <1>4, <2>2, <3>1, <3>2 DEF Apply, TypeOK
      <3>3. CASE e # d
        <4>1. shown'[e] = shown[e] /\ last'[e] = last[e]
          BY <1>4, <3>3 DEF Apply, TypeOK
        <4> QED
          BY <2>1, <2>2, <3>1, <4>1 DEF Told
      <3> QED
        BY <3>2, <3>3
    <2> QED
      BY <2>2 DEF Told
  <1>5. CASE UNCHANGED vars
    <2>1. UNCHANGED <<file, broken, last, shown, noticed, deadline, wpc, version>>
      BY <1>5 DEF vars, files, watcher, sidebars
    <2> QED
      BY <2>1, ToldKept
  <1> QED
    BY <1>1, <1>2, <1>3, <1>4, <1>5 DEF Next

\* As long as every change is reported by an event or an overflow, no sidebar
\* stays behind: it is told by the watcher, whatever the loop finds, fails to
\* look up or increments meanwhile (spawn_config_watcher; run `configmixed` shows
\* why the hypothesis is needed).
THEOREM ReportedIsTold == Spec /\ [][Reported]_vars => []StaleIsTold
  <1>1. Init => Told
    BY DEF Init, Told
  <1>2. Told => StaleIsTold
    BY DEF Told, StaleIsTold
  <1> QED
    BY <1>1, <1>2, ToldStep, TypeCorrect, PTL DEF Spec
=============================================================================
