---------------------------- MODULE ConfigReload ----------------------------
(***************************************************************************)
(* How an edited configuration reaches the sidebars.  The daemon           *)
(* (src/src/command/sidebar/daemon.rs) looks for the project configuration *)
(* of every agent's directory, at intervals; a thread watches the          *)
(* directories found so far and that of the global configuration.  Either  *)
(* of them increments a version, which travels in the snapshots; a sidebar *)
(* reads the files again when the version is not the one it has seen.      *)
(***************************************************************************)
EXTENDS Naturals, Sequences, FiniteSets

CONSTANTS
    Global,      \* the global configuration
    Place,       \* project configurations, each in a directory of its own
    Dir,         \* directories of agents, each with a sidebar
    Search,      \* where the configuration of a directory is looked for
    None,        \* no configuration, no message
    MaxStamp,    \* bound: states of files
    Scene        \* what a behaviour starts from, and bounds on what it may do

File == {Global} \cup Place
Stamp == 0..MaxStamp          \* 0: there is no such file
Budget == [edits : [File -> Nat], losses : Nat, failures : Nat]

ASSUME PlacesAssumption == Global \notin Place /\ None \notin Place
ASSUME SearchAssumption == Search \in [Dir -> Seq(Place)]
ASSUME DirAssumption == IsFiniteSet(Dir)
ASSUME SceneAssumption ==
    MaxStamp \in Nat \ {0} /\ Scene \subseteq [there : SUBSET File, budget : Budget]

VARIABLES
    file, stamp, broken, budget, \* the files, those that do not parse
    lost,        \* files whose last change no event reported
    noticed,     \* an event, or the mark of an overflow, waits in the watcher
    watched,     \* project directories that are watched
    wanted,      \* directories the loop has sent, not yet taken
    deadline,    \* pending_reload_at
    wpc,         \* the watcher's next step
    config,      \* the daemon's own configuration, of the global file
    version, flag,               \* config_version, publication_dirty
    mpc, due,    \* the loop's next step, publish_pending
    seen, invalidated,           \* seen_config_version and what follows from it
    observed, failing,           \* entries of the project configurations
    dirs, found, \* last_config_dirs, and the directories just found
    drawn, sent, \* the configuration for the snapshot, the last snapshot
    last, shown  \* of each sidebar: last_config_version, what it has read

files == <<file, stamp, broken, budget, lost>>
watcher == <<watched, deadline, wpc>>
entries == <<observed, failing>>
loop == <<mpc, due, seen, invalidated, dirs, found, drawn>>
sidebars == <<last, shown>>
vars == <<files, noticed, watcher, wanted, config, version, flag, loop, entries, sent, sidebars>>

Exists(f) == file[f] # 0

\* discover_project_config: the first place where there is a configuration.
Location(d) ==
    LET hits == {i \in DOMAIN Search[d] : Exists(Search[d][i])}
    IN IF hits = {} THEN None
       ELSE Search[d][CHOOSE i \in hits : \A j \in hits : i <= j]

\* ProjectConfigDiscovery: the location, and the stamp of the file.
Discovery(d) ==
    [at |-> Location(d), stamp |-> IF Location(d) = None THEN 0 ELSE file[Location(d)]]

\* What a sidebar of the directory reads, if it parses.
Current(d) == [global |-> file[Global], project |-> Discovery(d)]
Parses(d) == {Global, Location(d)} \cap broken = {}

Init ==
    /\ \E scene \in Scene :
           /\ file = [f \in File |-> IF f \in scene.there THEN 1 ELSE 0]
           /\ budget = scene.budget
    /\ stamp = 1 /\ broken = {} /\ lost = {} /\ noticed = FALSE
    /\ observed = [d \in Dir |-> Discovery(d)] /\ failing = {}
    /\ dirs = {Location(d) : d \in Dir} \ {None}
    /\ watched = dirs /\ found = None /\ wanted = None
    /\ deadline = FALSE /\ wpc = "wait"
    /\ config = file[Global] /\ version = 0 /\ flag = FALSE
    /\ mpc = "loop" /\ due = FALSE /\ seen = 0 /\ invalidated = FALSE
    /\ drawn = config /\ sent = [version |-> 0, config |-> config]
    /\ last = [d \in Dir |-> 0] /\ shown = [d \in Dir |-> Current(d)]

-----------------------------------------------------------------------------
(* Somebody edits, creates or deletes a file. *)

Watched(f) == f = Global \/ f \in watched

\* The file is replaced by a state it has not had before, or deleted.
Replace(f) ==
    \/ /\ stamp < MaxStamp
       /\ stamp' = stamp + 1 /\ file' = [file EXCEPT ![f] = stamp + 1]
       /\ broken' \in {broken \ {f}, broken \cup {f}}
    \/ /\ Exists(f) /\ file' = [file EXCEPT ![f] = 0]
       /\ broken' = broken \ {f} /\ UNCHANGED stamp

Spend(f, losses) ==
    /\ budget.edits[f] > 0 /\ budget.losses >= losses
    /\ budget' = [edits |-> [budget.edits EXCEPT ![f] = @ - 1],
                  losses |-> budget.losses - losses, failures |-> budget.failures]

Edit(f) ==
    /\ Replace(f)
    /\ \/ /\ Watched(f) /\ Spend(f, 0)
          /\ noticed' = TRUE /\ lost' = lost \ {f}
       \/ /\ ~Watched(f) /\ Spend(f, 0)
          /\ UNCHANGED <<noticed, lost>>
       \* The watcher gets an error, which it only logs, or nothing.
       \/ /\ Watched(f) /\ Spend(f, 1)
          /\ lost' = lost \cup {f} /\ UNCHANGED noticed
    /\ UNCHANGED <<watcher, wanted, config, version, flag, loop, entries, sent, sidebars>>

-----------------------------------------------------------------------------
(* The thread that watches. *)

\* The directories sent last replace what is watched; the global one stays.
TakePaths ==
    /\ wpc = "wait" /\ wanted # None
    /\ watched' = wanted /\ wanted' = None
    /\ UNCHANGED <<files, noticed, deadline, wpc, config, version, flag, loop, entries, sent, sidebars>>

\* The first event of a burst sets the deadline.
Receive ==
    /\ wpc = "wait" /\ noticed
    /\ noticed' = FALSE /\ deadline' = TRUE
    /\ UNCHANGED <<files, watched, wpc, wanted, config, version, flag, loop, entries, sent, sidebars>>

\* reload_daemon_config: what does not parse leaves the configuration as it was.
ReloadOwn == config' = IF Global \in broken THEN config ELSE file[Global]

\* The deadline, 200 ms after the event, has passed.
WatcherReload ==
    /\ wpc = "wait" /\ deadline
    /\ deadline' = FALSE /\ ReloadOwn /\ wpc' = "bump"
    /\ UNCHANGED <<files, noticed, watched, wanted, version, flag, loop, entries, sent, sidebars>>

WatcherBump ==
    /\ wpc = "bump"
    /\ version' = version + 1 /\ wpc' = "flag"
    /\ UNCHANGED <<files, noticed, watched, deadline, wanted, config, flag, loop, entries, sent, sidebars>>

WatcherFlag ==
    /\ wpc = "flag"
    /\ flag' = TRUE /\ wpc' = "wait"
    /\ UNCHANGED <<files, noticed, watched, deadline, wanted, config, version, loop, entries, sent, sidebars>>

-----------------------------------------------------------------------------
(* The main loop. *)

\* The flag is taken, or the agents are observed again, at least every two
\* seconds: either makes a publication due.
Wake ==
    /\ mpc = "loop" /\ ~due
    /\ due' = TRUE /\ flag' = FALSE
    /\ UNCHANGED <<files, noticed, watcher, wanted, config, version, mpc, seen, invalidated,
                   dirs, found, drawn, entries, sent, sidebars>>

LoadVersion ==
    /\ mpc = "loop" /\ due
    /\ due' = FALSE /\ mpc' = "resolve"
    /\ invalidated' = (version # seen) /\ seen' = version
    /\ UNCHANGED <<files, noticed, watcher, wanted, config, version, flag, dirs, found, drawn,
                   entries, sent, sidebars>>

\* Mutant: a file that was edited where it is counts as unchanged.
ChangedPlace(S) == \E d \in S : d \in failing \/ observed[d].at # Location(d)

\* Of the directories that were looked up, one has another configuration, or
\* could not be looked up before.
Changed(S) == \E d \in S : d \in failing \/ observed[d] # Discovery(d)

\* Mutant: a directory without a configuration is to be watched as well.
DirectoriesAll(discoveries) == {o.at : o \in discoveries}

\* Where configurations have been found.
Directories(discoveries) == {o.at : o \in discoveries} \ {None}

\* Mutant: the loop reports what a sweep finds only.
ReportOnSweep(S, sweep) == Changed(S) /\ sweep

\* A change of the version already requests a reload.
Report(S, sweep) == Changed(S) /\ ~invalidated

\* ProjectConfigCache::resolve.  All are looked up when 30 seconds have passed
\* since the last sweep, and when the version has changed; otherwise those
\* whose time has come, a retry after a failure or 30 seconds.
Resolve(sweep) ==
    /\ mpc = "resolve"
    /\ \E S \in (IF sweep \/ invalidated THEN {Dir} ELSE SUBSET Dir), F \in SUBSET Dir :
           /\ F \subseteq S /\ Cardinality(F) <= budget.failures
           /\ budget' = [budget EXCEPT !.failures = @ - Cardinality(F)]
           /\ observed' = [d \in Dir |-> IF d \in S \ F THEN Discovery(d) ELSE observed[d]]
           /\ failing' = (failing \cup F) \ (S \ F)
           /\ mpc' = IF Report(S \ F, sweep) THEN "reload" ELSE "send"
    /\ LET now == Directories({observed'[d] : d \in Dir})
       IN /\ found' = IF sweep \/ invalidated \/ now # dirs THEN now ELSE None
          /\ dirs' = now
    /\ UNCHANGED <<file, stamp, broken, lost, noticed, watcher, wanted, config, version, flag,
                   due, seen, invalidated, drawn, sent, sidebars>>

LoopReload ==
    /\ mpc = "reload"
    /\ ReloadOwn /\ mpc' = "bump"
    /\ UNCHANGED <<files, noticed, watcher, wanted, version, flag, due, seen, invalidated,
                   dirs, found, drawn, entries, sent, sidebars>>

\* A concurrent increment of the watcher is not consumed as the loop's own.
SeenAfterBump == IF version = seen THEN version + 1 ELSE seen

LoopBump ==
    /\ mpc = "bump"
    /\ version' = version + 1 /\ seen' = SeenAfterBump
    /\ mpc' = "send"
    /\ UNCHANGED <<files, noticed, watcher, wanted, config, flag, due, invalidated,
                   dirs, found, drawn, entries, sent, sidebars>>

\* The directories go to the watcher; the snapshot takes its settings.
SendPaths ==
    /\ mpc = "send"
    /\ wanted' = IF found = None THEN wanted ELSE found
    /\ found' = None /\ drawn' = config
    /\ mpc' = "broadcast"
    /\ UNCHANGED <<files, noticed, watcher, config, version, flag, due, seen, invalidated,
                   dirs, entries, sent, sidebars>>

\* The version is read again, after all that.
Broadcast ==
    /\ mpc = "broadcast"
    /\ sent' = [version |-> version, config |-> drawn]
    /\ mpc' = "loop"
    /\ UNCHANGED <<files, noticed, watcher, wanted, config, version, flag, due, seen, invalidated,
                   dirs, found, drawn, entries, sidebars>>

-----------------------------------------------------------------------------
(* A sidebar: apply_snapshot and reload_config_from_disk. *)

Apply(d) ==
    /\ sent.version # last[d]
    /\ last' = [last EXCEPT ![d] = sent.version]
    /\ shown' = IF Parses(d) THEN [shown EXCEPT ![d] = Current(d)] ELSE shown
    /\ UNCHANGED <<files, noticed, watcher, wanted, config, version, flag, loop, entries, sent>>

-----------------------------------------------------------------------------
Watcher == TakePaths \/ Receive \/ WatcherReload \/ WatcherBump \/ WatcherFlag
Loop ==
    \/ Wake \/ LoadVersion \/ (\E sweep \in BOOLEAN : Resolve(sweep))
    \/ LoopReload \/ LoopBump \/ SendPaths \/ Broadcast

Next == (\E f \in File : Edit(f)) \/ Watcher \/ Loop \/ (\E d \in Dir : Apply(d))

Spec == Init /\ [][Next]_vars

\* The threads and the sidebars run on, and 30 seconds pass.
Fairness ==
    /\ WF_vars(TakePaths) /\ WF_vars(Receive) /\ WF_vars(WatcherReload)
    /\ WF_vars(WatcherBump) /\ WF_vars(WatcherFlag)
    /\ WF_vars(Loop) /\ SF_vars(Resolve(TRUE))
    /\ \A d \in Dir : WF_vars(Apply(d))

FairSpec == Spec /\ Fairness

-----------------------------------------------------------------------------
(* Properties. *)

\* Every variable has its type; no version is ahead of the one it was taken from.
TypeOK ==
    /\ file \in [File -> Stamp] /\ stamp \in Stamp /\ broken \subseteq File
    /\ budget \in Budget /\ lost \subseteq File /\ noticed \in BOOLEAN
    /\ watched \subseteq Place /\ wanted \in {None} \cup SUBSET Place
    /\ deadline \in BOOLEAN /\ wpc \in {"wait", "bump", "flag"}
    /\ config \in Stamp /\ version \in Nat /\ flag \in BOOLEAN
    /\ mpc \in {"loop", "resolve", "reload", "bump", "send", "broadcast"}
    /\ due \in BOOLEAN /\ seen \in 0..version /\ invalidated \in BOOLEAN
    /\ observed \in [Dir -> [at : Place \cup {None}, stamp : Stamp]] /\ failing \subseteq Dir
    /\ dirs \subseteq Place /\ found \in {None} \cup SUBSET Place
    /\ drawn \in Stamp /\ sent \in [version : 0..version, config : Stamp]
    /\ last \in [Dir -> 0..sent.version]
    /\ shown \in [Dir -> [global : Stamp, project : [at : Place \cup {None}, stamp : Stamp]]]

\* A sidebar that does not show the configuration it would read will be told:
\* a reload is on its way through the watcher or the loop, or the next look at
\* the directory finds the change.  Only a change of the global file whose
\* event was lost is never told.  (ProjectConfigCache::resolve leaves a change
\* it finds to the watcher when the version is another one: "Watcher
\* invalidation already requests a client reload.")
StaleIsTold ==
    \A d \in Dir :
        Parses(d) /\ shown[d] # Current(d) =>
            \/ Global \in lost
            \/ noticed \/ deadline \/ wpc = "bump" \/ mpc \in {"reload", "bump"}
            \/ version # last[d]
            \/ observed[d] # Discovery(d) \/ d \in failing

\* Every sidebar comes to show the configuration of its directory, and the
\* daemon's own is the global one, once the files stay as they are, parse, and
\* no event of the global file was lost.
EventuallyReloaded ==
    \A d \in Dir :
        <>[](Global \in lost \/ ~Parses(d)
             \/ (shown[d] = Current(d) /\ sent.config = file[Global]))
=============================================================================
