# workmux: formal models and proofs

workmux gives every git worktree its own tmux window (or session) and runs
coding agents in them.  It is not one program but many short ones: status
hooks started by the agents, interactive commands, a sidebar daemon with
several threads, one sidebar process per tmux window, background workers.
They meet in files, in one file lock, in a socket, in signals and in tmux
itself.  This directory models that meeting in TLA+, checks small instances
with TLC and proves what matters most with TLAPS for every instance.

Source paths below are relative to `src/src/` unless they start with `docs/`.

## 1. The system

| Component | State it keeps | Operations | What makes it hard |
|---|---|---|---|
| Agent state store (`state/store.rs`, `util.rs`) | one JSON file per pane, a recovery manifest, a lock file | register and overwrite, archive, compact, reconcile, prune, consume, migrate | killed processes and power losses between steps, old observations, reused pane ids |
| Status hooks (`state/mod.rs`, `command/set_window_status.rs`) | - | report a status for the pane they run in | the server may have restarted since they were started |
| Resurrect (`command/resurrect.rs`, `workflow/resurrect.rs`) | a plan, in memory | plan, open worktrees, consume the plan | the store changes while worktrees are opened |
| Agent identity (`multiplexer/mod.rs`, `multiplexer/tmux.rs`) | tmux's own | server boot id, panes and their processes | pids, pane ids and start seconds repeat |
| Sidebar broadcast (`command/sidebar/daemon.rs`, `client.rs`, `runtime.rs`) | dirty flags, wake channel, timers, cached snapshot, client streams | observe, publish, broadcast, accept, receive, show | six kinds of threads, lost wake-ups, order of snapshots |
| Sidebar lifecycle (`daemon_ctrl.rs`, `sidebar/mod.rs`, `panes.rs`, `hooks.rs`) | socket file, tmux options, hooks, panes | on, off, sync, quit, ensure, kill, exit | an old and a new daemon use the same names |
| Sidebar workers (`daemon.rs`, `snapshot.rs`, `config.rs`) | git statuses, watches, config version, inactivity entries | refresh, watch, poll, audit, reload, capture | lost file events, a cache by directory of what belongs to worktrees, counters bumped by two threads, ages in whole seconds |
| Sidebar interface (`app.rs`, `ui.rs`, `layout_tree.rs`, `template/`) | what one pane shows | draw, select, fold | sequential |
| Agent commands (`reap_agents.rs`, `wait.rs`, `last_done.rs`, `status.rs`) | `settings.json` | reap, wait, cycle | delete by key, polling, unlocked read-modify-write |
| Run and exec (`command/run.rs`, `exec.rs`, `state/run.rs`) | a run directory | start, stream, wait, time out | the result races the timeout |
| Worktree creation (`workflow/create.rs`, `setup.rs`, `open.rs`, `git/config_lock.rs`) | git worktrees, branches, metadata, windows | create, move changes by stash, roll back | checks before the lock, one stash for all worktrees |
| Worktree cleanup (`workflow/cleanup*.rs`, `remove.rs`) | quarantine directories, pending records | quarantine, prune, delete, deferred worker | crash between steps, reuse of the path |
| Merge and rename (`workflow/merge.rs`, `rename.rs`) | - | multi-step changes of git, tmux and the store | failure in the middle |
| Queries, dashboard, other multiplexers, sandbox, configuration | caches | read and display, drive external programs | little shared state (freshness cache, connection count) |

How they interact:

* Every agent calls the status hook.  The hook takes the state lock, asks tmux
  for the server's boot id, compacts what former servers left, and writes its
  pane's file.
* The daemon and every command that lists agents read the files, observe the
  panes and prune what is stale; the daemon also compacts.
* `resurrect` reads files and manifest under the lock, opens worktrees without
  it, and takes it again to consume what it has opened.
* tmux hooks signal the daemon; worker threads raise its flags; it broadcasts
  snapshots over a Unix socket to the sidebar processes, which reconnect when
  they lose it.
* Creation, cleanup, rename and merge change git's files and tmux, and rename
  rewrites paths in the store.

What makes each component correct:

* store: an agent of an ended server stays recoverable until it is resurrected
  or replaced; records of the running server stay in place; counts never
  promise less than what an entry holds; a former server's records are
  eventually moved; only stale records are pruned;
* broadcast: no lost wake-up, no missed and no reordered snapshot, and every
  pane eventually current;
* lifecycle: a pane that stays gets its daemon back, a daemon that nobody uses
  ends, no session gets a sidebar it was not asked for;
* creation, cleanup, rename: no worktree removed that was not asked for, no
  half-made one left without a record, no lost changes;
* merge: what was merged is in the target that was asked for, and the target is
  left clean;
* run: everything printed is shown, the exit code is the command's own, nothing
  is left behind, and `run` returns;
* git worker: a status belongs to the directory's worktree, no reported change is
  forgotten, and the sidebar becomes current although events may be lost;
* configuration: a sidebar that shows an old configuration is told.

## 2. Modules

| Module | What it is |
|---|---|
| `AgentStore` | files, manifest, lock, hooks, daemons, reconciling commands and resurrects of one tmux context |
| `AgentStoreProof`, `MCAgentStore` | theorems about it; its instances for TLC |
| `SidebarFeed` | abstract: what a sidebar pane promises to show |
| `SidebarBroadcast` | the daemon's threads, its socket, the sidebar processes; implements `SidebarFeed` |
| `SidebarBroadcastProof`, `MCSidebarBroadcast` | theorems, the refinement among them; instances |
| `SidebarLifecycle` | commands, hooks, panes and daemons that share a socket path and tmux options |
| `SidebarLifecycleProof`, `MCSidebarLifecycle` | theorems; instances |
| `Worktrees` | creating, removing and renaming worktrees of one repository |
| `Merge` | extends `Worktrees`: merging, then the same cleanup |
| `WorktreesProof`, `MergeProof` | theorems about each; the second extends the first |
| `MCMerge` | instances of both: which commands run together |
| `RunPromise` | abstract: what `workmux run` promises its caller |
| `RunExec` | `run`, `_exec` and the command; implements `RunPromise` |
| `RunExecProof`, `MCRunExec` | theorems, the refinement among them; instance |
| `GitWorker` | the daemon's git worker, its watches, and the loop's side of it |
| `GitWorkerProof`, `MCGitWorker` | theorems; instance |
| `ConfigReload` | configuration files, the watcher thread, the loop, the sidebars |
| `ConfigReloadProof`, `MCConfigReload` | theorems; instances |

Definitions that start with "Mutant:" in their comment are plausible bugs.
No action uses them: putting one in the place of the definition that follows
shows that a property notices the bug.

### AgentStore

State: `flat` is the set of agent files, one record per pane; `disk` is what of
`flat` a power loss leaves (`write_atomic` does not fsync, `write_atomic_durable`,
used for the manifest, does); `entries` and `compacted` are the manifest;
`lock` is its holder.  `boot` numbers tmux server lifecycles, `live` gives the
process of each pane.  Each process has a step `pc` and its memory: the boot id
it observed (`obs`), the records a compaction has still to delete (`batch`), the
panes and records of a reconciliation, the plan of a resurrect.  `ended` and
`restored` are history: which agents were on file when their server ended, and
which of them a resurrect has reopened.

Actions, each one visible effect, so that a process may be killed between any two:

* tmux and the machine: `PaneChange`, `ServerRestart`, `Flush`, `Crash`, `PowerLoss`;
* compaction by the hook or a daemon (`compact_context_locked`): `CompactSkip`,
  `CompactMerge`, `CompactDelete` for each file, `CompactFinalize`, `CompactFails`;
* hook (`persist_agent_snapshot`): `HookLock`, `HookNoServer`, `HookBoot`,
  `HookDone`, `HookArchive`, `HookWrite`, `HookOverwrite`, `HookFinalize`,
  and the short transactions `ClearStatus` and `Touch`;
* reconciliation: `CliRead`, `CliPanes`, `CliBoot` for commands, `DaemonObserve`,
  `DaemonLock`, `DaemonRead` for daemons, then `Judge`, `Prune`, `EndPass`;
* resurrect: `MakePlan`, `Open`, `OpenFails`, `ResurrectDone`, `ConsumeLock`,
  `ConsumeFlat`, `ConsumeSave`.

Simplifications: a working directory stands for its worktree; the plan picks one
source per directory and resumes any of the equals; a failed write of the
manifest during consumption is the same as the resurrect being killed there;
files that cannot be parsed are never touched by the code and are left out; so are
records without a boot id, which older versions wrote and which are never
taken for those of another server (`store.rs:454`, `:798`, `:1522`); the status
and prompt of a record do not matter to these properties and are left out;
whether the foreground command of a pane has changed is any answer (`left` in
`Judge`); `migrate_worktree_paths` and the choice between equal recovery candidates
are planned.

### SidebarFeed and SidebarBroadcast

A snapshot is the version of tmux and the version of the worker caches it was
made from.  `SidebarFeed` says that a pane shows versions the sources have had
and never goes back.

`SidebarBroadcast` has the threads of the code: signal thread and workers
(`SignalTaken`, `WorkChange`, `RaiseFlag`, `WakeLoop`), main loop
(`TakeObservation`, `TakePublication`, `Observe`, `Publish`, `Send`, `Join`,
`Wake`, `Tick`, `CountClients`, and the timers `TimerExpires`, `PollDue`),
accept thread (`Accept`, `ReadCache`, `WriteFresh`, `Register`, and `AcceptFails`,
which ends it for good while the other threads go on), and in each
sidebar process a reader and an event loop (`Connect`, `ReadSnapshot`,
`WakePane`, `Show`; `ClosePane` ends the process).  A mutex section is one
action; the writes of a broadcast, which the code makes after it has dropped
the mutex, are one action each.  A stream is a client with the number of its
connection, so that what was meant for an earlier connection is told apart.

`Unsendable` are the snapshots that cannot be serialized or exceed 1 MiB:
`Publish` gives them up after it has cleared the request, and what was sent last
stays in the cache.

Simplifications: a query of tmux takes one moment; all workers are one; the
wake-up of a pane goes through a channel and a forwarding thread, modelled as a
flag; the daemon neither starts nor exits here (see `SidebarLifecycle`).
A change in tmux for which no hook is installed, such as a new title, is seen
only by the poll, like a failed query.

### SidebarLifecycle

State: the tmux options (`enabled`, `scope`, `optouts`, `pid`) and `hooks`; `sock`,
the daemon that bound the socket path; the windows and their sidebar panes;
`conn`, the daemon a pane is connected to; a step `dpc` for each daemon.  The
user, the sync that the hook of a new window starts and the process of a pane
are sequences of steps in `todo`: `On`, `OnSession`, `OffSession`, `StopAll`,
`CleanUp` and `Ensure` are such sequences, in the order of the code, and each
step is one action (`SetOption`, `Terminate`, `KillPanes`, `CreatePanes`,
`FindDaemon`, `RemoveSocket`, `Spawn`, `SocketThere`, `SocketMissing`, `ReadScope`,
`Decide`, `Exit`).  `Start`, `Quit` and `OpenWindow` start them; `ClosePane` and
`CloseWindow` end them.  A daemon starts (`RemoveStaleSocket`, `Bind`,
`Announce`), runs out of clients (`Lonely`, `Used`), stops (`Stop`,
`RemoveOwnSocket`, `UnsetPid`, `UnsetScope`) or is killed (`Crash`).  `asked` is
history: the sessions the sidebar was ever turned on for.

Simplifications: a toggle is the `on` or the `off` it decides for; a tmux command
is atomic, so is the creation or killing of the panes of several windows, and
so are the two reads of `current_scope`; two processes that create a pane in one
window at once, reflow, layouts and sizes are left out; the second in which a
broken connection still counts as a client is not told apart; a daemon whose
accept thread has ended (see `SidebarBroadcast`) is not among the daemons here.

### Worktrees and Merge

State: `tree` gives the directory at each path by its identity (device and inode
in the code), so that a path used again is told from the path as it was; `made`
is the branch each worktree was made for; `reg`, `locked` and `branches` are git's
registrations, their locks and the branches; `base` and `meta` are the entries of
git's configuration; `trash` and `pending` are the quarantine and its records;
`holder` has the configuration lock.  `Merge` adds the uncommitted work (`dirty`),
what each branch contains (`commits`), and the main worktree: the branch it is on
(`root`), what is staged (`index`), and a merge that has stopped (`halted`).
Each process has a step `pc`, its `job` and, to merge, its `plan`.

* create (`create.rs`): `StartCreate`, `ReadBranch`, `InspectPath`, `ClearPath`
  (before the lock), `Lock`, `StoreBase`, `AddWorktree`, `StoreMeta`, `SetUp`;
  `UndoCreate` leads into the cleanup, as the code does without the multiplexer;
* remove (`remove.rs`, `cleanup*.rs`): `StartRemove`, `Capture`, `AwaitClose` (the
  deferred worker), `Unlock`, `Record`, `Validate`, `MoveAway`, `Prune`,
  `DropBranch`, `DropMeta`, `Delete`, `Forget`;
* rename (`rename.rs`): `StartRename`, `MigrateMeta`, `MoveWorktree`, `RestoreMeta`;
* merge (`merge.rs`): `StartMerge`, `CheckSource`, `CommitStaged`, `CheckTarget`,
  `Switch`, then `MergeHere` and `AbortMerge`, or `Rebase` and `MergeHere`, or
  `Squash`, `ResetTarget` and `CommitSquash`; the cleanup follows;
* `Stop` kills a process, or lets a call that changes nothing fail;
* in `MigrateMeta` and `RestoreMeta` git may fail to list the metadata, which
  the code takes for none (`CopySection`; `unread` of the job records it), and may
  fail to remove the old section, which it does not look at (`DropSection`).

Simplifications: of rename, the renaming of the branch, of windows and of the
agents' records is left out, and a rename does not run beside a creation, since
git moves a worktree *into* a directory that has come up at the target
(`CastsAssumption`); targets of a merge have no worktree of their own; setting up
a worktree is one step, deleting a tree is one step; hooks, windows and prompt
files are left out; that git refuses a fast-forward over staged files is any answer
(`MayRefuse`); moving changes by stash (`create_with_changes`) and opening
existing worktrees are not modelled.

### RunPromise and RunExec

`RunPromise` says what a caller of `workmux run` sees: lines that were printed;
when it returns an exit code, every line printed by then and the command's own
code; it may also end otherwise (time-out, kill, error).

`RunExec` has the coordinator of `run.rs` (`CreateRun`, `SplitPane`, `CheckTime`,
`StreamOutput`, `ReadResult`, `Flush`, `Unlink`, `RemoveDirectory`,
`KillCoordinator`), `_exec` of `exec.rs` with its two threads (`ReadSpec`,
`OpenFiles`, `StartCommand`, `Pump`, `PumpEnds`, `WaitCommand`, `Join`, `WriteResult`, `RenameResult`,
`KillExec`), and the command with what it leaves running (`PrintLine`,
`StartTail`, `CommandEnds`, `TailEnds`).  They share `files`, the run directory.
Output is abstracted to the number of lines; a line that is not UTF-8 stops the
coordinator from reading on, which `Readable` says and the refinement accounts
for by what counts as printed.

Simplifications: errors of files other than a directory that is gone are left
out, except that each step before the command runs may fail; finding the pane of the worktree is a query made before.

### GitWorker

State: the world (`home`, the worktree each directory is in; `version` of each
worktree), what the watcher holds (`channel`, `overflow`, `failed`), the worker's
(`active`, `roots`, `cache`, `pending`, `complete`, `recovery`, `degraded`, `cursor`)
and the loop's (`agents`, `due`, `shown`, and `inbox`, the list on its way).
Actions: `Change`, `Move` and `Observe` by the world, `Mishap` for an event that is
dropped, fails or vanishes; `TakeFlag`, `Publish`, `Send` of the loop; and a round
of the worker: `Receive`, `Resolve` (look up worktrees, projection of the cache,
watches), `Tend` (recovery, polling, audit), `Read` and `Store` for each worktree
that is ready, `Refreshed`.

Simplifications: a full channel and an overflow in the system are one flag, as
the worker treats them alike; which old worktrees count as stale or focused is
any set (`wanted` in `Resolve`); debounce, the two seconds between readings and
all intervals are delays of any length; a status is read at one moment; how it is
computed, ignored files, the setting that turns statuses off and the GitHub
worker are left out.

### ConfigReload

State: `file` and `broken`, the files by a stamp that stands for content and
modification, and whether they parse; the watcher's (`noticed`, `watched`,
`deadline`), the loop's (`observed`, `failing`, `dirs`, `seen`, `invalidated`,
`drawn`), `version`, `flag` and `config` shared by both, `sent` for the snapshot,
`last` and `shown` of each sidebar.  Actions: `Edit`; `TakePaths`, `Receive`,
`WatcherReload`, `WatcherBump`, `WatcherFlag`; `Wake`, `LoadVersion`, `Resolve`
(`ProjectConfigCache::resolve`), `LoopReload`, `LoopBump`, `SendPaths`,
`Broadcast`; and `Apply` of a sidebar.

Simplifications: an event, one under way and the mark of an overflow are one
flag; the agents are fixed, and a behaviour starts at rest; the identity of a
directory that was replaced is left out; a sidebar reads all files at one moment,
and its own lookup does not fail; the directory of the global configuration can
be watched.

## 3. What is checked

Every bound is a constant, an element of a scene, or in a guard:

* Store: two panes and one directory are enough for two records of one directory
  and for a record that replaces another's; two directories add records that do
  not interact.  `MaxBoot` 3 gives a plan, a restart, and a second restart after
  which the plan is old; `MaxWrites` bounds file revisions (each action that
  writes takes one); `MaxFailures` and `MaxLosses` bound killed processes with
  failed file operations, and power losses; `history` has none of the latter, so
  that `HistoryKept` survives a power loss is known from its theorem.  `Twins` are servers that start in
  the same second as the one before.
* Broadcast: a first state and one change of each kind give up to three
  generations, so a client can miss one, get one twice, or get two in the wrong
  order; a failure is a dropped write, an error of accept, or a closed pane, which may
  reopen.  `MaxEvents` 2: any two of these and a failed query.  `TooLarge`: the
  snapshot of tmux's last state with the workers' first cannot be sent, which is
  the last of all if the workers' state does not change.  Timers are not
  bounded.  With one client (446,829 states), that a failed write leaves the *other*
  clients served is shown by the theorems only, which are for any number.
* Lifecycle: two windows let one pane stay while the other window comes and goes,
  and two daemons are what it takes to lose the socket path to each other.
  `Budgets` say what may still happen: one command with a killed daemon and a
  slow one, or a killed daemon while windows come and go without end; both at
  once are beyond TLC, and so is a sidebar turned off and on again at once.
* Worktrees and merges: `Together` lists which commands run at once: any two of
  creation, removal and rename, one of which may be stopped, from worktrees that
  may be locked or have lost their registration; a creation with two removals;
  two merges into one target; a merge with a removal.  Two paths and two branches
  are enough for a path or a branch to be used again; every choice of arguments
  is made by `\E`.
* Run: two lines to each of two streams, so that one is printed before and one
  after any look, the first one of which may not be UTF-8.
* Git worker: `Small` has six scenes, described there: mishaps, agents that come
  and go, a worktree that is shared, a directory that becomes a worktree, and
  platforms that watch metadata only or nothing.
* Configuration: `Apart` has two edits of the global file, one of it and one of the
  main configuration, either with its event lost, and the creation of a
  configuration with a lookup that fails; `Mixed` has the two scenes that break
  `StaleIsTold`.

| Run | Properties | What it shows |
|---|---|---|
| `history` | `TypeOK`, `HistoryKept`, `HookCompactsEnded`, `NeverUndercounts`, `ConsumesOnlyPlanned` | hooks and a resurrect, a restart within one second, old boot ids, one kill or failed operation: no agent lost, counts right |
| `reconcile` | `CompactedMeansMoved`, `FormerNotPruned`, `EventuallyCompacted` | a command and a daemon read files, panes and server in turn; former records are moved and not pruned |
| `feed` | `TypeOK`, `RegisteredUpToDate`, `NoLostWakeUp`, `NoSnapshotLeft`, `ImplementsFeed`, `PromptlyCurrent`, `CurrentByPolling` | all threads and one pane that may be dropped or reopened, an accept thread that may end, a snapshot too large to send; it ends up current, by signals alone unless a query failed |
| `recovery` | `TypeOK`, `Recovers`, `NoOrphans` | daemons that are killed, stop without clients, remove each other's socket |
| `commands` | `TreesKept`, `TrashRecorded`, `RemovedMeansGone`, `MetaKept`, `MergeTypeOK`, `MergedIntoTarget`, `TargetClean`, `CommandsEnd` | creations, removals, a rename and merges into one target, one of which may be killed |
| `runexec` | `TypeOK`, `OutputComplete`, `CodeTruthful`, `NothingLeft`, `ImplementsPromise`, `Returns` | one run with every combination of options and kills |
| `gitworker` | `TypeOK`, `OwnStatus`, `NoticedStaysKnown`, `ChangesAnnounced`, `EventuallyCurrent` | worktrees, agents and watches of any quality; the sidebar becomes current |
| `configapart` | `TypeOK`, `StaleIsTold`, `EventuallyReloaded` | edits, failures and lost events, apart: every sidebar reloads |
| `twoplans` | `HistoryKept` (violated) | see below |
| `scope` | `SessionsUntouched` (violated) | see below |
| `targets` | `MergedIntoTarget` (violated) | see below |
| `configmixed` | `StaleIsTold` (violated) | see below |

Deadlock is checked for `GitWorker` and `ConfigReload`, whose threads go round for
ever.  Elsewhere bounded changes end and every process may then be idle, or
every command has ended, as in the real system.  Symmetry is used for panes
and daemons in runs without liveness.

### Where the code does not do what it says

With a run:

* `twoplans`: `docs/.../resurrect.md:27` says unrestored worktrees remain
  recoverable across repeated restarts.  With two resurrects at once, an entry
  is consumed and created again with the same revision number (revisions start
  at 1 in every new entry), and the older plan then deletes history it has
  never seen (`state/store.rs:948`).  With one resurrect at a time this cannot
  happen; that is proved.
* `scope`: `docs/.../sidebar.md:159` says `--session` leaves other sessions
  untouched.  When the windows of the scoped session are closed the daemon stops
  for want of clients and unsets the scope, but not the enabled flag
  (`command/sidebar/daemon.rs:2562`); an enabled sidebar without a scope is
  global (`command/sidebar/mod.rs:78`), so the next new window of another session
  gets a sidebar.  No race is needed.
* `targets`: two merges into different branches that have no worktree share the
  main worktree.  Each switches it to its target (`workflow/merge.rs:208`) and
  merges several steps and hooks later, without looking again: when the other
  has switched in between, the work goes into the other's target, the command
  says it was merged into its own, and the branch is deleted.
* `configmixed`: the loop leaves a changed project configuration to the watcher
  when the version has changed (`daemon.rs:1687`), although the increment may
  have been sent, and applied, before the change.  A configuration that has just
  been created, or deleted and created again, is not watched; it is then
  remembered as seen, and no sidebar reloads it.

Met while modelling, without a run of their own:

* `resurrect.md:29` says current-boot records are preserved.  A daemon that
  queried the boot id before a restart moves the new server's records to the
  manifest (`state/store.rs:757`); nothing is lost, but the agent is not listed
  until its next report.
* Pruning deletes by pane key what an earlier listing judged (`state/store.rs:624`,
  `:1265`, `command/reap_agents.rs:45`): a record registered in between goes too.
  `FormerNotPruned` speaks of records of former servers only, and even these can
  go when a server starts in the same second as the one before (`Twins`): a command
  lists a record with a legacy boot id, the pane's file is rewritten by a hook
  that was told of the first server, the command is told of the second, takes
  the record it has listed for one of it, and deletes the file, which is one of
  the first.
* The directory a creation takes for an orphan, "safe to remove"
  (`workflow/create.rs:435`), is looked at before the lock: with two creations and
  a leftover directory, one removes the worktree the other has just made.
  `OnDebris` in `MCMerge` is that instance, and `TreesKept` fails in it.
* "Path reuse cannot redirect destructive cleanup" (`workflow/cleanup.rs:345`): it
  can between the check and the rename, so the new worktree goes to quarantine;
  the deletion checks the identity again, so it is never deleted (`TreesKept`).
* Metadata is removed by handle (`workflow/cleanup.rs:424`) and the base stored by
  branch, so that a creation that reuses either loses them to a removal at work;
  a rename rolled back after the worktree was removed restores its metadata.
* `merge.md:27` says `--ignore-uncommitted` commits staged changes; the code skips
  the commit then (`workflow/merge.rs:178`), and with the worktree cleaned up they
  are gone.  Edits made after the check (`merge.rs:159`), and commits made after
  the merge, go with the worktree and `git branch -D`.  The failure to merge a
  rebased branch (`merge.rs:289`) leaves its conflict in the target.
  `TargetClean` and `MergedIntoTarget` except these, and the squash whose staged
  changes another squash has reset, by name.
* `migrate_worktree_meta` says it moves all entries and *then* removes the old
  section (`git/worktree.rs:120`).  When `git config --get-regexp` fails it takes the
  output for empty (`:130`), copies nothing, removes the section (`:149`) and reports
  success: the metadata is lost although nothing was killed.  `MetaKept` therefore
  speaks of renames in which git could list the metadata; without that hypothesis
  TLC refutes it.
* Any error of `accept` but an interruption, such as too many open files, ends the
  accept thread (`daemon.rs:197`), and the listener with it, while the daemon goes on
  for the clients it has: a pane that is opened or reopened then is never served
  until the daemon has ended.
* A publication is taken for made (`daemon.rs:2355`) before the snapshot turns out not
  to be sendable (`:238`): the panes keep what they have, and are told nothing, until
  another change makes a snapshot that can be sent.
* `create_with_changes` (`workflow/create.rs:753`, `:801`) pushes to and pops from
  a stash that all worktrees share.
* A killed `_exec` leaves a coordinator without `--timeout` waiting for ever; a
  time-out leaves the command running, and a file it makes at the wrong moment
  keeps the run directory (`NothingLeft` allows for it); a line that is not UTF-8
  blocks the streaming of all that follow.
* An event of the global configuration that is lost, or a watcher error, which is
  only logged, means no reload at all: the hypothesis `Global \in lost` of
  `StaleIsTold`.  A configuration that is created, read by a sidebar for another
  reason and deleted again between two looks is not noticed to have gone.
* The comment of `TickOutput.next_interrupted` says to commit only after the side
  effects succeeded; `run` commits at once.  `updated_ts` has whole seconds, so
  an update in the second of the confirmation does not clear an interruption.

### Fairness

* `reconcile`: a process that holds the lock runs on, the kernel hands the lock to
  a waiting daemon eventually (strong fairness of taking it), and the daemon's
  loop repeats its observation.  Hooks, commands and tmux owe nothing.
* `feed`: every thread runs on, and the 50 ms timer expires.  Changes, failures,
  closed panes and the periodic timers owe nothing.  `PromptlyCurrent` and
  `CurrentByPolling` have as hypotheses what the code relies on: the final state can be
  sent, and the pane is connected or the accept thread has not ended.  The first
  needs in addition that no query has failed, the second that the poll goes on.
  Without either of the two common hypotheses TLC refutes both.
* `recovery`: some process that has a step takes one, daemons run on, and a
  pane that tries to connect at intervals of two seconds does not miss every
  daemon that comes up (strong fairness of `Connect`); ten seconds without a
  client do pass (strong fairness of `Lonely`).  The user, tmux and what kills
  daemons owe nothing.  `Recovers` has as hypotheses what the code relies on: the
  sidebar stays on, windows are opened again and again, since only a new window
  or a new pane looks for a daemon, and nothing runs at some moments between
  them.  `Lonely` stands for ten seconds, so it happens only when no command, no
  start and no end of a daemon is under way, each of which takes less.
* `commands`: while some command can go on, some command does.
* `runexec`: both processes run on, time passes and the command ends.  Nobody has
  to be killed, and what the command leaves behind need not end.  A run whose
  `_exec` or coordinator was killed, or whose pipes a child holds open, is
  promised an end only with a time limit.
* `gitworker`: both threads run on (weak); the intervals of revalidation, recovery,
  polling and audit pass, and the delay of a pending reading ends (strong, since
  each is possible at one step of the round only and a round takes a second at
  most).
* `configapart`: the threads and the sidebars run on (weak); thirty seconds pass,
  so that the loop sweeps (strong).

## 4. What is proved

All theorems rest on the named assumptions about constants only, and hold for
any number of panes, processes, clients, worktrees, files and events.

`AgentStoreProof`: `TypeCorrect` (`TypeOK`); `ShapeCorrect`: one file per pane,
entries well formed; `EntriesNotUndercounted` (`NeverUndercounts`);
`HistoryPreserved` (`HistoryKept`) and `OnlyPlannedConsumed`
(`ConsumesOnlyPlanned`), both if at most one process resurrects, which `twoplans`
shows to be necessary.  `HistoryKept` is not inductive: a compaction deletes a
file only because it is sure to be in the manifest, a hook overwrites a record
only because it has archived it, a resurrect deletes an entry only because
nobody else could have put anything into it without raising its revision.
`Shape` states that files and entries are well formed (one file per pane; a count
is at least the number of members; pending and recent sources are members).
`IInv` adds that the lock excludes (`MutualExclusion`), that a process does one
thing (`OneJob`), that file revisions are unique, that what a compaction will
delete and what a hook will overwrite is in the manifest and stays there while
the lock is held (`BatchArchived`, `OverwriteArchived`), that a planned entry with
the planned revision still has the planned members (`PlanInStore`), that a
resurrect consumes from its plan (`TodoInPlan`) and after opening
(`OpenedFirst`).  Every action preserves each part, one lemma for each group of
actions; power losses are the reason why the parts speak of `disk` too.

`HooksCompactEnded` (`HookCompactsEnded`) and `CompactedIsMoved`
(`CompactedMeansMoved`) rest on an invariant of their own, `BootInv`: no boot id on
file or in memory is of a server yet to come (`BootsKnown`), nothing is of a later
server than the one a hook that holds the lock was told of (`HookCurrent`), and
when a compaction begins to delete, whatever is of another server is in its batch
(`BatchComplete`).  `FormerIsNotPruned` (`FormerNotPruned`) needs that a file
is never replaced by one of an earlier server than what a reconciler has read
(`SeenEarlier`), and has the hypothesis `Twins = {}`: with two servers in one
second TLC refutes it (section 3).

`SidebarBroadcastProof`: `TypeCorrect` (`TypeOK`), `WakeUpsNotLost`
(`NoLostWakeUp`), `SnapshotsNotLeft` (`NoSnapshotLeft`).  What is written to a
socket is a snapshot only because the loop sends after it has published and the
accept thread writes only what was broadcast; `Shape` adds this to `TypeOK`.
`NoLostWakeUp` speaks of the sleeping loop and is not inductive, because the loop
takes its two flags in two steps: `WakeUpKept` says at every step of the loop what
a raised flag is still owed (a wake-up, or being taken before the loop sleeps).
`NoSnapshotLeft` is inductive given `Shape`.  `RegisteredAreUpToDate`
(`RegisteredUpToDate`): a stream is in one place at a time, with the accept thread,
registered, or on its way through a broadcast (`Streams`), and what the accept
thread has written is still current when it registers the stream without
writing again (`UpToDate`).  `Implements`: `SidebarBroadcast` implements
`SidebarFeed` (`ImplementsFeed`).  That a pane never goes back is an order of all
snapshots on their way to it, from the sources by the cache and the socket to what
its reader has stored and what it shows, and the accept thread writes an old copy
only to a client that has nothing later (`Ordered`); each step maps
to a step of the sources, a step of a pane, or a stutter.  All five hold with an
accept thread that ends (`AcceptFails`) and with any set of snapshots that cannot be
sent.

`RunExecProof`: `TypeCorrect` (`TypeOK`), `OutputShown` (`OutputComplete`),
`CodeCorrect` (`CodeTruthful`), `DirectoryRemoved` (`NothingLeft`), and
`Implements`: `RunExec` implements `RunPromise` (`ImplementsPromise`).  That output
is complete when a result is read is a fact about three processes: a thread copies
no more than was printed (`Copies`), a result of the command's own is written only
after both threads have ended, and they end only when nobody can print any more
(`Results`), before a start there is nothing (`NotBegun`), what was written is in
the run directory until the coordinator unlinks it (`Directory`), what the coordinator has read is
what was written (`Outcome`), it reads the files again after the result and before
it returns (`Flushed`), and then removes them (`Cleaned`).  The refinement maps
each step to a step or a stutter: what is printed is hidden as far as a line that
is not UTF-8 hides it.

`GitWorkerProof`: `TypeCorrect` (`TypeOK`), `StatusesOwned` (`OwnStatus`),
`NoticedKept` (`NoticedStaysKnown`), `Announced` (`ChangesAnnounced`).  A change
may be reported while git is being asked, and the status stored is then already
old: `Noticed` says that a worktree whose cache is behind has an event, a mark or a
reading under way *or* is being read at its present version.  `Quiet` says that
the worker begins a round with nothing left to announce, `Bounded` that versions
stay in their bound.

`ConfigReloadProof`: `TypeCorrect` (`TypeOK`, with the order of the versions: a
sidebar's is not ahead of the snapshot's, nor the snapshot's of the daemon's), and
`ReportedIsTold`: `StaleIsTold` holds as long as every change of a file is
reported by an event or an overflow (`Reported`, a hypothesis about steps of the
world).  The property is inductive under that hypothesis; without it the loop
has to find the change, and `configmixed` shows that it then fails.

`SidebarLifecycleProof`: `TypeCorrect` (`TypeOK`) and `StaysAttached`: a connected
pane is there and its daemon has not ended, and a signal is never left for a
daemon that starts anew.  A process is a sequence of steps that changes as it
goes, and steps close panes of other processes, so this is one lemma for each
group of steps.  It needs a window to be there at all (`WindowsAssumption`).

`WorktreesProof`: all from `IInv`, which no command breaks, whichever run together
and wherever they are killed: what a command works on is known before it is used
(`Jobs`); a directory is at one path or in quarantine and registered for no other
(`Placed`); a record is there before its directory is moved and until it is
deleted (`Recorded`); a leftover directory is never captured (`NotLeftover`); a
registration that a cleanup has passed is unlocked or gone (`Unlocked`).  Hence
`TypeCorrect`, `TrashIsRecorded` (`TrashRecorded`) and `RemovedIsGone`
(`RemovedMeansGone`), without any hypothesis.

Two properties do not hold of every combination of commands, and their theorems
say of which they do.  `TreesAreKept` (`TreesKept`) has the hypothesis `NoRival`: no creation
is about to clear a path while another is about to put its worktree there
(`workflow/create.rs:443`); `OnDebris` in `MCMerge` shows that it is needed.
`TreesAreKeptInTidyCasts` gives the same from the constants: no leftover directory
at first, or at most one creation.  `MetaIsKept` (`MetaKept`: metadata that git could list) has the hypothesis
`NamesApart`: no cleanup is at work on the name a worktree is being renamed to;
TLC refutes it without, since metadata is removed by name (`cleanup.rs:424`).  Both
hypotheses hold in every state of `commands`.  `KInv` adds to `IInv` that a rename
runs alone among renames and creations (`Alone`, from `CastsAssumption`), that a
path to be cleared holds a leftover at most, and that the new name is free
(`Clear`); `MInv` says where the metadata is at each step of a rename, if git could list it
(`Followed`), and that cleanups which have nothing to remove find the path empty
(`Emptied`).

`MergeProof`: a merge leaves the worktrees alone until its cleanup, so that
`IInv`, `KInv` and `MInv` carry over: `TrashIsRecordedBesideMerges`,
`RemovedIsGoneBesideMerges`, `TreesAreKeptBesideMerges`, `TreesAreKeptByTidyCasts`,
`MetaIsKeptBesideMerges`.  `MergeTypeCorrect` (`MergeTypeOK`) and `TargetIsClean`
(`TargetClean`) are from `CInv`: a merge knows its target (`Planned`), and what is
staged or has stopped in the main worktree belongs to a merge that is at the step
to deal with it, was killed, or has failed (`Accounted`); this for any targets.
`MergesDeliver` (`MergedIntoTarget`) has the hypothesis `OneTarget`: merges that are
in the main worktree at one time have one target.  `targets` shows that it is
needed, it holds in every state of `commands`, and `MergesDeliverToOneTarget`
gives the same for a repository with one target.  `DInv` says that the main
worktree is on that target (`OnTarget`), that what a squash has taken is staged
until it is committed (`Staged`), and that what was reported has arrived
(`Delivered`); the squash whose staged changes another squash has reset is
excepted, as in the property.

TLC has checked these invariants on the instances of the runs as well.

Only model-checked: all liveness, which is out of the prover's reach, with the
fairness it rests on.  Every invariant and every action property of a passing run
is the subject of a theorem, some under the hypotheses named above.  Nothing here
rests on a recursive definition.

## 5. What is left, in order

1. `Rescue`: moving changes by the shared stash, and opening worktrees, beside
   `Worktrees`; rename of branches with the store's `migrate_worktree_paths`;
   merge targets with a worktree of their own.
2. `AgentStatus`: merging of status and prompt, reap, wait, the settings file.
3. `Inactivity`: the tracker of inactive and interrupted agents; the GitHub worker.
4. `RecoveryChoice`: the choice between recovery candidates as a pure function
   against its definition.
5. The sandbox's freshness cache and connection counter; the handshake.

Theorems next: which orders of creations satisfy `NoRival`, and which removals
`NamesApart`, so that these hypotheses become ones about commands; the safety part
of `Recovers` (who is connected to the daemon that owns the socket).

Not modelled, and not planned: the user interfaces, the drivers of external
programs (multiplexers other than tmux, container runtimes, forges),
configuration and template parsing, agent set-up.  They are the larger part of
the code by lines; they keep no shared state, or only what they drive does, and
their rules are sequential and covered by unit tests.
