----------------------------- MODULE AgentStore -----------------------------
(***************************************************************************)
(* The on-disk agent state store (src/src/state/store.rs) of one tmux      *)
(* context, together with everything that changes it: status hooks, the    *)
(* sidebar daemon, one-shot commands that reconcile, and `resurrect`.      *)
(*                                                                         *)
(* One JSON file per pane (`flat`) records the agent last seen there.      *)
(* When the tmux server restarts, the files of the former server are       *)
(* moved ("compacted") into a recovery manifest (`entries`, `compacted`),  *)
(* one entry per working directory, from which `resurrect` restores.  All  *)
(* writers take one exclusive file lock; several readers do not.           *)
(*                                                                         *)
(* An action is one visible effect on a file, on the lock, or on tmux, so  *)
(* a process may be killed between any two of them and the machine may     *)
(* lose power: manifest writes are fsynced, flat writes and deletions are  *)
(* not (`disk` is what a power loss leaves of `flat`).                     *)
(***************************************************************************)
EXTENDS Naturals, FiniteSets

CONSTANTS
    Pane,          \* tmux pane ids: reused by every server lifecycle
    Dir,           \* working directories
    Pid,           \* pane processes
    NoPid,         \* the pane does not exist
    Hook,          \* the status hook holding the lock (one at a time)
    Daemons,       \* sidebar daemons
    Clis,          \* one-shot commands that reconcile (status, wait, list...)
    Resurrectors,  \* `workmux resurrect` processes
    Free,          \* nobody holds the lock
    Twins,         \* server lifecycles that began in the second of the one before
    MaxBoot,       \* bound: tmux server lifecycles
    MaxWrites,     \* bound: file revisions
    MaxFailures,   \* bound: killed processes and failed file operations
    MaxLosses      \* bound: power losses

Compactors == {Hook} \cup Daemons
Reconcilers == Daemons \cup Clis
Actor == Compactors \cup Clis \cup Resurrectors

ASSUME BoundsAssumption ==
    /\ MaxBoot \in Nat \ {0}
    /\ MaxWrites \in Nat
    /\ MaxFailures \in Nat
    /\ Twins \subseteq 1..MaxBoot
    /\ MaxLosses \in Nat

ASSUME SetsAssumption ==
    /\ IsFiniteSet(Pane)
    /\ NoPid \notin Pid
    /\ Free \notin Actor

ASSUME ActorsAssumption ==
    /\ Hook \notin Daemons \cup Clis \cup Resurrectors
    /\ Daemons \cap Clis = {}
    /\ (Daemons \cup Clis) \cap Resurrectors = {}

(***************************************************************************)
(* Data.  A boot is the number of a tmux server lifecycle.  `legacy` is    *)
(* the form of the stored boot id: start time only, as older versions      *)
(* wrote it, instead of start time and server pid.  `rev` is the identity  *)
(* of the file (device, inode, times), new with every write.               *)
(***************************************************************************)
Boot == 1..MaxBoot

Source == [pane : Pane, dir : Dir, boot : Boot, legacy : BOOLEAN,
           pid : Pid, ts : Nat]

Record == [pane : Pane, dir : Dir, boot : Boot, legacy : BOOLEAN,
           pid : Pid, ts : Nat, rev : Nat]

\* RecoverySourceId::from: the identity that survives in the manifest.
Src(r) == [pane |-> r.pane, dir |-> r.dir, boot |-> r.boot,
           legacy |-> r.legacy, pid |-> r.pid, ts |-> r.ts]

\* `members` is a history field: every source ever merged into the entry.
Entry == [dir : Dir, count : Nat, revision : Nat, pending : SUBSET Source,
          recent : SUBSET Source, members : SUBSET Source]

VARIABLES
    \* the file system
    flat,        \* agents/<pane>.json
    disk,        \* the part of flat that a power loss keeps
    entries,     \* recovery manifest: its entries
    compacted,   \* recovery manifest: last_compacted_boot (0 when absent)
    lock,        \* holder of agent-state.lock
    writes,      \* revisions handed out so far
    \* tmux
    boot,        \* the running server lifecycle
    live,        \* process of each pane
    \* the processes
    pc,          \* next step of each actor
    obs,         \* boot id the actor last observed
    job,         \* pane, directory and process the hook reports ({} when idle)
    batch,       \* records a compaction has still to delete
    known,       \* compacted_boot_id in the memory of each daemon
    panes,       \* pane processes a reconciler observed
    seen,        \* records a reconciler read and has not judged yet
    doomed,      \* records a reconciler judged stale
    planFlats,   \* flat sources of a resurrect plan
    planEntries, \* recovery sources of a resurrect plan
    todo,        \* flat sources still to consume
    missed,      \* flat sources that were gone or replaced
    \* history
    ended,       \* sources on file when their server ended
    restored,    \* sources whose worktree a resurrect has reopened
    failures, losses

store == <<flat, disk, entries, compacted>>
tmux == <<boot, live>>
locals == <<obs, job, batch, known, panes, seen, doomed,
            planFlats, planEntries, todo, missed>>
history == <<ended, restored>>
bounds == <<failures, losses>>
vars == <<store, lock, writes, tmux, pc, locals, history, bounds>>

-----------------------------------------------------------------------------
(***************************************************************************)
(* The store's rules, as operators.                                        *)
(***************************************************************************)

\* Mutant: the count stays when sources are merged into an entry.
MergeIntoUncounted(e, S) ==
    [e EXCEPT !.pending = @ \cup S, !.members = @ \cup S]

\* merge_recovery_locked, for the sources S of one directory that the
\* entry holds in neither its pending nor its recent batch.
MergeInto(e, S) ==
    [e EXCEPT !.count = @ + Cardinality(S),
              !.revision = @ + Cardinality(S),
              !.pending = @ \cup S,
              !.members = @ \cup S]

NewEntry(d, S) ==
    [dir |-> d, count |-> Cardinality(S), revision |-> Cardinality(S),
     pending |-> S, recent |-> {}, members |-> S]

SourcesIn(R, d) == {Src(r) : r \in {q \in R : q.dir = d}}

Merge(E, R) ==
    {MergeInto(e, SourcesIn(R, e.dir) \ (e.pending \cup e.recent)) : e \in E}
    \cup
    {NewEntry(d, SourcesIn(R, d)) :
        d \in {r.dir : r \in R} \ {e.dir : e \in E}}

\* finalize_recovery_locked: only the last non-empty batch is remembered.
Settle(e) == IF e.pending = {} THEN e
             ELSE [e EXCEPT !.recent = e.pending, !.pending = {}]

Finalize(E) == {Settle(e) : e \in E}

SameSecond(b, c) ==
    \A x \in Boot : (b < x /\ x <= c) \/ (c < x /\ x <= b) => x \in Twins

\* same_server_boot: only the start time of a legacy boot id can be compared.
SameServer(r, b) == IF r.legacy THEN SameSecond(r.boot, b) ELSE r.boot = b

\* Mutant: boot ids are compared as strings, which a legacy one never equals.
FormerExact(b) == {r \in flat : r.legacy \/ r.boot # b}

\* What a compaction for server b moves.
Former(b) == {r \in flat : ~SameServer(r, b)}

\* Mutant: only the server tells records apart.
SupersededByServer(old, new) == ~SameServer(old, new.boot)

\* upsert_agent_locked: a record of another server, or of another process
\* when only the start time of the server can be compared.
Superseded(old, new) ==
    /\ old.legacy \/ old.boot # new.boot
    /\ ~(SameServer(old, new.boot) /\ old.pid = new.pid)

Archived(s) == \E e \in entries : s \in e.members
OnFile(s) == \E r \in flat : Src(r) = s

\* A later report of the pane, or of its process when the server restarted
\* within a second, takes the old one's place in the history to be kept.
Succeeds(new, old) ==
    /\ old.pane = new.pane
    /\ old.boot = new.boot \/ (old.pid = new.pid /\ SameSecond(old.boot, new.boot))

Renewed(new) ==
    LET old == {Src(r) : r \in {q \in flat : Succeeds(new, q)}}
                \cap (ended \ restored)
    IN IF old = {} THEN ended ELSE (ended \ old) \cup {Src(new)}

Put(R, r) == {q \in R : q.pane # r.pane} \cup {r}

-----------------------------------------------------------------------------
(***************************************************************************)
(* tmux and the machine.                                                   *)
(***************************************************************************)

\* What an older version may have left on file.
OldRecord == [pane : Pane, dir : Dir, boot : {1}, legacy : {TRUE}, pid : Pid,
              ts : {0}, rev : {0}]

Init ==
    /\ flat \in {R \in SUBSET OldRecord : \A r, q \in R : r.pane = q.pane => r = q}
    /\ disk = flat
    /\ entries = {} /\ compacted = 0
    /\ lock = Free /\ writes = 0
    /\ boot = 1
    /\ live \in [Pane -> Pid \cup {NoPid}]
    /\ pc = [a \in Actor |-> "idle"]
    /\ obs = [a \in Compactors \cup Clis |-> 0]
    /\ job = {}
    /\ batch = [a \in Compactors |-> {}]
    /\ known = [d \in Daemons |-> 0]
    /\ panes = [a \in Reconcilers |-> [p \in Pane |-> NoPid]]
    /\ seen = [a \in Reconcilers |-> {}]
    /\ doomed = [a \in Reconcilers |-> {}]
    /\ planFlats = [r \in Resurrectors |-> {}]
    /\ planEntries = [r \in Resurrectors |-> {}]
    /\ todo = [r \in Resurrectors |-> {}]
    /\ missed = [r \in Resurrectors |-> {}]
    /\ ended = {} /\ restored = {}
    /\ failures = 0 /\ losses = 0

\* A pane starts, is respawned or goes away.
PaneChange(p, pid) ==
    /\ pid # live[p]
    /\ live' = [live EXCEPT ![p] = pid]
    /\ UNCHANGED <<store, lock, writes, boot, pc, locals, history, bounds>>

\* The tmux server dies with all its panes and a new one starts.
ServerRestart ==
    /\ boot < MaxBoot
    /\ boot' = boot + 1
    /\ live' = [p \in Pane |-> NoPid]
    /\ ended' = ended \cup {Src(r) : r \in {q \in flat : q.boot = boot}}
    /\ UNCHANGED <<store, lock, writes, pc, locals, restored, bounds>>

\* The system writes one agent file, or its deletion, back to the disk
\* (followed only while a power loss can still come: nothing else reads disk).
Flush(p) ==
    /\ losses < MaxLosses
    /\ disk' = {r \in disk : r.pane # p} \cup {r \in flat : r.pane = p}
    /\ disk' # disk
    /\ UNCHANGED <<flat, entries, compacted, lock, writes, tmux, pc, locals,
                   history, bounds>>

\* What the actors A remember is gone; flock drops a dead holder's lock.
Forget(A) ==
    /\ pc' = [a \in Actor |-> IF a \in A THEN "idle" ELSE pc[a]]
    /\ obs' = [a \in Compactors \cup Clis |-> IF a \in A THEN 0 ELSE obs[a]]
    /\ job' = IF Hook \in A THEN {} ELSE job
    /\ batch' = [a \in Compactors |-> IF a \in A THEN {} ELSE batch[a]]
    /\ known' = [d \in Daemons |-> IF d \in A THEN 0 ELSE known[d]]
    /\ panes' = [a \in Reconcilers |->
                    IF a \in A THEN [p \in Pane |-> NoPid] ELSE panes[a]]
    /\ seen' = [a \in Reconcilers |-> IF a \in A THEN {} ELSE seen[a]]
    /\ doomed' = [a \in Reconcilers |-> IF a \in A THEN {} ELSE doomed[a]]
    /\ planFlats' = [r \in Resurrectors |-> IF r \in A THEN {} ELSE planFlats[r]]
    /\ planEntries' = [r \in Resurrectors |-> IF r \in A THEN {} ELSE planEntries[r]]
    /\ todo' = [r \in Resurrectors |-> IF r \in A THEN {} ELSE todo[r]]
    /\ missed' = [r \in Resurrectors |-> IF r \in A THEN {} ELSE missed[r]]

\* A process is killed at any point; a daemon may also die between passes.
Crash(a) ==
    /\ failures < MaxFailures
    /\ pc[a] # "idle" \/ a \in Daemons
    /\ failures' = failures + 1
    /\ Forget({a})
    /\ lock' = IF lock = a THEN Free ELSE lock
    /\ UNCHANGED <<store, writes, tmux, history, losses>>

\* The machine loses power: only the manifest and the flushed files survive.
\* An unarchived record that was never flushed is beyond any promise.
PowerLoss ==
    /\ losses < MaxLosses
    /\ boot < MaxBoot
    /\ losses' = losses + 1
    /\ Forget(Actor)
    /\ lock' = Free
    /\ flat' = disk
    /\ boot' = boot + 1
    /\ live' = [p \in Pane |-> NoPid]
    /\ ended' = {s \in ended : Archived(s)} \cup
                {Src(r) : r \in {q \in disk : Src(q) \in ended \/ q.boot = boot}}
    /\ UNCHANGED <<disk, entries, compacted, writes, restored, failures>>

-----------------------------------------------------------------------------
(***************************************************************************)
(* Compaction, under the lock: compact_context_locked.                     *)
(***************************************************************************)

\* A hook goes on to write its record; a daemon drops the lock.
Compacted(a) ==
    /\ batch' = [batch EXCEPT ![a] = {}]
    /\ IF a = Hook
       THEN /\ pc' = [pc EXCEPT ![a] = "write"]
            /\ UNCHANGED <<lock, known>>
       ELSE /\ pc' = [pc EXCEPT ![a] = "read"]
            /\ lock' = Free
            /\ known' = [known EXCEPT ![a] = obs[a]]

CompactSkip(a) ==
    /\ pc[a] = "compact"
    /\ compacted = obs[a]
    /\ Compacted(a)
    /\ UNCHANGED <<store, writes, tmux, obs, job, panes, seen, doomed,
                   planFlats, planEntries, todo, missed, history, bounds>>

\* Scan the context, archive every record of another server durably.
CompactMerge(a) ==
    /\ pc[a] = "compact"
    /\ compacted # obs[a]
    /\ LET former == Former(obs[a]) IN
         /\ batch' = [batch EXCEPT ![a] = former]
         /\ entries' = Merge(entries, former)
    /\ pc' = [pc EXCEPT ![a] = "delete"]
    /\ UNCHANGED <<flat, disk, compacted, lock, writes, tmux, obs, job, known,
                   panes, seen, doomed, planFlats, planEntries, todo, missed,
                   history, bounds>>

\* delete_path_if_revision_locked, on a file that is still the one scanned.
CompactDelete(a) ==
    /\ pc[a] = "delete"
    /\ \E r \in batch[a] \cap flat :
         /\ flat' = flat \ {r}
         /\ batch' = [batch EXCEPT ![a] = @ \ {r}]
    /\ UNCHANGED <<disk, entries, compacted, lock, writes, tmux, pc, obs, job,
                   known, panes, seen, doomed, planFlats, planEntries, todo,
                   missed, history, bounds>>

\* Mutant: the context counts as compacted before the files are deleted.
CompactFinalizeEarly(a) ==
    /\ pc[a] = "delete"
    /\ entries' = Finalize(entries) /\ compacted' = obs[a]
    /\ Compacted(a)
    /\ UNCHANGED <<flat, disk, writes, tmux, obs, job, panes, seen, doomed,
                   planFlats, planEntries, todo, missed, history, bounds>>

\* The context counts as compacted only when every file was deleted.
CompactFinalize(a) ==
    /\ pc[a] = "delete"
    /\ batch[a] \cap flat = {}
    /\ IF batch[a] = {}
       THEN entries' = Finalize(entries) /\ compacted' = obs[a]
       ELSE UNCHANGED <<entries, compacted>>
    /\ Compacted(a)
    /\ UNCHANGED <<flat, disk, writes, tmux, obs, job, panes, seen, doomed,
                   planFlats, planEntries, todo, missed, history, bounds>>

\* A file operation fails: a hook gives up, a daemon only logs it and will
\* compact again in its next pass.
CompactFails(a) ==
    /\ pc[a] \in {"compact", "delete"}
    /\ failures < MaxFailures
    /\ failures' = failures + 1
    /\ batch' = [batch EXCEPT ![a] = {}]
    /\ lock' = Free
    /\ IF a = Hook
       THEN /\ pc' = [pc EXCEPT ![a] = "idle"]
            /\ obs' = [obs EXCEPT ![a] = 0]
            /\ job' = {}
       ELSE /\ pc' = [pc EXCEPT ![a] = "read"]
            /\ UNCHANGED <<obs, job>>
    /\ UNCHANGED <<store, writes, tmux, known, panes, seen, doomed, planFlats,
                   planEntries, todo, missed, history, losses>>

-----------------------------------------------------------------------------
(***************************************************************************)
(* A status hook: persist_agent_update and persist_agent_registration.     *)
(* The lock is held from before tmux is asked to after the file is written.*)
(***************************************************************************)

HookLock(p, d) ==
    /\ pc[Hook] = "idle"
    /\ lock = Free
    /\ writes < MaxWrites
    /\ live[p] # NoPid
    /\ lock' = Hook
    /\ job' = {[pane |-> p, dir |-> d, pid |-> live[p]]}
    /\ pc' = [pc EXCEPT ![Hook] = "locked"]
    /\ UNCHANGED <<store, writes, tmux, obs, batch, known, panes, seen, doomed,
                   planFlats, planEntries, todo, missed, history, bounds>>

HookDone ==
    /\ pc' = [pc EXCEPT ![Hook] = "idle"]
    /\ lock' = Free
    /\ obs' = [obs EXCEPT ![Hook] = 0]
    /\ job' = {}

\* Mutant: without a boot id the record is written all the same.
HookWithoutServer ==
    /\ pc[Hook] = "locked"
    /\ pc' = [pc EXCEPT ![Hook] = "write"]
    /\ UNCHANGED <<store, lock, writes, tmux, locals, history, bounds>>

\* server_boot_id is a second question to tmux; without an answer nothing
\* is written.
HookNoServer ==
    /\ pc[Hook] = "locked"
    /\ HookDone
    /\ UNCHANGED <<store, writes, tmux, batch, known, panes, seen, doomed,
                   planFlats, planEntries, todo, missed, history, bounds>>

HookBoot ==
    /\ pc[Hook] = "locked"
    /\ obs' = [obs EXCEPT ![Hook] = boot]
    /\ pc' = [pc EXCEPT ![Hook] = "compact"]
    /\ UNCHANGED <<store, lock, writes, tmux, job, batch, known, panes, seen,
                   doomed, planFlats, planEntries, todo, missed, history, bounds>>

NewRecord(j) ==
    [pane |-> j.pane, dir |-> j.dir, boot |-> obs[Hook], legacy |-> FALSE,
     pid |-> j.pid, ts |-> writes + 1, rev |-> writes + 1]

\* The pane's record belongs to another server or process: archive it first.
HookArchive ==
    /\ pc[Hook] = "write"
    /\ \E j \in job, r \in flat :
         /\ r.pane = j.pane
         /\ Superseded(r, NewRecord(j))
         /\ entries' = Merge(entries, {r})
    /\ pc' = [pc EXCEPT ![Hook] = "overwrite"]
    /\ UNCHANGED <<flat, disk, compacted, lock, writes, tmux, locals, history,
                   bounds>>

HookWrite ==
    /\ pc[Hook] = "write"
    /\ \E j \in job :
         /\ \A r \in flat : r.pane = j.pane => ~Superseded(r, NewRecord(j))
         /\ flat' = Put(flat, NewRecord(j))
         /\ ended' = Renewed(NewRecord(j))
    /\ writes' = writes + 1
    /\ HookDone
    /\ UNCHANGED <<disk, entries, compacted, tmux, batch, known, panes, seen,
                   doomed, planFlats, planEntries, todo, missed, restored, bounds>>

HookOverwrite ==
    /\ pc[Hook] = "overwrite"
    /\ \E j \in job : flat' = Put(flat, NewRecord(j))
    /\ writes' = writes + 1
    /\ pc' = [pc EXCEPT ![Hook] = "finalize"]
    /\ UNCHANGED <<disk, entries, compacted, lock, tmux, locals, history, bounds>>

\* finalize_recovery_locked without a boot: `compacted` stays.
HookFinalize ==
    /\ pc[Hook] = "finalize"
    /\ entries' = Finalize(entries)
    /\ HookDone
    /\ UNCHANGED <<flat, disk, compacted, writes, tmux, batch, known, panes,
                   seen, doomed, planFlats, planEntries, todo, missed, history,
                   bounds>>

\* clear_agent_status: read, change and rewrite one file under the lock.
\* The stored boot stays, so nothing is archived; updated_ts is new.
ClearStatus(r) ==
    /\ lock = Free
    /\ writes < MaxWrites
    /\ LET new == [r EXCEPT !.ts = writes + 1, !.rev = writes + 1] IN
         /\ flat' = Put(flat, new)
         /\ ended' = Renewed(new)
    /\ writes' = writes + 1
    /\ UNCHANGED <<disk, entries, compacted, lock, tmux, pc, locals, restored,
                   bounds>>

\* upsert_agent_if_revision, when the file is still the one the daemon read:
\* the daemon restarts the timers of an agent that resumed, nothing else.
Touch(r) ==
    /\ lock = Free
    /\ writes < MaxWrites
    /\ flat' = Put(flat, [r EXCEPT !.rev = writes + 1])
    /\ writes' = writes + 1
    /\ UNCHANGED <<disk, entries, compacted, lock, tmux, pc, locals, history,
                   bounds>>

-----------------------------------------------------------------------------
(***************************************************************************)
(* Reconciliation: nothing is read under the lock.                         *)
(***************************************************************************)

\* A one-shot command lists the files, then the panes, then the server.
CliRead(c) ==
    /\ pc[c] = "idle"
    /\ flat # {}
    /\ seen' = [seen EXCEPT ![c] = flat]
    /\ pc' = [pc EXCEPT ![c] = "panes"]
    /\ UNCHANGED <<store, lock, writes, tmux, obs, job, batch, known, panes,
                   doomed, planFlats, planEntries, todo, missed, history, bounds>>

CliPanes(c) ==
    /\ pc[c] = "panes"
    /\ panes' = [panes EXCEPT ![c] = live]
    /\ pc' = [pc EXCEPT ![c] = "boot"]
    /\ UNCHANGED <<store, lock, writes, tmux, obs, job, batch, known, seen,
                   doomed, planFlats, planEntries, todo, missed, history, bounds>>

CliBoot(c) ==
    /\ pc[c] = "boot"
    /\ obs' = [obs EXCEPT ![c] = boot]
    /\ pc' = [pc EXCEPT ![c] = "judge"]
    /\ UNCHANGED <<store, lock, writes, tmux, job, batch, known, panes, seen,
                   doomed, planFlats, planEntries, todo, missed, history, bounds>>

\* Mutant: a daemon compacts once in its life.
CompactionDueOnce(d) == known[d] = 0

\* The daemon remembers the server it compacted for last.
CompactionDue(d) == known[d] # boot

\* The daemon asks tmux first (one query) and lists the files last.
DaemonObserve(d) ==
    /\ pc[d] = "idle"
    /\ panes' = [panes EXCEPT ![d] = live]
    /\ obs' = [obs EXCEPT ![d] = boot]
    /\ pc' = [pc EXCEPT ![d] = IF CompactionDue(d) THEN "observed" ELSE "read"]
    /\ UNCHANGED <<store, lock, writes, tmux, job, batch, known, seen, doomed,
                   planFlats, planEntries, todo, missed, history, bounds>>

DaemonLock(d) ==
    /\ pc[d] = "observed"
    /\ lock = Free
    /\ lock' = d
    /\ pc' = [pc EXCEPT ![d] = "compact"]
    /\ UNCHANGED <<store, writes, tmux, locals, history, bounds>>

DaemonRead(d) ==
    /\ pc[d] = "read"
    /\ seen' = [seen EXCEPT ![d] = flat]
    /\ pc' = [pc EXCEPT ![d] = "judge"]
    /\ UNCHANGED <<store, lock, writes, tmux, obs, job, batch, known, panes,
                   doomed, planFlats, planEntries, todo, missed, history, bounds>>

\* Mutant: the server of the record is not looked at.
StaleAnyServer(a, r, left) ==
    IF panes[a][r.pane] = NoPid THEN live[r.pane] # r.pid
                                ELSE panes[a][r.pane] # r.pid \/ left

\* reconcile_agents_from_snapshot: records of another server are kept; a pane
\* missing from the observation is asked for again, and in one that is there
\* the agent may have left the foreground.
Stale(a, r, left) ==
    /\ SameServer(r, obs[a])
    /\ IF panes[a][r.pane] = NoPid THEN live[r.pane] # r.pid
                                   ELSE panes[a][r.pane] # r.pid \/ left

Judge(a, r) ==
    /\ pc[a] = "judge"
    /\ seen' = [seen EXCEPT ![a] = @ \ {r}]
    /\ \E left \in BOOLEAN :
         IF Stale(a, r, left)
         THEN /\ doomed' = [doomed EXCEPT ![a] = {r}]
              /\ pc' = [pc EXCEPT ![a] = "prune"]
         ELSE UNCHANGED <<doomed, pc>>
    /\ UNCHANGED <<store, lock, writes, tmux, obs, job, batch, known, panes,
                   planFlats, planEntries, todo, missed, history, bounds>>

\* delete_agent removes whatever the pane's file is by now, also the record of
\* an agent that has registered since.  What it removes is no longer history to
\* keep (FormerNotPruned says what it may not remove).
Prune(a) ==
    /\ pc[a] = "prune"
    /\ lock = Free
    /\ LET gone == {r \in flat : \E s \in doomed[a] : s.pane = r.pane} IN
         /\ flat' = flat \ gone
         /\ ended' = ended \ {Src(r) : r \in gone}
    /\ doomed' = [doomed EXCEPT ![a] = {}]
    /\ pc' = [pc EXCEPT ![a] = "judge"]
    /\ UNCHANGED <<disk, entries, compacted, lock, writes, tmux, obs, job, batch,
                   known, panes, seen, planFlats, planEntries, todo, missed,
                   restored, bounds>>

EndPass(a) ==
    /\ pc[a] = "judge"
    /\ seen[a] = {}
    /\ pc' = [pc EXCEPT ![a] = "idle"]
    /\ obs' = [obs EXCEPT ![a] = 0]
    /\ panes' = [panes EXCEPT ![a] = [p \in Pane |-> NoPid]]
    /\ UNCHANGED <<store, lock, writes, tmux, job, batch, known, seen, doomed,
                   planFlats, planEntries, todo, missed, history, bounds>>

-----------------------------------------------------------------------------
(***************************************************************************)
(* resurrect: plan from a snapshot, reopen the worktree, consume.          *)
(***************************************************************************)

\* The sources a plan stands for.
Covers(r) == {Src(f) : f \in planFlats[r]} \cup
             UNION {e.members : e \in planEntries[r]}

\* resurrection_snapshot, under the lock; one candidate worktree of the plan.
MakePlan(r, d) ==
    /\ pc[r] = "idle"
    /\ lock = Free
    /\ planFlats' = [planFlats EXCEPT ![r] = {f \in flat : f.dir = d}]
    /\ planEntries' = [planEntries EXCEPT ![r] = {e \in entries : e.dir = d}]
    /\ planFlats'[r] # {} \/ planEntries'[r] # {}
    /\ pc' = [pc EXCEPT ![r] = "open"]
    /\ UNCHANGED <<store, lock, writes, tmux, obs, job, batch, known, panes,
                   seen, doomed, todo, missed, history, bounds>>

ResurrectDone(r) ==
    /\ pc' = [pc EXCEPT ![r] = "idle"]
    /\ planFlats' = [planFlats EXCEPT ![r] = {}]
    /\ planEntries' = [planEntries EXCEPT ![r] = {}]

Open(r) ==
    /\ pc[r] = "open"
    /\ restored' = restored \cup Covers(r)
    /\ pc' = [pc EXCEPT ![r] = "consume"]
    /\ UNCHANGED <<store, lock, writes, tmux, locals, ended, bounds>>

\* Already open, the main worktree, a dry run, or a failure: nothing consumed.
OpenFails(r) ==
    /\ pc[r] = "open"
    /\ ResurrectDone(r)
    /\ UNCHANGED <<store, lock, writes, tmux, obs, job, batch, known, panes,
                   seen, doomed, todo, missed, history, bounds>>

\* consume_agent_sources: flat sources one by one...
ConsumeLock(r) ==
    /\ pc[r] = "consume"
    /\ lock = Free
    /\ lock' = r
    /\ todo' = [todo EXCEPT ![r] = planFlats[r]]
    /\ pc' = [pc EXCEPT ![r] = "flats"]
    /\ UNCHANGED <<store, writes, tmux, obs, job, batch, known, panes, seen,
                   doomed, planFlats, planEntries, missed, history, bounds>>

SameFile(r, q) == r.pane = q.pane /\ r.rev = q.rev

ConsumeFlat(r, f) ==
    /\ pc[r] = "flats"
    /\ todo' = [todo EXCEPT ![r] = @ \ {f}]
    /\ flat' = {q \in flat : ~SameFile(q, f)}
    /\ missed' = IF \E q \in flat : SameFile(q, f) THEN missed
                 ELSE [missed EXCEPT ![r] = @ \cup {f}]
    /\ UNCHANGED <<disk, entries, compacted, lock, writes, tmux, pc, obs, job,
                   batch, known, panes, seen, doomed, planFlats, planEntries,
                   history, bounds>>

\* An entry holding nothing but flat sources of this very plan.
FullyPlanned(r, e) ==
    /\ e.pending = {}
    /\ e.count = Cardinality(e.recent)
    /\ e.recent \subseteq {Src(f) : f \in planFlats[r]}

\* Mutant: the entry of a planned directory goes, whatever was added to it.
ConsumedAnyRevision(r, e) ==
    \/ FullyPlanned(r, e) /\ \E f \in missed[r] : Src(f) \in e.recent
    \/ \E q \in planEntries[r] : q.dir = e.dir

\* ... then the manifest entries they were compacted into, and the planned
\* entries that are still at the planned revision, in one durable save.
Consumed(r, e) ==
    \/ FullyPlanned(r, e) /\ \E f \in missed[r] : Src(f) \in e.recent
    \/ \E q \in planEntries[r] : q.dir = e.dir /\ q.revision = e.revision

ConsumeSave(r) ==
    /\ pc[r] = "flats"
    /\ todo[r] = {}
    /\ entries' = {e \in entries : ~Consumed(r, e)}
    /\ missed' = [missed EXCEPT ![r] = {}]
    /\ lock' = Free
    /\ ResurrectDone(r)
    /\ UNCHANGED <<flat, disk, compacted, writes, tmux, obs, job, batch, known,
                   panes, seen, doomed, todo, history, bounds>>

-----------------------------------------------------------------------------
Compact(a) == CompactSkip(a) \/ CompactMerge(a) \/ CompactDelete(a) \/ CompactFinalize(a)

HookStep == HookNoServer \/ HookBoot \/ HookArchive \/ HookWrite \/ HookOverwrite \/ HookFinalize

DaemonStep(d) ==
    \/ DaemonObserve(d) \/ DaemonLock(d) \/ DaemonRead(d)
    \/ \E r \in seen[d] : Judge(d, r)
    \/ Prune(d) \/ EndPass(d)

CliStep(c) ==
    \/ CliRead(c) \/ CliPanes(c) \/ CliBoot(c)
    \/ \E r \in seen[c] : Judge(c, r)
    \/ Prune(c) \/ EndPass(c)

ResurrectStep(r) ==
    \/ \E d \in Dir : MakePlan(r, d)
    \/ Open(r) \/ OpenFails(r) \/ ConsumeLock(r)
    \/ \E f \in todo[r] : ConsumeFlat(r, f)
    \/ ConsumeSave(r)

Environment ==
    \/ \E p \in Pane, pid \in Pid \cup {NoPid} : PaneChange(p, pid)
    \/ ServerRestart
    \/ \E p \in Pane : Flush(p)
    \/ \E a \in Actor : Crash(a)
    \/ PowerLoss

Next ==
    \/ Environment
    \/ \E p \in Pane, d \in Dir : HookLock(p, d)
    \/ HookStep
    \/ \E r \in flat : ClearStatus(r) \/ Touch(r)
    \/ \E a \in Compactors : Compact(a) \/ CompactFails(a)
    \/ \E d \in Daemons : DaemonStep(d)
    \/ \E c \in Clis : CliStep(c)
    \/ \E r \in Resurrectors : ResurrectStep(r)

\* Processes holding the lock run on; daemons keep their loop going.
Fairness ==
    /\ WF_vars(HookStep \/ Compact(Hook))
    /\ \A d \in Daemons : SF_vars(DaemonLock(d) \/ Prune(d)) /\ WF_vars(DaemonStep(d) \/ Compact(d))
    /\ \A r \in Resurrectors :
         WF_vars((\E f \in todo[r] : ConsumeFlat(r, f)) \/ ConsumeSave(r))

Spec == Init /\ [][Next]_vars

FairSpec == Spec /\ Fairness

-----------------------------------------------------------------------------
(***************************************************************************)
(* Properties.                                                             *)
(***************************************************************************)

Steps == {"idle", "locked", "compact", "delete", "write", "overwrite",
          "finalize", "observed", "read", "panes", "boot", "judge", "prune",
          "open", "consume", "flats"}

\* Every variable has its type.
TypeOK ==
    /\ flat \subseteq Record
    /\ disk \subseteq Record
    /\ entries \subseteq Entry
    /\ compacted \in 0..MaxBoot
    /\ lock \in Actor \cup {Free}
    /\ writes \in Nat
    /\ boot \in Boot
    /\ live \in [Pane -> Pid \cup {NoPid}]
    /\ pc \in [Actor -> Steps]
    /\ obs \in [Compactors \cup Clis -> 0..MaxBoot]
    /\ job \subseteq [pane : Pane, dir : Dir, pid : Pid]
    /\ batch \in [Compactors -> SUBSET Record]
    /\ known \in [Daemons -> 0..MaxBoot]
    /\ panes \in [Reconcilers -> [Pane -> Pid \cup {NoPid}]]
    /\ seen \in [Reconcilers -> SUBSET Record]
    /\ doomed \in [Reconcilers -> SUBSET Record]
    /\ planFlats \in [Resurrectors -> SUBSET Record]
    /\ planEntries \in [Resurrectors -> SUBSET Entry]
    /\ todo \in [Resurrectors -> SUBSET Record]
    /\ missed \in [Resurrectors -> SUBSET Record]
    /\ ended \subseteq Source
    /\ restored \subseteq Source
    /\ failures \in Nat
    /\ losses \in Nat

\* No history is lost: an agent on file when its tmux server ended stays on
\* file or in the manifest until a resurrect has reopened its worktree,
\* whatever compactions, overwrites and consumptions are killed half way.
\* (state/store.rs; prunes and unflushed files aside, see Prune, PowerLoss.)
HistoryKept ==
    \A s \in ended \ restored : OnFile(s) \/ Archived(s)

\* Manifest entries disappear only through a resurrect, and only with the
\* sources its plan has restored: consume_agent_sources never drops history
\* that was merged into an entry after the plan was made.
ConsumesOnlyPlanned ==
    [][ \A e \in entries : \A s \in e.members :
          \/ \E q \in entries' : q.dir = e.dir /\ s \in q.members
          \/ \E r \in Resurrectors : pc[r] = "flats" /\ s \in Covers(r) ]_vars

\* An entry never counts less than the sources merged into it.  Consumption
\* relies on it: an entry whose count is the size of its last batch holds
\* nothing else (fully_planned in consume_agent_sources).
NeverUndercounts == \A e \in entries : Cardinality(e.members) <= e.count

\* What a hook compacts belongs to a server that has ended: it asks tmux for
\* the boot id while it holds the lock, so no newer record can be around.
HookCompactsEnded == \A r \in batch[Hook] : r.boot < boot

\* Once a context counts as compacted for the running server, no record of a
\* former server is left on file, where a pane id reused by the new server
\* could overwrite it.
CompactedMeansMoved ==
    compacted = boot => \A r \in flat : SameServer(r, boot)

\* Reconciliation never removes a record of a server older than the one it
\* observed, whatever happened to the file between reading and deleting it:
\* such a record is history, and only compaction or a resurrect may move it.
FormerNotPruned ==
    [][ \A a \in Reconcilers : pc[a] = "prune" /\ pc'[a] = "judge" =>
          \A r \in flat \ flat' : r.boot > obs[a] \/ SameServer(r, obs[a]) ]_vars

\* While a daemon keeps running, the records of a former server are moved
\* out of the agents directory unless yet another server starts.
EventuallyCompacted ==
    \A b \in Boot : boot = b ~> boot # b \/ Former(b) = {}
=============================================================================
