----------------------------- MODULE GitWorker -----------------------------
(***************************************************************************)
(* The git worker of the sidebar daemon (src/src/command/sidebar/daemon.rs, *)
(* spawn_git_worker) and the main loop's side of it.  The loop sends the   *)
(* directories of the agents; the worker finds the worktree each of them   *)
(* is in, watches the worktrees, reads their status and keeps it in a      *)
(* cache that the loop publishes when the worker raises a flag.  Watching  *)
(* is unreliable: events overflow, fail or vanish, and a platform may not  *)
(* watch files at all.  Recovery, polling and a rolling audit make up.     *)
(***************************************************************************)
EXTENDS Naturals, FiniteSets

CONSTANTS
    Path,        \* directories of agents
    Root,        \* worktrees, in the order of their paths
    None,        \* no worktree, no status, no message
    MaxVersion,  \* bound: changes
    Scene        \* what a behaviour starts from, and bounds on what it may do

Status == [root : Root, version : 0..MaxVersion]
Budget == {b \in [{"changes", "moves", "mishaps"} -> Nat] : b["changes"] <= MaxVersion}

ASSUME RootAssumption == Root \subseteq Nat /\ IsFiniteSet(Root)
ASSUME NoneAssumption == None \notin Root /\ None \notin Status
ASSUME SceneAssumption ==
    /\ MaxVersion \in Nat
    /\ Scene \subseteq [home : [Path -> Root \cup {None}], agents : SUBSET Path,
                        watches : {"nothing", "metadata", "files"}, budget : Budget]

VARIABLES
    home,      \* the worktree each directory is in, or None
    version,   \* the status of each worktree
    budget,    \* the changes, moves and mishaps still to come
    lost,      \* changes that no watch reported
    watches,   \* what can be watched: nothing, metadata, or files as well
    channel, overflow, failed,  \* events, lost track of events, an error
    agents, due, main,     \* agents, publish_pending, the loop's next step
    shown,     \* the statuses published last
    inbox,     \* the list of directories sent last and not yet taken
    flag,      \* publication_dirty
    pc,        \* the worker's next step
    active,    \* active_entries
    roots,     \* roots_by_agent
    cache,     \* the status of each directory, or None
    pending,   \* worktrees to read
    complete,  \* worktrees watched completely
    recovery, degraded, cursor, changed,
    reading    \* the status git has printed, to be stored

world == <<home, version, budget, lost>>
watching == <<watches, channel, overflow, failed>>
loop == <<agents, due, main, shown>>
found == <<active, roots>>
worker == <<pending, complete, recovery, degraded, cursor, changed, reading>>
vars == <<world, watching, loop, inbox, flag, pc, found, cache, worker>>

Step == {"receive", "resolve", "tend", "refresh", "store"}

\* The worktrees of the directories that the worker knows (unique_active).
Unique == {roots[p] : p \in active} \ {None}
PathsOf(r) == {p \in active : roots[p] = r}

Init ==
    /\ \E scene \in Scene :
           /\ home = scene.home /\ agents = scene.agents
           /\ watches = scene.watches /\ budget = scene.budget
    /\ version = [r \in Root |-> 0] /\ lost = {}
    /\ channel = {} /\ overflow = FALSE /\ failed = FALSE
    /\ due = TRUE /\ main = "loop"
    /\ shown = [p \in Path |-> None]
    /\ inbox = None /\ flag = FALSE
    /\ pc = "receive" /\ active = {} /\ roots = [p \in Path |-> None]
    /\ cache = [p \in Path |-> None]
    /\ pending = {} /\ complete = {}
    /\ recovery = FALSE /\ degraded = (watches = "nothing") /\ cursor = 0
    /\ changed = FALSE /\ reading = None

-----------------------------------------------------------------------------
(* The worktrees, and what the watcher makes of them. *)

\* Files and metadata of the worktree are watched.
Watched(r) == watches = "files" /\ r \in Unique \cap complete

Spend(what) ==
    /\ budget[what] > 0
    /\ budget' = [budget EXCEPT ![what] = @ - 1]

\* Commits, branches and files change.  The watcher sends an event; without all
\* watches it may send nothing.
Change(r) ==
    /\ Spend("changes")
    /\ version' = [version EXCEPT ![r] = @ + 1]
    /\ \/ watches # "nothing" /\ r \in Unique /\ channel' = channel \cup {r}
       \/ ~Watched(r) /\ UNCHANGED channel
    /\ UNCHANGED <<home, lost, watches, overflow, failed, loop, inbox, flag, pc, found, cache, worker>>

\* An event does not reach the worker: the channel was full of other events or
\* the system's queue was (need_rescan), or there was an error, or nobody knows.
Mishap(r) ==
    /\ Spend("mishaps") /\ r \in channel
    /\ channel' = channel \ {r}
    /\ \/ overflow' = TRUE /\ UNCHANGED <<failed, lost>>
       \/ failed' = TRUE /\ UNCHANGED <<overflow, lost>>
       \/ lost' = lost \cup {r} /\ UNCHANGED <<overflow, failed>>
    /\ UNCHANGED <<home, version, watches, loop, inbox, flag, pc, found, cache, worker>>

\* A directory is in another worktree than before: created, removed or moved.
Move(p) ==
    /\ Spend("moves")
    /\ \E r \in (Root \cup {None}) \ {home[p]} : home' = [home EXCEPT ![p] = r]
    /\ UNCHANGED <<version, lost, watching, loop, inbox, flag, pc, found, cache, worker>>

-----------------------------------------------------------------------------
(* The main loop of the daemon. *)

\* The agents are listed again; what is listed is to be published.
Observe ==
    /\ main = "loop" /\ Spend("moves")
    /\ \E S \in (SUBSET Path) \ {agents} : agents' = S
    /\ due' = TRUE
    /\ UNCHANGED <<home, version, lost, watching, main, shown, inbox, flag, pc, found, cache, worker>>

TakeFlag ==
    /\ main = "loop" /\ flag
    /\ flag' = FALSE /\ due' = TRUE
    /\ UNCHANGED <<world, watching, agents, main, shown, inbox, pc, found, cache, worker>>

\* The snapshot takes a copy of the cache.
Publish ==
    /\ main = "loop" /\ due
    /\ due' = FALSE /\ main' = "send" /\ shown' = cache
    /\ UNCHANGED <<world, watching, agents, inbox, flag, pc, found, cache, worker>>

\* Then the worker gets the directories; it reads the last list only.
Send ==
    /\ main = "send"
    /\ main' = "loop" /\ inbox' = agents
    /\ UNCHANGED <<world, watching, agents, due, shown, flag, pc, found, cache, worker>>

-----------------------------------------------------------------------------
(* The worker. *)

\* Mutant: events of worktrees that are not watched any more count as well.
ReceiveAll ==
    /\ pc = "receive" /\ pc' = "resolve"
    /\ pending' = pending \cup channel
    /\ recovery' = (recovery \/ overflow \/ failed)
    /\ degraded' = (degraded \/ failed)
    /\ channel' = {} /\ overflow' = FALSE /\ failed' = FALSE
    /\ UNCHANGED <<world, watches, loop, inbox, flag, found, cache, complete, cursor, changed, reading>>

\* Mutant: the overflow flag is reset and nothing else happens.
ReceiveLossily ==
    /\ pc = "receive" /\ pc' = "resolve"
    /\ pending' = pending \cup (channel \cap Unique)
    /\ recovery' = (recovery \/ failed)
    /\ degraded' = (degraded \/ failed)
    /\ channel' = {} /\ overflow' = FALSE /\ failed' = FALSE
    /\ UNCHANGED <<world, watches, loop, inbox, flag, found, cache, complete, cursor, changed, reading>>

\* The worker takes all events; without a watcher it sleeps.
Receive ==
    /\ pc = "receive" /\ pc' = "resolve"
    /\ pending' = pending \cup (channel \cap Unique)
    /\ recovery' = (recovery \/ overflow \/ failed)
    /\ degraded' = (degraded \/ failed)
    /\ channel' = {} /\ overflow' = FALSE /\ failed' = FALSE
    /\ UNCHANGED <<world, watches, loop, inbox, flag, found, cache, complete, cursor, changed, reading>>

\* Mutant: a directory keeps its status, whatever worktree it is in now.
ProjectedByPath(paths, found1) ==
    [p \in Path |-> IF p \in paths /\ found1[p] # None THEN cache[p] ELSE None]

\* A status belongs to a worktree: a directory keeps it while it stays in the
\* worktree, and one that comes to a worktree gets the status of the others.
Projected(paths, found1) ==
    LET StatusOf(r) ==
            LET has == {p \in PathsOf(r) : cache[p] # None}
            IN  IF has = {} THEN None ELSE cache[CHOOSE p \in has : TRUE]
    IN  [p \in Path |->
            IF p \notin paths \/ found1[p] = None THEN None
            ELSE IF p \in active /\ roots[p] = found1[p] /\ cache[p] # None
                 THEN cache[p]
                 ELSE StatusOf(found1[p])]

\* reconcile_worktree_watches: worktrees no agent is in any more are not watched
\* any more, and others are; one of their watches may fail.
Rewatch(unique) ==
    LET added == IF watches = "nothing" THEN {} ELSE unique \ Unique
    IN  \/ complete' = (complete \cap unique) \cup added /\ UNCHANGED budget
        \/ /\ Spend("mishaps")
           /\ \E r \in added : complete' = (complete \cap unique) \cup (added \ {r})

\* The new list is taken; worktrees are looked up for new directories, and for
\* all of them when what is known has expired.  If that changes anything, the
\* watches and the cache follow, and worktrees without a status are to be read.
\* So are those that are recent or focused now and were not: any of the old.
Resolve(expired) ==
    LET paths == IF inbox = None THEN active ELSE inbox
        known == IF expired THEN {} ELSE active
        lookup == [p \in Path |-> IF p \notin paths THEN None
                                  ELSE IF p \in known THEN roots[p] ELSE home[p]]
        unique == {lookup[p] : p \in paths} \ {None}
        missing == {r \in unique : \A p \in PathsOf(r) : cache[p] = None}
    IN  /\ pc = "resolve" /\ pc' = "tend" /\ inbox' = None
        /\ active' = paths /\ roots' = lookup
        /\ \/ /\ paths = active /\ lookup = roots
              /\ UNCHANGED <<cache, pending, complete, budget>>
           \/ /\ inbox # None \/ lookup # roots
              /\ cache' = Projected(paths, lookup)
              /\ \E wanted \in SUBSET (unique \cap Unique) :
                     pending' = (pending \cap unique) \cup missing \cup wanted
              /\ Rewatch(unique)
        /\ changed' = (cache' # cache)
        /\ UNCHANGED <<home, version, lost, watching, loop, flag, recovery, degraded, cursor, reading>>

\* The worker has changed the cache: it raises the flag and wakes the loop.
Announce == flag' = (flag \/ changed) /\ changed' = FALSE

\* The watches cannot be relied on: poll every worktree.
Polling == watches # "files" \/ degraded

\* Mutant: the cursor stays at the worktree that was audited.
TurnOfSame(S, whole) ==
    LET n == Cardinality(S)
        Nth(i) == CHOOSE r \in S : Cardinality({s \in S : s < r}) = i % n
        steps == {i \in 0..(n - 1) : Nth(cursor + i) \in whole}
        first == CHOOSE i \in steps : \A j \in steps : i <= j
    IN  IF steps = {} THEN [roots |-> {}, cursor |-> cursor % n]
        ELSE [roots |-> {Nth(cursor + first)}, cursor |-> (cursor + first) % n]

\* The complete worktree that is next in turn after the cursor.
Turn(S, whole) ==
    LET n == Cardinality(S)
        Nth(i) == CHOOSE r \in S : Cardinality({s \in S : s < r}) = i % n
        steps == {i \in 0..(n - 1) : Nth(cursor + i) \in whole}
        first == CHOOSE i \in steps : \A j \in steps : i <= j
    IN  IF steps = {} THEN [roots |-> {}, cursor |-> cursor % n]
        ELSE [roots |-> {Nth(cursor + first)}, cursor |-> (cursor + first + 1) % n]

\* What is done every now and then: recovery when it is due, polling of what
\* is not watched, with another attempt to watch it, and the audit of one
\* worktree that is.
Tend(elapsed) ==
    LET recovered == IF "recovery" \in elapsed /\ recovery THEN Unique ELSE {}
        polled == IF "poll" \notin elapsed THEN {}
                  ELSE IF Polling THEN Unique ELSE Unique \ complete
        audit == IF "audit" \in elapsed /\ ~Polling /\ Unique # {}
                 THEN Turn(Unique, complete')
                 ELSE [roots |-> {}, cursor |-> cursor]
    IN  /\ pc = "tend" /\ pc' = "refresh" /\ Announce
        /\ recovery' = (recovery /\ "recovery" \notin elapsed)
        /\ \E S \in SUBSET (IF Polling THEN {} ELSE polled) :
               complete' = complete \cup S
        /\ pending' = pending \cup recovered \cup polled \cup audit.roots
        /\ cursor' = audit.cursor
        /\ UNCHANGED <<world, watching, loop, inbox, found, cache, degraded, reading>>

\* Some time after the event, and after the last reading, git is asked.
Read(r) ==
    /\ pc = "refresh" /\ r \in pending
    /\ pending' = pending \ {r} /\ lost' = lost \ {r}
    /\ reading' = [root |-> r, version |-> version[r]]
    /\ pc' = "store"
    /\ UNCHANGED <<home, version, budget, watching, loop, inbox, flag, found, cache, complete, recovery, degraded, cursor, changed>>

\* Mutant: the flag depends on the last worktree of the round.
StoreLast ==
    /\ pc = "store" /\ pc' = "refresh"
    /\ cache' = [p \in Path |-> IF p \in PathsOf(reading.root) THEN reading ELSE cache[p]]
    /\ changed' = (cache' # cache)
    /\ reading' = None
    /\ UNCHANGED <<world, watching, loop, inbox, flag, found, pending, complete, recovery, degraded, cursor>>

\* refresh_git_status: the status goes to every directory of the worktree.
Store ==
    /\ pc = "store" /\ pc' = "refresh"
    /\ cache' = [p \in Path |-> IF p \in PathsOf(reading.root) THEN reading ELSE cache[p]]
    /\ changed' = (changed \/ cache' # cache)
    /\ reading' = None
    /\ UNCHANGED <<world, watching, loop, inbox, flag, found, pending, complete, recovery, degraded, cursor>>

\* No worktree is ready, or no more.
Refreshed ==
    /\ pc = "refresh" /\ pc' = "receive" /\ Announce
    /\ UNCHANGED <<world, watching, loop, inbox, found, cache, pending, complete, recovery, degraded, cursor, reading>>

-----------------------------------------------------------------------------
Main == TakeFlag \/ Publish \/ Send

Interval == SUBSET {"recovery", "poll", "audit"}

Worker ==
    \/ Receive
    \/ \E expired \in BOOLEAN : Resolve(expired)
    \/ \E elapsed \in Interval : Tend(elapsed)
    \/ \E r \in Root : Read(r)
    \/ Store \/ Refreshed

Next ==
    \/ \E r \in Root : Change(r) \/ Mishap(r)
    \/ \E p \in Path : Move(p)
    \/ Observe
    \/ Main
    \/ Worker

Spec == Init /\ [][Next]_vars

\* Both threads go on.  Intervals end (at most 30 s, against a worker that
\* goes round every second), and so does the delay of a pending reading.
Fairness ==
    /\ WF_vars(Main) /\ WF_vars(Worker)
    /\ SF_vars(Resolve(TRUE))
    /\ \A i \in {"recovery", "poll", "audit"} :
           SF_vars(\E elapsed \in Interval : i \in elapsed /\ Tend(elapsed))
    /\ \A r \in Root : SF_vars(Read(r))

FairSpec == Spec /\ Fairness

-----------------------------------------------------------------------------
\* What is kept, watched and pending belongs to the directories that are known.
TypeOK ==
    /\ home \in [Path -> Root \cup {None}] /\ version \in [Root -> 0..MaxVersion]
    /\ budget \in Budget /\ lost \subseteq Root
    /\ watches \in {"nothing", "metadata", "files"}
    /\ channel \subseteq Root /\ overflow \in BOOLEAN /\ failed \in BOOLEAN
    /\ agents \subseteq Path /\ due \in BOOLEAN /\ main \in {"loop", "send"}
    /\ inbox \in (SUBSET Path) \cup {None} /\ flag \in BOOLEAN
    /\ pc \in Step /\ active \subseteq Path /\ roots \in [Path -> Root \cup {None}]
    /\ shown \in [Path -> Status \cup {None}] /\ cache \in [Path -> Status \cup {None}]
    /\ pending \subseteq Unique /\ complete \subseteq Unique
    /\ recovery \in BOOLEAN /\ degraded \in BOOLEAN /\ changed \in BOOLEAN
    /\ cursor \in Nat /\ reading \in Status \cup {None}
    /\ pc = "store" <=> reading # None

\* A directory has the status of the worktree it was last found in and of no
\* other, and directories of one worktree have the same (reconcile_git_cache:
\* agents start, end and change directory between any two readings).
OwnStatus ==
    \A p \in Path :
        /\ cache[p] # None => p \in active /\ cache[p].root = roots[p]
        /\ \A q \in active :
               p \in active /\ roots[p] = roots[q] => cache[p] = cache[q]

Behind(r) == \E p \in PathsOf(r) : cache[p] # [root |-> r, version |-> version[r]]

\* A change of a completely watched worktree that a watch has reported is not
\* forgotten before the status is read again, however full the channel, and
\* whatever list of directories comes in between.
NoticedStaysKnown ==
    \A r \in Root : Watched(r) /\ Behind(r) =>
        \/ r \in pending \cup channel \cup lost
        \/ overflow \/ recovery \/ failed
        \/ reading = [root |-> r, version |-> version[r]]

\* A cache that differs from what is published is announced or will be: the
\* flag is up, or taken by the loop, or the worker is yet to raise it.
ChangesAnnounced ==
    cache # shown => flag \/ due \/ changed

\* When worktrees and agents are left alone, the sidebar comes to show the
\* status of every agent's worktree and keeps showing it: with a watcher or
\* without, after overflows and errors, and after changes no watch reported.
EventuallyCurrent ==
    <>[](shown = [p \in Path |->
             IF p \in agents /\ home[p] # None
             THEN [root |-> home[p], version |-> version[home[p]]] ELSE None])
=============================================================================
