-------------------------- MODULE SidebarBroadcast --------------------------
(***************************************************************************)
(* How a change in tmux reaches the sidebar panes                          *)
(* (src/src/command/sidebar/daemon.rs, client.rs, runtime.rs).             *)
(*                                                                         *)
(* In the daemon run the main loop, a signal thread and worker threads     *)
(* that wake the loop, and an accept thread that hands the current         *)
(* snapshot to each new client.  The loop broadcasts every changed         *)
(* snapshot, writing to the clients without holding the mutex of the       *)
(* socket state.  In each sidebar process a reader thread keeps the latest *)
(* snapshot for the event loop.                                            *)
(*                                                                         *)
(* A snapshot is abstracted to the versions of what it was made from.      *)
(* An action is what one thread does under a lock or to one atomic,        *)
(* channel or socket.  Timers that fire whatever happens (the two-second   *)
(* poll, captures, maintenance) may fire; the specification does not say   *)
(* that they do.                                                           *)
(***************************************************************************)
EXTENDS Naturals, Sequences

CONSTANTS
    Client,         \* sidebar panes
    Blank,          \* no snapshot
    Eof,            \* the daemon closed the stream
    Unsendable,     \* snapshots that cannot be serialized or exceed 1 MiB
    MaxTmuxChanges, \* bound: changes in tmux
    MaxWorkChanges, \* bound: changes of the caches
    MaxFailures,    \* bound: failed writes and accepts, closed sidebar panes
    MaxQueryErrors, \* bound: failed tmux queries
    MaxEvents       \* bound: all of these together

ASSUME BoundsAssumption ==
    /\ MaxTmuxChanges \in Nat /\ MaxWorkChanges \in Nat
    /\ MaxFailures \in Nat /\ MaxQueryErrors \in Nat /\ MaxEvents \in Nat

\* The signal thread raises observation_dirty, the workers publication_dirty.
Notifier == {"observation", "publication"}

Snapshot == [tmux : Nat, work : Nat]

ASSUME MarkersAssumption == Blank \notin Snapshot /\ Eof \notin Snapshot
ASSUME UnsendableAssumption == Unsendable \subseteq Snapshot

VARIABLES
    source,    \* what tmux shows and what the worker caches hold
    \* notifying threads
    raised,    \* signals sent and not yet handled
    npc,       \* next step of the signal thread and of a worker
    dirty,     \* observation_dirty, publication_dirty
    token,     \* wake channel: one message
    \* main loop
    mpc,       \* next step
    timer,     \* Scheduler.event_observation
    poll,      \* Scheduler.next_observation has passed
    inputs,    \* cached_inputs: the tmux version (0 when none)
    pending,   \* publish_pending
    \* SocketState
    cached,    \* BroadcastCache: generation and snapshot
    clients,   \* registered streams
    tosend,    \* streams a broadcast has taken and not yet written to
    sent,      \* ... and has written to
    \* accept thread
    queue,     \* connections waiting to be accepted
    apc,       \* next step
    fresh,     \* the stream being accepted
    copy,      \* what it is to be sent
    \* sockets; a stream is a client with the number of its connection
    conn,      \* current connection of each client (0 when none)
    conns,     \* connections so far
    wire,      \* what the daemon wrote and the client has not read
    \* sidebar processes
    latest,    \* latest snapshot, not yet taken
    rpc,       \* next step of the reader thread
    event,     \* a wake-up is on its way to the event loop
    shown,     \* what the pane displays
    failures, errors

notifying == <<raised, npc>>
loop == <<mpc, timer, poll, inputs, pending>>
server == <<cached, clients, tosend, sent>>
accepting == <<apc, fresh, copy>>
sockets == <<conn, conns, wire, queue>>
panes == <<latest, rpc, event, shown>>
bounds == <<failures, errors>>
vars == <<source, notifying, dirty, token, loop, server, accepting, sockets,
          panes, bounds>>

Stream == Client \X (Nat \ {0})
NoStream == <<>>

Open(s) == conn[s[1]] = s[2]

Init ==
    /\ source = [tmux |-> 1, work |-> 1]
    /\ raised = FALSE /\ npc = [n \in Notifier |-> "idle"]
    /\ dirty = [n \in Notifier |-> FALSE] /\ token = FALSE
    /\ mpc = "top" /\ timer = "off" /\ poll = TRUE
    /\ inputs = 0 /\ pending = FALSE
    /\ cached = [gen |-> 0, snap |-> Blank]
    /\ clients = {} /\ tosend = {} /\ sent = {}
    /\ apc = "accept" /\ fresh = NoStream /\ copy = cached
    /\ conn = [c \in Client |-> 0] /\ conns = conn
    /\ wire = [c \in Client |-> <<>>] /\ queue = <<>>
    /\ latest = [c \in Client |-> Blank]
    /\ rpc = [c \in Client |-> "read"]
    /\ event = [c \in Client |-> FALSE]
    /\ shown = latest
    /\ failures = 0 /\ errors = 0

-----------------------------------------------------------------------------
(***************************************************************************)
(* Changes and the threads that report them.                               *)
(***************************************************************************)

MayHappen == source.tmux + source.work + failures + errors < MaxEvents + 2

\* A window or pane changes; the tmux hook sends SIGUSR1 in the background.
TmuxChange ==
    /\ source.tmux <= MaxTmuxChanges /\ MayHappen
    /\ source' = [source EXCEPT !.tmux = @ + 1]
    /\ raised' = TRUE
    /\ UNCHANGED <<npc, dirty, token, loop, server, accepting, sockets, panes, bounds>>

SignalTaken ==
    /\ raised
    /\ npc["observation"] = "idle"
    /\ raised' = FALSE
    /\ npc' = [npc EXCEPT !["observation"] = "flag"]
    /\ UNCHANGED <<source, dirty, token, loop, server, accepting, sockets, panes, bounds>>

\* A worker updates its cache before it reports the change.
WorkChange ==
    /\ source.work <= MaxWorkChanges /\ MayHappen
    /\ npc["publication"] = "idle"
    /\ source' = [source EXCEPT !.work = @ + 1]
    /\ npc' = [npc EXCEPT !["publication"] = "flag"]
    /\ UNCHANGED <<raised, dirty, token, loop, server, accepting, sockets, panes, bounds>>

RaiseFlag(n) ==
    /\ npc[n] = "flag"
    /\ dirty' = [dirty EXCEPT ![n] = TRUE]
    /\ npc' = [npc EXCEPT ![n] = "wake"]
    /\ UNCHANGED <<source, raised, token, loop, server, accepting, sockets, panes, bounds>>

\* Mutant: the loop is woken only when it sleeps.
WakeSleeper(n) ==
    /\ npc[n] = "wake"
    /\ token' = (token \/ mpc = "wait")
    /\ npc' = [npc EXCEPT ![n] = "idle"]
    /\ UNCHANGED <<source, raised, dirty, loop, server, accepting, sockets, panes, bounds>>

\* try_send: a wake-up already in the channel is enough.
WakeLoop(n) ==
    /\ npc[n] = "wake"
    /\ token' = TRUE
    /\ npc' = [npc EXCEPT ![n] = "idle"]
    /\ UNCHANGED <<source, raised, dirty, loop, server, accepting, sockets, panes, bounds>>

-----------------------------------------------------------------------------
(***************************************************************************)
(* The main loop.                                                          *)
(***************************************************************************)

ObservationDue == poll \/ timer = "expired"

\* swap(false) on each flag.
TakeObservation ==
    /\ mpc = "top"
    /\ dirty' = [dirty EXCEPT !["observation"] = FALSE]
    /\ timer' = IF dirty["observation"] /\ timer = "off" THEN "running" ELSE timer
    /\ mpc' = "flags"
    /\ UNCHANGED <<source, notifying, token, poll, inputs, pending, server,
                   accepting, sockets, panes, bounds>>

TakePublication ==
    /\ mpc = "flags"
    /\ dirty' = [dirty EXCEPT !["publication"] = FALSE]
    /\ pending' = (pending \/ dirty["publication"])
    /\ mpc' = IF ObservationDue THEN "observe" ELSE "publish"
    /\ UNCHANGED <<source, notifying, token, timer, poll, inputs, server,
                   accepting, sockets, panes, bounds>>

\* Scheduler::finish_observation comes before the query; a failed query is
\* repeated by the next poll only.
Observe ==
    /\ mpc = "observe"
    /\ timer' = "off" /\ poll' = FALSE
    /\ \/ /\ inputs' = source.tmux /\ pending' = TRUE
          /\ UNCHANGED errors
       \/ /\ errors < MaxQueryErrors /\ MayHappen
          /\ errors' = errors + 1
          /\ UNCHANGED <<inputs, pending>>
    /\ mpc' = "publish"
    /\ UNCHANGED <<source, notifying, dirty, token, server, accepting, sockets,
                   panes, failures>>

\* SocketServer::broadcast up to the writes.  A capture of the panes, made
\* every two seconds, asks for a publication too.  A snapshot that cannot be
\* sent is given up: the request for it is gone, and the one before stays cached.
Publish ==
    /\ mpc = "publish"
    /\ \E capture \in BOOLEAN :
       LET snap == [tmux |-> inputs, work |-> source.work]
           due == (pending \/ capture) /\ inputs # 0
       IN /\ pending' = (pending /\ ~due)
          /\ IF due /\ snap # cached.snap /\ snap \notin Unsendable
             THEN /\ cached' = [gen |-> cached.gen + 1, snap |-> snap]
                  /\ tosend' = clients /\ clients' = {}
                  /\ mpc' = "send"
             ELSE /\ mpc' = "wait"
                  /\ UNCHANGED <<cached, tosend, clients>>
    /\ UNCHANGED <<source, notifying, dirty, token, timer, poll, inputs, sent,
                   accepting, sockets, panes, bounds>>

Written(s) == wire' = [wire EXCEPT ![s[1]] = Append(@, cached.snap)]

\* A write fails when the client is gone or does not read for 100 ms; the
\* stream is dropped and so closed.
WriteFails(s) ==
    IF Open(s) THEN /\ failures < MaxFailures /\ MayHappen
                    /\ failures' = failures + 1
                    /\ wire' = [wire EXCEPT ![s[1]] = Append(@, Eof)]
               ELSE UNCHANGED <<failures, wire>>

Send(s) ==
    /\ mpc = "send"
    /\ tosend' = tosend \ {s}
    /\ \/ /\ Open(s)
          /\ Written(s)
          /\ sent' = sent \cup {s}
          /\ UNCHANGED failures
       \/ /\ WriteFails(s)
          /\ UNCHANGED sent
    /\ UNCHANGED <<source, notifying, dirty, token, loop, cached, clients,
                   accepting, conn, conns, queue, panes, errors>>

\* The clients that took the snapshot are registered again, beside those
\* accepted meanwhile.
Join ==
    /\ mpc = "send"
    /\ tosend = {}
    /\ clients' = clients \cup sent
    /\ sent' = {}
    /\ mpc' = "wait"
    /\ UNCHANGED <<source, notifying, dirty, token, timer, poll, inputs, pending,
                   cached, tosend, accepting, sockets, panes, bounds>>

\* recv_timeout returns: a wake-up, or an observation is due ...
Wake ==
    /\ mpc = "wait"
    /\ token \/ ObservationDue
    /\ token' = FALSE
    /\ mpc' = "top"
    /\ UNCHANGED <<source, notifying, dirty, timer, poll, inputs, pending, server,
                   accepting, sockets, panes, bounds>>

\* ... or the deadline of a capture, the heartbeat or maintenance has passed.
Tick ==
    /\ mpc = "wait"
    /\ mpc' = "top"
    /\ UNCHANGED <<source, notifying, dirty, token, timer, poll, inputs, pending,
                   server, accepting, sockets, panes, bounds>>

\* client_count forgets the clients that are gone.
CountClients ==
    /\ mpc = "wait"
    /\ \E s \in clients : ~Open(s)
    /\ clients' = {s \in clients : Open(s)}
    /\ UNCHANGED <<source, notifying, dirty, token, loop, cached, tosend, sent,
                   accepting, sockets, panes, bounds>>

\* 50 ms after the first event; two seconds after the last poll.
TimerExpires ==
    /\ timer = "running"
    /\ timer' = "expired"
    /\ UNCHANGED <<source, notifying, dirty, token, mpc, poll, inputs, pending,
                   server, accepting, sockets, panes, bounds>>

PollDue ==
    /\ ~poll
    /\ poll' = TRUE
    /\ UNCHANGED <<source, notifying, dirty, token, mpc, timer, inputs, pending,
                   server, accepting, sockets, panes, bounds>>

-----------------------------------------------------------------------------
(***************************************************************************)
(* The accept thread.                                                      *)
(***************************************************************************)

Waiting(c) == \E i \in DOMAIN queue : queue[i] = <<c, conn[c]>>

Accept ==
    /\ apc = "accept"
    /\ queue # <<>>
    /\ fresh' = Head(queue) /\ queue' = Tail(queue)
    /\ apc' = "read"
    /\ UNCHANGED <<source, notifying, dirty, token, loop, server, copy, conn,
                   conns, wire, panes, bounds>>

\* Any error but an interruption ends the thread, and the listener with it:
\* who is in the queue is disconnected, and nobody can connect any more.  The
\* registered clients go on being served.
AcceptFails ==
    /\ apc = "accept"
    /\ failures < MaxFailures /\ MayHappen
    /\ failures' = failures + 1
    /\ apc' = "ended"
    /\ wire' = [c \in Client |-> IF Waiting(c) THEN Append(wire[c], Eof) ELSE wire[c]]
    /\ queue' = <<>>
    /\ UNCHANGED <<source, notifying, dirty, token, loop, server, fresh, copy,
                   conn, conns, panes, errors>>

\* Mutant: the client is registered before it is written to.
RegisterFirst ==
    /\ apc = "read"
    /\ copy' = cached
    /\ clients' = clients \cup {fresh}
    /\ apc' = IF cached.gen = 0 THEN "register" ELSE "write"
    /\ UNCHANGED <<source, notifying, dirty, token, loop, cached, tosend, sent,
                   fresh, sockets, panes, bounds>>

\* Mutant: an empty payload is written too.
WriteAlways ==
    /\ apc = "read"
    /\ copy' = cached
    /\ apc' = "write"
    /\ UNCHANGED <<source, notifying, dirty, token, loop, server, fresh, sockets,
                   panes, bounds>>

\* Under the mutex: generation and payload.
ReadCache ==
    /\ apc = "read"
    /\ copy' = cached
    /\ apc' = IF cached.gen = 0 THEN "register" ELSE "write"
    /\ UNCHANGED <<source, notifying, dirty, token, loop, server, fresh, sockets,
                   panes, bounds>>

WriteFresh ==
    /\ apc = "write"
    /\ \/ /\ Open(fresh)
          /\ wire' = [wire EXCEPT ![fresh[1]] = Append(@, copy.snap)]
          /\ apc' = "register"
          /\ UNCHANGED <<failures, fresh>>
       \/ /\ WriteFails(fresh)
          /\ apc' = "accept" /\ fresh' = NoStream
    /\ UNCHANGED <<source, notifying, dirty, token, loop, server, copy, conn,
                   conns, queue, panes, errors>>

\* Mutant: the new client is registered whatever was broadcast meanwhile.
RegisterAnyway ==
    /\ apc = "register"
    /\ apc' = "accept"
    /\ clients' = clients \cup {fresh} /\ fresh' = NoStream
    /\ UNCHANGED <<source, notifying, dirty, token, loop, cached, tosend, sent,
                   copy, sockets, panes, bounds>>

\* Under the mutex: register, unless another generation was broadcast.
Register ==
    /\ apc = "register"
    /\ IF copy.gen = cached.gen
       THEN /\ clients' = clients \cup {fresh} /\ fresh' = NoStream
            /\ apc' = "accept"
       ELSE /\ apc' = "read"
            /\ UNCHANGED <<clients, fresh>>
    /\ UNCHANGED <<source, notifying, dirty, token, loop, cached, tosend, sent,
                   copy, sockets, panes, bounds>>

-----------------------------------------------------------------------------
(***************************************************************************)
(* A sidebar process.                                                      *)
(***************************************************************************)

Connect(c) ==
    /\ apc # "ended"
    /\ conn[c] = 0
    /\ rpc[c] = "read"
    /\ conns' = [conns EXCEPT ![c] = @ + 1]
    /\ conn' = [conn EXCEPT ![c] = conns'[c]]
    /\ queue' = Append(queue, <<c, conns'[c]>>)
    /\ UNCHANGED <<source, notifying, dirty, token, loop, server, accepting,
                   wire, panes, bounds>>

\* Mutant: the event loop is woken before the snapshot is stored.
WakeFirst(c) ==
    /\ wire[c] # <<>>
    /\ Head(wire[c]) # Eof
    /\ \/ /\ rpc[c] = "read"
          /\ event' = [event EXCEPT ![c] = TRUE]
          /\ rpc' = [rpc EXCEPT ![c] = "wake"]
          /\ UNCHANGED <<latest, wire>>
       \/ /\ rpc[c] = "wake"
          /\ latest' = [latest EXCEPT ![c] = Head(wire[c])]
          /\ wire' = [wire EXCEPT ![c] = Tail(@)]
          /\ rpc' = [rpc EXCEPT ![c] = "read"]
          /\ UNCHANGED event
    /\ UNCHANGED <<source, notifying, dirty, token, loop, server, accepting,
                   conn, conns, queue, shown, bounds>>

\* read_loop: a complete snapshot, or the end of the stream.
ReadSnapshot(c) ==
    /\ rpc[c] = "read"
    /\ wire[c] # <<>>
    /\ IF Head(wire[c]) = Eof
       THEN /\ conn' = [conn EXCEPT ![c] = 0]
            /\ wire' = [wire EXCEPT ![c] = <<>>]
            /\ UNCHANGED <<latest, rpc>>
       ELSE /\ latest' = [latest EXCEPT ![c] = Head(wire[c])]
            /\ wire' = [wire EXCEPT ![c] = Tail(@)]
            /\ rpc' = [rpc EXCEPT ![c] = "wake"]
            /\ UNCHANGED conn
    /\ UNCHANGED <<source, notifying, dirty, token, loop, server, accepting,
                   conns, queue, event, shown, bounds>>

\* The wake-up travels through a channel of one message and a forwarding
\* thread to the event loop.
WakePane(c) ==
    /\ rpc[c] = "wake"
    /\ event' = [event EXCEPT ![c] = TRUE]
    /\ rpc' = [rpc EXCEPT ![c] = "read"]
    /\ UNCHANGED <<source, notifying, dirty, token, loop, server, accepting,
                   sockets, latest, shown, bounds>>

\* SnapshotReady: take the latest snapshot, if it is still there.
Show(c) ==
    /\ event[c]
    /\ event' = [event EXCEPT ![c] = FALSE]
    /\ shown' = [shown EXCEPT ![c] = IF latest[c] = Blank THEN @ ELSE latest[c]]
    /\ latest' = [latest EXCEPT ![c] = Blank]
    /\ UNCHANGED <<source, notifying, dirty, token, loop, server, accepting,
                   sockets, rpc, bounds>>

\* The pane is closed; another one may open in its place.
ClosePane(c) ==
    /\ failures < MaxFailures /\ MayHappen
    /\ conn[c] # 0
    /\ failures' = failures + 1
    /\ conn' = [conn EXCEPT ![c] = 0]
    /\ wire' = [wire EXCEPT ![c] = <<>>]
    /\ latest' = [latest EXCEPT ![c] = Blank]
    /\ rpc' = [rpc EXCEPT ![c] = "read"]
    /\ event' = [event EXCEPT ![c] = FALSE]
    /\ shown' = [shown EXCEPT ![c] = Blank]
    /\ UNCHANGED <<source, notifying, dirty, token, loop, server, accepting,
                   conns, queue, errors>>

-----------------------------------------------------------------------------
Notify ==
    \/ SignalTaken
    \/ \E n \in Notifier : RaiseFlag(n) \/ WakeLoop(n)

Loop ==
    \/ TakeObservation \/ TakePublication \/ Observe \/ Publish
    \/ \E s \in tosend : Send(s)
    \/ Join \/ Wake

Accepting == Accept \/ ReadCache \/ WriteFresh \/ Register

Pane(c) == Connect(c) \/ ReadSnapshot(c) \/ WakePane(c)

Next ==
    \/ TmuxChange \/ WorkChange \/ Notify
    \/ Loop \/ Tick \/ CountClients \/ TimerExpires \/ PollDue
    \/ Accepting \/ AcceptFails
    \/ \E c \in Client : Pane(c) \/ Show(c) \/ ClosePane(c)

Spec == Init /\ [][Next]_vars

\* Threads run on and the 50 ms timer expires; the periodic timers, which
\* would hide a lost wake-up, are not relied on.
Fairness ==
    /\ WF_vars(SignalTaken)
    /\ \A n \in Notifier : WF_vars(RaiseFlag(n) \/ WakeLoop(n))
    /\ WF_vars(Loop) /\ WF_vars(TimerExpires) /\ WF_vars(Accepting)
    /\ \A c \in Client : WF_vars(Pane(c)) /\ WF_vars(Show(c))

FairSpec == Spec /\ Fairness

-----------------------------------------------------------------------------
(***************************************************************************)
(* Properties.                                                             *)
(***************************************************************************)

TypeOK ==
    /\ source \in Snapshot
    /\ raised \in BOOLEAN
    /\ npc \in [Notifier -> {"idle", "flag", "wake"}]
    /\ dirty \in [Notifier -> BOOLEAN]
    /\ token \in BOOLEAN
    /\ mpc \in {"top", "flags", "observe", "publish", "send", "wait"}
    /\ timer \in {"off", "running", "expired"}
    /\ poll \in BOOLEAN
    /\ inputs \in Nat
    /\ pending \in BOOLEAN
    /\ cached \in [gen : Nat, snap : Snapshot \cup {Blank}]
    /\ clients \subseteq Stream /\ tosend \subseteq Stream /\ sent \subseteq Stream
    /\ queue \in Seq(Stream)
    /\ apc \in {"accept", "read", "write", "register", "ended"}
    /\ fresh \in Stream \cup {NoStream}
    /\ copy \in [gen : Nat, snap : Snapshot \cup {Blank}]
    /\ conn \in [Client -> Nat] /\ conns \in [Client -> Nat]
    /\ wire \in [Client -> Seq(Snapshot \cup {Eof})]
    /\ latest \in [Client -> Snapshot \cup {Blank}]
    /\ rpc \in [Client -> {"read", "wake"}]
    /\ event \in [Client -> BOOLEAN]
    /\ shown \in [Client -> Snapshot \cup {Blank}]
    /\ failures \in Nat /\ errors \in Nat

\* What a client has got last.
Got(c) ==
    IF wire[c] # <<>> THEN wire[c][Len(wire[c])]
    ELSE IF latest[c] # Blank THEN latest[c] ELSE shown[c]

\* A registered client has been sent the snapshot broadcast last: whatever
\* the order in which the accept thread and a broadcast take the mutex, no
\* snapshot falls between the one a client is accepted with and the ones
\* broadcast to it.  (daemon.rs, SocketServer.)
RegisteredUpToDate ==
    \A s \in clients : Open(s) /\ cached.gen > 0 => Got(s[1]) = cached.snap

\* The loop never sleeps on a reported change: a raised flag it has not seen
\* comes with a wake-up, sent or about to be sent, although the channel holds
\* one message and both flags share it.  (daemon.rs, run, spawn_signal_listener.)
NoLostWakeUp ==
    mpc = "wait" /\ (\E n \in Notifier : dirty[n]) =>
        token \/ \E n \in Notifier : npc[n] = "wake"

\* Nor does a sidebar process sleep on a snapshot.  (client.rs, read_loop.)
NoSnapshotLeft ==
    \A c \in Client : latest[c] # Blank => event[c] \/ rpc[c] = "wake"

Feed == INSTANCE SidebarFeed WITH source <- source, shown <- shown

\* Every sidebar pane shows states that the sources had, in their order.
ImplementsFeed == Feed!Spec

\* A pane that is connected or can connect again ends up showing the final
\* state, if that can be sent.
EventuallyCurrent ==
    <>[](source \notin Unsendable) =>
      \A c \in Client : <>[](apc # "ended" \/ conn[c] # 0) => <>[](shown[c] = source)

\* When the changes end, every pane that is or can be connected ends up showing
\* the final state, also one that was closed or dropped on the way, and also one
\* that the daemon still serves when it accepts no others.  Unless a query of
\* tmux fails, the signals and wake-ups are enough: no periodic timer has to hide
\* a lost one.  (daemon.rs, run; client.rs, connection_loop.)
PromptlyCurrent == <>[](errors = 0) => EventuallyCurrent

\* A failed query has consumed its event; the poll makes up for it.
\* (daemon.rs, run; test failed_observation_keeps_the_periodic_recovery_deadline.)
CurrentByPolling == WF_vars(PollDue) => EventuallyCurrent
=============================================================================
