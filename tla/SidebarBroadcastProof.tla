------------------------ MODULE SidebarBroadcastProof ------------------------
(***************************************************************************)
(* Theorems of SidebarBroadcast, for any number of clients and any bounds: *)
(* its type invariant; that neither the main loop of the daemon nor the    *)
(* event loop of a sidebar process sleeps on something it was told of;     *)
(* that a registered client has got the snapshot broadcast last; and that  *)
(* the whole implements SidebarFeed.                                       *)
(*                                                                         *)
(* Shape is inductive on its own.  NoLostWakeUp is not inductive: the loop *)
(* takes its flags in two steps, and the invariant WakeUpKept says what is *)
(* still owed to each flag at every step of the loop, not in its sleep     *)
(* only.  RegisteredUpToDate holds because a stream is in one place at a   *)
(* time (Streams) and what the accept thread has written is still current  *)
(* when it registers the stream (UpToDate).  The order of the versions a   *)
(* pane shows is an order of everything on the way to it (Ordered).        *)
(***************************************************************************)
EXTENDS SidebarBroadcast, SequenceTheorems, TLAPS

\* Generation zero is the empty cache; the copy the accept thread took is of
\* the cached generation or of an older one.
CacheShape ==
    /\ cached.gen = 0 <=> cached.snap = Blank
    /\ copy.gen = 0 <=> copy.snap = Blank
    /\ copy.gen <= cached.gen
    /\ copy.gen = cached.gen => copy.snap = cached.snap

\* A broadcast sends a snapshot, and its stream sets are used nowhere else.
LoopShape ==
    /\ mpc = "send" => cached.gen > 0
    /\ mpc # "send" => tosend = {} /\ sent = {}

\* The accept thread writes only snapshots, and holds a stream after accepting.
AcceptShape ==
    /\ apc = "write" => copy.gen > 0
    /\ apc \notin {"accept", "ended"} => fresh \in Stream

\* The inductive form of the type invariant: what can be written to a socket
\* is a snapshot because of the three conjuncts beside TypeOK.
Shape == TypeOK /\ CacheShape /\ LoopShape /\ AcceptShape

\* A change of either source gives a snapshot, of natural numbers.
LEMMA SnapshotNext ==
  ASSUME NEW v \in Snapshot
  PROVE  /\ [v EXCEPT !.tmux = @ + 1] \in Snapshot
         /\ [v EXCEPT !.work = @ + 1] \in Snapshot
         /\ v.tmux \in Nat /\ v.work \in Nat
  BY DEF Snapshot

\* What Publish builds is a snapshot, and not the marker for none.
LEMMA SnapshotOf ==
  ASSUME NEW t \in Nat, NEW w \in Nat
  PROVE  [tmux |-> t, work |-> w] \in Snapshot \ {Blank}
  BY MarkersAssumption DEF Snapshot

\* The invariant holds when the daemon starts.
LEMMA ShapeInit == Init => Shape
  <1> SUFFICES ASSUME Init PROVE Shape
    OBVIOUS
  <1>1. source \in Snapshot
    BY SnapshotOf DEF Init
  <1>2. \A c \in Client : wire[c] = <<>>
    BY DEF Init
  <1>3. cached \in [gen : Nat, snap : Snapshot \cup {Blank}]
    BY DEF Init
  <1>4. copy \in [gen : Nat, snap : Snapshot \cup {Blank}]
    BY <1>3 DEF Init
  <1>5. CacheShape
    BY DEF Init, CacheShape
  <1>6. LoopShape /\ AcceptShape
    BY DEF Init, LoopShape, AcceptShape
  <1>7. /\ wire \in [Client -> Seq(Snapshot \cup {Eof})]
        /\ queue \in Seq(Stream)
    BY DEF Init
  <1>8. TypeOK
    BY <1>1, <1>3, <1>4, <1>7 DEF Init, TypeOK
  <1> QED
    BY <1>5, <1>6, <1>8 DEF Shape

\* Every step keeps the types: the writes of Send and WriteFresh put snapshots
\* on the wire and ReadSnapshot takes snapshots from it.
LEMMA TypeStep == Shape /\ [Next]_vars => TypeOK'
  <1> SUFFICES ASSUME Shape, [Next]_vars PROVE TypeOK'
    OBVIOUS
  <1>a. TypeOK
    BY DEF Shape
  <1>b. mpc = "send" => cached.snap \in Snapshot
    BY DEF Shape, TypeOK, CacheShape, LoopShape
  <1>c. apc = "write" => copy.snap \in Snapshot
    BY DEF Shape, TypeOK, CacheShape, AcceptShape
  <1>d. apc \notin {"accept", "ended"} => fresh \in Stream
    BY DEF Shape, AcceptShape
  <1> HIDE DEF Shape
  <1> USE <1>a DEF TypeOK, notifying, loop, server, accepting, sockets, panes, bounds
  <1>1. CASE TmuxChange
    <2>1. source' \in Snapshot
      BY <1>1, SnapshotNext DEF TmuxChange
    <2> QED
      BY <1>1, <2>1 DEF TmuxChange
  <1>2. CASE SignalTaken
    <2>1. npc' \in [Notifier -> {"idle", "flag", "wake"}]
      BY <1>2 DEF SignalTaken
    <2>2. raised' \in BOOLEAN
      BY <1>2 DEF SignalTaken
    <2> QED
      BY <1>2, <2>1, <2>2 DEF SignalTaken
  <1>3. CASE WorkChange
    <2>1. source' \in Snapshot
      BY <1>3, SnapshotNext DEF WorkChange
    <2>2. npc' \in [Notifier -> {"idle", "flag", "wake"}]
      BY <1>3 DEF WorkChange
    <2> QED
      BY <1>3, <2>1, <2>2 DEF WorkChange
  <1>8. CASE Observe
    <2>1. inputs' \in Nat
      BY <1>8, SnapshotNext DEF Observe
    <2>2. errors' \in Nat
      BY <1>8 DEF Observe
    <2>3. pending' \in BOOLEAN
      BY <1>8 DEF Observe
    <2> QED
      BY <1>8, <2>1, <2>2, <2>3 DEF Observe
  <1>9. CASE Publish
    <2>1. [tmux |-> inputs, work |-> source.work] \in Snapshot
      BY SnapshotNext, SnapshotOf
    <2>2. cached' \in [gen : Nat, snap : Snapshot \cup {Blank}]
      BY <1>9, <2>1 DEF Publish
    <2>3. pending' \in BOOLEAN
      BY <1>9 DEF Publish
    <2>4. /\ clients' \subseteq Stream /\ tosend' \subseteq Stream
          /\ mpc' \in {"send", "wait"}
      BY <1>9 DEF Publish
    <2> QED
      BY <1>9, <2>2, <2>3, <2>4 DEF Publish
  <1>10. ASSUME NEW s \in tosend, Send(s) PROVE TypeOK'
    <2>1. s[1] \in Client
      BY DEF Stream
    <2>2. cached.snap \in Snapshot
      BY <1>10, <1>b DEF Send
    <2>3a. wire[s[1]] \in Seq(Snapshot \cup {Eof})
      BY <2>1
    <2>3b. /\ Append(wire[s[1]], cached.snap) \in Seq(Snapshot \cup {Eof})
           /\ Append(wire[s[1]], Eof) \in Seq(Snapshot \cup {Eof})
      BY <2>3a, <2>2
    <2>3. wire' \in [Client -> Seq(Snapshot \cup {Eof})]
      BY <1>10, <2>3b DEF Send, Written, WriteFails
    <2>4. failures' \in Nat
      BY <1>10 DEF Send, WriteFails
    <2>5. tosend' \subseteq Stream /\ sent' \subseteq Stream
      BY <1>10 DEF Send
    <2> QED
      BY <1>10, <2>3, <2>4, <2>5 DEF Send
  <1>12. CASE Wake
    BY <1>12 DEF Wake
  <1>17. CASE Accept
    <2>1. Head(queue) \in Stream /\ Tail(queue) \in Seq(Stream)
      BY <1>17 DEF Accept
    <2> QED
      BY <1>17, <2>1 DEF Accept
  <1>19. CASE WriteFresh
    <2>1. fresh[1] \in Client
      BY <1>19, <1>d DEF WriteFresh, Stream
    <2>2. copy.snap \in Snapshot
      BY <1>19, <1>c DEF WriteFresh
    <2>3a. wire[fresh[1]] \in Seq(Snapshot \cup {Eof})
      BY <2>1
    <2>3b. /\ Append(wire[fresh[1]], copy.snap) \in Seq(Snapshot \cup {Eof})
           /\ Append(wire[fresh[1]], Eof) \in Seq(Snapshot \cup {Eof})
      BY <2>3a, <2>2
    <2>3. wire' \in [Client -> Seq(Snapshot \cup {Eof})]
      BY <1>19, <2>3b DEF WriteFresh, WriteFails
    <2>4. failures' \in Nat
      BY <1>19 DEF WriteFresh, WriteFails
    <2> QED
      BY <1>19, <2>3, <2>4 DEF WriteFresh
  <1>20. CASE Register
    <2>1. clients' \subseteq Stream
      BY <1>20, <1>d DEF Register
    <2> QED
      BY <1>20, <2>1 DEF Register
  <1>21. ASSUME NEW c \in Client, Connect(c) PROVE TypeOK'
    <2>1. conns[c] + 1 \in Nat \ {0}
      OBVIOUS
    <2>2. conns' = [conns EXCEPT ![c] = conns[c] + 1] /\ conns'[c] = conns[c] + 1
      BY <1>21 DEF Connect
    <2>3. conns' \in [Client -> Nat]
      BY <2>1, <2>2
    <2>4. conn' \in [Client -> Nat]
      BY <1>21, <2>1, <2>2 DEF Connect
    <2>5. <<c, conns'[c]>> \in Stream
      BY <2>1, <2>2 DEF Stream
    <2>6. queue' \in Seq(Stream)
      BY <1>21, <2>5 DEF Connect
    <2> QED
      BY <1>21, <2>3, <2>4, <2>6 DEF Connect
  <1>22. ASSUME NEW c \in Client, ReadSnapshot(c) PROVE TypeOK'
    <2>1a. wire[c] \in Seq(Snapshot \cup {Eof}) /\ wire[c] # <<>>
      BY <1>22 DEF ReadSnapshot
    <2>1. Head(wire[c]) \in Snapshot \cup {Eof} /\ Tail(wire[c]) \in Seq(Snapshot \cup {Eof})
      BY <2>1a
    <2>2. CASE Head(wire[c]) = Eof
      <3>1. conn' = [conn EXCEPT ![c] = 0] /\ wire' = [wire EXCEPT ![c] = <<>>]
        BY <1>22, <2>2 DEF ReadSnapshot
      <3>2. conn' \in [Client -> Nat]
        BY <3>1
      <3>3. wire' \in [Client -> Seq(Snapshot \cup {Eof})]
        BY <3>1
      <3>4. latest' = latest /\ rpc' = rpc
        BY <1>22, <2>2 DEF ReadSnapshot
      <3> QED
        BY <1>22, <3>2, <3>3, <3>4 DEF ReadSnapshot
    <2>3. CASE Head(wire[c]) # Eof
      <3>1. /\ latest' = [latest EXCEPT ![c] = Head(wire[c])]
            /\ wire' = [wire EXCEPT ![c] = Tail(wire[c])]
            /\ rpc' = [rpc EXCEPT ![c] = "wake"]
        BY <1>22, <2>3 DEF ReadSnapshot
      <3>2. latest' \in [Client -> Snapshot \cup {Blank}]
        BY <2>1, <2>3, <3>1
      <3>3. wire' \in [Client -> Seq(Snapshot \cup {Eof})]
        BY <2>1, <3>1
      <3>4. rpc' \in [Client -> {"read", "wake"}]
        BY <3>1
      <3> QED
        BY <1>22, <2>3, <3>2, <3>3, <3>4 DEF ReadSnapshot
    <2> QED
      BY <2>2, <2>3
  <1>4. ASSUME NEW n \in Notifier, RaiseFlag(n) PROVE TypeOK'
    BY <1>4 DEF RaiseFlag
  <1>5. ASSUME NEW n \in Notifier, WakeLoop(n) PROVE TypeOK'
    BY <1>5 DEF WakeLoop
  <1>6. CASE TakeObservation
    BY <1>6 DEF TakeObservation, Notifier
  <1>7. CASE TakePublication
    BY <1>7 DEF TakePublication, Notifier
  <1>11. CASE Join BY <1>11 DEF Join
  <1>13. CASE Tick BY <1>13 DEF Tick
  <1>14. CASE CountClients BY <1>14 DEF CountClients
  <1>15. CASE TimerExpires BY <1>15 DEF TimerExpires
  <1>16. CASE PollDue BY <1>16 DEF PollDue
  <1>18. CASE ReadCache BY <1>18 DEF ReadCache
  <1>23. ASSUME NEW c \in Client, WakePane(c) PROVE TypeOK' BY <1>23 DEF WakePane
  <1>24. ASSUME NEW c \in Client, Show(c) PROVE TypeOK' BY <1>24 DEF Show
  <1>25. ASSUME NEW c \in Client, ClosePane(c) PROVE TypeOK' BY <1>25 DEF ClosePane
  <1>26. CASE UNCHANGED vars BY <1>26 DEF vars
  <1>27. CASE AcceptFails
    <2>1. \A c \in Client : /\ wire[c] \in Seq(Snapshot \cup {Eof})
                            /\ Append(wire[c], Eof) \in Seq(Snapshot \cup {Eof})
      OBVIOUS
    <2>2. wire' \in [Client -> Seq(Snapshot \cup {Eof})]
      BY <1>27, <2>1 DEF AcceptFails
    <2> QED
      BY <1>27, <2>2 DEF AcceptFails
  <1> QED
    BY <1>1, <1>2, <1>3, <1>4, <1>5, <1>6, <1>7, <1>8, <1>9, <1>10, <1>11,
       <1>12, <1>13, <1>14, <1>15, <1>16, <1>17, <1>18, <1>19, <1>20, <1>21,
       <1>22, <1>23, <1>24, <1>25, <1>26, <1>27
       DEF Next, Notify, Loop, Accepting, Pane

\* Every step keeps Shape: generations only grow, and in Publish only.
LEMMA ShapeStep == Shape /\ [Next]_vars => Shape'
  <1> SUFFICES ASSUME Shape, [Next]_vars PROVE (CacheShape /\ LoopShape /\ AcceptShape)'
    BY TypeStep DEF Shape
  <1>a. /\ cached \in [gen : Nat, snap : Snapshot \cup {Blank}]
        /\ copy \in [gen : Nat, snap : Snapshot \cup {Blank}]
        /\ inputs \in Nat /\ source \in Snapshot /\ queue \in Seq(Stream)
        /\ tosend \subseteq Stream
    BY DEF Shape, TypeOK
  <1>b. CacheShape /\ LoopShape /\ AcceptShape
    BY DEF Shape
  <1> HIDE DEF Shape
  <1> USE <1>a, <1>b DEF CacheShape, LoopShape, AcceptShape, loop, server, accepting
  <1>1. CASE TmuxChange BY <1>1 DEF TmuxChange
  <1>2. CASE SignalTaken BY <1>2 DEF SignalTaken
  <1>3. CASE WorkChange BY <1>3 DEF WorkChange
  <1>4. ASSUME NEW n \in Notifier, RaiseFlag(n) PROVE (CacheShape /\ LoopShape /\ AcceptShape)'
    BY <1>4 DEF RaiseFlag
  <1>5. ASSUME NEW n \in Notifier, WakeLoop(n) PROVE (CacheShape /\ LoopShape /\ AcceptShape)'
    BY <1>5 DEF WakeLoop
  <1>6. CASE TakeObservation BY <1>6 DEF TakeObservation
  <1>7. CASE TakePublication BY <1>7 DEF TakePublication
  <1>8. CASE Observe BY <1>8 DEF Observe
  <1>9. CASE Publish
    <2>1. [tmux |-> inputs, work |-> source.work] \in Snapshot \ {Blank}
      BY SnapshotNext, SnapshotOf
    <2>2. CASE cached' = [gen |-> cached.gen + 1, snap |-> [tmux |-> inputs, work |-> source.work]]
      BY <1>9, <2>1, <2>2 DEF Publish
    <2>3. CASE cached' = cached /\ mpc' = "wait"
      BY <1>9, <2>3 DEF Publish
    <2> QED
      BY <1>9, <2>2, <2>3 DEF Publish
  <1>10. ASSUME NEW s \in tosend, Send(s) PROVE (CacheShape /\ LoopShape /\ AcceptShape)'
    BY <1>10 DEF Send
  <1>11. CASE Join BY <1>11 DEF Join
  <1>12. CASE Wake BY <1>12 DEF Wake
  <1>13. CASE Tick BY <1>13 DEF Tick
  <1>14. CASE CountClients BY <1>14 DEF CountClients
  <1>15. CASE TimerExpires BY <1>15 DEF TimerExpires
  <1>16. CASE PollDue BY <1>16 DEF PollDue
  <1>17. CASE Accept
    <2>1. Head(queue) \in Stream
      BY <1>17 DEF Accept
    <2> QED
      BY <1>17, <2>1 DEF Accept
  <1>18. CASE ReadCache BY <1>18 DEF ReadCache
  <1>19. CASE WriteFresh BY <1>19 DEF WriteFresh
  <1>20. CASE Register BY <1>20 DEF Register
  <1>21. ASSUME NEW c \in Client, Connect(c) PROVE (CacheShape /\ LoopShape /\ AcceptShape)'
    BY <1>21 DEF Connect
  <1>22. ASSUME NEW c \in Client, ReadSnapshot(c) PROVE (CacheShape /\ LoopShape /\ AcceptShape)'
    BY <1>22 DEF ReadSnapshot
  <1>23. ASSUME NEW c \in Client, WakePane(c) PROVE (CacheShape /\ LoopShape /\ AcceptShape)'
    BY <1>23 DEF WakePane
  <1>24. ASSUME NEW c \in Client, Show(c) PROVE (CacheShape /\ LoopShape /\ AcceptShape)'
    BY <1>24 DEF Show
  <1>25. ASSUME NEW c \in Client, ClosePane(c) PROVE (CacheShape /\ LoopShape /\ AcceptShape)'
    BY <1>25 DEF ClosePane
  <1>26. CASE UNCHANGED vars BY <1>26 DEF vars
  <1>27. CASE AcceptFails BY <1>27 DEF AcceptFails
  <1> QED
    BY <1>1, <1>2, <1>3, <1>4, <1>5, <1>6, <1>7, <1>8, <1>9, <1>10, <1>11,
       <1>12, <1>13, <1>14, <1>15, <1>16, <1>17, <1>18, <1>19, <1>20, <1>21,
       <1>22, <1>23, <1>24, <1>25, <1>26, <1>27
       DEF Next, Notify, Loop, Accepting, Pane

\* The variables keep their types: no pane is ever sent, stores or shows the
\* empty payload (daemon.rs, SocketServer; client.rs, read_loop).
THEOREM TypeCorrect == Spec => []TypeOK
  <1>1. Spec => []Shape
    BY ShapeInit, ShapeStep, PTL DEF Spec
  <1> QED
    BY <1>1, PTL DEF Shape

\* A raised flag is owed a wake-up, sent or about to be sent, unless the loop
\* is about to take this flag: both at its top, publication_dirty also between
\* the two swaps.
WakeUpKept ==
    \A n \in Notifier : dirty[n] =>
        \/ token
        \/ npc[n] = "wake"
        \/ mpc = "top"
        \/ mpc = "flags" /\ n = "publication"

\* Every step keeps WakeUpKept.  The steps that matter: RaiseFlag comes before
\* its WakeLoop, and Wake, which uses up the message, goes to the top.
LEMMA WakeUpStep == Shape /\ WakeUpKept /\ [Next]_vars => WakeUpKept'
  <1> SUFFICES ASSUME Shape, WakeUpKept, [Next]_vars PROVE WakeUpKept'
    OBVIOUS
  <1>a. /\ npc \in [Notifier -> {"idle", "flag", "wake"}]
        /\ dirty \in [Notifier -> BOOLEAN]
    BY DEF Shape, TypeOK
  <1> HIDE DEF Shape
  <1> USE <1>a DEF WakeUpKept, notifying, loop, server, accepting, sockets, panes, bounds
  <1>1. CASE TmuxChange BY <1>1 DEF TmuxChange
  <1>2. CASE SignalTaken BY <1>2 DEF SignalTaken
  <1>3. CASE WorkChange BY <1>3 DEF WorkChange
  <1>4. ASSUME NEW n \in Notifier, RaiseFlag(n) PROVE WakeUpKept'
    BY <1>4 DEF RaiseFlag
  <1>5. ASSUME NEW n \in Notifier, WakeLoop(n) PROVE WakeUpKept'
    BY <1>5 DEF WakeLoop
  <1>6. CASE TakeObservation BY <1>6 DEF TakeObservation, Notifier
  <1>7. CASE TakePublication BY <1>7 DEF TakePublication, Notifier
  <1>8. CASE Observe BY <1>8 DEF Observe
  <1>9. CASE Publish BY <1>9 DEF Publish
  <1>10. ASSUME NEW s \in tosend, Send(s) PROVE WakeUpKept'
    BY <1>10 DEF Send
  <1>11. CASE Join BY <1>11 DEF Join
  <1>12. CASE Wake BY <1>12 DEF Wake
  <1>13. CASE Tick BY <1>13 DEF Tick
  <1>14. CASE CountClients BY <1>14 DEF CountClients
  <1>15. CASE TimerExpires BY <1>15 DEF TimerExpires
  <1>16. CASE PollDue BY <1>16 DEF PollDue
  <1>17. CASE Accepting \/ AcceptFails
    BY <1>17 DEF Accepting, Accept, AcceptFails, ReadCache, WriteFresh, Register
  <1>18. ASSUME NEW c \in Client, Pane(c) \/ Show(c) \/ ClosePane(c) PROVE WakeUpKept'
    BY <1>18 DEF Pane, Connect, ReadSnapshot, WakePane, Show, ClosePane
  <1>19. CASE UNCHANGED vars BY <1>19 DEF vars
  <1> QED
    BY <1>1, <1>2, <1>3, <1>4, <1>5, <1>6, <1>7, <1>8, <1>9, <1>10, <1>11,
       <1>12, <1>13, <1>14, <1>15, <1>16, <1>17, <1>18, <1>19
       DEF Next, Notify, Loop

\* The main loop never sleeps on a flag that was raised, although two flags
\* and any number of threads share a channel of one message (daemon.rs, run,
\* spawn_signal_listener).
THEOREM WakeUpsNotLost == Spec => []NoLostWakeUp
  <1>1. Init => WakeUpKept
    BY DEF Init, WakeUpKept
  <1>2. WakeUpKept => NoLostWakeUp
    BY DEF WakeUpKept, NoLostWakeUp
  <1> QED
    BY <1>1, <1>2, ShapeInit, ShapeStep, WakeUpStep, PTL DEF Spec

\* Every step keeps NoSnapshotLeft: the reader stores before it wakes, and
\* Show, which uses up the wake-up, takes what is stored.
LEMMA SnapshotLeftStep == Shape /\ NoSnapshotLeft /\ [Next]_vars => NoSnapshotLeft'
  <1> SUFFICES ASSUME Shape, NoSnapshotLeft, [Next]_vars PROVE NoSnapshotLeft'
    OBVIOUS
  <1>a. /\ latest \in [Client -> Snapshot \cup {Blank}]
        /\ rpc \in [Client -> {"read", "wake"}]
        /\ event \in [Client -> BOOLEAN]
    BY DEF Shape, TypeOK
  <1> HIDE DEF Shape
  <1> USE <1>a DEF NoSnapshotLeft, panes
  <1>1. ASSUME NEW c \in Client, ReadSnapshot(c) PROVE NoSnapshotLeft'
    BY <1>1 DEF ReadSnapshot
  <1>2. ASSUME NEW c \in Client, WakePane(c) PROVE NoSnapshotLeft'
    BY <1>2 DEF WakePane
  <1>3. ASSUME NEW c \in Client, Show(c) PROVE NoSnapshotLeft'
    BY <1>3 DEF Show
  <1>4. ASSUME NEW c \in Client, ClosePane(c) PROVE NoSnapshotLeft'
    BY <1>4 DEF ClosePane
  <1>5. CASE UNCHANGED panes
    BY <1>5
  <1>6. CASE TmuxChange \/ WorkChange \/ Notify
    BY <1>6 DEF TmuxChange, WorkChange, Notify, SignalTaken, RaiseFlag, WakeLoop
  <1>7. CASE Loop \/ Tick \/ CountClients \/ TimerExpires \/ PollDue
    BY <1>7 DEF Loop, TakeObservation, TakePublication, Observe, Publish, Send, Join, Wake,
                Tick, CountClients, TimerExpires, PollDue
  <1>8. CASE Accepting \/ AcceptFails
    BY <1>8 DEF Accepting, Accept, AcceptFails, ReadCache, WriteFresh, Register
  <1>9. ASSUME NEW c \in Client, Connect(c) PROVE NoSnapshotLeft'
    BY <1>9 DEF Connect
  <1> QED
    BY <1>1, <1>2, <1>3, <1>4, <1>5, <1>6, <1>7, <1>8, <1>9 DEF Next, Pane, vars

\* The event loop of a sidebar process never sleeps on a stored snapshot
\* (client.rs, read_loop; runtime.rs, forward_snapshots).
THEOREM SnapshotsNotLeft == Spec => []NoSnapshotLeft
  <1>1. Init => NoSnapshotLeft
    BY DEF Init, NoSnapshotLeft
  <1> QED
    BY <1>1, ShapeInit, ShapeStep, SnapshotLeftStep, PTL DEF Spec

-----------------------------------------------------------------------------
(* Where a stream is, and what its client has got. *)

Members == clients \cup tosend \cup sent

\* A stream is in one place on its way through the daemon, and numbered.
Streams ==
    /\ clients \cap (tosend \cup sent) = {} /\ tosend \cap sent = {}
    /\ \A i, j \in DOMAIN queue : queue[i] = queue[j] => i = j
    /\ \A i \in DOMAIN queue :
         queue[i] \notin Members /\ queue[i][2] <= conns[queue[i][1]]
    /\ apc \notin {"accept", "ended"} =>
         /\ fresh \notin Members /\ fresh[2] <= conns[fresh[1]]
         /\ \A i \in DOMAIN queue : queue[i] # fresh
    /\ \A s \in Members : s[2] <= conns[s[1]]

\* A client that was written to, and is still connected, has got that snapshot
\* last: what the accept thread has copied, or what was broadcast.
UpToDate ==
    /\ apc = "register" /\ copy.gen > 0 /\ Open(fresh) => Got(fresh[1]) = copy.snap
    /\ \A s \in clients \cup sent : Open(s) /\ cached.gen > 0 => Got(s[1]) = cached.snap

-----------------------------------------------------------------------------
(* The order of the versions on their way to a pane. *)

NotAfter(u, v) == u.tmux <= v.tmux /\ u.work <= v.work

\* Of two snapshots, u is not the later one ...
Behind(u, v) == u \in Snapshot /\ v \in Snapshot => NotAfter(u, v)

\* ... and there is a later one v for every snapshot u that was made.
Within(u, v) ==
    u \in Snapshot => v \in Snapshot /\ NotAfter(u, v) /\ 1 <= u.tmux /\ 1 <= u.work

\* All that a client has, v is not before it.
Below(c, v) ==
    /\ Within(shown[c], v) /\ Within(latest[c], v)
    /\ \A i \in DOMAIN wire[c] : Within(wire[c][i], v)

InOrder(c) ==
    /\ Behind(shown[c], latest[c])
    /\ \A i \in DOMAIN wire[c] :
         /\ Behind(shown[c], wire[c][i]) /\ Behind(latest[c], wire[c][i])
         /\ \A j \in DOMAIN wire[c] : i < j => Behind(wire[c][i], wire[c][j])

\* The accept thread writes an old copy only to a client that has none later.
Ordered ==
    /\ inputs <= source.tmux /\ 1 <= source.tmux /\ 1 <= source.work
    /\ cached.snap \in Snapshot =>
         /\ 1 <= cached.snap.tmux /\ cached.snap.tmux <= inputs
         /\ 1 <= cached.snap.work /\ cached.snap.work <= source.work
    /\ Within(copy.snap, cached.snap)
    /\ \A c \in Client : InOrder(c) /\ Below(c, cached.snap)
    /\ apc = "write" /\ Open(fresh) => Below(fresh[1], copy.snap)

\* What Append and Tail do to the connections that wait.
LEMMA QueueAppend ==
  ASSUME NEW q \in Seq(Stream), NEW s \in Stream
  PROVE  /\ DOMAIN Append(q, s) = DOMAIN q \cup {Len(q) + 1}
         /\ Append(q, s)[Len(q) + 1] = s /\ Len(q) + 1 \notin DOMAIN q
         /\ \A i \in DOMAIN q : Append(q, s)[i] = q[i]
  OBVIOUS

\* Accepting the first connection leaves the others as they were.
LEMMA QueueTail ==
  ASSUME NEW q \in Seq(Stream), q # <<>>
  PROVE  /\ Head(q) = q[1] /\ 1 \in DOMAIN q
         /\ \A i \in DOMAIN Tail(q) : i + 1 \in DOMAIN q /\ i + 1 # 1 /\ Tail(q)[i] = q[i + 1]
         /\ \A i, j \in DOMAIN Tail(q) : i + 1 = j + 1 => i = j
  OBVIOUS

\* Every step leaves a stream in one place: the broadcast takes all streams it
\* writes to, the accept thread has one that is nowhere else.
LEMMA StreamsStep == Shape /\ Streams /\ [Next]_vars => Streams'
  <1> SUFFICES ASSUME Shape, Streams, [Next]_vars PROVE Streams'
    OBVIOUS
  <1>a. /\ queue \in Seq(Stream) /\ conns \in [Client -> Nat]
        /\ clients \subseteq Stream /\ tosend \subseteq Stream /\ sent \subseteq Stream
        /\ apc \notin {"accept", "ended"} => fresh \in Stream
        /\ mpc # "send" => tosend = {} /\ sent = {}
        /\ \A s \in Stream : s[1] \in Client /\ s[2] \in Nat
    BY DEF Shape, TypeOK, LoopShape, AcceptShape, Stream
  <1>b. \A i \in DOMAIN queue : queue[i] \in Stream
    BY <1>a
  <1> HIDE DEF Shape
  <1> USE <1>a DEF Streams, Members, server, accepting, sockets
  <1>1. CASE UNCHANGED <<server, queue, conns, apc, fresh>>
    BY <1>1
  <1>2. CASE Publish
    BY <1>2 DEF Publish
  <1>3. ASSUME NEW s \in tosend, Send(s) PROVE Streams'
    BY <1>3 DEF Send
  <1>4. CASE Join
    BY <1>4 DEF Join
  <1>5. CASE CountClients
    BY <1>5 DEF CountClients
  <1>6. CASE Accept
    <2>1. /\ fresh' = queue[1] /\ 1 \in DOMAIN queue /\ queue' = Tail(queue)
          /\ UNCHANGED <<clients, tosend, sent, conns>>
      BY <1>6, QueueTail DEF Accept
    <2>2. \A i \in DOMAIN queue' : i + 1 \in DOMAIN queue /\ i + 1 # 1 /\ queue'[i] = queue[i + 1]
      BY <1>6, <2>1, QueueTail DEF Accept
    <2>3. \A i, j \in DOMAIN queue' : queue'[i] = queue'[j] => i = j
      BY <1>6, <2>1, <2>2, QueueTail DEF Accept
    <2>4. \A i \in DOMAIN queue' : /\ queue'[i] \notin Members' /\ queue'[i] # fresh'
                                   /\ queue'[i][2] <= conns'[queue'[i][1]]
      BY <2>1, <2>2
    <2> QED
      BY <2>1, <2>3, <2>4
  <1>7. CASE ReadCache
    BY <1>7 DEF ReadCache
  <1>8. CASE WriteFresh
    BY <1>8 DEF WriteFresh
  <1>9. CASE Register
    BY <1>9 DEF Register
  <1>10. ASSUME NEW c \in Client, Connect(c) PROVE Streams'
    <2> DEFINE k == conns[c] + 1
               s == <<c, k>>
    <2>1. s \in Stream /\ s[1] = c /\ s[2] = k /\ k \in Nat
      BY DEF Stream
    <2>2. /\ conns' = [conns EXCEPT ![c] = k] /\ queue' = Append(queue, s)
          /\ UNCHANGED <<clients, tosend, sent, apc, fresh>>
      BY <1>10 DEF Connect
    <2>3. /\ conns'[c] = k
          /\ \A t \in Stream : t[2] <= conns[t[1]] => t[2] <= conns'[t[1]] /\ t # s
      BY <2>1, <2>2
    <2> HIDE DEF s, k
    <2>4. \A t \in Members : t[2] <= conns'[t[1]] /\ t # s
      BY <2>3
    <2>5. apc \notin {"accept", "ended"} => fresh[2] <= conns'[fresh[1]] /\ fresh # s
      BY <2>3
    <2>6. \A i \in DOMAIN queue : queue[i][2] <= conns'[queue[i][1]] /\ queue[i] # s
      BY <1>b, <2>3
    <2>7. /\ DOMAIN queue' = DOMAIN queue \cup {Len(queue) + 1}
          /\ queue'[Len(queue) + 1] = s /\ Len(queue) + 1 \notin DOMAIN queue
          /\ \A i \in DOMAIN queue : queue'[i] = queue[i]
      BY <2>1, <2>2, QueueAppend
    <2>8. \A i, j \in DOMAIN queue' : queue'[i] = queue'[j] => i = j
      BY <2>6, <2>7
    <2>9. \A i \in DOMAIN queue' : queue'[i] \notin Members /\ queue'[i][2] <= conns'[queue'[i][1]]
      BY <2>1, <2>3, <2>4, <2>6, <2>7
    <2>10. apc \notin {"accept", "ended"} => \A i \in DOMAIN queue' : queue'[i] # fresh
      BY <2>5, <2>7
    <2> QED
      BY <2>2, <2>4, <2>5, <2>8, <2>9, <2>10
  <1>11. CASE TmuxChange \/ WorkChange \/ Notify
    BY <1>1, <1>11 DEF TmuxChange, WorkChange, Notify, SignalTaken, RaiseFlag, WakeLoop
  <1>12. CASE TakeObservation \/ TakePublication \/ Observe \/ Wake
    BY <1>1, <1>12 DEF TakeObservation, TakePublication, Observe, Wake
  <1>13. CASE Tick \/ TimerExpires \/ PollDue
    BY <1>1, <1>13 DEF Tick, TimerExpires, PollDue
  <1>14. ASSUME NEW c \in Client, ReadSnapshot(c) \/ WakePane(c) \/ Show(c) \/ ClosePane(c)
         PROVE  Streams'
    BY <1>1, <1>14 DEF ReadSnapshot, WakePane, Show, ClosePane
  <1>15. CASE UNCHANGED vars
    BY <1>1, <1>15 DEF vars
  <1>16. CASE AcceptFails
    BY <1>16 DEF AcceptFails
  <1> QED
    BY <1>2, <1>3, <1>4, <1>5, <1>6, <1>7, <1>8, <1>9, <1>10, <1>11, <1>12, <1>13, <1>14, <1>15,
       <1>16
       DEF Next, Loop, Accepting, Pane

\* Reading the first message of several leaves the last one the last.
LEMMA WireTail ==
  ASSUME NEW S, NEW q \in Seq(S), q # <<>>
  PROVE  /\ Head(q) \in S /\ Tail(q) \in Seq(S)
         /\ \/ Tail(q) = <<>> /\ q[Len(q)] = Head(q)
            \/ Tail(q) # <<>> /\ Tail(q)[Len(Tail(q))] = q[Len(q)]
  <1>1. /\ Len(q) \in Nat /\ Len(q) # 0 /\ Head(q) = q[1]
        /\ Head(q) \in S /\ Tail(q) \in Seq(S) /\ Len(Tail(q)) = Len(q) - 1
        /\ \A i \in 1..Len(Tail(q)) : Tail(q)[i] = q[i + 1]
    BY EmptySeq, HeadTailProperties
  <1>2. \A r \in Seq(S) : r # <<>> => Len(r) # 0
    BY EmptySeq
  <1>3. Len(<<>>) = 0
    OBVIOUS
  <1>4. CASE Len(q) = 1
    <2>1. Len(Tail(q)) = 0
      BY <1>1, <1>4
    <2>2. Tail(q) = <<>>
      BY <1>1, <1>2, <2>1
    <2>3. q[Len(q)] = Head(q)
      BY <1>1, <1>4
    <2> QED
      BY <1>1, <2>2, <2>3
  <1>5. CASE Len(q) # 1
    <2>1. Len(Tail(q)) # 0 /\ Len(Tail(q)) \in 1..Len(Tail(q)) /\ Len(Tail(q)) + 1 = Len(q)
      BY <1>1, <1>5
    <2>2. Tail(q) # <<>>
      BY <2>1, <1>3, Zenon
    <2>3. Tail(q)[Len(Tail(q))] = q[Len(q)]
      BY <1>1, <2>1
    <2> QED
      BY <1>1, <2>2, <2>3
  <1> QED
    BY <1>4, <1>5

\* What is put on the wire of a client is what it has got last.
LEMMA GotPut ==
  ASSUME Shape, NEW c \in Client, NEW v \in Snapshot \cup {Eof},
         wire' = [wire EXCEPT ![c] = Append(@, v)], UNCHANGED <<latest, shown>>
  PROVE  Got(c)' = v /\ \A d \in Client \ {c} : Got(d)' = Got(d)
  <1>1. wire \in [Client -> Seq(Snapshot \cup {Eof})]
    BY DEF Shape, TypeOK
  <1>2. wire'[c] = Append(wire[c], v) /\ wire[c] \in Seq(Snapshot \cup {Eof})
    BY <1>1
  <1>3. wire'[c] # <<>> /\ wire'[c][Len(wire'[c])] = v
    BY <1>2
  <1> QED
    BY <1>1, <1>3 DEF Got

\* Reading, storing and showing a snapshot leaves it the last one.
LEMMA GotRead ==
  ASSUME Shape, NEW c \in Client, ReadSnapshot(c)
  PROVE  /\ conn'[c] = 0 \/ (Got(c)' = Got(c) /\ conn'[c] = conn[c])
         /\ \A d \in Client \ {c} : Got(d)' = Got(d) /\ conn'[d] = conn[d]
  <1>1. /\ wire \in [Client -> Seq(Snapshot \cup {Eof})] /\ conn \in [Client -> Nat]
        /\ latest \in [Client -> Snapshot \cup {Blank}]
    BY DEF Shape, TypeOK
  <1>2. wire[c] \in Seq(Snapshot \cup {Eof}) /\ wire[c] # <<>> /\ UNCHANGED shown
    BY <1>1 DEF ReadSnapshot
  <1>3. CASE Head(wire[c]) = Eof
    BY <1>1, <1>3 DEF ReadSnapshot, Got
  <1>4. CASE Head(wire[c]) # Eof
    <2>1. /\ latest' = [latest EXCEPT ![c] = Head(wire[c])]
          /\ wire' = [wire EXCEPT ![c] = Tail(@)] /\ UNCHANGED conn
      BY <1>4 DEF ReadSnapshot
    <2>2. Head(wire[c]) \in Snapshot /\ Head(wire[c]) # Blank
      BY <1>2, <1>4, MarkersAssumption
    <2>3. latest'[c] = Head(wire[c]) /\ wire'[c] = Tail(wire[c])
      BY <1>1, <2>1
    <2>4. \/ wire'[c] = <<>> /\ wire[c][Len(wire[c])] = Head(wire[c])
          \/ wire'[c] # <<>> /\ wire'[c][Len(wire'[c])] = wire[c][Len(wire[c])]
      BY <1>2, <2>3, WireTail
    <2> QED
      BY <1>1, <1>2, <2>1, <2>2, <2>3, <2>4 DEF Got
  <1> QED
    BY <1>3, <1>4

\* Showing the stored snapshot takes nothing from what a client has got.
LEMMA GotShow ==
  ASSUME Shape, NEW c \in Client, Show(c)
  PROVE  \A d \in Client : Got(d)' = Got(d)
  BY DEF Shape, TypeOK, Show, Got, sockets

\* Every step keeps the clients up to date: a registered one gets every snapshot
\* that is broadcast, one that is accepted meanwhile is written to again.
LEMMA UpToDateStep == Shape /\ Streams /\ UpToDate /\ [Next]_vars => UpToDate'
  <1> SUFFICES ASSUME Shape, Streams, UpToDate, [Next]_vars PROVE UpToDate'
    OBVIOUS
  <1>a. /\ clients \subseteq Stream /\ tosend \subseteq Stream /\ sent \subseteq Stream
        /\ apc \notin {"accept", "ended"} => fresh \in Stream
        /\ mpc # "send" => tosend = {} /\ sent = {}
        /\ mpc = "send" => cached.snap \in Snapshot
        /\ apc = "write" => copy.snap \in Snapshot
        /\ copy.gen = cached.gen => copy.snap = cached.snap
        /\ \A s \in Stream : s[1] \in Client /\ s[2] \in Nat \ {0} /\ s = <<s[1], s[2]>>
        /\ copy.gen \in Nat /\ cached.gen \in Nat
        /\ conn \in [Client -> Nat] /\ conns \in [Client -> Nat]
    BY DEF Shape, TypeOK, CacheShape, LoopShape, AcceptShape, Stream
  <1>b. \A s, t \in Stream : Open(s) /\ Open(t) /\ s[1] = t[1] => s = t
    BY <1>a DEF Open
  <1> HIDE DEF Shape
  <1> USE DEF UpToDate
  \* Nothing that matters changes.
  <1>0. ASSUME UNCHANGED <<cached, clients, sent, apc, copy, fresh>>,
               \A s \in Stream : Open(s)' => Open(s) /\ Got(s[1])' = Got(s[1])
        PROVE  UpToDate'
    BY <1>a, <1>0
  <1>1. CASE UNCHANGED <<cached, clients, sent, accepting, sockets, latest, shown>>
    BY <1>0, <1>1 DEF Open, Got, accepting, sockets
  <1>2. CASE Publish
    <2>1. \A s \in Stream : Open(s)' = Open(s) /\ Got(s[1])' = Got(s[1])
      BY <1>2 DEF Publish, Open, Got, sockets, panes
    <2>2. clients' \subseteq clients /\ sent' = {} /\ (clients' = {} \/ cached' = cached)
          /\ UNCHANGED <<apc, copy, fresh>>
      BY <1>a, <1>2 DEF Publish, accepting
    <2> QED
      BY <1>a, <2>1, <2>2
  <1>3. ASSUME NEW s \in tosend, Send(s) PROVE UpToDate'
    <2>1. /\ s \in Stream /\ s \notin clients \cup sent /\ (apc \notin {"accept", "ended"} => fresh # s)
          /\ UNCHANGED <<cached, clients, apc, copy, fresh, conn, latest, shown>> /\ mpc = "send"
      BY <1>a, <1>3 DEF Send, Streams, Members, accepting, panes
    <2>2. ASSUME NEW v \in Snapshot \cup {Eof}, Open(s),
                 wire' = [wire EXCEPT ![s[1]] = Append(@, v)]
          PROVE  /\ Got(s[1])' = v
                 /\ \A t \in Stream \ {s} : Open(t) => Got(t[1])' = Got(t[1])
      BY <1>a, <1>b, <2>1, <2>2, GotPut
    <2>3. CASE Open(s) /\ Written(s) /\ sent' = sent \cup {s}
      <3>1. cached.snap \in Snapshot \cup {Eof}
        BY <1>a, <2>1
      <3>2. /\ Got(s[1])' = cached.snap
            /\ \A t \in Stream \ {s} : Open(t) => Got(t[1])' = Got(t[1])
        BY <2>2, <2>3, <3>1 DEF Written
      <3> QED
        BY <1>a, <2>1, <2>3, <3>2 DEF Open
    <2>4. CASE WriteFails(s) /\ sent' = sent
      <3>1. CASE Open(s)
        <4>1. \A t \in Stream \ {s} : Open(t) => Got(t[1])' = Got(t[1])
          BY <2>2, <2>4, <3>1 DEF WriteFails
        <4> QED
          BY <1>a, <2>1, <2>4, <4>1 DEF Open
      <3>2. CASE ~Open(s)
        <4>1. wire' = wire
          BY <2>4, <3>2 DEF WriteFails
        <4> QED
          BY <1>0, <2>1, <2>4, <4>1 DEF Open, Got
      <3> QED
        BY <3>1, <3>2
    <2> QED
      BY <1>3, <2>3, <2>4 DEF Send
  <1>4. CASE Join
    BY <1>4 DEF Join, Open, Got, accepting, sockets, panes
  <1>5. CASE CountClients
    BY <1>5 DEF CountClients, Open, Got, accepting, sockets, panes
  <1>6. CASE Accept
    BY <1>6 DEF Accept, Open, Got, server, panes
  <1>7. CASE ReadCache
    <2>1. apc' = "register" => copy'.gen = 0
      BY <1>7 DEF ReadCache
    <2> QED
      BY <1>7, <2>1 DEF ReadCache, Open, Got, server, sockets, panes
  <1>8. CASE WriteFresh
    <2>1. /\ fresh \in Stream /\ fresh \notin clients \cup sent /\ copy.snap \in Snapshot
          /\ UNCHANGED <<cached, clients, sent, copy, conn, latest, shown>>
      BY <1>a, <1>8 DEF WriteFresh, Streams, Members, server, panes
    <2>2. ASSUME NEW v \in Snapshot \cup {Eof}, Open(fresh),
                 wire' = [wire EXCEPT ![fresh[1]] = Append(@, v)]
          PROVE  \A d \in Client : Got(d)' = IF d = fresh[1] THEN v ELSE Got(d)
      <3>1. fresh[1] \in Client
        BY <1>a, <2>1
      <3> QED
        BY <2>1, <2>2, <3>1, GotPut
    <2>3. CASE Open(fresh) /\ wire' = [wire EXCEPT ![fresh[1]] = Append(@, copy.snap)]
               /\ fresh' = fresh
      <3>1. copy.snap \in Snapshot \cup {Eof}
        BY <2>1
      <3>2. \A d \in Client : Got(d)' = IF d = fresh[1] THEN copy.snap ELSE Got(d)
        BY <2>2, <2>3, <3>1
      <3> QED
        BY <1>a, <1>b, <2>1, <2>3, <3>2 DEF Open
    <2>4. CASE WriteFails(fresh) /\ apc' = "accept"
      <3>1. CASE Open(fresh)
        <4>1. \A d \in Client : d # fresh[1] => Got(d)' = Got(d)
          BY <2>2, <2>4, <3>1 DEF WriteFails
        <4> QED
          BY <1>a, <1>b, <2>1, <2>4, <3>1, <4>1 DEF Open
      <3>2. CASE ~Open(fresh)
        <4>1. wire' = wire
          BY <2>4, <3>2 DEF WriteFails
        <4> QED
          BY <2>1, <2>4, <4>1 DEF Open, Got
      <3> QED
        BY <3>1, <3>2
    <2> QED
      BY <1>8, <2>3, <2>4 DEF WriteFresh
  <1>9. CASE Register
    BY <1>a, <1>9 DEF Register, Open, Got, sockets, panes
  <1>10. ASSUME NEW c \in Client, Connect(c) PROVE UpToDate'
    <2>1. /\ conn' = [conn EXCEPT ![c] = conns[c] + 1]
          /\ UNCHANGED <<cached, clients, sent, apc, copy, fresh, wire, latest, shown>>
      BY <1>a, <1>10 DEF Connect, server, accepting, panes
    <2>2. \A t \in Stream : Open(t)' => Open(t) \/ (t[1] = c /\ t[2] = conns[c] + 1)
      BY <1>a, <2>1 DEF Open
    <2>3. \A t \in Stream : t[2] <= conns[t[1]] => (Open(t)' => Open(t))
      BY <1>a, <2>2
    <2>4. (apc \notin {"accept", "ended"} => fresh[2] <= conns[fresh[1]])
          /\ \A t \in clients \cup sent : t[2] <= conns[t[1]]
      BY DEF Streams, Members
    <2> QED
      BY <1>a, <2>1, <2>3, <2>4 DEF Got
  <1>11. ASSUME NEW c \in Client, ReadSnapshot(c) PROVE UpToDate'
    <2>1. \A s \in Stream : Open(s)' => Open(s) /\ Got(s[1])' = Got(s[1])
      BY <1>a, <1>11, GotRead DEF Open
    <2> QED
      BY <1>0, <1>11, <2>1 DEF ReadSnapshot, server, accepting
  <1>12. ASSUME NEW c \in Client, Show(c) PROVE UpToDate'
    <2>1. \A s \in Stream : Open(s)' => Open(s) /\ Got(s[1])' = Got(s[1])
      BY <1>a, <1>12, GotShow DEF Open, Show, sockets
    <2> QED
      BY <1>0, <1>12, <2>1 DEF Show, server, accepting
  <1>13. ASSUME NEW c \in Client, ClosePane(c) PROVE UpToDate'
    <2>1. \A s \in Stream : Open(s)' => Open(s) /\ s[1] # c
      BY <1>a, <1>13 DEF Open, ClosePane
    <2>2. \A d \in Client \ {c} : Got(d)' = Got(d)
      BY <1>13 DEF ClosePane, Got, Shape, TypeOK
    <2> QED
      BY <1>a, <1>0, <1>13, <2>1, <2>2 DEF ClosePane, server, accepting
  <1>14. CASE TmuxChange \/ WorkChange \/ Notify
    BY <1>1, <1>14 DEF TmuxChange, WorkChange, Notify, SignalTaken, RaiseFlag, WakeLoop,
                       server, panes
  <1>15. CASE TakeObservation \/ TakePublication \/ Observe \/ Wake
    BY <1>1, <1>15 DEF TakeObservation, TakePublication, Observe, Wake, server, panes
  <1>16. CASE Tick \/ TimerExpires \/ PollDue
    BY <1>1, <1>16 DEF Tick, TimerExpires, PollDue, server, panes
  <1>17. ASSUME NEW c \in Client, WakePane(c) PROVE UpToDate'
    BY <1>1, <1>17 DEF WakePane, server, panes
  <1>18. CASE UNCHANGED vars
    BY <1>1, <1>18 DEF vars, server, panes
  <1>19. CASE AcceptFails
    <2>1. /\ UNCHANGED <<cached, clients, sent, conn, latest, shown>> /\ apc' = "ended"
          /\ \A c \in Client : ~Waiting(c) => wire'[c] = wire[c]
      BY <1>19 DEF AcceptFails, server, panes
    <2>2. \A s \in clients \cup sent : Open(s) => ~Waiting(s[1])
      BY <1>a DEF Streams, Members, Open, Waiting
    <2>3. \A s \in clients \cup sent : Open(s) => Got(s[1])' = Got(s[1])
      BY <1>a, <2>1, <2>2 DEF Got
    <2> QED
      BY <2>1, <2>3 DEF Open
  <1> QED
    BY <1>2, <1>3, <1>4, <1>5, <1>6, <1>7, <1>8, <1>9, <1>10, <1>11, <1>12, <1>13, <1>14, <1>15,
       <1>16, <1>17, <1>18, <1>19
       DEF Next, Loop, Accepting, Pane

\* A registered client has got the snapshot that was broadcast last, in whatever
\* order the accept thread and a broadcast take the mutex (daemon.rs,
\* SocketServer), for any number of clients that come and go.
THEOREM RegisteredAreUpToDate == Spec => []RegisteredUpToDate
  <1>1. Init => Streams /\ UpToDate
    BY DEF Init, Streams, Members, UpToDate
  <1>2. UpToDate => RegisteredUpToDate
    BY DEF UpToDate, RegisteredUpToDate
  <1> QED
    BY <1>1, <1>2, ShapeInit, ShapeStep, StreamsStep, UpToDateStep, PTL DEF Spec


-----------------------------------------------------------------------------
(* The order of versions. *)

\* Being made, and not after another version, is transitive.
LEMMA WithinTrans ==
  ASSUME NEW u, NEW v, NEW w, Within(u, v), Within(v, w)
  PROVE  Within(u, w)
  BY DEF Within, NotAfter, Snapshot

\* What is not before v is not before what is not before v.
LEMMA BelowTrans ==
  ASSUME NEW c \in Client, NEW v, NEW w, Below(c, v), Within(v, w)
  PROVE  Below(c, w)
  BY WithinTrans DEF Below

\* A pane whose socket and process do not move stays in order.
LEMMA SameLane ==
  ASSUME NEW c \in Client, wire'[c] = wire[c], latest'[c] = latest[c], shown'[c] = shown[c]
  PROVE  /\ InOrder(c) => InOrder(c)'
         /\ \A w : Below(c, w) => Below(c, w)'
  BY DEF InOrder, Below

\* What is written to a client and is not older than what it has keeps its order.
LEMMA PutLane ==
  ASSUME Shape, NEW c \in Client, NEW v \in Snapshot \cup {Eof},
         v \in Snapshot => Below(c, v), wire'[c] = Append(wire[c], v),
         latest'[c] = latest[c], shown'[c] = shown[c]
  PROVE  /\ InOrder(c) => InOrder(c)'
         /\ \A w : Below(c, w) /\ Within(v, w) => Below(c, w)'
  <1> DEFINE q == wire[c]
             n == Len(q) + 1
  <1>1. q \in Seq(Snapshot \cup {Eof})
    BY DEF Shape, TypeOK
  <1>2. wire'[c] = Append(q, v)
    OBVIOUS
  <1> HIDE DEF q, n
  <1>3. /\ DOMAIN wire'[c] = DOMAIN q \cup {n} /\ wire'[c][n] = v
        /\ \A i \in DOMAIN q : wire'[c][i] = q[i] /\ i < n /\ ~(n < i)
        /\ ~(n < n)
    BY <1>1, <1>2 DEF n
  <1>4. v \in Snapshot =>
          /\ Within(shown[c], v) /\ Within(latest[c], v)
          /\ \A i \in DOMAIN q : Within(q[i], v)
    BY DEF Below, q
  <1>5. Behind(shown[c], v) /\ Behind(latest[c], v) /\ \A i \in DOMAIN q : Behind(q[i], v)
    BY <1>4 DEF Behind, Within
  <1>6. InOrder(c) => InOrder(c)'
    BY <1>3, <1>5 DEF InOrder, q
  <1>7. \A w : Below(c, w) /\ Within(v, w) => Below(c, w)'
    BY <1>3 DEF Below, q
  <1> QED
    BY <1>6, <1>7

\* Nothing the daemon writes is older than what the client has.
LEMMA PutInOrder ==
  ASSUME Shape, NEW c \in Client, NEW v \in Snapshot \cup {Eof},
         v \in Snapshot => Below(c, v),
         wire' = [wire EXCEPT ![c] = Append(@, v)], UNCHANGED <<latest, shown>>
  PROVE  /\ InOrder(c) => InOrder(c)'
         /\ \A w : Below(c, w) /\ Within(v, w) => Below(c, w)'
         /\ \A d \in Client \ {c} : /\ InOrder(d) => InOrder(d)'
                                    /\ \A w : Below(d, w) => Below(d, w)'
  <1>1. /\ wire'[c] = Append(wire[c], v)
        /\ \A d \in Client \ {c} : wire'[d] = wire[d]
    BY DEF Shape, TypeOK
  <1> QED
    BY <1>1, PutLane, SameLane

\* Reading, storing, showing and closing keep the order.
LEMMA TakeInOrder ==
  ASSUME Shape, NEW c \in Client, ReadSnapshot(c) \/ Show(c) \/ ClosePane(c)
  PROVE  \A d \in Client : /\ InOrder(d) => InOrder(d)'
                           /\ \A w : Below(d, w) => Below(d, w)'
  <1>a. /\ wire \in [Client -> Seq(Snapshot \cup {Eof})]
        /\ latest \in [Client -> Snapshot \cup {Blank}]
        /\ shown \in [Client -> Snapshot \cup {Blank}]
        /\ wire[c] \in Seq(Snapshot \cup {Eof})
    BY DEF Shape, TypeOK
  <1>b. \A d \in Client \ {c} : wire'[d] = wire[d] /\ latest'[d] = latest[d] /\ shown'[d] = shown[d]
    BY <1>a DEF ReadSnapshot, Show, ClosePane, sockets
  <1>c. SUFFICES /\ InOrder(c) => InOrder(c)'
                 /\ \A w : Below(c, w) => Below(c, w)'
    BY <1>b, SameLane
  <1>1. CASE wire'[c] = <<>> /\ latest'[c] = latest[c] /\ shown'[c] = shown[c]
    BY <1>1 DEF InOrder, Below
  <1>2. CASE wire[c] # <<>> /\ wire'[c] = Tail(wire[c]) /\ latest'[c] = Head(wire[c])
             /\ shown'[c] = shown[c]
    <2>1. /\ Head(wire[c]) = wire[c][1] /\ 1 \in DOMAIN wire[c]
          /\ \A i \in DOMAIN wire'[c] : /\ i + 1 \in DOMAIN wire[c] /\ 1 < i + 1
                                        /\ wire'[c][i] = wire[c][i + 1]
          /\ \A i, j \in DOMAIN wire'[c] : i < j => i + 1 < j + 1
      BY <1>a, <1>2
    <2>2. InOrder(c) => InOrder(c)'
      BY <1>2, <2>1 DEF InOrder
    <2>3. \A w : Below(c, w) => Below(c, w)'
      BY <1>2, <2>1 DEF Below
    <2> QED
      BY <2>2, <2>3
  <1>3. CASE /\ wire'[c] = wire[c] /\ latest'[c] = Blank
             /\ shown'[c] \in {shown[c], latest[c]}
    BY <1>3, MarkersAssumption DEF InOrder, Below, Behind, Within
  <1>4. CASE wire'[c] = <<>> /\ latest'[c] = Blank /\ shown'[c] = Blank
    BY <1>4, MarkersAssumption DEF InOrder, Below, Behind, Within
  <1>5. CASE ReadSnapshot(c)
    BY <1>a, <1>1, <1>2, <1>5 DEF ReadSnapshot
  <1>6. CASE Show(c)
    BY <1>a, <1>3, <1>6 DEF Show, sockets
  <1>7. CASE ClosePane(c)
    BY <1>a, <1>4, <1>7 DEF ClosePane
  <1> QED
    BY <1>5, <1>6, <1>7

\* What the order depends on beside the lanes of the panes.
Made == <<source, inputs, cached, copy, apc, fresh>>

\* Every step keeps the order: only a copy the accept thread writes may be older
\* than the last broadcast, and that client has had nothing later.
LEMMA OrderedStep == Shape /\ Streams /\ Ordered /\ [Next]_vars => Ordered'
  <1> SUFFICES ASSUME Shape, Streams, Ordered, [Next]_vars PROVE Ordered'
    OBVIOUS
  <1>a. /\ source \in Snapshot /\ inputs \in Nat
        /\ cached.snap \in Snapshot \cup {Blank} /\ copy.snap \in Snapshot \cup {Blank}
        /\ mpc = "send" => cached.snap \in Snapshot
        /\ apc = "write" => copy.snap \in Snapshot
        /\ tosend \subseteq Stream /\ (apc \notin {"accept", "ended"} => fresh \in Stream)
        /\ \A s \in Stream : s[1] \in Client /\ s[2] \in Nat \ {0} /\ s = <<s[1], s[2]>>
        /\ conn \in [Client -> Nat] /\ conns \in [Client -> Nat]
    BY DEF Shape, TypeOK, CacheShape, LoopShape, AcceptShape, Stream
  <1>n. source.tmux \in Nat /\ source.work \in Nat
    BY <1>a DEF Snapshot
  <1>b. Within(cached.snap, cached.snap) /\ Within(copy.snap, cached.snap)
    BY <1>a DEF Ordered, Within, NotAfter, Snapshot
  <1>c. /\ \A c \in Client : InOrder(c) /\ Below(c, cached.snap)
        /\ apc = "write" /\ Open(fresh) => Below(fresh[1], copy.snap)
    BY DEF Ordered
  <1> HIDE DEF Shape
  \* The lanes keep their order and nothing else moves.
  <1>0. ASSUME UNCHANGED Made,
               \A c \in Client : /\ InOrder(c) => InOrder(c)'
                                 /\ Below(c, cached.snap) => Below(c, cached.snap)',
               apc = "write" => (Open(fresh)' => Open(fresh) /\ Below(fresh[1], copy.snap)')
        PROVE  Ordered'
    BY <1>0 DEF Ordered, Made
  \* The lanes do not move.
  <1>1. ASSUME UNCHANGED <<wire, latest, shown>>
        PROVE  \A c \in Client : /\ InOrder(c) => InOrder(c)'
                                 /\ \A w : Below(c, w) => Below(c, w)'
    BY <1>1, SameLane
  <1>2. CASE UNCHANGED <<Made, conn, wire, latest, shown>>
    <2>1. Open(fresh)' = Open(fresh)
      BY <1>2 DEF Open, Made
    <2>2. apc = "write" /\ Open(fresh) => Below(fresh[1], copy.snap)'
      BY <1>a, <1>n, <1>c, <1>1, <1>2 DEF Made
    <2> QED
      BY <1>0, <1>1, <1>2, <2>1, <2>2 DEF Made
  <1>3. CASE TmuxChange \/ WorkChange
    <2>1. /\ source' \in Snapshot /\ source.tmux <= source'.tmux /\ source.work <= source'.work
          /\ UNCHANGED <<inputs, cached, copy, apc, fresh, conn, wire, latest, shown>>
      BY <1>a, <1>n, <1>3 DEF TmuxChange, WorkChange, Snapshot, loop, server, accepting, sockets, panes
    <2>2. /\ inputs' <= source'.tmux /\ 1 <= source'.tmux /\ 1 <= source'.work
          /\ cached'.snap \in Snapshot => cached'.snap.work <= source'.work
      BY <1>a, <1>n, <2>1 DEF Ordered, Snapshot
    <2> QED
      BY <1>a, <1>n, <1>1, <2>1, <2>2 DEF Ordered, Open
  <1>4. CASE Observe
    <2>1. /\ inputs' \in {inputs, source.tmux}
          /\ UNCHANGED <<source, cached, copy, apc, fresh, conn, wire, latest, shown>>
      BY <1>4 DEF Observe, server, accepting, sockets, panes
    <2>2. /\ inputs' <= source'.tmux
          /\ cached'.snap \in Snapshot => cached'.snap.tmux <= inputs'
      BY <1>a, <1>n, <2>1 DEF Ordered, Snapshot
    <2> QED
      BY <1>a, <1>n, <1>1, <2>1, <2>2 DEF Ordered, Open
  <1>5. CASE Publish
    <2>1. UNCHANGED <<source, inputs, copy, apc, fresh, conn, wire, latest, shown>>
      BY <1>5 DEF Publish, accepting, sockets, panes
    <2>2. CASE UNCHANGED cached
      BY <1>2, <2>1, <2>2 DEF Made
    <2>3. CASE inputs # 0 /\ cached'.snap = [tmux |-> inputs, work |-> source.work]
      <3>1. /\ cached'.snap \in Snapshot /\ 1 <= cached'.snap.tmux /\ cached'.snap.tmux = inputs
            /\ cached'.snap.work = source.work /\ 1 <= cached'.snap.work
        BY <1>a, <1>n, <2>3 DEF Ordered, Snapshot
      <3>2. Within(cached.snap, cached'.snap)
        BY <1>a, <1>n, <3>1 DEF Ordered, Within, NotAfter, Snapshot
      <3>3. Within(copy.snap, cached'.snap)
        BY <1>b, <3>2, WithinTrans
      <3>4. \A c \in Client : InOrder(c)' /\ \A w : Below(c, w) => Below(c, w)'
        BY <1>c, <1>1, <2>1
      <3>5. \A c \in Client : Below(c, cached'.snap)
        BY <1>c, <3>2, BelowTrans
      <3> QED
        BY <1>a, <1>n, <1>c, <2>1, <3>1, <3>3, <3>4, <3>5 DEF Ordered, Open
    <2> QED
      BY <1>5, <2>2, <2>3 DEF Publish
  <1>6. ASSUME NEW s \in tosend, Send(s) PROVE Ordered'
    <2>1. /\ s \in Stream /\ s[1] \in Client /\ cached.snap \in Snapshot
          /\ UNCHANGED <<source, inputs, cached, copy, apc, fresh, conn, latest, shown>>
      BY <1>a, <1>6 DEF Send, loop, accepting, panes
    <2>2. apc = "write" /\ Open(fresh) /\ Open(s) => fresh[1] \in Client \ {s[1]}
      BY <1>a, <2>1 DEF Streams, Members, Open
    <2>3. CASE Open(s) /\ Written(s)
      <3>1. /\ InOrder(s[1]) => InOrder(s[1])'
            /\ \A w : Below(s[1], w) /\ Within(cached.snap, w) => Below(s[1], w)'
            /\ \A d \in Client \ {s[1]} : /\ InOrder(d) => InOrder(d)'
                                          /\ \A w : Below(d, w) => Below(d, w)'
        BY <1>c, <2>1, <2>3, PutInOrder DEF Written
      <3>2. \A c \in Client : InOrder(c)' /\ (Below(c, cached.snap) => Below(c, cached.snap)')
        BY <1>b, <1>c, <2>1, <3>1
      <3>3. apc = "write" => (Open(fresh)' => Open(fresh) /\ Below(fresh[1], copy.snap)')
        BY <1>c, <2>1, <2>2, <2>3, <3>1 DEF Open
      <3> QED
        BY <1>0, <2>1, <3>2, <3>3 DEF Made
    <2>4. CASE Open(s) /\ wire' = [wire EXCEPT ![s[1]] = Append(@, Eof)]
      <3>1. Eof \notin Snapshot /\ \A w : Within(Eof, w)
        BY MarkersAssumption DEF Within
      <3>2. /\ InOrder(s[1]) => InOrder(s[1])'
            /\ \A w : Below(s[1], w) /\ Within(Eof, w) => Below(s[1], w)'
            /\ \A d \in Client \ {s[1]} : /\ InOrder(d) => InOrder(d)'
                                          /\ \A w : Below(d, w) => Below(d, w)'
        BY <2>1, <2>4, <3>1, PutInOrder
      <3>3. \A c \in Client : InOrder(c)' /\ (Below(c, cached.snap) => Below(c, cached.snap)')
        BY <1>c, <2>1, <3>1, <3>2
      <3>4. apc = "write" => (Open(fresh)' => Open(fresh) /\ Below(fresh[1], copy.snap)')
        BY <1>c, <2>1, <2>2, <2>4, <3>2 DEF Open
      <3> QED
        BY <1>0, <2>1, <3>3, <3>4 DEF Made
    <2>5. CASE UNCHANGED wire
      BY <1>2, <2>1, <2>5 DEF Made
    <2> QED
      BY <1>6, <2>3, <2>4, <2>5 DEF Send, WriteFails
  <1>7. CASE Join \/ CountClients
    BY <1>2, <1>7 DEF Join, CountClients, Made, loop, accepting, sockets, panes
  <1>8. CASE Accept
    <2>1. /\ apc' = "read"
          /\ UNCHANGED <<source, inputs, cached, copy, wire, latest, shown>>
      BY <1>8 DEF Accept, loop, server, panes
    <2> QED
      BY <1>1, <2>1 DEF Ordered
  <1>9. CASE ReadCache
    <2>1. /\ copy' = cached
          /\ UNCHANGED <<source, inputs, cached, fresh, conn, wire, latest, shown>>
      BY <1>9 DEF ReadCache, loop, server, sockets, panes
    <2>2. \A c \in Client : InOrder(c)' /\ Below(c, cached.snap)'
      BY <1>c, <1>1, <2>1
    <2>3. fresh \in Stream
      BY <1>a, <1>9 DEF ReadCache
    <2>4. fresh[1] \in Client
      BY <1>a, <2>3
    <2>5. Below(fresh[1], cached.snap)'
      BY <2>1, <2>2, <2>4
    <2> QED
      BY <1>b, <1>c, <2>1, <2>2, <2>5 DEF Ordered
  <1>10. CASE WriteFresh
    <2>1. /\ fresh \in Stream /\ fresh[1] \in Client /\ copy.snap \in Snapshot /\ apc' # "write"
          /\ UNCHANGED <<source, inputs, cached, copy, latest, shown>>
          /\ apc = "write"
      BY <1>a, <1>10 DEF WriteFresh, WriteFails, loop, server, panes
    <2>2. PICK f \in Client : f = fresh[1]
      BY <2>1
    <2>3. ASSUME NEW v \in Snapshot \cup {Eof}, wire' = [wire EXCEPT ![f] = Append(@, v)],
                 v \in Snapshot => Below(f, v), Within(v, cached.snap)
          PROVE  \A c \in Client : InOrder(c)' /\ Below(c, cached.snap)'
      <3>1. /\ InOrder(f) => InOrder(f)'
            /\ \A w : Below(f, w) /\ Within(v, w) => Below(f, w)'
            /\ \A d \in Client \ {f} : /\ InOrder(d) => InOrder(d)'
                                       /\ \A w : Below(d, w) => Below(d, w)'
        BY <2>1, <2>3, PutInOrder
      <3> QED
        BY <1>c, <2>1, <2>3, <3>1
    <2>4. \A c \in Client : InOrder(c)' /\ Below(c, cached.snap)'
      <3>1. CASE UNCHANGED wire
        BY <1>c, <1>1, <2>1, <3>1
      <3>2. CASE wire' = [wire EXCEPT ![f] = Append(@, copy.snap)] /\ Open(fresh)
        <4>1. Below(f, copy.snap)
          BY <1>c, <1>10, <2>1, <2>2, <3>2 DEF WriteFresh
        <4> QED
          BY <1>b, <2>1, <2>3, <3>2, <4>1
      <3>3. CASE wire' = [wire EXCEPT ![f] = Append(@, Eof)]
        <4>1. Eof \notin Snapshot /\ Within(Eof, cached.snap)
          BY MarkersAssumption DEF Within
        <4> QED
          BY <2>3, <3>3, <4>1
      <3> QED
        BY <1>10, <2>2, <3>1, <3>2, <3>3 DEF WriteFresh, WriteFails
    <2> QED
      BY <1>b, <2>1, <2>4 DEF Ordered
  <1>11. CASE Register
    BY <1>1, <1>11 DEF Register, Ordered, loop, sockets, panes
  <1>12. ASSUME NEW c \in Client, Connect(c) PROVE Ordered'
    <2>1. /\ conn' = [conn EXCEPT ![c] = conns[c] + 1]
          /\ UNCHANGED <<Made, wire, latest, shown>>
      BY <1>a, <1>12 DEF Connect, loop, server, accepting, panes, Made
    <2>2. \A s \in Stream : s[2] <= conns[s[1]] => (Open(s)' => Open(s))
      BY <1>a, <2>1 DEF Open
    <2>3. apc = "write" => fresh \in Stream /\ fresh[2] <= conns[fresh[1]] /\ fresh' = fresh
      BY <1>a, <2>1 DEF Streams, Made
    <2>4. apc = "write" => (Open(fresh)' => Open(fresh))
      BY <2>2, <2>3 DEF Open
    <2>5. apc = "write" /\ Open(fresh) => Below(fresh[1], copy.snap)'
      BY <1>a, <1>c, <1>1, <2>1 DEF Made
    <2> QED
      BY <1>0, <1>1, <2>1, <2>4, <2>5 DEF Made
  <1>13. ASSUME NEW c \in Client, ReadSnapshot(c) \/ Show(c) \/ ClosePane(c) PROVE Ordered'
    <2>1. UNCHANGED Made /\ conn' \in {conn, [conn EXCEPT ![c] = 0]}
      BY <1>13 DEF ReadSnapshot, Show, ClosePane, loop, server, accepting, sockets, Made
    <2>2. \A d \in Client : /\ InOrder(d) => InOrder(d)'
                            /\ \A w : Below(d, w) => Below(d, w)'
      BY <1>13, TakeInOrder
    <2>3. \A d \in Client : /\ InOrder(d) => InOrder(d)'
                            /\ Below(d, cached.snap) => Below(d, cached.snap)'
      BY <2>1, <2>2 DEF Made
    <2>4. apc = "write" => (Open(fresh)' => Open(fresh))
      BY <1>a, <2>1 DEF Open, Made
    <2>5. apc = "write" /\ Open(fresh) => Below(fresh[1], copy.snap)'
      BY <1>a, <1>c, <2>1, <2>2 DEF Made
    <2> QED
      BY <1>0, <2>1, <2>3, <2>4, <2>5
  <1>14. CASE Notify
    BY <1>2, <1>14 DEF Notify, SignalTaken, RaiseFlag, WakeLoop, loop, server, accepting, sockets,
                       panes, Made
  <1>15. CASE TakeObservation \/ TakePublication \/ Wake
    BY <1>2, <1>15 DEF TakeObservation, TakePublication, Wake, loop, server, accepting, sockets,
                       panes, Made
  <1>16. CASE Tick \/ TimerExpires \/ PollDue
    BY <1>2, <1>16 DEF Tick, TimerExpires, PollDue, server, accepting, sockets, panes, Made
  <1>17. ASSUME NEW c \in Client, WakePane(c) PROVE Ordered'
    BY <1>2, <1>17 DEF WakePane, loop, server, accepting, sockets, panes, Made
  <1>18. CASE UNCHANGED vars
    BY <1>2, <1>18 DEF vars, loop, server, accepting, sockets, panes, Made
  <1>19. CASE AcceptFails
    <2>1. /\ UNCHANGED <<source, inputs, cached, copy, latest, shown>> /\ apc' = "ended"
          /\ \A c \in Client : wire'[c] \in {wire[c], Append(wire[c], Eof)}
      BY <1>19 DEF AcceptFails, loop, server, panes
    <2>2. Eof \notin Snapshot /\ \A w : Within(Eof, w)
      BY MarkersAssumption DEF Within
    <2>3. ASSUME NEW c \in Client PROVE InOrder(c)' /\ Below(c, cached.snap)'
      <3>1. CASE wire'[c] = wire[c]
        BY <1>c, <2>1, <3>1, SameLane
      <3>2. CASE wire'[c] = Append(wire[c], Eof)
        BY <1>c, <2>1, <2>2, <3>2, PutLane
      <3> QED
        BY <2>1, <3>1, <3>2
    <2> QED
      BY <1>b, <2>1, <2>3 DEF Ordered
  <1> QED
    BY <1>3, <1>4, <1>5, <1>6, <1>7, <1>8, <1>9, <1>10, <1>11, <1>12, <1>13, <1>14, <1>15, <1>16,
       <1>17, <1>18, <1>19
       DEF Next, Loop, Accepting, Pane

-----------------------------------------------------------------------------
(* The daemon and the sidebar processes implement the feed. *)

\* At first the sources are at their first versions and no pane shows anything.
LEMMA FeedInit == Init => Feed!Init
  BY DEF Init, Feed!Init

\* What a pane goes on to show is a version the sources have had, and not before
\* the one it showed.
LEMMA ShowRefreshes ==
  ASSUME Shape, Ordered, NEW c \in Client, Show(c)
  PROVE  Feed!Refresh(c) \/ UNCHANGED <<source, shown>>
  <1> DEFINE v == latest[c]
  <1>a. /\ shown \in [Client -> Snapshot \cup {Blank}] /\ source \in Snapshot
        /\ v \in Snapshot \cup {Blank} /\ UNCHANGED source
        /\ shown' = [shown EXCEPT ![c] = IF v = Blank THEN @ ELSE v]
    BY DEF Shape, TypeOK, Show
  <1>b. Within(v, cached.snap) /\ Behind(shown[c], v)
    BY DEF Ordered, Below, InOrder
  <1>c. cached.snap \in Snapshot =>
          cached.snap.tmux <= inputs /\ inputs <= source.tmux /\ cached.snap.work <= source.work
    BY DEF Ordered
  <1>d. cached.snap \in Snapshot \cup {Blank} /\ inputs \in Nat
    BY DEF Shape, TypeOK
  <1> HIDE DEF v
  <1>1. CASE v = Blank
    BY <1>a, <1>1
  <1>2. CASE v # Blank
    <2>1. v \in Snapshot /\ v = [tmux |-> v.tmux, work |-> v.work]
      BY <1>a, <1>2 DEF Snapshot
    <2>2. v.tmux \in 1..source.tmux /\ v.work \in 1..source.work
      BY <1>a, <1>b, <1>c, <1>d, <2>1 DEF Within, NotAfter, Snapshot
    <2>3. shown[c] # Blank => Feed!AtMost(shown[c], v)
      BY <1>a, <1>b, <2>1 DEF Behind, NotAfter, Feed!AtMost
    <2>4. shown' = [shown EXCEPT ![c] = v]
      BY <1>a, <1>2
    <2> QED
      BY <1>a, <2>1, <2>2, <2>3, <2>4 DEF Feed!Refresh
  <1> QED
    BY <1>1, <1>2

\* Every step of the daemon, its threads and the sidebar processes is one of the
\* feed, or the panes show what they showed.
LEMMA FeedStep == Shape /\ Ordered /\ [Next]_vars => [Feed!Next]_(Feed!vars)
  <1> SUFFICES ASSUME Shape, Ordered, [Next]_vars PROVE [Feed!Next]_(Feed!vars)
    OBVIOUS
  <1> USE DEF Feed!vars
  <1>1. CASE TmuxChange \/ WorkChange
    BY <1>1 DEF TmuxChange, WorkChange, panes, Feed!Next, Feed!Change
  <1>2. ASSUME NEW c \in Client, Show(c) PROVE [Feed!Next]_(Feed!vars)
    BY <1>2, ShowRefreshes DEF Feed!Next
  <1>3. ASSUME NEW c \in Client, ClosePane(c) PROVE [Feed!Next]_(Feed!vars)
    BY <1>3 DEF ClosePane, Feed!Next, Feed!Clear
  <1>4. CASE Notify
    BY <1>4 DEF Notify, SignalTaken, RaiseFlag, WakeLoop, panes
  <1>5. CASE Loop
    BY <1>5 DEF Loop, TakeObservation, TakePublication, Observe, Publish, Send, Join, Wake, panes
  <1>6. CASE Tick \/ CountClients \/ TimerExpires \/ PollDue
    BY <1>6 DEF Tick, CountClients, TimerExpires, PollDue, panes
  <1>7. CASE Accepting \/ AcceptFails
    BY <1>7 DEF Accepting, Accept, AcceptFails, ReadCache, WriteFresh, Register, panes
  <1>8. ASSUME NEW c \in Client, Pane(c) PROVE [Feed!Next]_(Feed!vars)
    BY <1>8 DEF Pane, Connect, ReadSnapshot, WakePane, panes
  <1>9. CASE UNCHANGED vars
    BY <1>9 DEF vars, panes
  <1> QED
    BY <1>1, <1>2, <1>3, <1>4, <1>5, <1>6, <1>7, <1>8, <1>9 DEF Next

\* Every sidebar pane shows states the sources had, and never goes back to one
\* before what it showed (daemon.rs, SocketServer; client.rs, read_loop), for
\* any number of panes that come and go and any number of changes.
THEOREM Implements == Spec => ImplementsFeed
  <1>1. Init => Ordered
    BY MarkersAssumption DEF Init, Ordered, Within, Below, InOrder, Behind, Snapshot
  <1>2. Shape /\ Ordered /\ [Next]_vars => [Feed!Next]_(Feed!vars)
    BY FeedStep
  <1>3. Init => Streams
    BY DEF Init, Streams, Members
  <1> QED
    BY <1>1, <1>2, <1>3, FeedInit, ShapeInit, ShapeStep, StreamsStep, OrderedStep, PTL
       DEF Spec, ImplementsFeed, Feed!Spec
=============================================================================
