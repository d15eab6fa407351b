---------------------------- MODULE RunExecProof ----------------------------
(***************************************************************************)
(* Theorems of RunExec, for any exit codes, any number of lines and any    *)
(* lines that cannot be read: its types, what holds when the coordinator   *)
(* returns, and that the two processes implement RunPromise.               *)
(*                                                                         *)
(* None of the properties is inductive, since they speak of the moment     *)
(* when the coordinator ends.  IInv follows a result from the command to   *)
(* that moment: it is written only when the threads have copied all there  *)
(* is (Settled) and with a code that the caller may be told (Good), both   *)
(* of which stay; and as long as the coordinator is looking for it (Early) *)
(* nobody unlinks files, so nothing but a result takes its place.          *)
(***************************************************************************)
EXTENDS RunExec, TLAPS

\* The coordinator has not yet seen a result nor given up.
Early == {"create", "split", "check-time", "stdout", "stderr", "read-result"}

\* _exec has its verdict and is writing it.
Writing == {"write-result", "rename-result", "marker", "rename-marker"}

Unbegun == {"absent", "read-spec", "open-stdout", "open-stderr", "spawn"}

\* The command can no longer be started.
NeverStarted == command = "none" /\ exec \notin Unbegun

\* Nothing will be printed or copied any more.
Settled == ended = Stream \/ NeverStarted

\* An exit code the caller may be told, now and from now on.
Good(c) == c \in Code /\ (c = command \/ (c = Failure /\ NeverStarted))

\* Lines are printed, then copied, then shown.
Copies ==
    \A s \in Stream :
        /\ pump[s] <= printed[s]
        /\ shown[s] <= Readable(s, pump[s])
        /\ s \in ended => pump[s] = printed[s]

\* Nothing happens before _exec has started the command.
NotBegun ==
    /\ command = "none" => tail = "none" /\ \A s \in Stream : printed[s] = 0
    /\ exec \in Unbegun => command = "none"

\* Until the coordinator unlinks files, what was written is there.
Directory ==
    /\ coord = "create" => files = None
    /\ coord \in {"create", "split"} => exec = "absent"
    /\ coord \in Early \ {"create"} => files # None
    /\ coord \in Early /\ exec \in {"rename-result", "rename-marker"} =>
         Holds("temporary")

\* A result is written when all is settled, and is good if it can be seen.
Results ==
    /\ exec \in Writing => Settled
    /\ coord \in Early /\ exec \in Writing \cup {"join"} => Good(verdict)
    /\ coord \in Early /\ Holds("result") => Settled /\ Good(result) /\ exec = "ended"

\* What the coordinator has, at each of its last steps.
Outcome ==
    /\ code \in Code => Good(code) /\ Settled /\ exec = "ended"
    /\ code = TimedOut => late
    /\ coord \in Early => code = None
    /\ coord \in {"flush-stdout", "flush-stderr", "returned"} => code \in Code
    /\ coord \in {"unlink", "remove-directory"} => code # None

\* All that can be shown is shown when the coordinator has seen a result and
\* has nothing to do but clean up.
AllShown(s) == shown[s] = Readable(s, printed[s])

Flushed ==
    /\ coord = "flush-stderr" => AllShown("stdout")
    /\ code \in Code /\ coord \in {"unlink", "remove-directory", "returned"} =>
         \A s \in Stream : AllShown(s)

\* After a result nothing is written, so unlinking leaves an empty directory.
Cleaned ==
    /\ code \in Code /\ coord = "remove-directory" => files \in {{}, None}
    /\ coord = "returned" /\ ~keep => files = None

IInv ==
    /\ TypeOK /\ Copies /\ NotBegun /\ Directory /\ Results /\ Outcome
    /\ Flushed /\ Cleaned

\* Exit codes and the markers around them are different things.
LEMMA CodesDiffer ==
  /\ Failure \in Code /\ TimedOut \notin Code /\ None \notin Code
  /\ "none" \notin Code /\ "runs" \notin Code
  BY CodeAssumption

-----------------------------------------------------------------------------
(***************************************************************************)
(* Lines.                                                                  *)
(***************************************************************************)

\* What can be read is a part of what is there.
LEMMA ReadableType ==
  ASSUME Counts, NEW s \in Stream, NEW n \in 0..MaxLines
  PROVE  Readable(s, n) \in 0..n /\ Readable(s, n) \in 0..MaxLines
  <1>1. broken[s] \in 0..MaxLines
    BY DEF Counts
  <1> QED
    BY <1>1, LinesAssumption DEF Readable

\* More lines never make less readable.
LEMMA ReadableMonotone ==
  ASSUME Counts, NEW s \in Stream,
         NEW m \in 0..MaxLines, NEW n \in 0..MaxLines, m <= n
  PROVE  Readable(s, m) <= Readable(s, n)
  <1>1. broken[s] \in 0..MaxLines
    BY DEF Counts
  <1> QED
    BY <1>1, LinesAssumption DEF Readable

\* One more line makes one more readable, or none.
LEMMA ReadableNext ==
  ASSUME Counts, NEW s \in Stream, NEW n \in 0..MaxLines
  PROVE  Readable(s, n + 1) \in {Readable(s, n), Readable(s, n) + 1}
  <1>1. broken[s] \in 0..MaxLines
    BY DEF Counts
  <1> QED
    BY <1>1, LinesAssumption DEF Readable

\* Lines are counted in three places, and at most one of the counts changes.
LinesKept == UNCHANGED <<broken, shown, pump, printed>>

\* A step shows, copies or prints lines, or keeps all three counts.
LEMMA LinesChange ==
  ASSUME [Next]_vars
  PROVE  \/ LinesKept
         \/ \E s \in Stream : \/ \E next : Show(s, next)
                             \/ Pump(s) \/ PrintLine(s)
  <1> USE DEF LinesKept, options, coordinator, executor, child
  <1>1. CASE StreamOutput \/ Flush
    BY <1>1 DEF StreamOutput, Flush, Stream
  <1>2. CASE CreateRun \/ SplitPane \/ CheckTime \/ ReadResult \/ Unlink \/ RemoveDirectory
    BY <1>2 DEF CreateRun, SplitPane, CheckTime, ReadResult, Unlink, RemoveDirectory
  <1>3. CASE TimePasses \/ KillCoordinator \/ KillExec \/ StartTail \/ CommandEnds \/ TailEnds
    BY <1>3 DEF TimePasses, KillCoordinator, KillExec, StartTail, CommandEnds, TailEnds
  <1>4. CASE ReadSpec \/ OpenFiles \/ StartCommand \/ WaitCommand \/ Join \/ WriteResult \/ RenameResult
    BY <1>4 DEF ReadSpec, OpenFiles, OpenFile, StartCommand, WaitCommand, Join,
           WriteResult, RenameResult
  <1>5. CASE \E s \in Stream : PumpEnds(s)
    BY <1>5 DEF PumpEnds
  <1>6. CASE UNCHANGED vars
    BY <1>6 DEF vars
  <1> QED
    BY <1>1, <1>2, <1>3, <1>4, <1>5, <1>6 DEF Next, Coordinate, Execute

\* It holds at the start.
LEMMA InvariantInit == Init => IInv
  <1> SUFFICES ASSUME Init PROVE IInv
    OBVIOUS
  <1> USE CodesDiffer, NoneAssumption, LinesAssumption DEF Init
  <1>1. Counts
    <2>1. shown \in [Stream -> 0..MaxLines]
      BY DEF Stream
    <2>2. broken \in [Stream -> 0..MaxLines]
      OBVIOUS
    <2> QED
      BY <2>1, <2>2 DEF Counts
  <1>2. Copies
    BY DEF Copies, Readable
  <1>3. NotBegun /\ Directory /\ Results
    BY DEF NotBegun, Directory, Results, Early, Writing, Holds, Unbegun
  <1>4. Outcome /\ Flushed /\ Cleaned
    BY DEF Outcome, Flushed, Cleaned, Early
  <1>5. TypeOK
    BY <1>1 DEF TypeOK, Returned
  <1> QED
    BY <1>1, <1>2, <1>3, <1>4, <1>5 DEF IInv

\* Only one count changes at a time, and stays in its bounds.
LEMMA CountsStep == IInv /\ [Next]_vars => Counts'
  <1> SUFFICES ASSUME IInv, [Next]_vars PROVE Counts'
    OBVIOUS
  <1> USE DEF IInv, TypeOK
  <1>1. CASE LinesKept
    BY <1>1 DEF Counts, LinesKept
  <1>2. ASSUME NEW s \in Stream, NEW next, Show(s, next) PROVE Counts'
    <2>1. pump[s] \in 0..MaxLines
      BY DEF Counts
    <2>2. shown' \in [Stream -> 0..MaxLines]
      BY <1>2, <2>1, ReadableType DEF Show, Counts
    <2> QED
      BY <1>2, <2>2 DEF Show, Counts, options, executor, child
  <1>3. ASSUME NEW s \in Stream, Pump(s) PROVE Counts'
    <2>1. pump' \in [Stream -> 0..MaxLines]
      BY <1>3 DEF Pump, Counts
    <2> QED
      BY <1>3, <2>1 DEF Pump, Counts, options, coordinator, child
  <1>4. ASSUME NEW s \in Stream, PrintLine(s) PROVE Counts'
    <2>1. printed' \in [Stream -> 0..MaxLines]
      BY <1>4, LinesAssumption DEF PrintLine, Counts
    <2> QED
      BY <1>4, <2>1 DEF PrintLine, Counts, options, coordinator, executor
  <1> QED
    BY <1>1, <1>2, <1>3, <1>4, LinesChange

\* The coordinator shows what is copied, and threads copy what is printed; a
\* thread that has ended has copied everything.
LEMMA CopiesStep == IInv /\ [Next]_vars => Copies'
  <1> SUFFICES ASSUME IInv, [Next]_vars, NEW t \in Stream
               PROVE  /\ pump'[t] <= printed'[t]
                      /\ shown'[t] <= Readable(t, pump[t])'
                      /\ t \in ended' => pump'[t] = printed'[t]
    BY DEF Copies
  <1>a. /\ pump[t] \in 0..MaxLines /\ printed[t] \in 0..MaxLines
        /\ shown[t] \in 0..MaxLines
    BY DEF IInv, TypeOK, Counts
  <1>b. /\ pump[t] <= printed[t] /\ shown[t] <= Readable(t, pump[t])
        /\ t \in ended => pump[t] = printed[t]
    BY DEF IInv, Copies
  <1>c. Readable(t, pump[t]) \in 0..MaxLines /\ Readable(t, printed[t]) \in 0..MaxLines
    BY <1>a, ReadableType DEF IInv, TypeOK
  <1>d. broken' = broken
    <2>1. CASE LinesKept
      BY <2>1 DEF LinesKept
    <2> QED
      BY <2>1, LinesChange DEF Show, Pump, PrintLine, options
  <1>e. t \in ended' /\ t \notin ended => pump[t] = printed[t] /\ LinesKept
    <2>1. CASE \E s \in Stream : PumpEnds(s)
      BY <2>1 DEF PumpEnds, LinesKept, options, coordinator, child
    <2>2. CASE UNCHANGED ended
      BY <2>2
    <2>3. CASE Coordinate \/ TimePasses \/ KillCoordinator \/ KillExec
      BY <2>2, <2>3 DEF Coordinate, TimePasses, KillCoordinator, KillExec, CreateRun,
           SplitPane, CheckTime, StreamOutput, Flush, Show, ReadResult, Unlink,
           RemoveDirectory, executor
    <2>4. CASE ReadSpec \/ OpenFiles \/ StartCommand \/ WaitCommand \/ Join \/ WriteResult \/ RenameResult
      BY <2>2, <2>4 DEF ReadSpec, OpenFiles, OpenFile, StartCommand, WaitCommand, Join,
           WriteResult, RenameResult
    <2>5. CASE StartTail \/ CommandEnds \/ TailEnds
      BY <2>2, <2>5 DEF StartTail, CommandEnds, TailEnds, executor
    <2>6. CASE \E s \in Stream : Pump(s) \/ PrintLine(s)
      BY <2>2, <2>6 DEF Pump, PrintLine, executor
    <2>7. CASE UNCHANGED vars
      BY <2>2, <2>7 DEF vars, executor
    <2> QED
      BY <2>1, <2>3, <2>4, <2>5, <2>6, <2>7 DEF Next, Execute
  <1>f. \A n : Readable(t, n)' = Readable(t, n)
    BY <1>d DEF Readable
  <1>1. CASE LinesKept
    BY <1>1, <1>b, <1>e, <1>f DEF LinesKept
  <1>2. ASSUME NEW s \in Stream, NEW next, Show(s, next) PROVE shown'[t] <= Readable(t, pump[t])
    BY <1>2, <1>b, <1>c DEF Show, IInv, Counts
  <1>3. ASSUME NEW s \in Stream, Pump(s)
        PROVE  pump'[t] \in {pump[t], printed[t]}
    BY <1>3 DEF Pump, IInv, Counts
  <1>4. ASSUME NEW s \in Stream, PrintLine(s)
        PROVE  printed'[t] \in {printed[t], printed[t] + 1} /\ (t \in ended => printed'[t] = printed[t])
    BY <1>4 DEF PrintLine, IInv, Counts
  <1>5. Readable(t, pump[t]) <= Readable(t, printed[t])
    BY <1>a, <1>b, ReadableMonotone DEF IInv, TypeOK
  <1>6. CASE \E s \in Stream : \E next : Show(s, next)
    <2>1. pump' = pump /\ printed' = printed /\ ended' = ended
      BY <1>6 DEF Show, executor, child
    <2> QED
      BY <1>2, <1>6, <2>1, <1>b, <1>f
  <1>7. CASE \E s \in Stream : Pump(s)
    <2>1. shown' = shown /\ printed' = printed /\ ended' = ended
      BY <1>7 DEF Pump, coordinator, child
    <2>2. pump'[t] \in {pump[t], printed[t]}
      BY <1>3, <1>7
    <2> QED
      BY <2>1, <2>2, <1>5, <1>a, <1>b, <1>c, <1>f
  <1>8. CASE \E s \in Stream : PrintLine(s)
    <2>1. shown' = shown /\ pump' = pump /\ ended' = ended
      BY <1>8 DEF PrintLine, coordinator, executor
    <2> QED
      BY <1>4, <1>8, <2>1, <1>a, <1>b, <1>f
  <1> QED
    BY <1>1, <1>6, <1>7, <1>8, LinesChange

\* Every step keeps the types; the counts of lines have been dealt with.
LEMMA TypeStep == IInv /\ [Next]_vars => TypeOK'
  <1> SUFFICES ASSUME IInv, [Next]_vars PROVE TypeOK'
    OBVIOUS
  <1> USE CodesDiffer, NoneAssumption DEF IInv, TypeOK, Returned, options, coordinator, directory, executor, child
  <1>0. Counts'
    BY CountsStep
  <1>1. CASE CreateRun
    BY <1>1, <1>0 DEF CreateRun, File, Stream, Holds
  <1>2. CASE SplitPane
    BY <1>2, <1>0 DEF SplitPane
  <1>3. CASE CheckTime
    BY <1>3, <1>0 DEF CheckTime
  <1>4. CASE StreamOutput
    BY <1>4, <1>0 DEF StreamOutput, Show
  <1>5. CASE ReadResult
    BY <1>5, <1>0 DEF ReadResult
  <1>6. CASE Flush
    BY <1>6, <1>0 DEF Flush, Show
  <1>7. CASE Unlink
    BY <1>7, <1>0 DEF Unlink
  <1>8. CASE RemoveDirectory
    BY <1>8, <1>0 DEF RemoveDirectory
  <1>9. CASE TimePasses
    BY <1>9, <1>0 DEF TimePasses
  <1>10. CASE KillCoordinator
    BY <1>10, <1>0 DEF KillCoordinator
  <1>11. CASE ReadSpec \/ OpenFiles \/ StartCommand
    <2>1. /\ UNCHANGED <<options, late, coordinator, result, pump, ended, tail, printed>>
          /\ files' = files \/ \E s \in Stream : files # None /\ files' = files \cup {s}
          /\ command' \in {command, "runs"} /\ verdict' \in {verdict, Failure}
      BY <1>11 DEF ReadSpec, OpenFiles, OpenFile, StartCommand, Fail, Stream
    <2>2. exec' \in {"open-stdout", "open-stderr", "spawn", "wait", "marker"}
      BY <1>11 DEF ReadSpec, OpenFiles, OpenFile, StartCommand, Fail
    <2>3. files' = None \/ files' \subseteq File
      BY <2>1 DEF File
    <2> QED
      BY <2>1, <2>2, <2>3, <1>0
  <1>12. CASE WaitCommand
    BY <1>12, <1>0 DEF WaitCommand
  <1>13. CASE Join
    BY <1>13, <1>0 DEF Join
  <1>14. CASE WriteResult
    BY <1>14, <1>0 DEF WriteResult, Fail, File, Stream, Holds
  <1>15. CASE RenameResult
    BY <1>15, <1>0 DEF RenameResult, Fail, File, Stream, Holds
  <1>16. CASE KillExec
    BY <1>16, <1>0 DEF KillExec
  <1>17. CASE StartTail
    BY <1>17, <1>0 DEF StartTail
  <1>18. CASE CommandEnds
    BY <1>18, <1>0 DEF CommandEnds
  <1>19. CASE TailEnds
    BY <1>19, <1>0 DEF TailEnds
  <1>20. ASSUME NEW s \in Stream, Pump(s) PROVE TypeOK'
    BY <1>20, <1>0 DEF Pump
  <1>21. ASSUME NEW s \in Stream, PumpEnds(s) PROVE TypeOK'
    BY <1>21, <1>0 DEF PumpEnds
  <1>22. ASSUME NEW s \in Stream, PrintLine(s) PROVE TypeOK'
    BY <1>22, <1>0 DEF PrintLine
  <1>23. CASE UNCHANGED vars
    BY <1>23, <1>0 DEF vars
  <1> QED
    BY <1>1, <1>2, <1>3, <1>4, <1>5, <1>6, <1>7, <1>8, <1>9, <1>10, <1>11, <1>12, <1>13, <1>14, <1>15, <1>16, <1>17, <1>18, <1>19, <1>20, <1>21, <1>22, <1>23 DEF Next, Coordinate, Execute

\* Only _exec starts the command, and only the command starts other processes.
LEMMA NotBegunStep == IInv /\ [Next]_vars => NotBegun'
  <1> SUFFICES ASSUME IInv, [Next]_vars PROVE NotBegun'
    OBVIOUS
  <1> USE CodesDiffer, NoneAssumption DEF IInv, TypeOK, Directory, NotBegun, Unbegun, options, coordinator, directory, executor, child
  <1>1. CASE CreateRun
    BY <1>1 DEF CreateRun
  <1>2. CASE SplitPane
    BY <1>2 DEF SplitPane
  <1>3. CASE CheckTime
    BY <1>3 DEF CheckTime
  <1>4. CASE StreamOutput
    BY <1>4 DEF StreamOutput, Show
  <1>5. CASE ReadResult
    BY <1>5 DEF ReadResult
  <1>6. CASE Flush
    BY <1>6 DEF Flush, Show
  <1>7. CASE Unlink
    BY <1>7 DEF Unlink
  <1>8. CASE RemoveDirectory
    BY <1>8 DEF RemoveDirectory
  <1>9. CASE TimePasses
    BY <1>9 DEF TimePasses
  <1>10. CASE KillCoordinator
    BY <1>10 DEF KillCoordinator
  <1>11. CASE ReadSpec \/ OpenFiles \/ StartCommand
    BY <1>11 DEF ReadSpec, OpenFiles, OpenFile, StartCommand, Fail
  <1>12. CASE WaitCommand
    BY <1>12 DEF WaitCommand
  <1>13. CASE Join
    BY <1>13 DEF Join
  <1>14. CASE WriteResult
    BY <1>14 DEF WriteResult, Fail
  <1>15. CASE RenameResult
    BY <1>15 DEF RenameResult, Fail
  <1>16. CASE KillExec
    BY <1>16 DEF KillExec
  <1>17. CASE StartTail
    BY <1>17 DEF StartTail
  <1>18. CASE CommandEnds
    BY <1>18 DEF CommandEnds
  <1>19. CASE TailEnds
    BY <1>19 DEF TailEnds
  <1>20. ASSUME NEW s \in Stream, Pump(s) PROVE NotBegun'
    BY <1>20 DEF Pump
  <1>21. ASSUME NEW s \in Stream, PumpEnds(s) PROVE NotBegun'
    BY <1>21 DEF PumpEnds
  <1>22. ASSUME NEW s \in Stream, PrintLine(s) PROVE NotBegun'
    BY <1>22 DEF PrintLine
  <1>23. CASE UNCHANGED vars
    BY <1>23 DEF vars
  <1> QED
    BY <1>1, <1>2, <1>3, <1>4, <1>5, <1>6, <1>7, <1>8, <1>9, <1>10, <1>11, <1>12, <1>13, <1>14, <1>15, <1>16, <1>17, <1>18, <1>19, <1>20, <1>21, <1>22, <1>23 DEF Next, Coordinate, Execute

\* The coordinator unlinks nothing while it looks for a result.
LEMMA DirectoryStep == IInv /\ [Next]_vars => Directory'
  <1> SUFFICES ASSUME IInv, [Next]_vars PROVE Directory'
    OBVIOUS
  <1> USE CodesDiffer, NoneAssumption DEF IInv, TypeOK, NotBegun, Directory, Early, Holds, Unbegun, File, Returned, options, coordinator, directory, executor, child
  <1>1. CASE CreateRun
    BY <1>1 DEF CreateRun
  <1>2. CASE SplitPane
    BY <1>2 DEF SplitPane
  <1>3. CASE CheckTime
    BY <1>3 DEF CheckTime
  <1>4. CASE StreamOutput
    BY <1>4 DEF StreamOutput, Show
  <1>5. CASE ReadResult
    BY <1>5 DEF ReadResult
  <1>6. CASE Flush
    BY <1>6 DEF Flush, Show
  <1>7. CASE Unlink
    BY <1>7 DEF Unlink
  <1>8. CASE RemoveDirectory
    BY <1>8 DEF RemoveDirectory
  <1>9. CASE TimePasses
    BY <1>9 DEF TimePasses
  <1>10. CASE KillCoordinator
    BY <1>10 DEF KillCoordinator
  <1>11. CASE ReadSpec \/ OpenFiles \/ StartCommand
    <2>1. /\ UNCHANGED coord
          /\ files' = files \/ \E s \in Stream : files # None /\ files' = files \cup {s}
      BY <1>11 DEF ReadSpec, OpenFiles, OpenFile, StartCommand, Fail, Stream
    <2>2. exec' \in {"open-stdout", "open-stderr", "spawn", "wait", "marker"} /\ exec # "absent"
      BY <1>11 DEF ReadSpec, OpenFiles, OpenFile, StartCommand, Fail
    <2>3. files' = None <=> files = None
      BY <2>1
    <2> QED
      BY <2>1, <2>2, <2>3
  <1>12. CASE WaitCommand
    BY <1>12 DEF WaitCommand
  <1>13. CASE Join
    BY <1>13 DEF Join
  <1>14. CASE WriteResult
    BY <1>14 DEF WriteResult, Fail
  <1>15. CASE RenameResult
    BY <1>15 DEF RenameResult, Fail
  <1>16. CASE KillExec
    BY <1>16 DEF KillExec
  <1>17. CASE StartTail
    BY <1>17 DEF StartTail
  <1>18. CASE CommandEnds
    BY <1>18 DEF CommandEnds
  <1>19. CASE TailEnds
    BY <1>19 DEF TailEnds
  <1>20. ASSUME NEW s \in Stream, Pump(s) PROVE Directory'
    BY <1>20 DEF Pump
  <1>21. ASSUME NEW s \in Stream, PumpEnds(s) PROVE Directory'
    BY <1>21 DEF PumpEnds
  <1>22. ASSUME NEW s \in Stream, PrintLine(s) PROVE Directory'
    BY <1>22 DEF PrintLine
  <1>23. CASE UNCHANGED vars
    BY <1>23 DEF vars
  <1> QED
    BY <1>1, <1>2, <1>3, <1>4, <1>5, <1>6, <1>7, <1>8, <1>9, <1>10, <1>11, <1>12, <1>13, <1>14, <1>15, <1>16, <1>17, <1>18, <1>19, <1>20, <1>21, <1>22, <1>23 DEF Next, Coordinate, Execute

\* A result is written when all is settled, and stays good.
LEMMA ResultsStep == IInv /\ [Next]_vars => Results'
  <1> SUFFICES ASSUME IInv, [Next]_vars PROVE Results'
    OBVIOUS
  <1> USE CodesDiffer, NoneAssumption DEF IInv, TypeOK, NotBegun, Directory, Results, Early, Writing, Holds, Settled, Good, NeverStarted, Unbegun, File, Returned, options, coordinator, directory, executor, child
  <1>1. CASE CreateRun
    BY <1>1 DEF CreateRun, Stream
  <1>2. CASE SplitPane
    BY <1>2 DEF SplitPane
  <1>3. CASE CheckTime
    BY <1>3 DEF CheckTime
  <1>4. CASE StreamOutput
    BY <1>4 DEF StreamOutput, Show
  <1>5. CASE ReadResult
    BY <1>5 DEF ReadResult
  <1>6. CASE Flush
    BY <1>6 DEF Flush, Show
  <1>7. CASE Unlink
    BY <1>7 DEF Unlink
  <1>8. CASE RemoveDirectory
    BY <1>8 DEF RemoveDirectory
  <1>9. CASE TimePasses
    BY <1>9 DEF TimePasses
  <1>10. CASE KillCoordinator
    BY <1>10 DEF KillCoordinator
  <1>11. CASE ReadSpec \/ OpenFiles \/ StartCommand
    BY <1>11 DEF ReadSpec, OpenFiles, OpenFile, StartCommand, Fail, Stream
  <1>12. CASE WaitCommand
    BY <1>12 DEF WaitCommand
  <1>13. CASE Join
    BY <1>13 DEF Join
  <1>14. CASE WriteResult
    BY <1>14 DEF WriteResult, Fail
  <1>15. CASE RenameResult
    BY <1>15 DEF RenameResult, Fail
  <1>16. CASE KillExec
    BY <1>16 DEF KillExec
  <1>17. CASE StartTail
    BY <1>17 DEF StartTail
  <1>18. CASE CommandEnds
    BY <1>18 DEF CommandEnds
  <1>19. CASE TailEnds
    BY <1>19 DEF TailEnds
  <1>20. ASSUME NEW s \in Stream, Pump(s) PROVE Results'
    BY <1>20 DEF Pump
  <1>21. ASSUME NEW s \in Stream, PumpEnds(s) PROVE Results'
    BY <1>21 DEF PumpEnds
  <1>22. ASSUME NEW s \in Stream, PrintLine(s) PROVE Results'
    BY <1>22 DEF PrintLine
  <1>23. CASE UNCHANGED vars
    BY <1>23 DEF vars
  <1> QED
    BY <1>1, <1>2, <1>3, <1>4, <1>5, <1>6, <1>7, <1>8, <1>9, <1>10, <1>11, <1>12, <1>13, <1>14, <1>15, <1>16, <1>17, <1>18, <1>19, <1>20, <1>21, <1>22, <1>23 DEF Next, Coordinate, Execute

\* The code the coordinator has stays good, and nothing is printed any more.
LEMMA OutcomeStep == IInv /\ [Next]_vars => Outcome'
  <1> SUFFICES ASSUME IInv, [Next]_vars PROVE Outcome'
    OBVIOUS
  <1> USE CodesDiffer, NoneAssumption DEF IInv, TypeOK, NotBegun, Results, Outcome, Early, Writing, Holds, Settled, Good, NeverStarted, Unbegun, Returned, options, coordinator, directory, executor, child
  <1>1. CASE CreateRun
    BY <1>1 DEF CreateRun
  <1>2. CASE SplitPane
    BY <1>2 DEF SplitPane
  <1>3. CASE CheckTime
    BY <1>3 DEF CheckTime
  <1>4. CASE StreamOutput
    BY <1>4 DEF StreamOutput, Show
  <1>5. CASE ReadResult
    BY <1>5 DEF ReadResult
  <1>6. CASE Flush
    BY <1>6 DEF Flush, Show
  <1>7. CASE Unlink
    BY <1>7 DEF Unlink
  <1>8. CASE RemoveDirectory
    BY <1>8 DEF RemoveDirectory
  <1>9. CASE TimePasses
    BY <1>9 DEF TimePasses
  <1>10. CASE KillCoordinator
    BY <1>10 DEF KillCoordinator
  <1>11. CASE ReadSpec \/ OpenFiles \/ StartCommand
    BY <1>11 DEF ReadSpec, OpenFiles, OpenFile, StartCommand, Fail
  <1>12. CASE WaitCommand
    BY <1>12 DEF WaitCommand
  <1>13. CASE Join
    BY <1>13 DEF Join
  <1>14. CASE WriteResult
    BY <1>14 DEF WriteResult, Fail
  <1>15. CASE RenameResult
    BY <1>15 DEF RenameResult, Fail
  <1>16. CASE KillExec
    BY <1>16 DEF KillExec
  <1>17. CASE StartTail
    BY <1>17 DEF StartTail
  <1>18. CASE CommandEnds
    BY <1>18 DEF CommandEnds
  <1>19. CASE TailEnds
    BY <1>19 DEF TailEnds
  <1>20. ASSUME NEW s \in Stream, Pump(s) PROVE Outcome'
    BY <1>20 DEF Pump
  <1>21. ASSUME NEW s \in Stream, PumpEnds(s) PROVE Outcome'
    BY <1>21 DEF PumpEnds
  <1>22. ASSUME NEW s \in Stream, PrintLine(s) PROVE Outcome'
    BY <1>22 DEF PrintLine
  <1>23. CASE UNCHANGED vars
    BY <1>23 DEF vars
  <1> QED
    BY <1>1, <1>2, <1>3, <1>4, <1>5, <1>6, <1>7, <1>8, <1>9, <1>10, <1>11, <1>12, <1>13, <1>14, <1>15, <1>16, <1>17, <1>18, <1>19, <1>20, <1>21, <1>22, <1>23 DEF Next, Coordinate, Execute

\* When all is settled, everything that was printed has been copied.
LEMMA SettledCopied ==
  ASSUME IInv, Settled, NEW s \in Stream
  PROVE  pump[s] = printed[s]
  <1>1. pump[s] \in 0..MaxLines /\ printed[s] \in 0..MaxLines /\ pump[s] <= printed[s]
    BY DEF IInv, TypeOK, Counts, Copies
  <1>2. CASE ended = Stream
    BY <1>2 DEF IInv, Copies
  <1>3. CASE NeverStarted
    BY <1>1, <1>3 DEF IInv, NotBegun, NeverStarted
  <1> QED
    BY <1>2, <1>3 DEF Settled

\* Once there is a code, what is shown stays all there is to show.
LEMMA ShownStays ==
  ASSUME IInv, [Next]_vars, code \in Code, NEW t \in Stream
  PROVE  /\ AllShown(t) => AllShown(t)'
         /\ \A next : Show(t, next) => AllShown(t)'
  <1>1. Settled
    BY DEF IInv, Outcome
  <1>2. \A s \in Stream : pump[s] = printed[s]
    BY <1>1, SettledCopied
  <1>3. \A s \in Stream : ~PrintLine(s)
    BY <1>1, CodesDiffer
    DEF PrintLine, Settled, NeverStarted, IInv, NotBegun, Outcome, Unbegun
  <1>4. shown \in [Stream -> 0..MaxLines]
    BY DEF IInv, TypeOK, Counts
  <1>5. ASSUME NEW s \in Stream, NEW next, Show(s, next)
        PROVE  (AllShown(t) => AllShown(t)') /\ (s = t => AllShown(t)')
    BY <1>5, <1>2, <1>4 DEF Show, AllShown, Readable, options, child
  <1>6. ASSUME NEW s \in Stream, Pump(s) PROVE AllShown(t) => AllShown(t)'
    BY <1>6 DEF Pump, AllShown, Readable, options, coordinator, child
  <1>7. ASSUME LinesKept PROVE AllShown(t) => AllShown(t)'
    <2>1. Readable(t, printed[t])' = Readable(t, printed[t])
      BY <1>7 DEF LinesKept, Readable
    <2> QED
      BY <1>7, <2>1 DEF LinesKept, AllShown
  <1>8. AllShown(t) => AllShown(t)'
    BY <1>3, <1>5, <1>6, <1>7, LinesChange
  <1> QED
    BY <1>5, <1>8

\* The streams are shown to their ends one after the other.
LEMMA FlushedStep == IInv /\ [Next]_vars => Flushed'
  <1> SUFFICES ASSUME IInv, [Next]_vars PROVE Flushed'
    OBVIOUS
  <1> USE CodesDiffer, NoneAssumption DEF IInv, TypeOK, Outcome, Flushed, Early, Returned, options, coordinator, directory, executor, child
  <1>0. ASSUME code \in Code, NEW t \in Stream, AllShown(t) PROVE AllShown(t)'
    BY <1>0, ShownStays
  <1> "stdout" \in Stream
    BY DEF Stream
  <1>1. CASE CreateRun
    BY <1>1, <1>0 DEF CreateRun
  <1>2. CASE SplitPane
    BY <1>2, <1>0 DEF SplitPane
  <1>3. CASE CheckTime
    BY <1>3, <1>0 DEF CheckTime
  <1>4. CASE StreamOutput
    BY <1>4, <1>0 DEF StreamOutput, Show
  <1>5. CASE ReadResult
    BY <1>5, <1>0 DEF ReadResult
  <1>6. CASE Flush
    BY <1>6, <1>0, ShownStays DEF Flush, Show, Stream
  <1>7. CASE Unlink
    BY <1>7, <1>0 DEF Unlink
  <1>8. CASE RemoveDirectory
    BY <1>8, <1>0 DEF RemoveDirectory
  <1>9. CASE TimePasses
    BY <1>9, <1>0 DEF TimePasses
  <1>10. CASE KillCoordinator
    BY <1>10, <1>0 DEF KillCoordinator
  <1>11. CASE ReadSpec \/ OpenFiles \/ StartCommand
    BY <1>11, <1>0 DEF ReadSpec, OpenFiles, OpenFile, StartCommand, Fail
  <1>12. CASE WaitCommand
    BY <1>12, <1>0 DEF WaitCommand
  <1>13. CASE Join
    BY <1>13, <1>0 DEF Join
  <1>14. CASE WriteResult
    BY <1>14, <1>0 DEF WriteResult, Fail
  <1>15. CASE RenameResult
    BY <1>15, <1>0 DEF RenameResult, Fail
  <1>16. CASE KillExec
    BY <1>16, <1>0 DEF KillExec
  <1>17. CASE StartTail
    BY <1>17, <1>0 DEF StartTail
  <1>18. CASE CommandEnds
    BY <1>18, <1>0 DEF CommandEnds
  <1>19. CASE TailEnds
    BY <1>19, <1>0 DEF TailEnds
  <1>20. ASSUME NEW s \in Stream, Pump(s) PROVE Flushed'
    BY <1>20, <1>0 DEF Pump
  <1>21. ASSUME NEW s \in Stream, PumpEnds(s) PROVE Flushed'
    BY <1>21, <1>0 DEF PumpEnds
  <1>22. ASSUME NEW s \in Stream, PrintLine(s) PROVE Flushed'
    BY <1>22, <1>0 DEF PrintLine
  <1>23. CASE UNCHANGED vars
    BY <1>23, <1>0 DEF vars
  <1> QED
    BY <1>1, <1>2, <1>3, <1>4, <1>5, <1>6, <1>7, <1>8, <1>9, <1>10, <1>11, <1>12, <1>13, <1>14, <1>15, <1>16, <1>17, <1>18, <1>19, <1>20, <1>21, <1>22, <1>23 DEF Next, Coordinate, Execute

\* Nothing is written to the directory once the coordinator has a code.
LEMMA CleanedStep == IInv /\ [Next]_vars => Cleaned'
  <1> SUFFICES ASSUME IInv, [Next]_vars PROVE Cleaned'
    OBVIOUS
  <1> USE CodesDiffer, NoneAssumption DEF IInv, TypeOK, Outcome, Cleaned, Early, Returned, options, coordinator, directory, executor, child
  <1>1. CASE CreateRun
    BY <1>1 DEF CreateRun
  <1>2. CASE SplitPane
    BY <1>2 DEF SplitPane
  <1>3. CASE CheckTime
    BY <1>3 DEF CheckTime
  <1>4. CASE StreamOutput
    BY <1>4 DEF StreamOutput, Show
  <1>5. CASE ReadResult
    BY <1>5 DEF ReadResult
  <1>6. CASE Flush
    BY <1>6 DEF Flush, Show
  <1>7. CASE Unlink
    BY <1>7 DEF Unlink
  <1>8. CASE RemoveDirectory
    BY <1>8 DEF RemoveDirectory
  <1>9. CASE TimePasses
    BY <1>9 DEF TimePasses
  <1>10. CASE KillCoordinator
    BY <1>10 DEF KillCoordinator
  <1>11. CASE ReadSpec \/ OpenFiles \/ StartCommand
    BY <1>11 DEF ReadSpec, OpenFiles, OpenFile, StartCommand, Fail
  <1>12. CASE WaitCommand
    BY <1>12 DEF WaitCommand
  <1>13. CASE Join
    BY <1>13 DEF Join
  <1>14. CASE WriteResult
    BY <1>14 DEF WriteResult, Fail
  <1>15. CASE RenameResult
    BY <1>15 DEF RenameResult, Fail
  <1>16. CASE KillExec
    BY <1>16 DEF KillExec
  <1>17. CASE StartTail
    BY <1>17 DEF StartTail
  <1>18. CASE CommandEnds
    BY <1>18 DEF CommandEnds
  <1>19. CASE TailEnds
    BY <1>19 DEF TailEnds
  <1>20. ASSUME NEW s \in Stream, Pump(s) PROVE Cleaned'
    BY <1>20 DEF Pump
  <1>21. ASSUME NEW s \in Stream, PumpEnds(s) PROVE Cleaned'
    BY <1>21 DEF PumpEnds
  <1>22. ASSUME NEW s \in Stream, PrintLine(s) PROVE Cleaned'
    BY <1>22 DEF PrintLine
  <1>23. CASE UNCHANGED vars
    BY <1>23 DEF vars
  <1> QED
    BY <1>1, <1>2, <1>3, <1>4, <1>5, <1>6, <1>7, <1>8, <1>9, <1>10, <1>11, <1>12, <1>13, <1>14, <1>15, <1>16, <1>17, <1>18, <1>19, <1>20, <1>21, <1>22, <1>23 DEF Next, Coordinate, Execute

\* Every step keeps every part.
LEMMA InvariantStep == IInv /\ [Next]_vars => IInv'
  BY TypeStep, CopiesStep, NotBegunStep, DirectoryStep, ResultsStep, OutcomeStep,
     FlushedStep, CleanedStep DEF IInv

\* IInv holds in every state of every run.
LEMMA Invariant == Spec => []IInv
  BY InvariantInit, InvariantStep, PTL DEF Spec

-----------------------------------------------------------------------------
(***************************************************************************)
(* Theorems.                                                               *)
(***************************************************************************)

\* Every variable has its type.
THEOREM TypeCorrect == Spec => []TypeOK
  <1>1. IInv => TypeOK
    BY DEF IInv
  <1> QED
    BY <1>1, Invariant, PTL

\* A coordinator that returns with a code has shown everything.
THEOREM OutputShown == Spec => []OutputComplete
  <1>1. IInv => OutputComplete
    BY DEF IInv, Outcome, Flushed, AllShown, OutputComplete
  <1> QED
    BY <1>1, Invariant, PTL

\* Its code is the command's, or a failure to start it; 124 needs a timeout.
THEOREM CodeCorrect == Spec => []CodeTruthful
  <1>1. IInv => CodeTruthful
    BY DEF IInv, Outcome, Good, NeverStarted, CodeTruthful
  <1> QED
    BY <1>1, Invariant, PTL

\* A coordinator that returns with a code has removed the directory.
THEOREM DirectoryRemoved == Spec => []NothingLeft
  <1>1. IInv => NothingLeft
    BY DEF IInv, Cleaned, NothingLeft
  <1> QED
    BY <1>1, Invariant, PTL

-----------------------------------------------------------------------------
(***************************************************************************)
(* The two processes implement RunPromise.  A step of the coordinator that *)
(* shows lines is a Show of the promise, its last one is a Return when it  *)
(* has a code, and a GiveUp otherwise; of _exec the promise sees only that *)
(* the command is started.                                                 *)
(***************************************************************************)

\* What the caller can read, and how the run has ended for it.
lines == [s \in Stream |-> Readable(s, printed[s])]

end == IF coord = "returned" THEN code
       ELSE IF coord \in Returned THEN coord ELSE None

\* Before it starts, nothing is shown and nothing has ended.
LEMMA PromiseInit == Init => Promise!Init
  <1> SUFFICES ASSUME Init PROVE Promise!Init
    OBVIOUS
  <1>1. \A s \in Stream : Readable(s, printed[s]) = 0
    BY DEF Init, Readable
  <1> QED
    BY <1>1 DEF Init, Promise!Init, Returned

\* A step that changes neither the command, nor what is printed and shown, nor
\* whether the coordinator has ended, is not seen.
Unseen == UNCHANGED <<command, lines, shown, end>>

\* The processes, time, and what was left behind go on unseen.
Quiet == UNCHANGED <<command, printed, broken, shown, coord, code>>

\* What the promise speaks of is then the same.
LEMMA QuietUnseen == Quiet => Unseen
  BY DEF Quiet, Unseen, lines, end, Readable

\* These are the steps that go on so.
LEMMA QuietSteps ==
  ASSUME \/ ReadSpec \/ OpenFiles \/ WaitCommand \/ Join \/ WriteResult \/ RenameResult \/ KillExec
         \/ TimePasses \/ StartTail \/ TailEnds \/ UNCHANGED vars
         \/ \E s \in Stream : Pump(s) \/ PumpEnds(s)
  PROVE  Quiet
  BY DEF ReadSpec, OpenFiles, OpenFile, WaitCommand, Join, WriteResult, RenameResult,
     KillExec, TimePasses, StartTail, TailEnds, vars, Pump, PumpEnds, Quiet, options, coordinator, child

\* The coordinator shows lines of one stream, and goes on or ends.
LEMMA ShowPromised ==
  ASSUME IInv, NEW s \in Stream, NEW next, Show(s, next), coord \notin Returned
  PROVE  /\ command' = command /\ lines' = lines /\ code' = code /\ coord' = next
         /\ \E n \in shown[s]..lines[s] : shown' = [shown EXCEPT ![s] = n]
  <1>1. command' = command /\ code' = code /\ coord' = next
    BY DEF Show, child
  <1>2. lines' = lines
    BY DEF Show, lines, Readable, child, options
  <1>3. /\ pump[s] \in 0..MaxLines /\ printed[s] \in 0..MaxLines
        /\ shown[s] \in 0..MaxLines /\ pump[s] <= printed[s]
        /\ shown[s] <= Readable(s, pump[s])
    BY DEF IInv, TypeOK, Counts, Copies
  <1>4. Readable(s, pump[s]) <= Readable(s, printed[s])
    BY <1>3, ReadableMonotone DEF IInv, TypeOK
  <1>5. Readable(s, pump[s]) \in 0..MaxLines /\ Readable(s, printed[s]) \in 0..MaxLines
    BY <1>3, ReadableType DEF IInv, TypeOK
  <1>6. Readable(s, pump[s]) \in shown[s]..lines[s]
    BY <1>3, <1>4, <1>5 DEF lines
  <1> QED
    BY <1>1, <1>2, <1>6 DEF Show

\* With a code that is good and everything shown, the end is a Return.
LEMMA ReturnPromised ==
  ASSUME IInv, end = None, end' = code, code \in Code, UNCHANGED <<command, lines>>,
         shown' = lines
  PROVE  Promise!Return
  <1>1. (code = command /\ command \in Code) \/ (code = Failure /\ command = "none")
    BY DEF IInv, Outcome, Good, NeverStarted
  <1> QED
    BY <1>1 DEF Promise!Return, lines, end

\* Each step is one of the promise, or is not seen.
LEMMA PromiseStep ==
  ASSUME IInv, [Next]_vars
  PROVE  [Promise!Next]_(Promise!vars)
  <1>a. CASE Unseen
    BY <1>a DEF Unseen, Promise!vars, lines, end
  <1>b. coord \in Returned \/ end = None
    BY DEF end, Returned
  <1>c. code \in Code => code # TimedOut /\ code # None
    BY CodesDiffer
  <1>d. ASSUME coord \notin Returned, coord' \notin Returned,
               UNCHANGED <<command, printed, broken, shown>>
        PROVE  Unseen
    BY <1>d DEF Unseen, lines, end, Readable, Returned
  <1>e. ASSUME coord \notin Returned, coord' \in Returned \ {"returned"},
               UNCHANGED <<command, printed, broken, shown>>
        PROVE  Promise!GiveUp
    <2>1. end = None /\ end' \in {"timed-out", "background", "failed", "killed"}
      BY <1>e DEF end, Returned
    <2>2. lines' = lines
      BY <1>e DEF lines, Readable
    <2> QED
      BY <1>e, <2>1, <2>2 DEF Promise!GiveUp, Promise!OtherEnd, lines, end
  <1>1. CASE CreateRun \/ ReadResult \/ Unlink
    BY <1>1, <1>a, <1>d DEF CreateRun, ReadResult, Unlink, Returned, options, executor, child
  <1>2. CASE SplitPane \/ CheckTime \/ KillCoordinator
    <2>1. /\ coord \notin Returned
          /\ coord' \notin Returned \/ coord' \in Returned \ {"returned"}
          /\ UNCHANGED <<command, printed, broken, shown>>
      BY <1>2 DEF SplitPane, CheckTime, KillCoordinator, Returned, options, executor, child
    <2> QED
      BY <2>1, <1>a, <1>d, <1>e DEF Promise!Next
  <1>3. CASE RemoveDirectory
    <2>1. /\ coord \notin Returned /\ UNCHANGED <<command, printed, broken, shown, code>>
          /\ coord' = IF code = TimedOut THEN "timed-out" ELSE "returned"
      BY <1>3 DEF RemoveDirectory, Returned, options, executor, child
    <2>2. CASE code = TimedOut
      BY <2>1, <2>2, <1>e DEF Promise!Next, Returned
    <2>3. CASE code # TimedOut
      <3>1. code \in Code
        BY <1>3, <2>3 DEF RemoveDirectory, IInv, Outcome, TypeOK
      <3>2. end = None /\ end' = code
        BY <2>1, <2>3 DEF end, Returned
      <3>3. lines' = lines
        BY <2>1 DEF lines, Readable
      <3>4. shown' = lines
        BY <1>3, <3>1, <2>1 DEF RemoveDirectory, IInv, Flushed, AllShown, lines, TypeOK, Counts
      <3> QED
        BY <2>1, <3>1, <3>2, <3>3, <3>4, ReturnPromised DEF Promise!Next
    <2> QED
      BY <2>2, <2>3
  <1>4. ASSUME NEW s \in Stream, NEW next, Show(s, next), coord \notin Returned,
               next \notin Returned
        PROVE  Promise!Show(s)
    <2>1. end = None /\ end' = None
      BY <1>4, ShowPromised DEF end, Returned
    <2> QED
      BY <1>4, <2>1, ShowPromised DEF Promise!Show, lines, end
  <1>5. CASE StreamOutput
    BY <1>5, <1>4 DEF StreamOutput, Stream, Returned, Promise!Next
  <1>6. CASE Flush
    <2> DEFINE last == IF keep THEN "returned" ELSE "unlink"
    <2>0. "stdout" \in Stream /\ "stderr" \in Stream /\ coord \notin Returned
      BY <1>6 DEF Flush, Stream, Returned
    <2>1. CASE coord = "flush-stdout"
      <3>1. Show("stdout", "flush-stderr")
        BY <1>6, <2>1 DEF Flush
      <3> QED
        BY <3>1, <2>0, <1>4 DEF Promise!Next, Returned
    <2>2. CASE coord = "flush-stderr"
      <3>1. Show("stderr", last)
        BY <1>6, <2>2 DEF Flush
      <3>2. CASE ~keep
        BY <3>1, <3>2, <2>0, <1>4 DEF Promise!Next, Returned
      <3>3. CASE keep
        <4>1. code \in Code
          BY <2>2 DEF IInv, Outcome
        <4>2. end = None /\ end' = code /\ UNCHANGED <<command, lines>>
          BY <3>1, <3>3, <2>0, ShowPromised DEF end, Returned
        <4>3. \A s \in Stream : AllShown(s)'
          <5>1. AllShown("stdout")'
            BY <2>0, <2>2, <4>1, ShownStays DEF IInv, Flushed
          <5>2. AllShown("stderr")'
            BY <2>0, <3>1, <4>1, ShownStays
          <5> QED
            BY <5>1, <5>2 DEF Stream
        <4>4. Counts'
          BY CountsStep
        <4>5. shown' = lines'
          BY <4>3, <4>4 DEF AllShown, Counts, lines
        <4> QED
          BY <4>1, <4>2, <4>5, ReturnPromised DEF Promise!Next
      <3> QED
        BY <3>2, <3>3
    <2> QED
      BY <1>6, <2>1, <2>2 DEF Flush
  <1>7. CASE StartCommand
    <2>1. lines' = lines /\ end' = end /\ shown' = shown
      BY <1>7 DEF StartCommand, lines, end, Readable, options, coordinator
    <2>2. CASE command' = command
      BY <2>1, <2>2, <1>a DEF Unseen
    <2>3. CASE command' = "runs"
      <3>1. command = "none"
        BY <1>7 DEF StartCommand, IInv, NotBegun, Unbegun
      <3> QED
        BY <2>1, <2>3, <3>1 DEF Promise!Next, Promise!Start, lines, end
    <2> QED
      BY <1>7, <2>2, <2>3 DEF StartCommand
  <1>8. CASE CommandEnds
    <2>1. lines' = lines /\ end' = end /\ shown' = shown
      BY <1>8 DEF CommandEnds, lines, end, Readable, options, coordinator
    <2> QED
      BY <1>8, <2>1 DEF CommandEnds, Promise!Next, Promise!End, lines, end
  <1>9. ASSUME NEW s \in Stream, PrintLine(s) PROVE [Promise!Next]_(Promise!vars)
    <2>1. end' = end /\ UNCHANGED <<command, shown, broken>>
      BY <1>9 DEF PrintLine, end, options, coordinator
    <2>2. printed[s] \in 0..MaxLines
      BY DEF IInv, TypeOK, Counts
    <2>3. printed' = [printed EXCEPT ![s] = printed[s] + 1]
      BY <1>9 DEF PrintLine
    <2>4. lines' = [lines EXCEPT ![s] = Readable(s, printed[s] + 1)]
      BY <2>1, <2>3 DEF lines, Readable, IInv, TypeOK, Counts
    <2>5. lines[s] = Readable(s, printed[s])
      BY DEF lines
    <2>6. command # "none"
      BY <1>9 DEF PrintLine, IInv, NotBegun
    <2>7. CASE Readable(s, printed[s] + 1) = Readable(s, printed[s])
      <3>1. lines' = lines
        BY <2>4, <2>5, <2>7 DEF lines
      <3> QED
        BY <2>1, <3>1, <1>a DEF Unseen
    <2>8. CASE Readable(s, printed[s] + 1) = Readable(s, printed[s]) + 1
      <3>1. lines' = [lines EXCEPT ![s] = lines[s] + 1]
        BY <2>4, <2>5, <2>8
      <3>2. Promise!PrintLine(s)
        BY <2>1, <2>6, <3>1 DEF Promise!PrintLine, lines, end
      <3> QED
        BY <3>2 DEF Promise!Next
    <2> QED
      BY <2>2, <2>7, <2>8, ReadableNext DEF IInv, TypeOK
  <1> QED
    BY <1>a, <1>1, <1>2, <1>3, <1>5, <1>6, <1>7, <1>8, <1>9, QuietSteps, QuietUnseen
    DEF Next, Coordinate, Execute

\* What the caller of workmux run sees is what RunPromise promises.
THEOREM Implements == Spec => ImplementsPromise
  <1>1. IInv /\ [Next]_vars => [Promise!Next]_(Promise!vars)
    BY PromiseStep
  <1> QED
    BY <1>1, PromiseInit, Invariant, PTL DEF Spec, ImplementsPromise, Promise!Spec

=============================================================================
