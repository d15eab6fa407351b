------------------------------ MODULE RunExec ------------------------------
(***************************************************************************)
(* workmux run and workmux _exec (src/src/command/run.rs, exec.rs and      *)
(* src/src/state/run.rs).  A coordinator makes a run directory, has a pane *)
(* opened that executes the command there, and shows what the command      *)
(* prints until a result appears or its time is over.  The two processes   *)
(* share only the directory: output files, a result renamed into place.    *)
(* The command may leave processes behind that hold its pipes open.        *)
(***************************************************************************)
EXTENDS Naturals, FiniteSets

CONSTANTS
    Code,       \* exit codes of the command
    Failure,    \* exit code 1
    TimedOut,   \* exit code 124
    None,
    MaxLines,   \* bound: lines printed to each stream
    BadLines    \* bound: which of them may not be UTF-8; 0 for none

ASSUME CodeAssumption ==
    Failure \in Code /\ Code \cap {TimedOut, None, "none", "runs"} = {}
ASSUME LinesAssumption == MaxLines \in Nat /\ BadLines \subseteq 0..MaxLines

Stream == {"stdout", "stderr"}
File == {"spec", "temporary", "result"} \cup Stream

ASSUME NoneAssumption == None # TimedOut /\ \A F \in SUBSET File : F # None

VARIABLES
    limit, keep,  \* the options --timeout and --keep
    broken,       \* for each stream, the first line that is not UTF-8, or none
    late,         \* the time is over
    coord, shown, \* the coordinator's next step, lines it has shown
    code,         \* its exit code
    files,        \* the files of the run directory; None when there is none
    result,       \* the content of result.json
    exec,         \* the next step of _exec
    verdict,      \* the result it is to write
    pump,         \* its threads: lines they have copied
    ended,        \* the threads that have ended
    command,      \* the command: "none", "runs", or how it ended
    tail,         \* processes it has started: "none", "runs", "over"
    printed       \* lines printed, by stream

options == <<limit, keep, broken>>
coordinator == <<coord, shown, code>>
directory == <<files, result>>
executor == <<exec, verdict, pump, ended>>
child == <<command, tail, printed>>
vars == <<options, late, coordinator, directory, executor, child>>

Returned == {"returned", "timed-out", "background", "failed", "killed"}

\* Lines are shown as far as they are UTF-8: one that is not is read again and
\* again, and the lines after it are not reached.
Readable(s, n) == IF broken[s] \in 1..n THEN broken[s] - 1 ELSE n

Holds(file) == files # None /\ file \in files

Init ==
    /\ limit \in BOOLEAN /\ keep \in BOOLEAN
    /\ broken \in [Stream -> BadLines]
    /\ late = FALSE
    /\ coord = "create" /\ shown = [s \in Stream |-> 0] /\ code = None
    /\ files = None /\ result = None
    /\ exec = "absent" /\ verdict = None
    /\ pump = [s \in Stream |-> 0] /\ ended = {}
    /\ command = "none" /\ tail = "none"
    /\ printed = [s \in Stream |-> 0]

-----------------------------------------------------------------------------
(***************************************************************************)
(* The coordinator.                                                        *)
(***************************************************************************)

CreateRun ==
    /\ coord = "create"
    /\ files' = {"spec"} \cup Stream
    /\ coord' = "split"
    /\ UNCHANGED <<options, late, shown, code, result, executor, child>>

\* The pane cannot be opened, or it runs _exec and the coordinator waits or not.
SplitPane ==
    /\ coord = "split"
    /\ \/ coord' = "failed" /\ UNCHANGED exec
       \/ coord' \in {"background", "check-time"} /\ exec' = "read-spec"
    /\ UNCHANGED <<options, late, shown, code, directory, verdict, pump, ended, child>>

TimePasses ==
    /\ limit /\ ~late /\ coord \notin {"create", "split"} \cup Returned
    /\ late' = TRUE
    /\ UNCHANGED <<options, coordinator, directory, executor, child>>

CheckTime ==
    /\ coord = "check-time"
    /\ IF late
       THEN /\ code' = TimedOut
            /\ coord' = IF keep THEN "timed-out" ELSE "unlink"
       ELSE coord' = "stdout" /\ UNCHANGED code
    /\ UNCHANGED <<options, late, shown, directory, executor, child>>

\* The open files are read to their ends, in the loop and once more after the
\* result was seen.
Show(s, next) ==
    /\ shown' = [shown EXCEPT ![s] = Readable(s, pump[s])]
    /\ coord' = next
    /\ UNCHANGED <<options, late, code, directory, executor, child>>

StreamOutput ==
    \/ coord = "stdout" /\ Show("stdout", "stderr")
    \/ coord = "stderr" /\ Show("stderr", "read-result")

\* Mutant: the result is not renamed into place, and read while it is written.
ReadResultEarly ==
    /\ coord = "read-result"
    /\ IF Holds("result") \/ Holds("temporary")
       THEN code' = result /\ coord' = "flush-stdout"
       ELSE coord' = "check-time" /\ UNCHANGED code
    /\ UNCHANGED <<options, late, shown, directory, executor, child>>

ReadResult ==
    /\ coord = "read-result"
    /\ IF Holds("result")
       THEN code' = result /\ coord' = "flush-stdout"
       ELSE coord' = "check-time" /\ UNCHANGED code
    /\ UNCHANGED <<options, late, shown, directory, executor, child>>

\* Mutant: what is printed between the last look and the result is not shown.
FlushOne ==
    \/ coord = "flush-stdout" /\ Show("stdout", IF keep THEN "returned" ELSE "unlink")

Flush ==
    \/ coord = "flush-stdout" /\ Show("stdout", "flush-stderr")
    \/ coord = "flush-stderr" /\ Show("stderr", IF keep THEN "returned" ELSE "unlink")

\* cleanup_run: the files that are there are unlinked, then the directory goes
\* unless a file has come; whether it went is not looked at.
Unlink ==
    /\ coord = "unlink"
    /\ files' = IF files = None THEN None ELSE {}
    /\ coord' = "remove-directory"
    /\ UNCHANGED <<options, late, shown, code, result, executor, child>>

RemoveDirectory ==
    /\ coord = "remove-directory"
    /\ files' = IF files = {} THEN None ELSE files
    /\ coord' = IF code = TimedOut THEN "timed-out" ELSE "returned"
    /\ UNCHANGED <<options, late, shown, code, result, executor, child>>

\* The user interrupts it.
KillCoordinator ==
    /\ coord \notin Returned
    /\ coord' = "killed"
    /\ UNCHANGED <<options, late, shown, code, directory, executor, child>>

Coordinate ==
    \/ CreateRun \/ SplitPane \/ CheckTime \/ StreamOutput \/ ReadResult
    \/ Flush \/ Unlink \/ RemoveDirectory

-----------------------------------------------------------------------------
(***************************************************************************)
(* The process in the pane, with a thread for each stream of the command.  *)
(***************************************************************************)

\* Mutant: the error is returned before the failure marker is written.
FailSilently(next) == exec' = "ended" /\ verdict' = verdict

\* An error on the way to the result ends in a failure marker.
Fail(next) == exec' = next /\ verdict' = Failure

\* Each step may fail, also because the coordinator has removed the file or the
\* directory meanwhile.
ReadSpec ==
    /\ exec = "read-spec"
    /\ \/ Holds("spec") /\ exec' = "open-stdout" /\ UNCHANGED verdict
       \/ Fail("marker")
    /\ UNCHANGED <<options, late, coordinator, directory, pump, ended, child>>

\* An output file that has been removed is created again.
OpenFile(s, next) ==
    /\ \/ /\ files # None
          /\ files' = files \cup {s}
          /\ exec' = next /\ UNCHANGED verdict
       \/ Fail("marker") /\ UNCHANGED files
    /\ UNCHANGED <<options, late, coordinator, result, pump, ended, child>>

OpenFiles ==
    \/ exec = "open-stdout" /\ OpenFile("stdout", "open-stderr")
    \/ exec = "open-stderr" /\ OpenFile("stderr", "spawn")

StartCommand ==
    /\ exec = "spawn"
    /\ \/ command' = "runs" /\ exec' = "wait" /\ UNCHANGED verdict
       \/ Fail("marker") /\ UNCHANGED command
    /\ UNCHANGED <<options, late, coordinator, directory, pump, ended, tail, printed>>

\* A thread copies what is in the pipe to the file, which may be unlinked.
Pump(s) ==
    /\ exec \in {"wait", "join"}
    /\ pump[s] < printed[s]
    /\ pump' = [pump EXCEPT ![s] = printed[s]]
    /\ UNCHANGED <<options, late, coordinator, directory, exec, verdict, ended, child>>

PumpEnds(s) ==
    /\ exec \in {"wait", "join"}
    /\ s \notin ended /\ pump[s] = printed[s]
    /\ command # "runs" /\ tail # "runs"
    /\ ended' = ended \cup {s}
    /\ UNCHANGED <<options, late, coordinator, directory, exec, verdict, pump, child>>

\* Mutant: the result is written without waiting for the threads.
WaitCommandOnly ==
    /\ exec = "wait" /\ command \in Code
    /\ exec' = "write-result" /\ verdict' = command
    /\ UNCHANGED <<options, late, coordinator, directory, pump, ended, child>>

\* Mutant: the state of the command is asked for, and its end not waited for.
WaitNothing ==
    /\ exec = "wait"
    /\ exec' = "join" /\ verdict' = command
    /\ UNCHANGED <<options, late, coordinator, directory, pump, ended, child>>

\* A command that was ended by a signal has no code, which counts as failure.
WaitCommand ==
    /\ exec = "wait" /\ command \in Code
    /\ exec' = "join" /\ verdict' = command
    /\ UNCHANGED <<options, late, coordinator, directory, pump, ended, child>>

\* Mutant: a thread that meets a line that is not UTF-8 fails, and so does all.
JoinStrict ==
    /\ exec = "join" /\ ended = Stream
    /\ IF \E s \in Stream : Readable(s, printed[s]) # printed[s]
       THEN Fail("marker")
       ELSE exec' = "write-result" /\ UNCHANGED verdict
    /\ UNCHANGED <<options, late, coordinator, directory, pump, ended, child>>

Join ==
    /\ exec = "join" /\ ended = Stream
    /\ exec' = "write-result"
    /\ UNCHANGED <<options, late, coordinator, directory, verdict, pump, ended, child>>

\* write_result: a temporary file first; without the directory it is an error,
\* after which the failure marker is tried and given up.
WriteResult ==
    /\ exec \in {"write-result", "marker"}
    /\ IF files # None
       THEN /\ files' = files \cup {"temporary"}
            /\ exec' = IF exec = "marker" THEN "rename-marker" ELSE "rename-result"
            /\ UNCHANGED verdict
       ELSE /\ IF exec = "marker" THEN exec' = "ended" /\ UNCHANGED verdict
                                  ELSE Fail("marker")
            /\ UNCHANGED files
    /\ UNCHANGED <<options, late, coordinator, result, pump, ended, child>>

\* The temporary file may have been unlinked.
RenameResult ==
    /\ exec \in {"rename-result", "rename-marker"}
    /\ IF Holds("temporary")
       THEN /\ files' = (files \ {"temporary"}) \cup {"result"}
            /\ result' = verdict
            /\ exec' = "ended" /\ UNCHANGED verdict
       ELSE /\ IF exec = "rename-marker" THEN exec' = "ended" /\ UNCHANGED verdict
                                         ELSE Fail("marker")
            /\ UNCHANGED directory
    /\ UNCHANGED <<options, late, coordinator, pump, ended, child>>

Execute ==
    \/ ReadSpec \/ OpenFiles \/ StartCommand \/ WaitCommand \/ Join \/ WriteResult \/ RenameResult
    \/ \E s \in Stream : Pump(s) \/ PumpEnds(s)

\* The pane is closed.
KillExec ==
    /\ exec \notin {"absent", "ended", "killed"}
    /\ exec' = "killed"
    /\ UNCHANGED <<options, late, coordinator, directory, verdict, pump, ended, child>>

-----------------------------------------------------------------------------
(***************************************************************************)
(* The command and what it leaves running.                                 *)
(***************************************************************************)

PrintLine(s) ==
    /\ "runs" \in {command, tail} /\ s \notin ended
    /\ printed[s] < MaxLines
    /\ printed' = [printed EXCEPT ![s] = @ + 1]
    /\ UNCHANGED <<options, late, coordinator, directory, executor, command, tail>>

StartTail ==
    /\ command = "runs" /\ tail = "none"
    /\ tail' = "runs"
    /\ UNCHANGED <<options, late, coordinator, directory, executor, command, printed>>

CommandEnds ==
    /\ command = "runs"
    /\ command' \in Code
    /\ UNCHANGED <<options, late, coordinator, directory, executor, tail, printed>>

TailEnds ==
    /\ tail = "runs"
    /\ tail' = "over"
    /\ UNCHANGED <<options, late, coordinator, directory, executor, command, printed>>

Next ==
    \/ Coordinate \/ TimePasses \/ KillCoordinator \/ Execute \/ KillExec
    \/ (\E s \in Stream : PrintLine(s)) \/ StartTail \/ CommandEnds \/ TailEnds

Spec == Init /\ [][Next]_vars

\* Both processes run, time passes and commands end.  What a command leaves
\* behind need not, and nobody has to be killed.
FairSpec ==
    /\ Spec
    /\ WF_vars(Coordinate) /\ WF_vars(Execute)
    /\ WF_vars(TimePasses) /\ WF_vars(CommandEnds)

-----------------------------------------------------------------------------
(***************************************************************************)
(* What is checked.                                                        *)
(***************************************************************************)

Counts ==
    /\ broken \in [Stream -> 0..MaxLines] /\ shown \in [Stream -> 0..MaxLines]
    /\ pump \in [Stream -> 0..MaxLines] /\ printed \in [Stream -> 0..MaxLines]

\* Every variable has its type.
TypeOK ==
    /\ Counts
    /\ ended \subseteq Stream
    /\ limit \in BOOLEAN /\ keep \in BOOLEAN /\ late \in BOOLEAN
    /\ coord \in Returned \cup {"create", "split", "check-time", "stdout", "stderr",
         "read-result", "flush-stdout", "flush-stderr", "unlink", "remove-directory"}
    /\ code \in Code \cup {None, TimedOut}
    /\ files = None \/ files \subseteq File
    /\ result \in Code \cup {None} /\ verdict \in Code \cup {None}
    /\ exec \in {"absent", "read-spec", "open-stdout", "open-stderr", "spawn", "wait",
         "join", "write-result", "marker", "rename-result", "rename-marker", "ended",
         "killed"}
    /\ command \in Code \cup {"none", "runs"} /\ tail \in {"none", "runs", "over"}

\* A coordinator that returns with the command's result has shown all the
\* command printed, and what the processes it left behind printed, up to a line
\* that is not UTF-8: threads are joined before the result is written, and the
\* files are read once more after it was seen.
OutputComplete ==
    coord = "returned" => \A s \in Stream : shown[s] = Readable(s, printed[s])

\* Its exit code is the command's own, or that of a failure when _exec could
\* not start the command; 124 only when the time is over.
CodeTruthful ==
    coord \in Returned =>
      /\ code \in Code => code = command \/ (code = Failure /\ command = "none")
      /\ code = TimedOut => late

Promise == INSTANCE RunPromise WITH
    printed <- [s \in Stream |-> Readable(s, printed[s])],
    outcome <- IF coord = "returned" THEN code
               ELSE IF coord \in Returned THEN coord ELSE None

\* The two processes implement one run as the caller sees it: nothing is shown
\* twice, out of order or after the end, and the end comes once.
ImplementsPromise == Promise!Spec

\* A result that was seen leaves no directory behind: nothing writes there
\* after the result, so the removal always succeeds.
NothingLeft == coord = "returned" /\ ~keep => files = None

\* The coordinator returns: always with a timeout, and otherwise unless the
\* pane is closed or something keeps the command's pipes open ("write a failure
\* marker so the coordinator doesn't hang", exec.rs).
Returns ==
    \/ <>(coord \in Returned)
    \/ <>(~limit /\ exec = "killed")
    \/ <>[](~limit /\ tail = "runs")
=============================================================================
