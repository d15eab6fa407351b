----------------------------- MODULE RunPromise -----------------------------
(***************************************************************************)
(* What workmux run promises to whoever called it: the lines a command     *)
(* prints are shown as they come, and when it returns with an exit code,   *)
(* everything has been shown and the code is the command's.  It may also   *)
(* end in another way, at any time.                                        *)
(***************************************************************************)
EXTENDS Naturals

CONSTANTS Stream, Code, Failure, None

VARIABLES
    command,    \* "none", "runs", or the exit code it ended with
    printed,    \* lines the command and its children have printed
    shown,      \* lines the caller has seen
    outcome     \* what the caller gets: an exit code, or how else it ended

vars == <<command, printed, shown, outcome>>

OtherEnd == {"timed-out", "background", "failed", "killed"}

Init ==
    /\ command = "none"
    /\ printed = [s \in Stream |-> 0] /\ shown = [s \in Stream |-> 0]
    /\ outcome = None

Start ==
    /\ command = "none"
    /\ command' = "runs"
    /\ UNCHANGED <<printed, shown, outcome>>

PrintLine(s) ==
    /\ command # "none"
    /\ printed' = [printed EXCEPT ![s] = @ + 1]
    /\ UNCHANGED <<command, shown, outcome>>

End ==
    /\ command = "runs"
    /\ command' \in Code
    /\ UNCHANGED <<printed, shown, outcome>>

Show(s) ==
    /\ outcome = None
    /\ \E n \in shown[s]..printed[s] : shown' = [shown EXCEPT ![s] = n]
    /\ UNCHANGED <<command, printed, outcome>>

\* The code is that of a failure when the command could not be started.
Return ==
    /\ outcome = None
    /\ \/ command \in Code /\ outcome' = command
       \/ command = "none" /\ outcome' = Failure
    /\ shown' = printed
    /\ UNCHANGED <<command, printed>>

GiveUp ==
    /\ outcome = None
    /\ outcome' \in OtherEnd
    /\ UNCHANGED <<command, printed, shown>>

Next == Start \/ End \/ Return \/ GiveUp \/ \E s \in Stream : PrintLine(s) \/ Show(s)

Spec == Init /\ [][Next]_vars
=============================================================================
