------------------------------ MODULE ToolCall ------------------------------
(***************************************************************************)
(* A call of SafeSubprocessRunner as its callers rely on it: one tool at a *)
(* time, started for the version and, by run, once more for the evidence,  *)
(* and one answer, which is about a tool that is gone.  Only a tool that   *)
(* is still there after it was killed leaves the call without an answer.   *)
(***************************************************************************)
EXTENDS ToolAnswers

VARIABLES
    method,    \* run, or probe, which only asks for the version
    tool,      \* none was started for this command, running, or how it ended
    command,   \* what the tool is asked for
    answer     \* what the call came back with

vars == <<method, tool, command, answer>>

Ended == {"zero", "nonzero", "signaled"}
NoAnswer == [outcome |-> "none"]

Init ==
    /\ method \in {"run", "probe"}
    /\ tool = "none" /\ command = "version" /\ answer = NoAnswer

Start ==
    /\ answer = NoAnswer /\ tool = "none"
    /\ tool' = "running"
    /\ UNCHANGED <<method, command, answer>>

End ==
    /\ answer = NoAnswer /\ tool = "running"
    /\ tool' \in Ended
    /\ UNCHANGED <<method, command, answer>>

\* The second command begins when the tool of the first is gone.
Again ==
    /\ method = "run" /\ command = "version"
    /\ answer = NoAnswer /\ tool # "running"
    /\ tool' = "none" /\ command' = "evidence"
    /\ UNCHANGED <<method, answer>>

\* The answer is about the tool of this command, and a success is its own exit.
Answer ==
    /\ answer = NoAnswer /\ tool # "running"
    /\ answer' \in Answers
    /\ IF method = "run"
       THEN answer' \in Promised /\ (answer'.version <=> command = "evidence")
       ELSE answer'.version <=> answer'.outcome = "SUCCEEDED"
    /\ answer'.outcome # "RAISED"
    /\ answer'.outcome \in {"EXECUTABLE_MISSING", "START_FAILED"} <=> tool = "none"
    /\ answer'.outcome = "SUCCEEDED" => tool = "zero"
    /\ UNCHANGED <<method, tool, command>>

Raise ==
    /\ answer = NoAnswer /\ tool = "running"
    /\ answer' = [outcome |-> "RAISED", version |-> FALSE]
    /\ UNCHANGED <<method, tool, command>>

Next == Start \/ End \/ Again \/ Answer \/ Raise

Spec == Init /\ [][Next]_vars
=============================================================================
