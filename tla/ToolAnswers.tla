---------------------------- MODULE ToolAnswers ----------------------------
(***************************************************************************)
(* What a call of SafeSubprocessRunner.run comes back with, as far as its  *)
(* callers tell answers apart: the outcome, and whether the call got past  *)
(* the command that asks for the version of the tool.                      *)
(***************************************************************************)

\* OTHER_FAILURE: the tool was started and did not succeed.  RAISED: no answer at all.
Outcomes == {"EXECUTABLE_MISSING", "START_FAILED", "OTHER_FAILURE", "SUCCEEDED", "RAISED"}

Answers == [outcome : Outcomes, version : BOOLEAN]

\* Without a version there is a tool that is missing, or one that cannot be killed.
Promised ==
    {a \in Answers : /\ ~a.version => a.outcome \in {"EXECUTABLE_MISSING", "RAISED"}
                     /\ a.outcome = "RAISED" => ~a.version}
=============================================================================
