----------------------------- MODULE MCOpenCode -----------------------------
(* OpenCode uses tools, finishes short and long steps, and prints a line     *)
(* that is no JSON.                                                        *)
EXTENDS OpenCodeRunner

step == [type |-> "step_finish", tokens |-> 1]
longStep == [type |-> "step_finish", tokens |-> 3]
tool == [type |-> "tool_use", tokens |-> 0]
malformed == [type |-> "malformed", tokens |-> 0]

MCEvents == {step, longStep, tool, malformed}
MCStep == {step}
=============================================================================
