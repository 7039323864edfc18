----------------------------- MODULE TaskLedger -----------------------------
(***************************************************************************)
(* What a benchmark run promises about its scores: every attempt gets at   *)
(* most one outcome, then at most one verdict, neither is ever revised,    *)
(* and a verdict other than the outcome itself is only given to an attempt *)
(* that produced something to grade.                                       *)
(***************************************************************************)
VARIABLES outcomes,   \* how each attempt of the model ended: <<attempt, status>>
          verdicts    \* the terminal status of each: <<attempt, status>>

Outcomes == {"generated", "unsolved", "timeout", "cancelled", "infra_error"}

\* A failed generation is its own verdict, an empty answer cannot pass.
Allowed(s) ==
    CASE s = "generated" -> {"pass", "fail", "timeout", "infra_error"}
      [] s = "unsolved"  -> {"fail"}
      [] OTHER           -> {s}

Open(book, a) == \A entry \in book : entry[1] # a

Init == outcomes = {} /\ verdicts = {}

Record(entry) ==
    /\ Open(outcomes, entry[1])
    /\ entry[2] \in Outcomes
    /\ outcomes' = outcomes \union {entry}
    /\ UNCHANGED verdicts

Grade(entry) ==
    /\ Open(verdicts, entry[1])
    /\ \E o \in outcomes : o[1] = entry[1] /\ entry[2] \in Allowed(o[2])
    /\ verdicts' = verdicts \union {entry}
    /\ UNCHANGED outcomes

Next ==
    \/ \E entry \in outcomes' \ outcomes : Record(entry)
    \/ \E entry \in verdicts' \ verdicts : Grade(entry)

Spec == Init /\ [][Next]_<<outcomes, verdicts>>
=============================================================================
