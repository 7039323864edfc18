----------------------------- MODULE Evaluation -----------------------------
(***************************************************************************)
(* execute_evaluate of benchmarks/execution.py and generate_report of      *)
(* benchmarks/reporting.py on one run directory.  A generation record that *)
(* was read once may be looked up again later: records are never changed.  *)
(***************************************************************************)
EXTENDS RunDirectory

StartEvaluate(p) ==
    /\ Start(p, "evaluate", FALSE, FALSE)
    /\ UNCHANGED overlap

\* The manifest fixes the run id and the schedule for the rest of the invocation.
LoadManifest(p, from, to) ==
    /\ At(p, from)
    /\ manifest # None
    /\ proc' = [proc EXCEPT ![p].pc = to, ![p].run = manifest.run,
                            ![p].pilot = manifest.pilot]
    /\ UNCHANGED <<files, bounds>>

NoManifest(p) ==
    /\ proc[p].pc \in {"evaluate", "report"}
    /\ manifest = None
    /\ End(p)
    /\ UNCHANGED <<files, bounds>>

\* Mutant: `missing' is not computed.
NoMissingCheck(p) == BelongTo(generations, proc[p].run, proc[p].pilot)

\* Every scheduled task has its one generation record, and nothing else is there.
CoverageComplete(p) ==
    /\ BelongTo(generations, proc[p].run, proc[p].pilot)
    /\ Elements(Scheduled(proc[p].pilot)) \subseteq RecordedTasks(generations)

CheckCoverage(p) ==
    /\ At(p, "coverage")
    /\ IF CoverageComplete(p) THEN Goto(p, "trials") ELSE End(p)
    /\ UNCHANGED <<files, bounds>>

TrialsAccepted(p) == BelongTo(trials, proc[p].run, proc[p].pilot)

LoadTrials(p) ==
    /\ At(p, "trials")
    /\ IF TrialsAccepted(p)
       THEN proc' = [proc EXCEPT ![p].pc = "grade",
                                 ![p].todo = Pending(trials, proc[p].pilot)]
       ELSE End(p)
    /\ UNCHANGED <<files, bounds>>

----------------------------------------------------------------------------
\* The loop over the tasks without a trial.

HasUngraded(p) == proc[p].todo # {}

\* Nothing is left to grade, or no time for it: evaluation-state.json, which nothing
\* reads, is written and the command returns.
FinishEvaluate(p) ==
    /\ At(p, "grade")
    /\ End(p)
    /\ UNCHANGED <<files, bounds>>

DraftTrial(p, status, graded) ==
    proc' = [proc EXCEPT ![p].pc = "append_trial",
                         ![p].draft = [run |-> proc[p].run, task |-> Task(p),
                                       status |-> status, graded |-> graded]]

Saved(p) == GenerationOf(proc[p].run, Task(p))

SavedAs(p, statuses) ==
    \E r \in generations : /\ r.run = proc[p].run /\ r.task = Task(p)
                           /\ r.status \in statuses

\* A generation that failed is its own verdict.
CopyOutcome(p) ==
    /\ At(p, "grade")
    /\ HasUngraded(p)
    /\ SavedAs(p, {"infra_error", "timeout", "cancelled"})
    /\ DraftTrial(p, Saved(p).status, None)
    /\ UNCHANGED <<files, bounds>>

\* Mutant: the saved file is graded whatever it contains by now.
NoHashCheck(p) == TRUE

\* A missing file is not compared: an empty answer is graded then.
HashFresh(p) ==
    ChecksHash /\ artifact[Task(p)] # None => artifact[Task(p)] = Saved(p).hash

\* Mutant: any attempt is graded, the failed ones included.
GradesAnything(p) ==
    /\ At(p, "grade")
    /\ HasUngraded(p)
    /\ IF HashFresh(p) THEN Goto(p, "read") ELSE End(p)
    /\ UNCHANGED <<files, bounds>>

\* The hash of the saved file, in the suites that check it, is compared before the file is
\* opened again and read; a difference ends the whole invocation (... hash is stale).
CheckHash(p) ==
    /\ At(p, "grade")
    /\ HasUngraded(p)
    /\ SavedAs(p, {"generated", "unsolved"})
    /\ IF HashFresh(p) THEN Goto(p, "read") ELSE End(p)
    /\ UNCHANGED <<files, bounds>>

\* The verifier of terminal-bench runs in the attempt's directory and may change it.
VerifierWrites(p) ==
    /\ At(p, "read")
    /\ ~ChecksHash
    /\ artifact' = [artifact EXCEPT ![Task(p)] = Touched]
    /\ UNCHANGED <<manifest, generations, trials, report, proc, bounds>>

\* What a suite's grader can answer: nothing was extracted from an unsolved attempt,
\* so its grader sees an empty answer and fails it.  terminal-bench has no such attempts.
Possible(status) == IF status = "unsolved" THEN {"fail"} ELSE Answers

GradeSaved(p) ==
    /\ At(p, "read")
    /\ \E v \in Possible(Saved(p).status) : DraftTrial(p, v, artifact[Task(p)])
    /\ UNCHANGED <<files, bounds>>

\* Mutant: append_trial without its search for the attempt id.
AppendAnyTrial(p) ==
    /\ At(p, "append_trial")
    /\ trials' = trials \union {proc[p].draft}
    /\ proc' = [proc EXCEPT ![p].pc = "grade", ![p].todo = @ \ {Task(p)}, ![p].draft = None]
    /\ UNCHANGED <<manifest, generations, artifact, report, bounds>>

\* append_trial, with its check for the attempt id.
AppendTrial(p) ==
    /\ At(p, "append_trial")
    /\ ~AttemptExists(trials, proc[p].run, Task(p))
    /\ trials' = trials \union {proc[p].draft}
    /\ proc' = [proc EXCEPT ![p].pc = "grade", ![p].todo = @ \ {Task(p)}, ![p].draft = None]
    /\ UNCHANGED <<manifest, generations, artifact, report, bounds>>

RefuseTrial(p) ==
    /\ At(p, "append_trial")
    /\ AttemptExists(trials, proc[p].run, Task(p))
    /\ End(p)
    /\ UNCHANGED <<files, bounds>>

EvaluateStep(p) ==
    \/ LoadManifest(p, "evaluate", "coverage")
    \/ NoManifest(p)
    \/ CheckCoverage(p)
    \/ LoadTrials(p)
    \/ FinishEvaluate(p)
    \/ CopyOutcome(p)
    \/ CheckHash(p)
    \/ VerifierWrites(p)
    \/ GradeSaved(p)
    \/ AppendTrial(p)
    \/ RefuseTrial(p)

----------------------------------------------------------------------------
\* report: the denominator is the schedule, and every scheduled task must have its trial.

StartReport(p) ==
    /\ Start(p, "report", FALSE, FALSE)
    /\ UNCHANGED overlap

ReportComplete(p) ==
    /\ BelongTo(trials, proc[p].run, proc[p].pilot)
    /\ Elements(Scheduled(proc[p].pilot)) \subseteq RecordedTasks(trials)

StatusIn(records, t) == (CHOOSE r \in records : r.task = t).status

ComputeMetrics(p) ==
    /\ At(p, "metrics")
    /\ IF ReportComplete(p)
       THEN proc' = [proc EXCEPT ![p].pc = "publish",
                ![p].draft = [run |-> proc[p].run,
                              status |-> [t \in Elements(Scheduled(proc[p].pilot)) |->
                                             StatusIn(trials, t)]]]
       ELSE End(p)
    /\ UNCHANGED <<files, bounds>>

Publish(p) ==
    /\ At(p, "publish")
    /\ report' = proc[p].draft
    /\ End(p)
    /\ UNCHANGED <<manifest, generations, trials, artifact, bounds>>

ReportStep(p) ==
    \/ LoadManifest(p, "report", "metrics")
    \/ NoManifest(p)
    \/ ComputeMetrics(p)
    \/ Publish(p)
=============================================================================
