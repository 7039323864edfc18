------------------------------ MODULE Campaign ------------------------------
(***************************************************************************)
(* A benchmark run from its first `generate' to its published report: all  *)
(* the commands of benchmarks/run.py that change a run directory, started  *)
(* in any order and number, interleaved, interrupted and killed.           *)
(***************************************************************************)
EXTENDS Generation, Evaluation

Init ==
    /\ manifest = None
    /\ generations = {}
    /\ trials = {}
    /\ artifact = [t \in Tasks |-> None]
    /\ report = None
    /\ proc = [p \in Processes |-> Idle]
    /\ starts = 0
    /\ signals = 0
    /\ stops = 0
    /\ overlap = FALSE
    /\ raced = FALSE

\* The process is killed (SIGKILL 20 s after the runner's SIGINT, the end of the
\* allocation), or a SIGINT reaches it outside the try around the attempt: its memory
\* goes, the files stay.
Stop(p) ==
    /\ ~At(p, "idle")
    /\ stops < MaxStops
    /\ stops' = stops + 1
    /\ End(p)
    /\ UNCHANGED <<files, starts, signals, overlap, raced>>

Begin ==
    \/ \E p \in Generators, pilot, resume \in BOOLEAN : StartGenerate(p, pilot, resume)
    \/ \E p \in Evaluators : StartEvaluate(p)
    \/ \E p \in Reporters : StartReport(p)

Work(p) ==
    \/ p \in Generators /\ GenerateStep(p)
    \/ p \in Evaluators /\ EvaluateStep(p)
    \/ p \in Reporters /\ ReportStep(p)

Next ==
    \/ Begin
    \/ \E p \in Processes : Work(p) \/ Stop(p)
    \/ \E p \in Generators : AttemptInterrupted(p)

Spec == Init /\ [][Next]_vars

----------------------------------------------------------------------------
Places == {"idle", "manifest", "create", "load", "next", "task", "written", "append",
           "append_and_raise", "evaluate", "coverage", "trials", "grade", "read",
           "append_trial", "report", "metrics", "publish"}

Report == UNION {[run : RunId, status : [S -> Verdicts]] : S \in SUBSET Tasks}

Memory == [pc : Places, stamp : 0..MaxStarts, pilot : BOOLEAN, resume : BOOLEAN,
           run : RunId \union {None}, todo : SUBSET Tasks,
           draft : Generation \union Trial \union Report \union {None}]

TypeOK ==
    /\ manifest \in Manifest \union {None}
    /\ generations \subseteq Generation
    /\ trials \subseteq Trial
    /\ artifact \in [Tasks -> Content]
    /\ report \in Report \union {None}
    /\ proc \in [Processes -> Memory]
    /\ starts \in 0..MaxStarts /\ signals \in 0..MaxSignals /\ stops \in 0..MaxStops
    /\ overlap \in BOOLEAN /\ raced \in BOOLEAN

\* Scores are final: whatever runs, crashes and resumes, an attempt gets one outcome
\* and one verdict, a failed generation is never graded into something better, and
\* neither is ever revised ("Terminal failures are not silently retried").
Entries(records) == {<<<<r.run, r.task>>, r.status>> : r \in records}

Ledger == INSTANCE TaskLedger WITH
              outcomes <- Entries(generations), verdicts <- Entries(trials)

ImplementsLedger == Ledger!Spec

\* Nothing is graded before everything is generated: an early trial would freeze the
\* verdicts of a schedule that may still change its mind.  (execute_evaluate: missing)
GradedAfterCoverage ==
    \A r \in trials : \E pilot \in BOOLEAN :
        /\ r.task \in Elements(Scheduled(pilot))
        /\ \A t \in Elements(Scheduled(pilot)) : AttemptExists(generations, r.run, t)

\* As long as no two `generate' invocations overlap, the journals hold one run only,
\* the one of the manifest, through any number of resumes, kills and interrupts.
OneRunPerDirectory ==
    ~overlap => \A r \in generations \union trials :
                    manifest # None /\ r.run = manifest.run

\* In every suite but terminal-bench, the verdict on an attempt that saved an answer is
\* about the very content whose hash was journaled.  If two generations overlap, one of
\* them may still write a file between its hash check and its second opening.
\* (execute_evaluate: sha256_file, then read_text)
GradedWhatWasSaved ==
    ChecksHash /\ (overlap => ~raced) =>
        \A r \in trials :
            GenerationOf(r.run, r.task).status \in {"generated", "unsolved"} =>
                r.graded = GenerationOf(r.run, r.task).hash

\* A published report is complete and final: no later invocation, resume or second
\* evaluation, makes the trials of its run disagree with it.  (generate_report)
ReportIsFinal ==
    report # None =>
        \A t \in DOMAIN report.status :
            {r.status : r \in {x \in trials : x.run = report.run /\ x.task = t}}
                = {report.status[t]}

\* Being graded in its own directory by a verifier that may write there.
Verified(t) == ~ChecksHash /\ \E e \in Evaluators : At(e, "read") /\ Task(e) = t

\* An attempt that saved something is never made again: as long as generations do not
\* overlap, kills and resumes included, what is on disk stays what was first saved, unless
\* the verifier of terminal-bench itself changes it.
\* (execute_generation: the orphan check, and only tasks without a record are pending)
SavedStays ==
    [][~overlap' => \A t \in Tasks :
           artifact[t] # None => artifact'[t] = artifact[t] \/ Verified(t)]_vars

\* What a resumed generation will not find in its way: saved artifacts of a task that
\* has no record and that nobody is working on.
Orphaned(t) ==
    /\ artifact[t] # None
    /\ t \notin RecordedTasks(generations)
    /\ ~\E p \in Generators : proc[p].pc \in {"task", "written", "append", "append_and_raise"}
                              /\ Task(p) = t

\* A SIGINT or an error during an attempt is journaled, so nothing is left in the way of
\* --resume.  (the two except clauses of execute_generation)
FailedAttemptIsJournaled ==
    stops = 0 => \A t \in Tasks : ~Orphaned(t)

\* "Resume an interrupted generation with identical inputs and --resume": nothing an
\* interrupted generation leaves behind blocks it.
ResumeNotBlocked == \A t \in Tasks : ~Orphaned(t)
=============================================================================
