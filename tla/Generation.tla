----------------------------- MODULE Generation -----------------------------
(***************************************************************************)
(* execute_generation of benchmarks/execution.py, with the manifest it     *)
(* creates or resumes.  Each place of pc lies between two accesses to the  *)
(* run directory, so that other invocations may act in between.            *)
(***************************************************************************)
EXTENDS RunDirectory

Generating == {g \in Generators : ~At(g, "idle")}

\* The arguments, the Slurm guard, the preparation and the preflight have been checked.
StartGenerate(p, pilot, resume) ==
    /\ Start(p, "manifest", pilot, resume)
    /\ overlap' = (overlap \/ Generating # {})

\* Mutant: a manifest that is already there is not looked for.
ManifestAnew(p) ==
    /\ At(p, "manifest")
    /\ Goto(p, "create")
    /\ UNCHANGED <<files, bounds>>

\* _load_or_create_run_manifest, path.exists() is false: the manifest is still to be
\* built, and nothing keeps another process from building one as well.
ManifestMissing(p) ==
    /\ At(p, "manifest")
    /\ manifest = None
    /\ Goto(p, "create")
    /\ UNCHANGED <<files, bounds>>

ResumeAccepted(p) == proc[p].resume /\ manifest.pilot = proc[p].pilot

ResumeManifest(p) ==
    /\ At(p, "manifest")
    /\ manifest # None
    /\ ResumeAccepted(p)
    /\ proc' = [proc EXCEPT ![p].pc = "load", ![p].run = manifest.run]
    /\ UNCHANGED <<files, bounds>>

\* ContractError: no --resume, or other arguments than the immutable manifest.
RefuseManifest(p) ==
    /\ At(p, "manifest")
    /\ manifest # None
    /\ ~ResumeAccepted(p)
    /\ End(p)
    /\ UNCHANGED <<files, bounds>>

\* atomic_write_json ends in os.replace, whatever is there by now.
CreateManifest(p) ==
    /\ At(p, "create")
    /\ manifest' = [run |-> proc[p].stamp, pilot |-> proc[p].pilot]
    /\ proc' = [proc EXCEPT ![p].pc = "load", ![p].run = proc[p].stamp]
    /\ UNCHANGED <<generations, trials, artifact, report, bounds>>

\* _validate_generation_records, and no old records without --resume.
GenerationsAccepted(p) ==
    /\ BelongTo(generations, proc[p].run, proc[p].pilot)
    /\ generations # {} => proc[p].resume

LoadGenerations(p) ==
    /\ At(p, "load")
    /\ GenerationsAccepted(p)
    /\ proc' = [proc EXCEPT ![p].pc = "next",
                            ![p].todo = Pending(generations, proc[p].pilot)]
    /\ UNCHANGED <<files, bounds>>

RefuseGenerations(p) ==
    /\ At(p, "load")
    /\ ~GenerationsAccepted(p)
    /\ End(p)
    /\ UNCHANGED <<files, bounds>>

----------------------------------------------------------------------------
\* The loop over the pending tasks.

HasTask(p) == proc[p].todo # {}

\* Mutant: what a killed invocation left behind is taken for an empty directory.
TakesOver(p) ==
    /\ At(p, "next")
    /\ HasTask(p)
    /\ Goto(p, "task")
    /\ UNCHANGED <<files, bounds>>

NextTask(p) ==
    /\ At(p, "next")
    /\ HasTask(p)
    /\ artifact[Task(p)] = None
    /\ Goto(p, "task")
    /\ UNCHANGED <<files, bounds>>

\* ContractError: orphaned artifact directory exists without a terminal journal record.
RefuseOrphan(p) ==
    /\ At(p, "next")
    /\ HasTask(p)
    /\ artifact[Task(p)] # None
    /\ End(p)
    /\ UNCHANGED <<files, bounds>>

\* No pending task is left, or no time for another before the end of the allocation,
\* which may come at any point of the loop: the invocation returns.
FinishGenerate(p) ==
    /\ At(p, "next")
    /\ End(p)
    /\ UNCHANGED <<files, bounds>>

Draft(p, place, status, hash) ==
    proc' = [proc EXCEPT ![p].pc = place,
                         ![p].draft = [run |-> proc[p].run, task |-> Task(p),
                                       status |-> status, hash |-> hash]]

\* response.txt and solution.py are written over what is there; the trajectory and the
\* patch of a container are opened for creation, and the attempt fails if they are there.
WriteArtifacts(p) ==
    /\ At(p, "task")
    /\ Suite \in Containers => artifact[Task(p)] = None
    /\ artifact' = [artifact EXCEPT ![Task(p)] = proc[p].stamp]
    /\ Goto(p, "written")
    /\ raced' = (raced \/ \E e \in Evaluators : At(e, "read") /\ Task(e) = Task(p))
    /\ UNCHANGED <<manifest, generations, trials, report, starts, signals, stops, overlap>>

\* The saved files are hashed as they are on disk at that moment.
AttemptEnds(p) ==
    /\ At(p, "written")
    /\ \E s \in Endings : Draft(p, "append", s, artifact[Task(p)])
    /\ UNCHANGED <<files, bounds>>

\* except Exception: the attempt failed before or after it saved something.
AttemptRaises(p) ==
    /\ proc[p].pc \in {"task", "written"}
    /\ Draft(p, "append", "infra_error", None)
    /\ UNCHANGED <<files, bounds>>

\* Mutant: only Exception is caught, which KeyboardInterrupt is not.
InterruptLost(p) ==
    /\ proc[p].pc \in {"task", "written"}
    /\ signals < MaxSignals
    /\ signals' = signals + 1
    /\ End(p)
    /\ UNCHANGED <<files, starts, stops, overlap, raced>>

\* except KeyboardInterrupt: the record is appended and the interrupt goes on.
AttemptInterrupted(p) ==
    /\ proc[p].pc \in {"task", "written"}
    /\ signals < MaxSignals
    /\ signals' = signals + 1
    /\ Draft(p, "append_and_raise", "cancelled", None)
    /\ UNCHANGED <<files, starts, stops, overlap, raced>>

Duplicate(p) == AttemptExists(generations, proc[p].run, Task(p))

AppendGeneration(p) ==
    /\ At(p, "append")
    /\ ~Duplicate(p)
    /\ generations' = generations \union {proc[p].draft}
    /\ proc' = [proc EXCEPT ![p].pc = "next", ![p].todo = @ \ {Task(p)}, ![p].draft = None]
    /\ UNCHANGED <<manifest, trials, artifact, report, bounds>>

AppendCancelled(p) ==
    /\ At(p, "append_and_raise")
    /\ ~Duplicate(p)
    /\ generations' = generations \union {proc[p].draft}
    /\ End(p)
    /\ UNCHANGED <<manifest, trials, artifact, report, bounds>>

\* ContractError: attempt_id already exists.
RefuseGeneration(p) ==
    /\ proc[p].pc \in {"append", "append_and_raise"}
    /\ Duplicate(p)
    /\ End(p)
    /\ UNCHANGED <<files, bounds>>

GenerateStep(p) ==
    \/ ManifestMissing(p)
    \/ ResumeManifest(p)
    \/ RefuseManifest(p)
    \/ CreateManifest(p)
    \/ LoadGenerations(p)
    \/ RefuseGenerations(p)
    \/ NextTask(p)
    \/ RefuseOrphan(p)
    \/ FinishGenerate(p)
    \/ WriteArtifacts(p)
    \/ AttemptEnds(p)
    \/ AttemptRaises(p)
    \/ AppendGeneration(p)
    \/ AppendCancelled(p)
    \/ RefuseGeneration(p)
=============================================================================
