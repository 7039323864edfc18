---------------------------- MODULE RunDirectory ----------------------------
(***************************************************************************)
(* The run directory of benchmarks/execution.py and the processes that     *)
(* work in it: `run.py generate', `run.py evaluate' and `run.py report'    *)
(* are separate programs that share nothing but these files.  Any of them  *)
(* may run at any time, several at once, and be interrupted or killed.     *)
(*                                                                         *)
(* The journals are sets of records: Journal shows that an append is one   *)
(* atomic addition of a record with a new attempt id, or an error.         *)
(***************************************************************************)
EXTENDS Naturals, Sequences, FiniteSets

CONSTANTS
    Generators,   \* processes that run `generate'
    Evaluators,   \* processes that run `evaluate'
    Reporters,    \* processes that run `report'
    Tasks,        \* task ids
    Suite,        \* the suite of the run, which the manifest fixes
    AllTasks,     \* the suite's tasks, in order
    PilotTasks,   \* the suite's pilot_task_ids, in order
    None,         \* a missing file, field or record
    Endings,      \* bound: statuses of an attempt that ends by itself
    Answers,      \* bound: what a grader may answer
    MaxStarts,    \* bound: invocations in a behaviour
    MaxSignals,   \* bound: SIGINTs that reach a task in progress
    MaxStops      \* bound: other abnormal ends of an invocation

Processes == Generators \union Evaluators \union Reporters

VARIABLES
    manifest,     \* manifest.json
    generations,  \* generations.jsonl
    trials,       \* trials.jsonl
    artifact,     \* tasks/<task>/attempt-1: whose content it holds
    report,       \* summary.json, summary.csv and report.md
    proc,         \* the memory of each process
    starts,       \* invocations so far
    signals,      \* SIGINTs taken by a task in progress
    stops,        \* invocations that ended by a kill or an interrupt elsewhere
    overlap,      \* two `generate' invocations have been active at once (history)
    raced         \* a file was written between a check of its hash and the reading
                  \* of its content (history)

vars == <<manifest, generations, trials, artifact, report, proc, starts, signals,
          stops, overlap, raced>>

files == <<manifest, generations, trials, artifact, report>>

bounds == <<starts, signals, stops, overlap, raced>>

RunId == 1..MaxStarts

Outcomes == {"generated", "unsolved", "timeout", "cancelled", "infra_error"}

Verdicts == {"pass", "fail", "timeout", "cancelled", "infra_error"}

Elements(s) == {s[i] : i \in 1..Len(s)}

Scheduled(pilot) == IF pilot THEN PilotTasks ELSE AllTasks

\* What a verifier made of the directory it ran in.
Touched == 0

\* The content of an attempt's directory, and its hash, is named by the invocation that wrote it.
Content == RunId \union {Touched, None}

Generation == [run : RunId, task : Tasks, status : Outcomes, hash : Content]

\* graded is the content the verdict was computed from.
Trial == [run : RunId, task : Tasks, status : Verdicts, graded : Content]

Manifest == [run : RunId, pilot : BOOLEAN]

Suites == {"swe-verified", "livecodebench", "mmlu-pro", "terminal-bench", "aider-refactor"}

\* The suites whose attempts OpenCode makes in a container.
Containers == {"swe-verified", "terminal-bench"}

\* terminal-bench is graded in the attempt's directory as it is; the others compare the
\* hash of the saved file first.
ChecksHash == Suite # "terminal-bench"

ASSUME RunDirectoryAssumption ==
    /\ Suite \in Suites
    /\ AllTasks \in Seq(Tasks) /\ PilotTasks \in Seq(Tasks)
    /\ AllTasks # <<>> /\ PilotTasks # <<>>
    /\ Endings \subseteq {"generated", "unsolved", "timeout", "infra_error"}
    /\ Answers \subseteq {"pass", "fail", "timeout", "infra_error"}
    /\ MaxStarts \in Nat /\ MaxSignals \in Nat /\ MaxStops \in Nat
    /\ None \notin Tasks \union Nat \union STRING \union Manifest

----------------------------------------------------------------------------
\* The memory of a process: stamp numbers the invocation, draft is the record it is about
\* to append.

Idle == [pc |-> "idle", stamp |-> 0, pilot |-> FALSE, resume |-> FALSE, run |-> None,
         todo |-> {}, draft |-> None]

At(p, place) == proc[p].pc = place

\* The first task of a schedule, which has no task twice, that is among those to do.
First(schedule, todo) ==
    schedule[CHOOSE i \in 1..Len(schedule) :
                 schedule[i] \in todo /\ \A j \in 1..i - 1 : schedule[j] \notin todo]

Task(p) == First(Scheduled(proc[p].pilot), proc[p].todo)

Goto(p, place) == proc' = [proc EXCEPT ![p].pc = place]

\* The process ends: it returned, raised or was killed.
End(p) == proc' = [proc EXCEPT ![p] = Idle]

Start(p, place, pilot, resume) ==
    /\ At(p, "idle")
    /\ starts < MaxStarts
    /\ starts' = starts + 1
    /\ proc' = [proc EXCEPT ![p] = [Idle EXCEPT !.pc = place, !.stamp = starts + 1,
                                    !.pilot = pilot, !.resume = resume]]
    /\ UNCHANGED <<files, signals, stops, raced>>

----------------------------------------------------------------------------
\* Checks on the journals that several commands share.

RecordedTasks(records) == {r.task : r \in records}

AttemptExists(records, run, task) == \E r \in records : r.run = run /\ r.task = task

\* One record per task, all of this run and of its schedule.
BelongTo(records, run, pilot) ==
    /\ \A r \in records : r.run = run /\ r.task \in Elements(Scheduled(pilot))
    /\ \A r, s \in records : r.task = s.task => r = s

GenerationOf(run, task) ==
    CHOOSE r \in generations : r.run = run /\ r.task = task

Pending(records, pilot) == Elements(Scheduled(pilot)) \ RecordedTasks(records)
=============================================================================
