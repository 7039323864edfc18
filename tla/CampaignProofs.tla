--------------------------- MODULE CampaignProofs ---------------------------
(***************************************************************************)
(* A run directory keeps its promises for any number of commands, tasks,   *)
(* invocations, interrupts and kills.  Most steps change the memory of one *)
(* process only (LocalKeeps); six change a file.  What a process relies    *)
(* on after its checks is kept by the others because records are only ever *)
(* added, under a key that is not there yet.                               *)
(***************************************************************************)
EXTENDS Campaign, FiniteSetTheorems, WellFoundedInduction, TLAPS

AtTask == {"task", "written", "append", "append_and_raise"}

GeneratePlaces == {"manifest", "create", "load", "next"} \union AtTask

Grading == {"trials", "grade", "read", "append_trial"}

\* From here on the run id of the manifest has been read, or made.
HasRun == {"load", "next", "coverage", "metrics", "publish"} \union AtTask \union Grading

Schedule(p) == Elements(Scheduled(proc[p].pilot))

MemoryInv(p) ==
    /\ proc[p].pc \in GeneratePlaces => p \in Generators
    /\ proc[p].pc \in {"evaluate", "coverage"} \union Grading => p \in Evaluators
    /\ proc[p].pc # "idle" => proc[p].stamp \in RunId
    /\ proc[p].pc \in HasRun => proc[p].run \in RunId
    /\ proc[p].pc \in {"next", "grade", "read", "append_trial"} \union AtTask =>
           proc[p].todo \subseteq Schedule(p)
    /\ proc[p].pc \in {"read", "append_trial"} \union AtTask => proc[p].todo # {}

\* The trials of a run are what a report says of them.
Final(r) ==
    \A t \in DOMAIN r.status :
        /\ \E x \in trials : x.run = r.run /\ x.task = t
        /\ \A x \in trials : x.run = r.run /\ x.task = t => x.status = r.status[t]

\* The outcomes of an attempt that saved an answer.
Graded == {"generated", "unsolved"}

HasSaved(r) == r.status \in Graded => r.hash # None /\ artifact[r.task] # None

DraftInv(p) ==
    /\ proc[p].pc = "written" => artifact[Task(p)] # None
    /\ proc[p].pc \in {"append", "append_and_raise"} =>
           /\ proc[p].draft \in Generation /\ HasSaved(proc[p].draft)
           /\ proc[p].draft.run = proc[p].run /\ proc[p].draft.task = Task(p)
    /\ proc[p].pc = "append_trial" =>
           proc[p].draft \in Trial /\ proc[p].draft.run = proc[p].run
                                   /\ proc[p].draft.task = Task(p)
    /\ proc[p].pc = "publish" => proc[p].draft \in Report /\ Final(proc[p].draft)

CoverInv(p) ==
    proc[p].pc \in Grading =>
        \A t \in Schedule(p) : AttemptExists(generations, proc[p].run, t)

\* g is the generation record of that attempt.
Names(g, run, task) == g.run = run /\ g.task = task

\* The verdict r on g is about the content that g names.
Faithful(r, g) == ChecksHash /\ ~raced /\ g.status \in Graded => r.graded = g.hash

GradeInv(p) ==
    /\ proc[p].pc = "read" =>
           \E g \in generations :
               /\ Names(g, proc[p].run, Task(p)) /\ g.status \in Graded
               /\ ChecksHash /\ ~raced => artifact[Task(p)] = g.hash
    /\ proc[p].pc = "append_trial" =>
           \E g \in generations :
               /\ Names(g, proc[p].run, Task(p))
               /\ proc[p].draft.status \in Ledger!Allowed(g.status)
               /\ Faithful(proc[p].draft, g)

\* What a process relies on.
OwnInv(p) == MemoryInv(p) /\ DraftInv(p) /\ CoverInv(p) /\ GradeInv(p)

KeyOnce(records) == \A r, s \in records : Names(r, s.run, s.task) => r = s

TrialInv ==
    \A r \in trials : \E g \in generations :
        Names(g, r.run, r.task) /\ Faithful(r, g)

\* What the files say together.
FileInv ==
    /\ KeyOnce(generations) /\ KeyOnce(trials)
    /\ TrialInv
    /\ \A r \in generations : HasSaved(r)
    /\ GradedAfterCoverage
    /\ report # None => Final(report)

\* What a process knows of the manifest as long as generations do not overlap.
RunOf(p) ==
    /\ proc[p].pc = "create" => manifest = None
    /\ proc[p].pc \in HasRun => manifest # None /\ proc[p].run = manifest.run

RunInv ==
    ~overlap =>
        /\ \A p, q \in Processes : {proc[p].pc, proc[q].pc} \subseteq GeneratePlaces => p = q
        /\ \A p \in Processes : RunOf(p)
        /\ \A r \in generations \union trials : manifest # None /\ r.run = manifest.run

\* Whoever saved something without a record is still at it.
OrphanInv ==
    stops = 0 =>
        \A t \in Tasks :
            \/ artifact[t] = None \/ t \in RecordedTasks(generations)
            \/ \E p \in Processes : proc[p].pc \in AtTask /\ Task(p) = t

IInv ==
    /\ TypeOK
    /\ \A p \in Processes : OwnInv(p)
    /\ FileInv
    /\ RunInv
    /\ OrphanInv

----------------------------------------------------------------------------
LEMMA FirstIsToDo ==
    ASSUME NEW s \in Seq(Tasks), NEW todo, todo \subseteq Elements(s), todo # {}
    PROVE  First(s, todo) \in todo
<1> DEFINE S == {i \in 1..Len(s) : s[i] \in todo}
<1>1. S # {} /\ S \in SUBSET Nat
    BY DEF Elements
<1>2. PICK n \in S : \A m \in S : n =< m
  <2> DEFINE N == 1..Len(s)
             T == {1..i : i \in S}
             R == StrictSubsetOrdering(N)
  <2>1. T \subseteq FiniteSubsetsOf(N) /\ T # {}
    <3>1. IsFiniteSet(N) /\ \A i \in S : 1..i \subseteq N
        BY FS_Interval
    <3> QED
        BY <1>1, <3>1, FS_Subset DEF FiniteSubsetsOf
  <2>2. IsWellFoundedOn(R, FiniteSubsetsOf(N))
      BY FS_StrictSubsetOrderingWellFounded
  <2>3. \E x \in T : \A y \in T : <<y, x>> \notin R
      BY <2>1, <2>2, WFMin
  <2>4. PICK n \in S : \A m \in S : <<1..m, 1..n>> \notin R
      BY <2>3
  <2>5. ASSUME NEW m \in S, m < n PROVE <<1..m, 1..n>> \in R
    <3>1. 1..m \subseteq N /\ 1..n \subseteq N /\ 1..m \subseteq 1..n /\ n \in 1..n /\ n \notin 1..m
        BY <2>5
    <3> QED
        BY <3>1 DEF StrictSubsetOrdering
  <2>6. \A m \in S : ~(m < n)
      BY <2>4, <2>5
  <2> QED
      BY <1>1, <2>6
<1>3. n \in 1..Len(s) /\ s[n] \in todo /\ \A j \in 1..n - 1 : s[j] \notin todo
    BY <1>2
<1> QED
    BY <1>3 DEF First

LEMMA ScheduledTasks ==
    \A pilot : Scheduled(pilot) \in Seq(Tasks) /\ Elements(Scheduled(pilot)) \subseteq Tasks
BY RunDirectoryAssumption DEF Scheduled, Elements

LEMMA TaskIsToDo ==
    ASSUME TypeOK, NEW p \in Processes, MemoryInv(p),
           proc[p].pc \in {"next", "grade", "read", "append_trial"} \union AtTask, proc[p].todo # {}
    PROVE  Task(p) \in proc[p].todo /\ Task(p) \in Schedule(p) /\ Task(p) \in Tasks
<1>1. proc[p].todo \subseteq Schedule(p) /\ proc[p].todo # {}
    BY DEF MemoryInv
<1>2. Task(p) \in proc[p].todo
    BY <1>1, FirstIsToDo, ScheduledTasks DEF Task, Schedule
<1> QED
    BY <1>1, <1>2, ScheduledTasks DEF Schedule

LEMMA SameTask ==
    ASSUME NEW p \in Processes, proc'[p].todo = proc[p].todo, proc'[p].pilot = proc[p].pilot
    PROVE  Task(p)' = Task(p) /\ Schedule(p)' = Schedule(p)
BY DEF Task, Schedule, Scheduled

LEMMA InitIInv == Init => IInv
<1> SUFFICES ASSUME Init PROVE IInv
    OBVIOUS
<1> USE RunDirectoryAssumption
<1>1. Idle \in Memory
    BY DEF Idle, Memory, Places
<1>2. TypeOK
  <2>1. proc \in [Processes -> Memory]
      BY <1>1 DEF Init
  <2>2. artifact \in [Tasks -> Content]
      BY DEF Init, Content
  <2>3. starts \in 0..MaxStarts /\ signals \in 0..MaxSignals /\ stops \in 0..MaxStops
      BY DEF Init
  <2> QED
      BY <2>1, <2>2, <2>3 DEF Init, TypeOK
<1>3. \A p \in Processes : proc[p].pc = "idle"
    BY DEF Init, Idle
<1>4. \A p \in Processes : OwnInv(p)
    BY <1>3 DEF OwnInv, MemoryInv, DraftInv, CoverInv, GradeInv, GeneratePlaces, AtTask, Grading, HasRun
<1>5. FileInv
    BY DEF Init, FileInv, KeyOnce, TrialInv, HasSaved, GradedAfterCoverage
<1>6. RunInv
    BY <1>3 DEF Init, RunInv, RunOf, GeneratePlaces, AtTask, Grading, HasRun
<1>7. OrphanInv
    BY DEF Init, OrphanInv
<1> QED
    BY <1>2, <1>4, <1>5, <1>6, <1>7 DEF IInv

----------------------------------------------------------------------------
\* What one process relies on, the steps of the others keep.

\* A record is added at most, under a new key.
Adds(records, new) ==
    \/ new = records
    \/ \E r : /\ new = records \union {r}
              /\ \A x \in records : ~Names(x, r.run, r.task)

LEMMA FinalKept ==
    ASSUME Adds(trials, trials'), NEW rep, Final(rep)
    PROVE  \A t \in DOMAIN rep.status :
               /\ \E x \in trials' : x.run = rep.run /\ x.task = t
               /\ \A x \in trials' : x.run = rep.run /\ x.task = t => x.status = rep.status[t]
BY DEF Adds, Final, Names

LEMMA OthersKept ==
    ASSUME TypeOK, NEW q \in Processes, OwnInv(q), proc'[q] = proc[q],
           generations \subseteq generations', Adds(trials, trials'),
           raced => raced', artifact' \in [Tasks -> Content],
           \A t \in Tasks : artifact[t] # None => artifact'[t] # None,
           ChecksHash /\ ~raced' /\ proc[q].pc = "read" => artifact'[Task(q)] = artifact[Task(q)]
    PROVE  OwnInv(q)'
<1>1. Task(q)' = Task(q) /\ Schedule(q)' = Schedule(q)
    BY SameTask
<1>2. MemoryInv(q)'
    BY <1>1 DEF OwnInv, MemoryInv
<1>3. DraftInv(q)'
  <2>1. ASSUME proc[q].pc = "publish" PROVE Final(proc[q].draft)'
    <3>1. Final(proc[q].draft)
        BY <2>1 DEF OwnInv, DraftInv
    <3> QED
        BY <3>1, FinalKept DEF Final
  <2>2. ASSUME proc[q].pc \in AtTask PROVE Task(q) \in Tasks
      BY <2>2, TaskIsToDo DEF OwnInv, MemoryInv
  <2>3. ASSUME proc[q].pc = "written" PROVE artifact'[Task(q)] # None
      BY <2>2, <2>3 DEF OwnInv, DraftInv, AtTask
  <2>4. ASSUME proc[q].pc \in {"append", "append_and_raise"} PROVE HasSaved(proc[q].draft)'
      BY <2>2, <2>4 DEF OwnInv, DraftInv, AtTask, HasSaved
  <2> QED
      BY <1>1, <2>1, <2>3, <2>4 DEF OwnInv, DraftInv
<1>4. CoverInv(q)'
    BY <1>1 DEF OwnInv, CoverInv, AttemptExists
<1>5. GradeInv(q)'
  <2>1. ASSUME proc[q].pc = "read"
        PROVE  \E g \in generations' :
                   /\ Names(g, proc[q].run, Task(q)) /\ g.status \in Graded
                   /\ ChecksHash /\ ~raced' => artifact'[Task(q)] = g.hash
      BY <2>1 DEF OwnInv, GradeInv
  <2>2. ASSUME proc[q].pc = "append_trial"
        PROVE  \E g \in generations' :
                   /\ Names(g, proc[q].run, Task(q))
                   /\ proc[q].draft.status \in Ledger!Allowed(g.status)
                   /\ Faithful(proc[q].draft, g)'
      BY <2>2 DEF OwnInv, GradeInv, Faithful
  <2> QED
      BY <1>1, <2>1, <2>2 DEF GradeInv, Names
<1> QED
    BY <1>2, <1>3, <1>4, <1>5 DEF OwnInv

----------------------------------------------------------------------------
\* Steps that change the memory of one process and no file.

LEMMA Moved ==
    ASSUME TypeOK, NEW p \in Processes, NEW new \in Memory, proc' = [proc EXCEPT ![p] = new]
    PROVE  /\ proc' \in [Processes -> Memory]
           /\ proc'[p] = new
           /\ \A q \in Processes \ {p} : proc'[q] = proc[q]
BY DEF TypeOK

\* Whose work it is, and what it is on, is not lost unless it is recorded or the process stopped.
KeepsTask(p, new) ==
    stops' = 0 /\ proc[p].pc \in AtTask =>
        \/ new.pc \in AtTask /\ new.todo = proc[p].todo /\ new.pilot = proc[p].pilot
        \/ Task(p) \in RecordedTasks(generations)

Counters ==
    /\ starts' \in 0..MaxStarts /\ signals' \in 0..MaxSignals
    /\ stops' \in 0..MaxStops /\ stops' >= stops
    /\ overlap' \in BOOLEAN /\ (overlap => overlap')

\* As long as generations do not overlap, one that starts is alone.
Joins(p, new) ==
    new.pc \in GeneratePlaces /\ ~overlap' =>
        \/ proc[p].pc \in GeneratePlaces
        \/ \A q \in Processes : proc[q].pc \notin GeneratePlaces

LEMMA LocalKeeps ==
    ASSUME IInv, NEW p \in Processes, NEW new \in Memory, proc' = [proc EXCEPT ![p] = new],
           UNCHANGED <<files, raced>>, Counters,
           OwnInv(p)', Joins(p, new), ~overlap' => RunOf(p)', KeepsTask(p, new)
    PROVE  IInv'
<1> USE DEF files
<1>0. /\ proc' \in [Processes -> Memory] /\ proc'[p] = new
      /\ \A q \in Processes \ {p} : proc'[q] = proc[q]
    BY Moved DEF IInv
<1>1. TypeOK'
    BY <1>0 DEF IInv, TypeOK, Counters
<1>2. ASSUME NEW q \in Processes PROVE OwnInv(q)'
  <2>1. CASE q = p
      BY <2>1
  <2>2. CASE q # p
    <3>1. TypeOK /\ OwnInv(q) /\ proc'[q] = proc[q] /\ Adds(trials, trials')
        BY <1>0, <2>2 DEF IInv, Adds
    <3>2. artifact' \in [Tasks -> Content]
        BY DEF IInv, TypeOK
    <3> QED
        BY <3>1, <3>2, OthersKept
  <2> QED
      BY <2>1, <2>2
<1>3. FileInv'
    BY DEF IInv, FileInv, KeyOnce, TrialInv, Faithful, HasSaved, GradedAfterCoverage, Final, AttemptExists
<1>4. RunInv'
  <2> SUFFICES ASSUME ~overlap' PROVE RunInv'
      BY DEF RunInv
  <2>1. ~overlap
      BY DEF Counters
  <2>2. \A q \in Processes \ {p} : RunOf(q)'
      BY <1>0, <2>1 DEF IInv, RunInv, RunOf
  <2>3. \A q, r \in Processes : {proc'[q].pc, proc'[r].pc} \subseteq GeneratePlaces => q = r
      BY <1>0, <2>1 DEF IInv, RunInv, Joins
  <2> QED
      BY <2>1, <2>2, <2>3 DEF IInv, RunInv
<1>5. OrphanInv'
  <2> SUFFICES ASSUME stops' = 0, NEW t \in Tasks, artifact[t] # None,
                      t \notin RecordedTasks(generations)
               PROVE  \E q \in Processes : proc'[q].pc \in AtTask /\ Task(q)' = t
      BY DEF OrphanInv, RecordedTasks
  <2>1. stops = 0
      BY DEF Counters, IInv, TypeOK
  <2>2. PICK q \in Processes : proc[q].pc \in AtTask /\ Task(q) = t
      BY <2>1 DEF IInv, OrphanInv
  <2>3. proc'[q].pc \in AtTask /\ proc'[q].todo = proc[q].todo /\ proc'[q].pilot = proc[q].pilot
      BY <1>0, <2>2 DEF KeepsTask
  <2> QED
      BY <2>2, <2>3, SameTask
<1> QED
    BY <1>1, <1>2, <1>3, <1>4, <1>5 DEF IInv

LEMMA IdleHasNothing ==
    ASSUME NEW p \in Processes, proc'[p] = Idle
    PROVE  OwnInv(p)' /\ RunOf(p)'
BY DEF Idle, OwnInv, MemoryInv, DraftInv, CoverInv, GradeInv, RunOf, GeneratePlaces, AtTask,
       Grading, HasRun

LEMMA EndKeeps ==
    ASSUME IInv, NEW p \in Processes, End(p), UNCHANGED <<files, raced>>, Counters,
           stops' = 0 /\ proc[p].pc \in AtTask => Task(p) \in RecordedTasks(generations)
    PROVE  IInv'
<1>1. Idle \in Memory /\ Idle.pc \notin GeneratePlaces
    BY RunDirectoryAssumption DEF Idle, Memory, Places, GeneratePlaces, AtTask
<1>2. proc'[p] = Idle
    BY <1>1, Moved DEF IInv, End
<1> QED
    BY <1>1, <1>2, IdleHasNothing, LocalKeeps DEF End, KeepsTask, Joins

LEMMA SameCounters == ASSUME IInv, UNCHANGED bounds PROVE Counters /\ UNCHANGED raced
BY RunDirectoryAssumption DEF IInv, TypeOK, bounds, Counters

\* A step to another place with the rest of the memory as it is.
LEMMA GotoMemory ==
    ASSUME TypeOK, NEW p \in Processes, NEW place \in Places
    PROVE  LET new == [proc[p] EXCEPT !.pc = place] IN
           /\ new \in Memory /\ new.pc = place
           /\ new.stamp = proc[p].stamp /\ new.pilot = proc[p].pilot /\ new.resume = proc[p].resume
           /\ new.run = proc[p].run /\ new.todo = proc[p].todo /\ new.draft = proc[p].draft
<1>1. proc[p] \in Memory
    BY DEF TypeOK
<1> QED
    BY <1>1 DEF Memory

LEMMA GotoKeeps ==
    ASSUME IInv, NEW p \in Processes, NEW place \in Places, Goto(p, place),
           UNCHANGED <<files, bounds>>,
           place \in GeneratePlaces => proc[p].pc \in GeneratePlaces,
           OwnInv(p)', ~overlap' => RunOf(p)', proc[p].pc \in AtTask => place \in AtTask
    PROVE  IInv'
<1> DEFINE new == [proc[p] EXCEPT !.pc = place]
<1>1. proc' = [proc EXCEPT ![p] = new]
    BY DEF Goto
<1>2. new \in Memory /\ new.pc = place /\ new.todo = proc[p].todo /\ new.pilot = proc[p].pilot
    BY GotoMemory DEF IInv
<1> HIDE DEF new
<1>3. KeepsTask(p, new) /\ Joins(p, new)
    BY <1>2 DEF KeepsTask, Joins
<1> QED
    BY <1>1, <1>2, <1>3, SameCounters, LocalKeeps

LEMMA GotoEffect ==
    ASSUME TypeOK, NEW p \in Processes, NEW place \in Places, Goto(p, place)
    PROVE  /\ proc'[p].pc = place
           /\ proc'[p].stamp = proc[p].stamp /\ proc'[p].pilot = proc[p].pilot
           /\ proc'[p].run = proc[p].run /\ proc'[p].todo = proc[p].todo
           /\ proc'[p].draft = proc[p].draft
           /\ Task(p)' = Task(p) /\ Schedule(p)' = Schedule(p)
<1> DEFINE new == [proc[p] EXCEPT !.pc = place]
<1>1. proc' = [proc EXCEPT ![p] = new]
    BY DEF Goto
<1>2. /\ new \in Memory /\ new.pc = place
      /\ new.stamp = proc[p].stamp /\ new.pilot = proc[p].pilot /\ new.run = proc[p].run
      /\ new.todo = proc[p].todo /\ new.draft = proc[p].draft
    BY GotoMemory
<1> HIDE DEF new
<1>3. proc'[p] = new
    BY <1>1, <1>2, Moved
<1>4. Task(p)' = Task(p) /\ Schedule(p)' = Schedule(p)
    BY <1>2, <1>3, SameTask
<1> QED
    BY <1>2, <1>3, <1>4
----------------------------------------------------------------------------
\* Invocations begin and end.

LEMMA StartKeeps ==
    ASSUME IInv, NEW p \in Processes, NEW place \in {"manifest", "evaluate", "report"},
           NEW pilot \in BOOLEAN, NEW resume \in BOOLEAN, Start(p, place, pilot, resume),
           place = "manifest" => p \in Generators, place = "evaluate" => p \in Evaluators,
           overlap' \in BOOLEAN, overlap => overlap',
           place = "manifest" /\ ~overlap' => \A q \in Processes : proc[q].pc \notin GeneratePlaces
    PROVE  IInv'
<1> DEFINE new == [Idle EXCEPT !.pc = place, !.stamp = starts + 1, !.pilot = pilot, !.resume = resume]
<1>1. starts + 1 \in RunId /\ starts + 1 \in 0..MaxStarts
    BY RunDirectoryAssumption DEF IInv, TypeOK, Start, RunId
<1>2. new \in Memory /\ new.pc = place /\ new.stamp = starts + 1
    BY <1>1 DEF Idle, Memory, Places
<1>3. proc' = [proc EXCEPT ![p] = new] /\ proc[p].pc = "idle" /\ UNCHANGED <<files, raced>>
    BY DEF Start, At
<1> HIDE DEF new
<1>4. Counters
    BY <1>1 DEF Start, Counters, IInv, TypeOK
<1>5. proc'[p] = new
    BY <1>2, <1>3, Moved DEF IInv
<1>6. OwnInv(p)' /\ RunOf(p)'
    BY <1>1, <1>2, <1>5 DEF OwnInv, MemoryInv, DraftInv, CoverInv, GradeInv, RunOf, GeneratePlaces,
                            AtTask, Grading, HasRun
<1>7. Joins(p, new) /\ KeepsTask(p, new)
    BY <1>2, <1>3 DEF Joins, KeepsTask, GeneratePlaces, AtTask
<1> QED
    BY <1>2, <1>3, <1>4, <1>6, <1>7, LocalKeeps

LEMMA BeginKeeps == ASSUME IInv, Begin PROVE IInv'
<1>1. ASSUME NEW p \in Generators, NEW pilot \in BOOLEAN, NEW resume \in BOOLEAN,
             StartGenerate(p, pilot, resume)
      PROVE  IInv'
  <2>1. p \in Processes /\ overlap' \in BOOLEAN /\ (overlap => overlap')
      BY <1>1 DEF StartGenerate, Processes, IInv, TypeOK
  <2>2. ASSUME ~overlap', NEW q \in Processes PROVE proc[q].pc \notin GeneratePlaces
    <3>1. Generating = {}
        BY <1>1, <2>2 DEF StartGenerate
    <3>2. proc[q].pc \in GeneratePlaces => q \in Generators
        BY DEF IInv, OwnInv, MemoryInv
    <3> QED
        BY <3>1, <3>2 DEF Generating, At, GeneratePlaces, AtTask
  <2> QED
      BY <1>1, <2>1, <2>2, StartKeeps DEF StartGenerate
<1>2. ASSUME NEW p \in Evaluators, StartEvaluate(p) PROVE IInv'
  <2>1. p \in Processes /\ overlap' \in BOOLEAN /\ (overlap => overlap')
      BY <1>2 DEF StartEvaluate, Processes, IInv, TypeOK
  <2> QED
      BY <1>2, <2>1, StartKeeps DEF StartEvaluate
<1>3. ASSUME NEW p \in Reporters, StartReport(p) PROVE IInv'
  <2>1. p \in Processes /\ overlap' \in BOOLEAN /\ (overlap => overlap')
      BY <1>3 DEF StartReport, Processes, IInv, TypeOK
  <2> QED
      BY <1>3, <2>1, StartKeeps DEF StartReport
<1> QED
    BY <1>1, <1>2, <1>3 DEF Begin

LEMMA StopKeeps == ASSUME IInv, NEW p \in Processes, Stop(p) PROVE IInv'
<1>1. stops \in 0..MaxStops /\ stops' = stops + 1 /\ stops < MaxStops /\ MaxStops \in Nat
    BY RunDirectoryAssumption DEF Stop, IInv, TypeOK
<1>2. stops' \in 0..MaxStops /\ stops' >= stops /\ stops' # 0
    BY <1>1
<1>3. Counters
    BY <1>2 DEF Stop, Counters, IInv, TypeOK
<1> QED
    BY <1>2, <1>3, EndKeeps DEF Stop

\* Refusals and returns, none of which leaves a task without its record.
LEMMA EndingsKeep ==
    ASSUME IInv, NEW p \in Processes,
           \/ RefuseManifest(p) \/ RefuseGenerations(p) \/ RefuseOrphan(p) \/ FinishGenerate(p)
           \/ RefuseGeneration(p) \/ NoManifest(p) \/ FinishEvaluate(p) \/ RefuseTrial(p)
    PROVE  IInv'
<1>1. End(p) /\ UNCHANGED <<files, bounds>>
    BY DEF RefuseManifest, RefuseGenerations, RefuseOrphan, FinishGenerate, RefuseGeneration,
           NoManifest, FinishEvaluate, RefuseTrial
<1>2. CASE RefuseGeneration(p)
  <2>1. Task(p) \in RecordedTasks(generations)
      BY <1>2 DEF RefuseGeneration, Duplicate, AttemptExists, RecordedTasks
  <2> QED
      BY <1>1, <2>1, SameCounters, EndKeeps
<1>3. CASE ~RefuseGeneration(p)
  <2>1. proc[p].pc \notin AtTask
      BY <1>3 DEF RefuseManifest, RefuseGenerations, RefuseOrphan, FinishGenerate,
                  NoManifest, FinishEvaluate, RefuseTrial, At, AtTask
  <2> QED
      BY <1>1, <2>1, SameCounters, EndKeeps
<1> QED
    BY <1>2, <1>3

----------------------------------------------------------------------------
\* The local steps of a generation.

LEMMA ManifestMissingKeeps == ASSUME IInv, NEW p \in Processes, ManifestMissing(p) PROVE IInv'
<1>1. Goto(p, "create") /\ "create" \in Places /\ proc[p].pc = "manifest" /\ manifest = None
    BY DEF ManifestMissing, Places, At
<1>2. proc'[p].pc = "create" /\ proc'[p].stamp = proc[p].stamp
    BY <1>1, GotoEffect DEF IInv
<1>3. OwnInv(p)' /\ RunOf(p)'
    BY <1>1, <1>2 DEF ManifestMissing, files, IInv, OwnInv, MemoryInv, DraftInv, CoverInv, GradeInv,
                      RunOf, GeneratePlaces, AtTask, Grading, HasRun
<1> QED
    BY <1>1, <1>3, GotoKeeps DEF ManifestMissing, GeneratePlaces, AtTask

LEMMA ResumeManifestKeeps == ASSUME IInv, NEW p \in Processes, ResumeManifest(p) PROVE IInv'
<1> DEFINE new == [proc[p] EXCEPT !.pc = "load", !.run = manifest.run]
<1>1. proc' = [proc EXCEPT ![p] = new] /\ proc[p].pc = "manifest" /\ UNCHANGED <<files, bounds>>
    BY DEF ResumeManifest, At
<1>2. manifest # None /\ manifest.run \in RunId
    BY DEF ResumeManifest, IInv, TypeOK, Manifest
<1>3. new \in Memory /\ new.pc = "load" /\ new.run = manifest.run /\ new.stamp = proc[p].stamp
    BY <1>2 DEF IInv, TypeOK, Memory, Places
<1> HIDE DEF new
<1>4. proc'[p] = new
    BY <1>1, <1>3, Moved DEF IInv
<1>5. OwnInv(p)' /\ RunOf(p)'
    BY <1>1, <1>2, <1>3, <1>4 DEF files, IInv, OwnInv, MemoryInv, DraftInv, CoverInv, GradeInv,
                      RunOf, GeneratePlaces, AtTask, Grading, HasRun
<1>6. Joins(p, new) /\ KeepsTask(p, new)
    BY <1>1 DEF Joins, KeepsTask, GeneratePlaces, AtTask
<1> QED
    BY <1>1, <1>3, <1>5, <1>6, SameCounters, LocalKeeps

LEMMA LoadGenerationsKeeps == ASSUME IInv, NEW p \in Processes, LoadGenerations(p) PROVE IInv'
<1> DEFINE todo == Pending(generations, proc[p].pilot)
           new == [proc[p] EXCEPT !.pc = "next", !.todo = todo]
<1>1. proc' = [proc EXCEPT ![p] = new] /\ proc[p].pc = "load" /\ UNCHANGED <<files, bounds>>
    BY DEF LoadGenerations, At
<1>2. todo \subseteq Schedule(p) /\ todo \subseteq Tasks
    BY ScheduledTasks DEF Pending, Schedule
<1>3. new \in Memory /\ new.pc = "next" /\ new.run = proc[p].run /\ new.stamp = proc[p].stamp
      /\ new.todo = todo /\ new.pilot = proc[p].pilot
    BY <1>2 DEF IInv, TypeOK, Memory, Places
<1> HIDE DEF new, todo
<1>4. proc'[p] = new
    BY <1>1, <1>3, Moved DEF IInv
<1>5. Schedule(p)' = Schedule(p)
    BY <1>3, <1>4 DEF Schedule, Scheduled
<1>6. OwnInv(p)'
    BY <1>1, <1>2, <1>3, <1>4, <1>5 DEF IInv, OwnInv, MemoryInv, DraftInv, CoverInv, GradeInv,
                      GeneratePlaces, AtTask, Grading, HasRun
<1>7. ~overlap' => RunOf(p)'
    BY <1>1, <1>3, <1>4 DEF files, bounds, IInv, RunInv, RunOf, HasRun
<1>8. Joins(p, new) /\ KeepsTask(p, new)
    BY <1>1 DEF Joins, KeepsTask, GeneratePlaces, AtTask
<1> QED
    BY <1>1, <1>3, <1>6, <1>7, <1>8, SameCounters, LocalKeeps

LEMMA NextTaskKeeps == ASSUME IInv, NEW p \in Processes, NextTask(p) PROVE IInv'
<1>1. Goto(p, "task") /\ "task" \in Places /\ proc[p].pc = "next" /\ proc[p].todo # {}
      /\ UNCHANGED <<files, bounds>>
    BY DEF NextTask, Places, At, HasTask
<1>2. proc'[p].pc = "task" /\ proc'[p].stamp = proc[p].stamp /\ proc'[p].run = proc[p].run
      /\ proc'[p].todo = proc[p].todo /\ Schedule(p)' = Schedule(p)
    BY <1>1, GotoEffect DEF IInv
<1>3. OwnInv(p)'
    BY <1>1, <1>2 DEF IInv, OwnInv, MemoryInv, DraftInv, CoverInv, GradeInv,
                      GeneratePlaces, AtTask, Grading, HasRun
<1>4. ~overlap' => RunOf(p)'
    BY <1>1, <1>2 DEF files, bounds, IInv, RunInv, RunOf, HasRun, AtTask
<1> QED
    BY <1>1, <1>3, <1>4, GotoKeeps DEF GeneratePlaces, AtTask

\* The record of an attempt that ended, failed or was interrupted.
LEMMA DraftKeeps ==
    ASSUME IInv, NEW p \in Processes, proc[p].pc \in {"task", "written"},
           NEW place \in {"append", "append_and_raise"}, NEW status \in Outcomes,
           NEW hash \in Content, Draft(p, place, status, hash),
           status \in Graded => hash # None /\ artifact[Task(p)] # None,
           UNCHANGED <<files, overlap, raced>>, Counters
    PROVE  IInv'
<1> DEFINE record == [run |-> proc[p].run, task |-> Task(p), status |-> status, hash |-> hash]
           new == [proc[p] EXCEPT !.pc = place, !.draft = record]
<1>1. proc' = [proc EXCEPT ![p] = new]
    BY DEF Draft
<1>2. MemoryInv(p) /\ Task(p) \in Tasks /\ proc[p].run \in RunId
    BY TaskIsToDo DEF IInv, OwnInv, MemoryInv, AtTask, HasRun
<1>3. record \in Generation
    BY <1>2 DEF Generation
<1>4. /\ new \in Memory /\ new.pc = place /\ new.run = proc[p].run /\ new.stamp = proc[p].stamp
      /\ new.todo = proc[p].todo /\ new.pilot = proc[p].pilot /\ new.draft = record
    BY <1>3 DEF IInv, TypeOK, Memory, Places
<1>5. record.run = proc[p].run /\ record.task = Task(p) /\ HasSaved(record)
    BY DEF HasSaved
<1> HIDE DEF new, record
<1>6. proc'[p] = new
    BY <1>1, <1>4, Moved DEF IInv
<1>7. Task(p)' = Task(p) /\ Schedule(p)' = Schedule(p)
    BY <1>4, <1>6, SameTask
<1>8. OwnInv(p)'
    BY <1>2, <1>3, <1>4, <1>5, <1>6, <1>7 DEF files, HasSaved, OwnInv, MemoryInv, DraftInv, CoverInv,
                      GradeInv, GeneratePlaces, AtTask, Grading, HasRun
<1>9. ~overlap' => RunOf(p)'
    BY <1>4, <1>6 DEF files, IInv, RunInv, RunOf, HasRun, AtTask
<1>10. Joins(p, new) /\ KeepsTask(p, new)
    BY <1>4 DEF Joins, KeepsTask, GeneratePlaces, AtTask
<1> QED
    BY <1>1, <1>4, <1>8, <1>9, <1>10, LocalKeeps

LEMMA AttemptEndsKeeps == ASSUME IInv, NEW p \in Processes, AttemptEnds(p) PROVE IInv'
<1>1. PICK s \in Endings : Draft(p, "append", s, artifact[Task(p)])
    BY DEF AttemptEnds
<1>2. proc[p].pc = "written" /\ UNCHANGED <<files, bounds>>
    BY DEF AttemptEnds, At
<1>3. Task(p) \in Tasks /\ s \in Outcomes
    BY <1>2, TaskIsToDo, RunDirectoryAssumption DEF IInv, OwnInv, MemoryInv, AtTask, Outcomes
<1>4. artifact[Task(p)] \in Content /\ artifact[Task(p)] # None
    BY <1>2, <1>3 DEF IInv, TypeOK, OwnInv, DraftInv
<1> QED
    BY <1>1, <1>2, <1>3, <1>4, SameCounters, DraftKeeps DEF bounds

LEMMA AttemptRaisesKeeps == ASSUME IInv, NEW p \in Processes, AttemptRaises(p) PROVE IInv'
<1>1. "infra_error" \in Outcomes \ Graded /\ None \in Content
    BY DEF Outcomes, Graded, Content
<1> QED
    BY <1>1, SameCounters, DraftKeeps DEF AttemptRaises, bounds

LEMMA AttemptInterruptedKeeps == ASSUME IInv, NEW p \in Processes, AttemptInterrupted(p) PROVE IInv'
<1>1. "cancelled" \in Outcomes \ Graded /\ None \in Content
    BY DEF Outcomes, Graded, Content
<1>2. signals' \in 0..MaxSignals
    BY RunDirectoryAssumption DEF AttemptInterrupted, IInv, TypeOK
<1>3. Counters
    BY <1>2, RunDirectoryAssumption DEF AttemptInterrupted, Counters, IInv, TypeOK
<1> QED
    BY <1>1, <1>3, DraftKeeps DEF AttemptInterrupted

----------------------------------------------------------------------------
\* The local steps of an evaluation and of a report.

LEMMA LoadManifestKeeps ==
    ASSUME IInv, NEW p \in Processes, NEW from, NEW to, LoadManifest(p, from, to),
           <<from, to>> \in {<<"evaluate", "coverage">>, <<"report", "metrics">>}
    PROVE  IInv'
<1> DEFINE new == [proc[p] EXCEPT !.pc = to, !.run = manifest.run, !.pilot = manifest.pilot]
<1>1. proc' = [proc EXCEPT ![p] = new] /\ proc[p].pc = from /\ UNCHANGED <<files, bounds>>
    BY DEF LoadManifest, At
<1>2. manifest # None /\ manifest.run \in RunId /\ manifest.pilot \in BOOLEAN
    BY DEF LoadManifest, IInv, TypeOK, Manifest
<1>3. new \in Memory /\ new.pc = to /\ new.run = manifest.run /\ new.stamp = proc[p].stamp
    BY <1>2 DEF IInv, TypeOK, Memory, Places
<1> HIDE DEF new
<1>4. proc'[p] = new
    BY <1>1, <1>3, Moved DEF IInv
<1>5. OwnInv(p)' /\ RunOf(p)'
    BY <1>1, <1>2, <1>3, <1>4 DEF files, IInv, OwnInv, MemoryInv, DraftInv, CoverInv, GradeInv,
                      RunOf, GeneratePlaces, AtTask, Grading, HasRun
<1>6. Joins(p, new) /\ KeepsTask(p, new)
    BY <1>1, <1>3 DEF Joins, KeepsTask, GeneratePlaces, AtTask
<1> QED
    BY <1>1, <1>3, <1>5, <1>6, SameCounters, LocalKeeps

LEMMA CheckCoverageKeeps == ASSUME IInv, NEW p \in Processes, CheckCoverage(p) PROVE IInv'
<1>1. proc[p].pc = "coverage" /\ UNCHANGED <<files, bounds>>
    BY DEF CheckCoverage, At
<1>2. CASE CoverageComplete(p)
  <2>1. Goto(p, "trials") /\ "trials" \in Places
      BY <1>2 DEF CheckCoverage, Places
  <2>2. proc'[p].pc = "trials" /\ proc'[p].stamp = proc[p].stamp /\ proc'[p].run = proc[p].run
        /\ Schedule(p)' = Schedule(p)
      BY <2>1, GotoEffect DEF IInv
  <2>3. \A t \in Schedule(p) : AttemptExists(generations, proc[p].run, t)
      BY <1>2 DEF CoverageComplete, BelongTo, RecordedTasks, AttemptExists, Schedule
  <2>4. OwnInv(p)'
      BY <1>1, <2>2, <2>3 DEF files, IInv, OwnInv, MemoryInv, DraftInv, CoverInv, GradeInv, AttemptExists,
                      GeneratePlaces, AtTask, Grading, HasRun
  <2>5. ~overlap' => RunOf(p)'
      BY <1>1, <2>2 DEF files, bounds, IInv, RunInv, RunOf, HasRun
  <2> QED
      BY <1>1, <2>1, <2>4, <2>5, GotoKeeps DEF GeneratePlaces, AtTask
<1>3. CASE ~CoverageComplete(p)
    BY <1>1, <1>3, SameCounters, EndKeeps DEF CheckCoverage, AtTask
<1> QED
    BY <1>2, <1>3

LEMMA LoadTrialsKeeps == ASSUME IInv, NEW p \in Processes, LoadTrials(p) PROVE IInv'
<1> DEFINE todo == Pending(trials, proc[p].pilot)
           new == [proc[p] EXCEPT !.pc = "grade", !.todo = todo]
<1>1. proc[p].pc = "trials" /\ UNCHANGED <<files, bounds>>
    BY DEF LoadTrials, At
<1>2. CASE TrialsAccepted(p)
  <2>1. proc' = [proc EXCEPT ![p] = new]
      BY <1>2 DEF LoadTrials
  <2>2. todo \subseteq Schedule(p) /\ todo \subseteq Tasks
      BY ScheduledTasks DEF Pending, Schedule
  <2>3. new \in Memory /\ new.pc = "grade" /\ new.run = proc[p].run /\ new.stamp = proc[p].stamp
        /\ new.todo = todo /\ new.pilot = proc[p].pilot
      BY <2>2 DEF IInv, TypeOK, Memory, Places
  <2> HIDE DEF new, todo
  <2>4. proc'[p] = new
      BY <2>1, <2>3, Moved DEF IInv
  <2>5. Schedule(p)' = Schedule(p)
      BY <2>3, <2>4 DEF Schedule, Scheduled
  <2>6. OwnInv(p)'
      BY <1>1, <2>2, <2>3, <2>4, <2>5 DEF files, IInv, OwnInv, MemoryInv, DraftInv, CoverInv, GradeInv,
                      AttemptExists, GeneratePlaces, AtTask, Grading, HasRun
  <2>7. ~overlap' => RunOf(p)'
      BY <1>1, <2>3, <2>4 DEF files, bounds, IInv, RunInv, RunOf, HasRun, Grading
  <2>8. Joins(p, new) /\ KeepsTask(p, new)
      BY <1>1, <2>3 DEF Joins, KeepsTask, GeneratePlaces, AtTask
  <2> QED
      BY <1>1, <2>1, <2>3, <2>6, <2>7, <2>8, SameCounters, LocalKeeps
<1>3. CASE ~TrialsAccepted(p)
    BY <1>1, <1>3, SameCounters, EndKeeps DEF LoadTrials, AtTask
<1> QED
    BY <1>2, <1>3

\* Records have keys, so that a look at one by its key finds that one.
LEMMA SavedIs ==
    ASSUME KeyOnce(generations), NEW g \in generations, NEW run, NEW task, Names(g, run, task)
    PROVE  GenerationOf(run, task) = g
BY DEF KeyOnce, Names, GenerationOf

LEMMA DraftTrialKeeps ==
    ASSUME IInv, NEW p \in Processes, proc[p].pc \in {"grade", "read"}, proc[p].todo # {},
           NEW status \in Verdicts, NEW graded \in Content,
           DraftTrial(p, status, graded), UNCHANGED <<files, bounds>>,
           NEW g \in generations, Names(g, proc[p].run, Task(p)),
           status \in Ledger!Allowed(g.status),
           ChecksHash /\ ~raced /\ g.status \in Graded => graded = g.hash
    PROVE  IInv'
<1> DEFINE record == [run |-> proc[p].run, task |-> Task(p), status |-> status, graded |-> graded]
           new == [proc[p] EXCEPT !.pc = "append_trial", !.draft = record]
<1>1. proc' = [proc EXCEPT ![p] = new]
    BY DEF DraftTrial
<1>2. MemoryInv(p) /\ Task(p) \in Tasks /\ proc[p].run \in RunId
    BY TaskIsToDo DEF IInv, OwnInv, MemoryInv, Grading, HasRun
<1>3. record \in Trial
    BY <1>2 DEF Trial
<1>4. /\ new \in Memory /\ new.pc = "append_trial" /\ new.run = proc[p].run
      /\ new.stamp = proc[p].stamp /\ new.todo = proc[p].todo /\ new.pilot = proc[p].pilot
      /\ new.draft = record
    BY <1>3 DEF IInv, TypeOK, Memory, Places
<1>5. record.run = proc[p].run /\ record.task = Task(p) /\ record.status = status /\ record.graded = graded
    OBVIOUS
<1> HIDE DEF new, record
<1>6. proc'[p] = new
    BY <1>1, <1>4, Moved DEF IInv
<1>7. Task(p)' = Task(p) /\ Schedule(p)' = Schedule(p)
    BY <1>4, <1>6, SameTask
<1>8. OwnInv(p)'
  <2>1. MemoryInv(p)'
      BY <1>2, <1>4, <1>6, <1>7 DEF MemoryInv, GeneratePlaces, AtTask, Grading, HasRun
  <2>2. DraftInv(p)'
      BY <1>3, <1>4, <1>5, <1>6, <1>7 DEF DraftInv
  <2>3. CoverInv(p)'
      BY <1>4, <1>6, <1>7 DEF IInv, OwnInv, CoverInv, files, Grading, AttemptExists
  <2>4. GradeInv(p)'
      BY <1>4, <1>5, <1>6, <1>7 DEF GradeInv, Faithful, files, bounds, Names
  <2> QED
      BY <2>1, <2>2, <2>3, <2>4 DEF OwnInv
<1>9. ~overlap' => RunOf(p)'
    BY <1>4, <1>6 DEF files, bounds, IInv, RunInv, RunOf, HasRun, Grading
<1>10. Joins(p, new) /\ KeepsTask(p, new)
    BY <1>4 DEF Joins, KeepsTask, GeneratePlaces, AtTask
<1> QED
    BY <1>1, <1>4, <1>8, <1>9, <1>10, SameCounters, LocalKeeps

LEMMA CopyOutcomeKeeps == ASSUME IInv, NEW p \in Processes, CopyOutcome(p) PROVE IInv'
<1>1. PICK g \in generations : /\ g.run = proc[p].run /\ g.task = Task(p)
                               /\ g.status \in {"infra_error", "timeout", "cancelled"}
    BY DEF CopyOutcome, SavedAs
<1>2. Names(g, proc[p].run, Task(p)) /\ Saved(p) = g
    BY <1>1, SavedIs DEF IInv, FileInv, Names, Saved
<1>3. /\ g.status \in Verdicts /\ g.status \in Ledger!Allowed(g.status) /\ None \in Content
      /\ g.status \notin Graded
    BY <1>1 DEF Verdicts, Ledger!Allowed, Content, Graded
<1> QED
    BY <1>2, <1>3, DraftTrialKeeps DEF CopyOutcome, At, HasUngraded

LEMMA CheckHashKeeps == ASSUME IInv, NEW p \in Processes, CheckHash(p) PROVE IInv'
<1>1. proc[p].pc = "grade" /\ proc[p].todo # {} /\ UNCHANGED <<files, bounds>>
    BY DEF CheckHash, At, HasUngraded
<1>2. CASE HashFresh(p)
  <2>1. Goto(p, "read") /\ "read" \in Places
      BY <1>2 DEF CheckHash, Places
  <2>2. proc'[p].pc = "read" /\ proc'[p].stamp = proc[p].stamp /\ proc'[p].run = proc[p].run
        /\ proc'[p].todo = proc[p].todo /\ Schedule(p)' = Schedule(p) /\ Task(p)' = Task(p)
      BY <2>1, GotoEffect DEF IInv
  <2>3. PICK g \in generations : /\ g.run = proc[p].run /\ g.task = Task(p)
                                 /\ g.status \in Graded
      BY DEF CheckHash, SavedAs, Graded
  <2>4. Names(g, proc[p].run, Task(p)) /\ (ChecksHash => artifact[Task(p)] = g.hash)
    <3>1. Names(g, proc[p].run, Task(p)) /\ Saved(p) = g
        BY <2>3, SavedIs DEF IInv, FileInv, Names, Saved
    <3>2. artifact[Task(p)] # None
        BY <2>3 DEF IInv, FileInv, HasSaved
    <3> QED
        BY <1>2, <3>1, <3>2 DEF HashFresh
  <2>5. MemoryInv(p)'
      BY <1>1, <2>2 DEF IInv, OwnInv, MemoryInv, GeneratePlaces, AtTask, Grading, HasRun
  <2>6. DraftInv(p)' /\ CoverInv(p)'
      BY <1>1, <2>2 DEF files, IInv, OwnInv, DraftInv, CoverInv, Grading, AttemptExists
  <2>7. GradeInv(p)'
      BY <1>1, <2>2, <2>3, <2>4 DEF GradeInv, files, bounds, Names
  <2>8. ~overlap' => RunOf(p)'
      BY <1>1, <2>2 DEF files, bounds, IInv, RunInv, RunOf, HasRun, Grading
  <2> QED
      BY <1>1, <2>1, <2>5, <2>6, <2>7, <2>8, GotoKeeps DEF OwnInv, GeneratePlaces, AtTask
<1>3. CASE ~HashFresh(p)
    BY <1>1, <1>3, SameCounters, EndKeeps DEF CheckHash, AtTask
<1> QED
    BY <1>2, <1>3

LEMMA GradeSavedKeeps == ASSUME IInv, NEW p \in Processes, GradeSaved(p) PROVE IInv'
<1>1. proc[p].pc = "read" /\ UNCHANGED <<files, bounds>>
    BY DEF GradeSaved, At
<1>2. proc[p].todo # {} /\ MemoryInv(p)
    BY <1>1 DEF IInv, OwnInv, MemoryInv
<1>3. Task(p) \in Tasks
    BY <1>1, <1>2, TaskIsToDo DEF IInv
<1>4. PICK g \in generations :
          /\ Names(g, proc[p].run, Task(p)) /\ g.status \in Graded
          /\ ChecksHash /\ ~raced => artifact[Task(p)] = g.hash
    BY <1>1 DEF IInv, OwnInv, GradeInv
<1>5. Saved(p) = g
    BY <1>4, SavedIs DEF IInv, FileInv, Saved
<1>6. PICK v \in Possible(g.status) : DraftTrial(p, v, artifact[Task(p)])
    BY <1>5 DEF GradeSaved
<1>7. v \in Verdicts /\ v \in Ledger!Allowed(g.status)
    BY <1>4, RunDirectoryAssumption DEF Possible, Verdicts, Ledger!Allowed, Graded
<1>8. artifact[Task(p)] \in Content
    BY <1>3 DEF IInv, TypeOK
<1> QED
    BY <1>1, <1>2, <1>4, <1>6, <1>7, <1>8, DraftTrialKeeps

LEMMA ComputeMetricsKeeps == ASSUME IInv, NEW p \in Processes, ComputeMetrics(p) PROVE IInv'
<1> DEFINE status == [t \in Schedule(p) |-> StatusIn(trials, t)]
           metrics == [run |-> proc[p].run, status |-> status]
           new == [proc[p] EXCEPT !.pc = "publish", !.draft = metrics]
<1>1. proc[p].pc = "metrics" /\ UNCHANGED <<files, bounds>> /\ proc[p].run \in RunId
    BY DEF ComputeMetrics, At, IInv, OwnInv, MemoryInv, HasRun
<1>2. CASE ReportComplete(p)
  <2>1. proc' = [proc EXCEPT ![p] = new]
      BY <1>2 DEF ComputeMetrics, Schedule
  <2>2. \A t \in Schedule(p) : \E r \in trials : r.task = t
      BY <1>2 DEF ReportComplete, RecordedTasks, Schedule
  <2>3. \A r \in trials : StatusIn(trials, r.task) = r.status
      BY <1>2 DEF ReportComplete, BelongTo, StatusIn
  <2>4. status \in [Schedule(p) -> Verdicts] /\ Schedule(p) \in SUBSET Tasks
    <3>1. \A t \in Schedule(p) : StatusIn(trials, t) \in Verdicts
        BY <2>2, <2>3 DEF IInv, TypeOK, Trial
    <3> QED
        BY <3>1, ScheduledTasks DEF Schedule
  <2>5. metrics \in Report
      BY <1>1, <2>4 DEF Report
  <2>6. Final(metrics)
      BY <2>2, <2>3, <1>2 DEF Final, ReportComplete, BelongTo
  <2>7. new \in Memory /\ new.pc = "publish" /\ new.run = proc[p].run /\ new.stamp = proc[p].stamp
        /\ new.draft = metrics
      BY <2>5 DEF IInv, TypeOK, Memory, Places
  <2> HIDE DEF new, metrics, status
  <2>8. proc'[p] = new
      BY <2>1, <2>7, Moved DEF IInv
  <2>9. OwnInv(p)'
      BY <1>1, <2>5, <2>6, <2>7, <2>8 DEF files, IInv, OwnInv, MemoryInv, DraftInv, CoverInv, GradeInv,
                      Final, GeneratePlaces, AtTask, Grading, HasRun
  <2>10. ~overlap' => RunOf(p)'
      BY <1>1, <2>7, <2>8 DEF files, bounds, IInv, RunInv, RunOf, HasRun
  <2>11. Joins(p, new) /\ KeepsTask(p, new)
      BY <1>1, <2>7 DEF Joins, KeepsTask, GeneratePlaces, AtTask
  <2> QED
      BY <1>1, <2>1, <2>7, <2>9, <2>10, <2>11, SameCounters, LocalKeeps
<1>3. CASE ~ReportComplete(p)
    BY <1>1, <1>3, SameCounters, EndKeeps DEF ComputeMetrics, AtTask
<1> QED
    BY <1>2, <1>3

----------------------------------------------------------------------------
\* Steps that write a file.

LEMMA CreateManifestKeeps == ASSUME IInv, NEW p \in Processes, CreateManifest(p) PROVE IInv'
<1> DEFINE new == [proc[p] EXCEPT !.pc = "load", !.run = proc[p].stamp]
<1>1. /\ proc' = [proc EXCEPT ![p] = new] /\ proc[p].pc = "create"
      /\ manifest' = [run |-> proc[p].stamp, pilot |-> proc[p].pilot]
      /\ UNCHANGED <<generations, trials, artifact, report>> /\ UNCHANGED bounds
    BY DEF CreateManifest, At
<1>2. MemoryInv(p) /\ proc[p].stamp \in RunId /\ proc[p].pilot \in BOOLEAN
    BY <1>1 DEF IInv, OwnInv, MemoryInv, TypeOK, Memory
<1>3. manifest' \in Manifest /\ manifest' # None /\ manifest'.run = proc[p].stamp
    BY <1>1, <1>2, RunDirectoryAssumption DEF Manifest
<1>4. new \in Memory /\ new.pc = "load" /\ new.run = proc[p].stamp /\ new.stamp = proc[p].stamp
    BY <1>2 DEF IInv, TypeOK, Memory, Places
<1> HIDE DEF new
<1>5. /\ proc' \in [Processes -> Memory] /\ proc'[p] = new
      /\ \A q \in Processes \ {p} : proc'[q] = proc[q]
    BY <1>1, <1>4, Moved DEF IInv
<1>6. TypeOK'
    BY <1>1, <1>3, <1>5 DEF IInv, TypeOK, bounds
<1>7. ASSUME NEW q \in Processes PROVE OwnInv(q)'
  <2>1. CASE q = p
      BY <1>1, <1>2, <1>4, <1>5, <2>1 DEF OwnInv, MemoryInv, DraftInv, CoverInv, GradeInv,
                      GeneratePlaces, AtTask, Grading, HasRun
  <2>2. CASE q # p
      BY <1>1, <1>5, <1>6, <2>2, OthersKept DEF IInv, Adds, bounds, TypeOK
  <2> QED
      BY <2>1, <2>2
<1>8. FileInv'
    BY <1>1 DEF IInv, FileInv, KeyOnce, TrialInv, Faithful, HasSaved, GradedAfterCoverage, Final, AttemptExists, bounds
<1>9. RunInv'
  <2> SUFFICES ASSUME ~overlap PROVE RunInv'
      BY <1>1 DEF RunInv, bounds
  <2>1. manifest = None /\ generations \union trials = {}
      BY <1>1 DEF IInv, RunInv, RunOf
  <2>2. ASSUME NEW q \in Processes PROVE RunOf(q)'
    <3>1. CASE q = p
        BY <1>3, <1>4, <1>5, <3>1 DEF RunOf
    <3>2. CASE q # p
      <4>1. proc[q].pc # "create" /\ proc[q].pc \notin HasRun
          BY <1>1, <2>1, <3>2 DEF IInv, RunInv, RunOf, GeneratePlaces
      <4> QED
          BY <1>5, <3>2, <4>1 DEF RunOf
    <3> QED
        BY <3>1, <3>2
  <2>3. \A q, r \in Processes : {proc'[q].pc, proc'[r].pc} \subseteq GeneratePlaces => q = r
      BY <1>1, <1>5 DEF IInv, RunInv, GeneratePlaces
  <2> QED
      BY <1>1, <2>1, <2>2, <2>3 DEF RunInv
<1>10. OrphanInv'
  <2> SUFFICES ASSUME stops = 0, NEW t \in Tasks, artifact[t] # None,
                      t \notin RecordedTasks(generations)
               PROVE  \E q \in Processes : proc'[q].pc \in AtTask /\ Task(q)' = t
      BY <1>1 DEF OrphanInv, RecordedTasks, bounds
  <2>1. PICK q \in Processes : proc[q].pc \in AtTask /\ Task(q) = t
      BY DEF IInv, OrphanInv
  <2>2. proc'[q] = proc[q]
      BY <1>1, <1>5, <2>1 DEF AtTask
  <2> QED
      BY <2>1, <2>2, SameTask
<1> QED
    BY <1>6, <1>7, <1>8, <1>9, <1>10 DEF IInv

LEMMA WriteArtifactsKeeps == ASSUME IInv, NEW p \in Processes, WriteArtifacts(p) PROVE IInv'
<1>1. /\ Goto(p, "written") /\ "written" \in Places /\ proc[p].pc = "task"
      /\ artifact' = [artifact EXCEPT ![Task(p)] = proc[p].stamp]
      /\ raced' = (raced \/ \E e \in Evaluators : At(e, "read") /\ Task(e) = Task(p))
      /\ UNCHANGED <<manifest, generations, trials, report, starts, signals, stops, overlap>>
    BY DEF WriteArtifacts, At, Places
<1>2. MemoryInv(p) /\ proc[p].stamp \in RunId /\ Task(p) \in Tasks
    BY <1>1, TaskIsToDo DEF IInv, OwnInv, MemoryInv, AtTask
<1>3. /\ proc'[p].pc = "written" /\ proc'[p].stamp = proc[p].stamp /\ proc'[p].run = proc[p].run
      /\ proc'[p].todo = proc[p].todo /\ Schedule(p)' = Schedule(p) /\ Task(p)' = Task(p)
    BY <1>1, GotoEffect DEF IInv
<1>4. proc' \in [Processes -> Memory] /\ \A q \in Processes \ {p} : proc'[q] = proc[q]
  <2> DEFINE new == [proc[p] EXCEPT !.pc = "written"]
  <2>1. proc' = [proc EXCEPT ![p] = new] /\ new \in Memory
      BY <1>1, GotoMemory DEF Goto, IInv
  <2> HIDE DEF new
  <2> QED
      BY <2>1, Moved DEF IInv
<1>5. /\ artifact' \in [Tasks -> Content] /\ raced' \in BOOLEAN
      /\ \A t \in Tasks \ {Task(p)} : artifact'[t] = artifact[t]
    BY <1>1, <1>2 DEF IInv, TypeOK, Content
<1>6. TypeOK'
    BY <1>1, <1>4, <1>5 DEF IInv, TypeOK
<1>7. /\ artifact'[Task(p)] # None
      /\ \A t \in Tasks : artifact[t] # None => artifact'[t] # None
    BY <1>1, <1>2, <1>5, RunDirectoryAssumption DEF IInv, TypeOK, RunId
<1>8. ASSUME NEW q \in Processes PROVE OwnInv(q)'
  <2>1. CASE q = p
      BY <1>1, <1>2, <1>3, <1>7, <2>1 DEF OwnInv, MemoryInv, DraftInv, CoverInv, GradeInv,
                      GeneratePlaces, AtTask, Grading, HasRun
  <2>2. CASE q # p
    <3>1. OwnInv(q) /\ TypeOK /\ proc'[q] = proc[q] /\ Adds(trials, trials')
          /\ generations \subseteq generations' /\ (raced => raced')
        BY <1>1, <1>4, <2>2 DEF IInv, Adds
    <3>2. ASSUME ~raced', proc[q].pc = "read" PROVE artifact'[Task(q)] = artifact[Task(q)]
      <4>1. MemoryInv(q) /\ q \in Evaluators
          BY <3>1, <3>2 DEF OwnInv, MemoryInv, Grading
      <4>2. Task(q) \in Tasks
          BY <3>1, <3>2, <4>1, TaskIsToDo DEF MemoryInv
      <4>3. Task(q) # Task(p)
          BY <1>1, <3>2, <4>1 DEF At
      <4> QED
          BY <1>5, <4>2, <4>3
    <3> QED
        BY <1>5, <1>7, <3>1, <3>2, OthersKept
  <2> QED
      BY <2>1, <2>2
<1>9. FileInv'
  <2>1. TrialInv'
      BY <1>1 DEF IInv, FileInv, TrialInv, Faithful, Names
  <2>2. \A r \in generations : HasSaved(r)'
    <3>1. \A r \in generations : r.task \in Tasks /\ HasSaved(r)
        BY DEF IInv, TypeOK, FileInv, Generation
    <3> QED
        BY <1>7, <3>1 DEF HasSaved
  <2> QED
      BY <1>1, <2>1, <2>2 DEF IInv, FileInv, KeyOnce, GradedAfterCoverage, Final, AttemptExists, Names
<1>10. RunInv'
  <2> SUFFICES ASSUME ~overlap PROVE RunInv'
      BY <1>1 DEF RunInv
  <2>1. \A q \in Processes : RunOf(q)'
      BY <1>1, <1>3, <1>4 DEF IInv, RunInv, RunOf, HasRun, AtTask
  <2>2. \A q, r \in Processes : {proc'[q].pc, proc'[r].pc} \subseteq GeneratePlaces => q = r
      BY <1>1, <1>3, <1>4 DEF IInv, RunInv, GeneratePlaces, AtTask
  <2> QED
      BY <1>1, <2>1, <2>2 DEF IInv, RunInv
<1>11. OrphanInv'
  <2> SUFFICES ASSUME stops = 0, NEW t \in Tasks, artifact'[t] # None,
                      t \notin RecordedTasks(generations)
               PROVE  \E q \in Processes : proc'[q].pc \in AtTask /\ Task(q)' = t
      BY <1>1 DEF OrphanInv, RecordedTasks
  <2>1. CASE t = Task(p)
      BY <1>3, <2>1 DEF AtTask
  <2>2. CASE t # Task(p)
    <3>1. PICK q \in Processes : proc[q].pc \in AtTask /\ Task(q) = t
        BY <1>5, <2>2 DEF IInv, OrphanInv
    <3>2. proc'[q] = proc[q]
        BY <1>4, <2>2, <3>1
    <3> QED
        BY <3>1, <3>2, SameTask
  <2> QED
      BY <2>1, <2>2
<1> QED
    BY <1>6, <1>8, <1>9, <1>10, <1>11 DEF IInv

\* The directory of a recorded attempt changes, in a suite that compares no hash.
LEMMA VerifierWritesKeeps == ASSUME IInv, NEW p \in Processes, VerifierWrites(p) PROVE IInv'
<1>1. /\ proc[p].pc = "read" /\ ~ChecksHash /\ artifact' = [artifact EXCEPT ![Task(p)] = Touched]
      /\ UNCHANGED <<manifest, generations, trials, report, proc>> /\ UNCHANGED bounds
    BY DEF VerifierWrites, At
<1>2. Task(p) \in Tasks /\ Task(p) \in RecordedTasks(generations)
  <2>1. proc[p].todo # {} /\ MemoryInv(p)
      BY <1>1 DEF IInv, OwnInv, MemoryInv
  <2> QED
      BY <1>1, <2>1, TaskIsToDo DEF IInv, OwnInv, GradeInv, Names, RecordedTasks
<1>3. /\ artifact' \in [Tasks -> Content]
      /\ \A t \in Tasks : artifact[t] # None => artifact'[t] # None
      /\ \A t \in Tasks \ RecordedTasks(generations) : artifact'[t] = artifact[t]
    BY <1>1, <1>2, RunDirectoryAssumption DEF IInv, TypeOK, Content, Touched
<1>4. TypeOK'
    BY <1>1, <1>3 DEF IInv, TypeOK, bounds
<1>5. ASSUME NEW q \in Processes PROVE OwnInv(q)'
  <2>1. TypeOK /\ OwnInv(q) /\ proc'[q] = proc[q] /\ Adds(trials, trials') /\ (raced => raced')
      BY <1>1 DEF IInv, Adds, bounds
  <2> QED
      BY <1>1, <1>3, <2>1, OthersKept
<1>6. FileInv'
  <2>1. \A r \in generations : HasSaved(r)'
    <3>1. \A r \in generations : r.task \in Tasks /\ HasSaved(r)
        BY DEF IInv, TypeOK, FileInv, Generation
    <3> QED
        BY <1>3, <3>1 DEF HasSaved
  <2>2. TrialInv'
      BY <1>1 DEF IInv, FileInv, TrialInv, Faithful, bounds
  <2> QED
      BY <1>1, <2>1, <2>2 DEF IInv, FileInv, KeyOnce, GradedAfterCoverage, Final, AttemptExists
<1>7. \A q \in Processes : Task(q)' = Task(q)
    BY <1>1, SameTask
<1>8. RunInv'
    BY <1>1 DEF IInv, RunInv, RunOf, bounds
<1>9. OrphanInv'
    BY <1>1, <1>3, <1>7 DEF IInv, OrphanInv, RecordedTasks, bounds
<1> QED
    BY <1>4, <1>5, <1>6, <1>8, <1>9 DEF IInv

\* The record of an attempt is added and its process is done with the task.
LEMMA RecordKeeps ==
    ASSUME IInv, NEW p \in Processes, proc[p].pc \in {"append", "append_and_raise"},
           ~Duplicate(p), generations' = generations \union {proc[p].draft},
           NEW new \in Memory, proc' = [proc EXCEPT ![p] = new], new.pc \in {"next", "idle"},
           new.pc = "next" => /\ new.stamp = proc[p].stamp /\ new.run = proc[p].run
                              /\ new.pilot = proc[p].pilot /\ new.todo \subseteq proc[p].todo,
           UNCHANGED <<manifest, trials, artifact, report>>, UNCHANGED bounds
    PROVE  IInv'
<1> DEFINE record == proc[p].draft
<1>1. /\ record \in Generation /\ record.run = proc[p].run /\ record.task = Task(p)
      /\ MemoryInv(p) /\ proc[p].run \in RunId /\ HasSaved(record)
    BY DEF IInv, OwnInv, DraftInv, MemoryInv, HasRun, AtTask
<1>2. \A g \in generations : ~Names(g, record.run, record.task)
    BY <1>1 DEF Duplicate, AttemptExists, Names
<1> HIDE DEF record
<1>3. generations' = generations \union {record}
    BY DEF record
<1>4. /\ proc' \in [Processes -> Memory] /\ proc'[p] = new
      /\ \A q \in Processes \ {p} : proc'[q] = proc[q]
    BY Moved DEF IInv
<1>5. TypeOK'
    BY <1>1, <1>3, <1>4 DEF IInv, TypeOK, bounds
<1>6. ASSUME NEW q \in Processes PROVE OwnInv(q)'
  <2>1. CASE q = p
    <3>1. new.pc = "next" => Schedule(p)' = Schedule(p)
        BY <1>4 DEF Schedule, Scheduled
    <3> QED
        BY <1>1, <1>4, <2>1, <3>1 DEF OwnInv, MemoryInv, DraftInv, CoverInv, GradeInv,
                      GeneratePlaces, AtTask, Grading, HasRun
  <2>2. CASE q # p
    <3>1. OwnInv(q) /\ TypeOK /\ proc'[q] = proc[q] /\ Adds(trials, trials')
          /\ generations \subseteq generations' /\ (raced => raced')
          /\ artifact' \in [Tasks -> Content]
        BY <1>3, <1>4, <2>2 DEF IInv, Adds, bounds, TypeOK
    <3> QED
        BY <3>1, OthersKept
  <2> QED
      BY <2>1, <2>2
<1>7. FileInv'
  <2>1. KeyOnce(generations')
      BY <1>2, <1>3 DEF IInv, FileInv, KeyOnce, Names
  <2>2. TrialInv' /\ \A r \in generations' : HasSaved(r)'
      BY <1>1, <1>3 DEF IInv, FileInv, TrialInv, HasSaved, Faithful, Names, bounds
  <2>3. GradedAfterCoverage'
    <3> SUFFICES ASSUME NEW r \in trials
                 PROVE  \E pilot \in BOOLEAN :
                            /\ r.task \in Elements(Scheduled(pilot))
                            /\ \A t \in Elements(Scheduled(pilot)) :
                                   AttemptExists(generations', r.run, t)
        BY DEF GradedAfterCoverage
    <3>1. PICK pilot \in BOOLEAN :
              /\ r.task \in Elements(Scheduled(pilot))
              /\ \A t \in Elements(Scheduled(pilot)) : AttemptExists(generations, r.run, t)
        BY DEF IInv, FileInv, GradedAfterCoverage
    <3>2. \A t \in Elements(Scheduled(pilot)) : AttemptExists(generations', r.run, t)
        BY <1>3, <3>1 DEF AttemptExists
    <3> QED
        BY <3>1, <3>2
  <2>4. KeyOnce(trials') /\ (report' # None => Final(report)')
      BY DEF IInv, FileInv, KeyOnce, Final
  <2> QED
      BY <2>1, <2>2, <2>3, <2>4 DEF FileInv, KeyOnce, Names
<1>8. RunInv'
  <2> SUFFICES ASSUME ~overlap PROVE RunInv'
      BY DEF RunInv, bounds
  <2>1. \A q \in Processes : RunOf(q)'
      BY <1>4 DEF IInv, RunInv, RunOf, HasRun, AtTask, Grading
  <2>2. \A q, r \in Processes : {proc'[q].pc, proc'[r].pc} \subseteq GeneratePlaces => q = r
      BY <1>4 DEF IInv, RunInv, GeneratePlaces, AtTask
  <2>3. manifest # None /\ record.run = manifest.run
      BY <1>1 DEF IInv, RunInv, RunOf, HasRun, AtTask
  <2> QED
      BY <1>3, <2>1, <2>2, <2>3 DEF IInv, RunInv
<1>9. OrphanInv'
  <2> SUFFICES ASSUME stops = 0, NEW t \in Tasks, artifact[t] # None,
                      t \notin RecordedTasks(generations')
               PROVE  \E q \in Processes : proc'[q].pc \in AtTask /\ Task(q)' = t
      BY DEF OrphanInv, RecordedTasks, bounds
  <2>1. t # Task(p) /\ t \notin RecordedTasks(generations)
      BY <1>1, <1>3 DEF RecordedTasks
  <2>2. PICK q \in Processes : proc[q].pc \in AtTask /\ Task(q) = t
      BY <2>1 DEF IInv, OrphanInv
  <2>3. proc'[q] = proc[q]
      BY <1>4, <2>1, <2>2
  <2> QED
      BY <2>2, <2>3, SameTask
<1> QED
    BY <1>5, <1>6, <1>7, <1>8, <1>9 DEF IInv

LEMMA AppendGenerationKeeps == ASSUME IInv, NEW p \in Processes, AppendGeneration(p) PROVE IInv'
<1> DEFINE new == [proc[p] EXCEPT !.pc = "next", !.todo = @ \ {Task(p)}, !.draft = None]
<1>1. proc' = [proc EXCEPT ![p] = new]
    BY DEF AppendGeneration
<1>2. /\ new \in Memory /\ new.pc = "next" /\ new.stamp = proc[p].stamp /\ new.run = proc[p].run
      /\ new.pilot = proc[p].pilot /\ new.todo \subseteq proc[p].todo
    BY DEF IInv, TypeOK, Memory, Places
<1> HIDE DEF new
<1> QED
    BY <1>1, <1>2, RecordKeeps DEF AppendGeneration, At

LEMMA AppendCancelledKeeps == ASSUME IInv, NEW p \in Processes, AppendCancelled(p) PROVE IInv'
<1>1. Idle \in Memory /\ Idle.pc = "idle"
    BY RunDirectoryAssumption DEF Idle, Memory, Places
<1> QED
    BY <1>1, RecordKeeps DEF AppendCancelled, At, End

LEMMA AppendTrialKeeps == ASSUME IInv, NEW p \in Processes, AppendTrial(p) PROVE IInv'
<1> DEFINE record == proc[p].draft
           new == [proc[p] EXCEPT !.pc = "grade", !.todo = @ \ {Task(p)}, !.draft = None]
<1>1. /\ proc' = [proc EXCEPT ![p] = new] /\ proc[p].pc = "append_trial"
      /\ trials' = trials \union {record}
      /\ UNCHANGED <<manifest, generations, artifact, report>> /\ UNCHANGED bounds
    BY DEF AppendTrial, At
<1>2. /\ record \in Trial /\ record.run = proc[p].run /\ record.task = Task(p)
      /\ MemoryInv(p) /\ proc[p].run \in RunId /\ Task(p) \in Schedule(p)
    BY <1>1, TaskIsToDo DEF IInv, OwnInv, DraftInv, MemoryInv, HasRun, Grading
<1>3. \A r \in trials : ~Names(r, record.run, record.task)
    BY <1>2 DEF AppendTrial, AttemptExists, Names
<1>4. PICK g \in generations :
          /\ Names(g, record.run, record.task)
          /\ Faithful(record, g)
    BY <1>1, <1>2 DEF IInv, OwnInv, GradeInv
<1>5. /\ new \in Memory /\ new.pc = "grade" /\ new.run = proc[p].run /\ new.stamp = proc[p].stamp
      /\ new.pilot = proc[p].pilot /\ new.todo \subseteq proc[p].todo
    BY DEF IInv, TypeOK, Memory, Places
<1> HIDE DEF new, record
<1>6. /\ proc' \in [Processes -> Memory] /\ proc'[p] = new
      /\ \A q \in Processes \ {p} : proc'[q] = proc[q]
    BY <1>1, <1>5, Moved DEF IInv
<1>7. TypeOK'
    BY <1>1, <1>2, <1>6 DEF IInv, TypeOK, bounds
<1>8. Adds(trials, trials')
    BY <1>1, <1>3 DEF Adds
<1>9. ASSUME NEW q \in Processes PROVE OwnInv(q)'
  <2>1. CASE q = p
    <3>1. Schedule(p)' = Schedule(p)
        BY <1>5, <1>6 DEF Schedule, Scheduled
    <3>2. MemoryInv(p)' /\ DraftInv(p)' /\ GradeInv(p)'
        BY <1>1, <1>2, <1>5, <1>6, <3>1 DEF MemoryInv, DraftInv, GradeInv,
                      GeneratePlaces, AtTask, Grading, HasRun
    <3>3. CoverInv(p)'
        BY <1>1, <1>5, <1>6, <3>1 DEF IInv, OwnInv, CoverInv, Grading, AttemptExists
    <3> QED
        BY <2>1, <3>2, <3>3 DEF OwnInv
  <2>2. CASE q # p
    <3>1. OwnInv(q) /\ TypeOK /\ proc'[q] = proc[q] /\ generations \subseteq generations'
          /\ (raced => raced') /\ artifact' \in [Tasks -> Content]
        BY <1>1, <1>6, <2>2 DEF IInv, bounds, TypeOK
    <3> QED
        BY <1>1, <1>8, <3>1, OthersKept
  <2> QED
      BY <2>1, <2>2
<1>10. FileInv'
  <2>1. KeyOnce(trials')
      BY <1>1, <1>3 DEF IInv, FileInv, KeyOnce, Names
  <2>2. TrialInv'
      BY <1>1, <1>4 DEF IInv, FileInv, TrialInv, Faithful, Names, bounds
  <2>3. \E pilot \in BOOLEAN :
            /\ record.task \in Elements(Scheduled(pilot))
            /\ \A t \in Elements(Scheduled(pilot)) : AttemptExists(generations, record.run, t)
    <3>1. proc[p].pilot \in BOOLEAN
        BY DEF IInv, TypeOK, Memory
    <3> QED
        BY <1>1, <1>2, <3>1 DEF IInv, OwnInv, CoverInv, Grading, Schedule
  <2>4. GradedAfterCoverage'
      BY <1>1, <2>3 DEF IInv, FileInv, GradedAfterCoverage, AttemptExists
  <2>5. report' # None => Final(report)'
      BY <1>1, <1>8, FinalKept DEF IInv, FileInv, Final
  <2>6. KeyOnce(generations')
      BY <1>1 DEF IInv, FileInv, KeyOnce
  <2> QED
      BY <1>1, <2>1, <2>2, <2>4, <2>5, <2>6 DEF IInv, FileInv, KeyOnce, HasSaved, Names
<1>11. RunInv'
  <2> SUFFICES ASSUME ~overlap PROVE RunInv'
      BY <1>1 DEF RunInv, bounds
  <2>1. \A q \in Processes : RunOf(q)'
      BY <1>1, <1>5, <1>6 DEF IInv, RunInv, RunOf, HasRun, AtTask, Grading
  <2>2. \A q, r \in Processes : {proc'[q].pc, proc'[r].pc} \subseteq GeneratePlaces => q = r
      BY <1>1, <1>5, <1>6 DEF IInv, RunInv, GeneratePlaces, AtTask
  <2>3. manifest # None /\ record.run = manifest.run
      BY <1>1, <1>2 DEF IInv, RunInv, RunOf, HasRun, Grading
  <2> QED
      BY <1>1, <2>1, <2>2, <2>3 DEF IInv, RunInv
<1>12. OrphanInv'
  <2> SUFFICES ASSUME stops = 0, NEW t \in Tasks, artifact[t] # None,
                      t \notin RecordedTasks(generations)
               PROVE  \E q \in Processes : proc'[q].pc \in AtTask /\ Task(q)' = t
      BY <1>1 DEF OrphanInv, RecordedTasks, bounds
  <2>1. PICK q \in Processes : proc[q].pc \in AtTask /\ Task(q) = t
      BY DEF IInv, OrphanInv
  <2>2. proc'[q] = proc[q]
      BY <1>1, <1>6, <2>1 DEF AtTask
  <2> QED
      BY <2>1, <2>2, SameTask
<1> QED
    BY <1>7, <1>9, <1>10, <1>11, <1>12 DEF IInv

LEMMA PublishKeeps == ASSUME IInv, NEW p \in Processes, Publish(p) PROVE IInv'
<1>1. /\ proc' = [proc EXCEPT ![p] = Idle] /\ proc[p].pc = "publish" /\ report' = proc[p].draft
      /\ UNCHANGED <<manifest, generations, trials, artifact>> /\ UNCHANGED bounds
    BY DEF Publish, At, End
<1>2. proc[p].draft \in Report /\ Final(proc[p].draft)
    BY <1>1 DEF IInv, OwnInv, DraftInv
<1>3. Idle \in Memory /\ Idle.pc = "idle"
    BY RunDirectoryAssumption DEF Idle, Memory, Places
<1>4. /\ proc' \in [Processes -> Memory] /\ proc'[p] = Idle
      /\ \A q \in Processes \ {p} : proc'[q] = proc[q]
    BY <1>1, <1>3, Moved DEF IInv
<1>5. TypeOK'
    BY <1>1, <1>2, <1>4 DEF IInv, TypeOK, bounds
<1>6. ASSUME NEW q \in Processes PROVE OwnInv(q)'
  <2>1. CASE q = p
      BY <1>4, <2>1, IdleHasNothing
  <2>2. CASE q # p
      BY <1>1, <1>4, <1>5, <2>2, OthersKept DEF IInv, Adds, bounds, TypeOK
  <2> QED
      BY <2>1, <2>2
<1>7. FileInv'
    BY <1>1, <1>2 DEF IInv, FileInv, KeyOnce, TrialInv, Faithful, HasSaved, GradedAfterCoverage, Final, AttemptExists, bounds
<1>8. RunInv'
  <2> SUFFICES ASSUME ~overlap PROVE RunInv'
      BY <1>1 DEF RunInv, bounds
  <2>1. \A q \in Processes : RunOf(q)'
      BY <1>1, <1>3, <1>4 DEF IInv, RunInv, RunOf, HasRun, AtTask, Grading
  <2>2. \A q, r \in Processes : {proc'[q].pc, proc'[r].pc} \subseteq GeneratePlaces => q = r
      BY <1>3, <1>4 DEF IInv, RunInv, GeneratePlaces, AtTask
  <2> QED
      BY <1>1, <2>1, <2>2 DEF IInv, RunInv
<1>9. OrphanInv'
  <2> SUFFICES ASSUME stops = 0, NEW t \in Tasks, artifact[t] # None,
                      t \notin RecordedTasks(generations)
               PROVE  \E q \in Processes : proc'[q].pc \in AtTask /\ Task(q)' = t
      BY <1>1 DEF OrphanInv, RecordedTasks, bounds
  <2>1. PICK q \in Processes : proc[q].pc \in AtTask /\ Task(q) = t
      BY DEF IInv, OrphanInv
  <2>2. proc'[q] = proc[q]
      BY <1>1, <1>4, <2>1 DEF AtTask
  <2> QED
      BY <2>1, <2>2, SameTask
<1> QED
    BY <1>5, <1>6, <1>7, <1>8, <1>9 DEF IInv

----------------------------------------------------------------------------
LEMMA GenerateKeeps == ASSUME IInv, NEW p \in Processes, GenerateStep(p) PROVE IInv'
<1>1. CASE ManifestMissing(p)
    BY <1>1, ManifestMissingKeeps
<1>2. CASE ResumeManifest(p)
    BY <1>2, ResumeManifestKeeps
<1>3. CASE CreateManifest(p)
    BY <1>3, CreateManifestKeeps
<1>4. CASE LoadGenerations(p)
    BY <1>4, LoadGenerationsKeeps
<1>5. CASE NextTask(p)
    BY <1>5, NextTaskKeeps
<1>6. CASE WriteArtifacts(p)
    BY <1>6, WriteArtifactsKeeps
<1>7. CASE AttemptEnds(p)
    BY <1>7, AttemptEndsKeeps
<1>8. CASE AttemptRaises(p)
    BY <1>8, AttemptRaisesKeeps
<1>9. CASE AppendGeneration(p)
    BY <1>9, AppendGenerationKeeps
<1>10. CASE AppendCancelled(p)
    BY <1>10, AppendCancelledKeeps
<1>11. CASE \/ RefuseManifest(p) \/ RefuseGenerations(p) \/ RefuseOrphan(p) \/ FinishGenerate(p)
            \/ RefuseGeneration(p)
    BY <1>11, EndingsKeep
<1> QED
    BY <1>1, <1>2, <1>3, <1>4, <1>5, <1>6, <1>7, <1>8, <1>9, <1>10, <1>11 DEF GenerateStep

LEMMA EvaluateKeeps == ASSUME IInv, NEW p \in Processes, EvaluateStep(p) PROVE IInv'
<1>1. CASE LoadManifest(p, "evaluate", "coverage")
    BY <1>1, LoadManifestKeeps
<1>2. CASE CheckCoverage(p)
    BY <1>2, CheckCoverageKeeps
<1>3. CASE LoadTrials(p)
    BY <1>3, LoadTrialsKeeps
<1>4. CASE CopyOutcome(p)
    BY <1>4, CopyOutcomeKeeps
<1>5. CASE CheckHash(p)
    BY <1>5, CheckHashKeeps
<1>6. CASE GradeSaved(p)
    BY <1>6, GradeSavedKeeps
<1>7. CASE AppendTrial(p)
    BY <1>7, AppendTrialKeeps
<1>8. CASE NoManifest(p) \/ FinishEvaluate(p) \/ RefuseTrial(p)
    BY <1>8, EndingsKeep
<1>9. CASE VerifierWrites(p)
    BY <1>9, VerifierWritesKeeps
<1> QED
    BY <1>1, <1>2, <1>3, <1>4, <1>5, <1>6, <1>7, <1>8, <1>9 DEF EvaluateStep

LEMMA ReportKeeps == ASSUME IInv, NEW p \in Processes, ReportStep(p) PROVE IInv'
<1>1. CASE LoadManifest(p, "report", "metrics")
    BY <1>1, LoadManifestKeeps
<1>2. CASE NoManifest(p)
    BY <1>2, EndingsKeep
<1>3. CASE ComputeMetrics(p)
    BY <1>3, ComputeMetricsKeeps
<1>4. CASE Publish(p)
    BY <1>4, PublishKeeps
<1> QED
    BY <1>1, <1>2, <1>3, <1>4 DEF ReportStep

LEMMA NextKeeps == ASSUME IInv, [Next]_vars PROVE IInv'
<1>1. CASE Begin
    BY <1>1, BeginKeeps
<1>2. ASSUME NEW p \in Processes, Work(p) PROVE IInv'
    BY <1>2, GenerateKeeps, EvaluateKeeps, ReportKeeps DEF Work
<1>3. ASSUME NEW p \in Processes, Stop(p) PROVE IInv'
    BY <1>3, StopKeeps
<1>4. ASSUME NEW p \in Generators, AttemptInterrupted(p) PROVE IInv'
    BY <1>4, AttemptInterruptedKeeps DEF Processes
<1>5. CASE UNCHANGED vars
  <2> USE <1>5 DEF vars
  <2>1. TypeOK'
      BY DEF IInv, TypeOK
  <2>2. \A q \in Processes : Task(q)' = Task(q) /\ Schedule(q)' = Schedule(q)
      BY SameTask
  <2>3. \A q \in Processes : OwnInv(q)'
      BY <2>1, OthersKept DEF IInv, Adds, TypeOK
  <2>4. FileInv'
      BY DEF IInv, FileInv, KeyOnce, TrialInv, Faithful, HasSaved, GradedAfterCoverage, Final, AttemptExists
  <2>5. RunInv' /\ OrphanInv'
      BY <2>2 DEF IInv, RunInv, RunOf, OrphanInv, RecordedTasks
  <2> QED
      BY <2>1, <2>3, <2>4, <2>5 DEF IInv
<1> QED
    BY <1>1, <1>2, <1>3, <1>4, <1>5 DEF Next

LEMMA Inductive == Spec => []IInv
BY InitIInv, NextKeeps, PTL DEF Spec

----------------------------------------------------------------------------
\* The parts of the types of a run directory and of what its commands remember fit.
THEOREM TypeCorrect == Spec => []TypeOK
BY Inductive, PTL DEF IInv

\* Without overlapping generations there is one run, the manifest's, whatever is resumed,
\* interrupted, killed, evaluated and reported in between.
THEOREM OneRun == Spec => []OneRunPerDirectory
<1>1. IInv => OneRunPerDirectory
    BY DEF IInv, RunInv, OneRunPerDirectory
<1> QED
    BY <1>1, Inductive, PTL

\* An attempt that raised or was interrupted is in the journal: only a kill, or an interrupt
\* elsewhere, can leave artifacts that are in the way of --resume.
THEOREM FailureIsJournaled == Spec => []FailedAttemptIsJournaled
<1>1. ASSUME IInv PROVE FailedAttemptIsJournaled
  <2> SUFFICES ASSUME stops = 0, NEW t \in Tasks, artifact[t] # None,
                      t \notin RecordedTasks(generations)
               PROVE  \E p \in Generators : proc[p].pc \in AtTask /\ Task(p) = t
      BY DEF FailedAttemptIsJournaled, Orphaned, AtTask
  <2>1. PICK p \in Processes : proc[p].pc \in AtTask /\ Task(p) = t
      BY <1>1 DEF IInv, OrphanInv
  <2>2. p \in Generators
      BY <1>1, <2>1 DEF IInv, OwnInv, MemoryInv, GeneratePlaces
  <2> QED
      BY <2>1, <2>2
<1> QED
    BY <1>1, Inductive, PTL

\* Grading starts when a whole schedule is generated, however many evaluations there are.
THEOREM CoverageComesFirst == Spec => []GradedAfterCoverage
BY Inductive, PTL DEF IInv, FileInv

\* Nothing that is started after a report was published contradicts it.
THEOREM ReportStays == Spec => []ReportIsFinal
<1>1. ASSUME IInv PROVE ReportIsFinal
  <2> SUFFICES ASSUME report # None, NEW t \in DOMAIN report.status
               PROVE  {r.status : r \in {x \in trials : x.run = report.run /\ x.task = t}}
                          = {report.status[t]}
      BY DEF ReportIsFinal
  <2>1. Final(report)
      BY <1>1 DEF IInv, FileInv
  <2> DEFINE S == {x \in trials : x.run = report.run /\ x.task = t}
  <2>2. S # {} /\ \A x \in S : x.status = report.status[t]
      BY <2>1 DEF Final
  <2> QED
      BY <2>2
<1> QED
    BY <1>1, Inductive, PTL

----------------------------------------------------------------------------
\* What is on disk and what is recorded of it.

Holding == {"task", "append", "append_and_raise"}

\* A task that is begun has saved nothing, a hash to be recorded is that of the file, and
\* no file changes between its check and its reading.
HoldInv(p) ==
    /\ proc[p].pc = "task" => artifact[Task(p)] = None
    /\ proc[p].pc \in {"append", "append_and_raise"} /\ proc[p].draft.hash # None =>
           artifact[Task(p)] = proc[p].draft.hash

RecordsNameFiles == \A r \in generations : r.hash # None => artifact[r.task] = r.hash

SavedInv ==
    ~overlap /\ ChecksHash => RecordsNameFiles /\ ~raced /\ \A p \in Processes : HoldInv(p)

\* Step p leaves the memory of the others alone.
OnlyBy(p) == \A q \in Processes \ {p} : proc'[q] = proc[q]

LEMMA HoldKept ==
    ASSUME NEW q \in Processes, HoldInv(q), proc'[q] = proc[q], UNCHANGED artifact
    PROVE  HoldInv(q)'
BY SameTask DEF HoldInv

LEMMA QuietKeeps ==
    ASSUME SavedInv, NEW p \in Processes, OnlyBy(p), UNCHANGED <<artifact, generations, raced>>,
           overlap => overlap', ~overlap' /\ ChecksHash => HoldInv(p)'
    PROVE  SavedInv'
<1> SUFFICES ASSUME ~overlap', ChecksHash
             PROVE  RecordsNameFiles' /\ ~raced' /\ \A q \in Processes : HoldInv(q)'
    BY DEF SavedInv
<1>0. ~raced'
    BY DEF SavedInv
<1>1. RecordsNameFiles'
    BY DEF SavedInv, RecordsNameFiles
<1>2. ASSUME NEW q \in Processes \ {p} PROVE HoldInv(q)'
    BY HoldKept DEF SavedInv, OnlyBy
<1> QED
    BY <1>0, <1>1, <1>2

LEMMA NotHolding ==
    ASSUME NEW p \in Processes, proc'[p].pc \notin Holding
    PROVE  HoldInv(p)'
BY DEF HoldInv, Holding

LEMMA GoesElsewhere ==
    ASSUME TypeOK, NEW p \in Processes, NEW new, new.pc \notin Holding,
           proc' = [proc EXCEPT ![p] = new]
    PROVE  OnlyBy(p) /\ HoldInv(p)'
<1>1. OnlyBy(p) /\ proc'[p] = new
    BY DEF TypeOK, OnlyBy
<1> QED
    BY <1>1, NotHolding

LEMMA EndsElsewhere == ASSUME TypeOK, NEW p \in Processes, End(p) PROVE OnlyBy(p) /\ HoldInv(p)'
<1>1. Idle.pc \notin Holding
    BY DEF Idle, Holding
<1> QED
    BY <1>1, GoesElsewhere DEF End

LEMMA GotoElsewhere ==
    ASSUME TypeOK, NEW p \in Processes, NEW place \in Places, Goto(p, place)
    PROVE  OnlyBy(p) /\ (place \notin Holding => HoldInv(p)')
<1>1. OnlyBy(p)
    BY DEF Goto, TypeOK, OnlyBy
<1>2. proc'[p].pc = place
    BY GotoEffect
<1> QED
    BY <1>1, <1>2, NotHolding

\* As long as generations do not overlap, one that works has the directory to itself.
LEMMA Alone ==
    ASSUME IInv, ~overlap, NEW p \in Processes, NEW q \in Processes,
           proc[p].pc \in AtTask, proc[q].pc \in AtTask
    PROVE  q = p
BY DEF IInv, RunInv, GeneratePlaces

LEMMA BeginSaves == ASSUME IInv, SavedInv, Begin PROVE SavedInv' /\ artifact' = artifact
<1>1. ASSUME NEW p \in Processes, NEW place \in {"manifest", "evaluate", "report"},
             NEW pilot \in BOOLEAN, NEW resume \in BOOLEAN, Start(p, place, pilot, resume),
             overlap => overlap'
      PROVE  SavedInv' /\ artifact' = artifact
  <2> DEFINE new == [Idle EXCEPT !.pc = place, !.stamp = starts + 1, !.pilot = pilot,
                                 !.resume = resume]
  <2>1. proc' = [proc EXCEPT ![p] = new] /\ new.pc \notin Holding /\ UNCHANGED <<artifact, generations, raced>>
      BY <1>1 DEF Start, files, Idle, Holding
  <2> HIDE DEF new
  <2>2. OnlyBy(p) /\ HoldInv(p)'
      BY <2>1, GoesElsewhere DEF IInv
  <2> QED
      BY <1>1, <2>1, <2>2, QuietKeeps
<1>2. ASSUME NEW p \in Generators, NEW pilot \in BOOLEAN, NEW resume \in BOOLEAN,
             StartGenerate(p, pilot, resume)
      PROVE  SavedInv' /\ artifact' = artifact
    BY <1>1, <1>2 DEF StartGenerate, Processes
<1>3. ASSUME NEW p \in Evaluators, StartEvaluate(p) PROVE SavedInv' /\ artifact' = artifact
    BY <1>1, <1>3 DEF StartEvaluate, Processes
<1>4. ASSUME NEW p \in Reporters, StartReport(p) PROVE SavedInv' /\ artifact' = artifact
    BY <1>1, <1>4 DEF StartReport, Processes
<1> QED
    BY <1>2, <1>3, <1>4 DEF Begin

LEMMA EndSaves ==
    ASSUME IInv, SavedInv, NEW p \in Processes, End(p),
           UNCHANGED <<artifact, generations, overlap, raced>>
    PROVE  SavedInv'
BY EndsElsewhere, QuietKeeps DEF IInv

LEMMA GoSaves ==
    ASSUME IInv, SavedInv, NEW p \in Processes, NEW new, new.pc \notin Holding,
           proc' = [proc EXCEPT ![p] = new], UNCHANGED <<artifact, generations, overlap, raced>>
    PROVE  SavedInv'
BY GoesElsewhere, QuietKeeps DEF IInv

LEMMA GotoSaves ==
    ASSUME IInv, SavedInv, NEW p \in Processes, NEW place \in Places \ Holding, Goto(p, place),
           UNCHANGED <<artifact, generations, overlap, raced>>
    PROVE  SavedInv'
BY GotoElsewhere, QuietKeeps DEF IInv

\* The record is of the file as it is, or of no file.
LEMMA DraftSaves ==
    ASSUME IInv, SavedInv, NEW p \in Processes, NEW place \in {"append", "append_and_raise"},
           NEW status, NEW hash \in {artifact[Task(p)], None}, Draft(p, place, status, hash),
           UNCHANGED <<artifact, generations, overlap, raced>>
    PROVE  SavedInv'
<1> DEFINE new == [proc[p] EXCEPT !.pc = place,
                                  !.draft = [run |-> proc[p].run, task |-> Task(p),
                                             status |-> status, hash |-> hash]]
<1>1. proc' = [proc EXCEPT ![p] = new]
    BY DEF Draft
<1>2. proc[p] \in Memory
    BY DEF IInv, TypeOK
<1>3. /\ new.pc = place /\ new.draft.hash = hash
      /\ new.todo = proc[p].todo /\ new.pilot = proc[p].pilot
    BY <1>2 DEF Memory
<1> HIDE DEF new
<1>4. OnlyBy(p) /\ proc'[p] = new
    BY <1>1 DEF IInv, TypeOK, OnlyBy
<1>5. Task(p)' = Task(p)
    BY <1>3, <1>4, SameTask
<1>6. HoldInv(p)'
    BY <1>3, <1>4, <1>5 DEF HoldInv
<1> QED
    BY <1>4, <1>6, QuietKeeps

LEMMA NextTaskSaves == ASSUME IInv, SavedInv, NEW p \in Processes, NextTask(p) PROVE SavedInv'
<1>1. Goto(p, "task") /\ "task" \in Places /\ artifact[Task(p)] = None
      /\ UNCHANGED <<artifact, generations, overlap, raced>>
    BY DEF NextTask, Places, files, bounds
<1>2. proc'[p].pc = "task" /\ Task(p)' = Task(p)
    BY <1>1, GotoEffect DEF IInv
<1>3. OnlyBy(p)
    BY <1>1, GotoElsewhere DEF IInv
<1>4. HoldInv(p)'
    BY <1>1, <1>2 DEF HoldInv
<1> QED
    BY <1>1, <1>3, <1>4, QuietKeeps

Stays ==
    ~overlap' => \A t \in Tasks : artifact[t] # None => artifact'[t] = artifact[t] \/ Verified(t)

\* Nobody else holds a task, and no record of this one names a file.
LEMMA WriteSaves ==
    ASSUME IInv, SavedInv, NEW p \in Processes, WriteArtifacts(p)
    PROVE  SavedInv' /\ Stays
<1> SUFFICES ASSUME ~overlap' PROVE SavedInv' /\ Stays
    BY DEF SavedInv, Stays
<1>1. /\ ~overlap /\ proc[p].pc = "task" /\ Goto(p, "written") /\ generations' = generations
      /\ artifact' = [artifact EXCEPT ![Task(p)] = proc[p].stamp]
    BY DEF WriteArtifacts, At
<1>2. artifact[Task(p)] = None
  <2>1. CASE ChecksHash
      BY <1>1, <2>1 DEF SavedInv, HoldInv
  <2>2. CASE ~ChecksHash
      BY <2>2 DEF ChecksHash, Containers, WriteArtifacts
  <2> QED
      BY <2>1, <2>2
<1>3. \A t \in Tasks : artifact[t] # None => artifact'[t] = artifact[t]
    BY <1>1, <1>2 DEF IInv, TypeOK
<1> SUFFICES ASSUME ChecksHash
             PROVE  RecordsNameFiles' /\ ~raced' /\ \A q \in Processes : HoldInv(q)'
    BY <1>3 DEF SavedInv, Stays
<1>4. RecordsNameFiles'
  <2> SUFFICES ASSUME NEW r \in generations, r.hash # None PROVE artifact'[r.task] = r.hash
      BY <1>1 DEF RecordsNameFiles
  <2>1. r.task \in Tasks
      BY DEF IInv, TypeOK, Generation
  <2>2. artifact[r.task] = r.hash
      BY <1>1 DEF SavedInv, RecordsNameFiles
  <2> QED
      BY <1>3, <2>1, <2>2
<1>5. OnlyBy(p) /\ HoldInv(p)'
    BY <1>1, GotoElsewhere DEF IInv, Places, Holding
<1>6. ASSUME NEW q \in Processes \ {p} PROVE HoldInv(q)'
  <2>1. proc[q].pc \notin Holding
      BY <1>1, Alone DEF AtTask, Holding
  <2> QED
      BY <1>5, <2>1, NotHolding DEF OnlyBy
<1>7. ~raced'
  <2>1. ~raced
      BY <1>1 DEF SavedInv
  <2>2. ASSUME NEW e \in Evaluators, At(e, "read"), Task(e) = Task(p) PROVE FALSE
    <3>1. PICK g \in generations : g.task = Task(e) /\ g.status \in Graded
        BY <2>2 DEF IInv, OwnInv, GradeInv, Names, At, Processes
    <3> QED
        BY <1>2, <2>2, <3>1 DEF IInv, FileInv, HasSaved
  <2> QED
      BY <2>1, <2>2 DEF WriteArtifacts
<1> QED
    BY <1>4, <1>5, <1>6, <1>7

LEMMA AppendSaves ==
    ASSUME IInv, SavedInv, NEW p \in Processes, AppendGeneration(p) \/ AppendCancelled(p)
    PROVE  SavedInv'
<1> DEFINE record == proc[p].draft
<1>1. /\ proc[p].pc \in {"append", "append_and_raise"} /\ UNCHANGED <<artifact, overlap, raced>>
      /\ generations' = generations \union {record}
    BY DEF AppendGeneration, AppendCancelled, At, bounds
<1>2. record.task = Task(p)
    BY <1>1 DEF IInv, OwnInv, DraftInv
<1>3. OnlyBy(p) /\ HoldInv(p)'
  <2>1. CASE AppendGeneration(p)
    <3> DEFINE new == [proc[p] EXCEPT !.pc = "next", !.todo = @ \ {Task(p)}, !.draft = None]
    <3>1. proc' = [proc EXCEPT ![p] = new]
        BY <2>1 DEF AppendGeneration
    <3>2. new.pc \notin Holding
        BY DEF IInv, TypeOK, Memory, Holding
    <3> HIDE DEF new
    <3> QED
        BY <3>1, <3>2, GoesElsewhere DEF IInv
  <2>2. CASE AppendCancelled(p)
      BY <2>2, EndsElsewhere DEF IInv, AppendCancelled
  <2> QED
      BY <2>1, <2>2
<1> HIDE DEF record
<1> SUFFICES ASSUME ~overlap, ChecksHash
             PROVE  RecordsNameFiles' /\ \A q \in Processes : HoldInv(q)'
    BY <1>1 DEF SavedInv
<1>4. RecordsNameFiles'
    BY <1>1, <1>2 DEF SavedInv, RecordsNameFiles, HoldInv, record
<1>5. ASSUME NEW q \in Processes \ {p} PROVE HoldInv(q)'
    BY <1>1, <1>3, HoldKept DEF SavedInv, OnlyBy
<1> QED
    BY <1>3, <1>4, <1>5

LEMMA LoadSaves ==
    ASSUME IInv, SavedInv, NEW p \in Processes, ResumeManifest(p) \/ CreateManifest(p) \/ LoadGenerations(p)
    PROVE  SavedInv' /\ artifact' = artifact
<1>1. UNCHANGED <<artifact, generations, overlap, raced>>
    BY DEF ResumeManifest, CreateManifest, LoadGenerations, files, bounds
<1>2. proc \in [Processes -> Memory]
    BY DEF IInv, TypeOK
<1>3. OnlyBy(p) /\ proc'[p].pc \notin Holding
  <2>1. CASE ResumeManifest(p)
      BY <1>2, <2>1 DEF ResumeManifest, Memory, OnlyBy, Holding
  <2>2. CASE CreateManifest(p)
      BY <1>2, <2>2 DEF CreateManifest, Memory, OnlyBy, Holding
  <2>3. CASE LoadGenerations(p)
      BY <1>2, <2>3 DEF LoadGenerations, Memory, OnlyBy, Holding
  <2> QED
      BY <2>1, <2>2, <2>3
<1> QED
    BY <1>1, <1>3, NotHolding, QuietKeeps

LEMMA GenerateSaves ==
    ASSUME IInv, SavedInv, NEW p \in Processes, GenerateStep(p) PROVE SavedInv' /\ Stays
<1>1. CASE ManifestMissing(p)
    BY <1>1, GotoSaves DEF ManifestMissing, Places, Holding, files, bounds, Stays
<1>2. CASE ResumeManifest(p) \/ CreateManifest(p) \/ LoadGenerations(p)
    BY <1>2, LoadSaves DEF Stays
<1>3. CASE NextTask(p)
    BY <1>3, NextTaskSaves DEF NextTask, files, Stays
<1>4. CASE WriteArtifacts(p)
    BY <1>4, WriteSaves
<1>5. CASE AttemptEnds(p)
  <2>1. PICK s \in Endings : Draft(p, "append", s, artifact[Task(p)])
      BY <1>5 DEF AttemptEnds
  <2> QED
      BY <1>5, <2>1, DraftSaves DEF AttemptEnds, files, bounds, Stays
<1>6. CASE AttemptRaises(p)
    BY <1>6, DraftSaves DEF AttemptRaises, files, bounds, Stays
<1>7. CASE AppendGeneration(p) \/ AppendCancelled(p)
  <2>1. artifact' = artifact
      BY <1>7 DEF AppendGeneration, AppendCancelled
  <2> QED
      BY <1>7, <2>1, AppendSaves DEF Stays
<1>8. CASE \/ RefuseManifest(p) \/ RefuseGenerations(p) \/ RefuseOrphan(p) \/ FinishGenerate(p)
           \/ RefuseGeneration(p)
  <2>1. End(p) /\ UNCHANGED <<artifact, generations, overlap, raced>>
      BY <1>8 DEF RefuseManifest, RefuseGenerations, RefuseOrphan, FinishGenerate,
                  RefuseGeneration, files, bounds
  <2> QED
      BY <2>1, EndSaves DEF Stays
<1> QED
    BY <1>1, <1>2, <1>3, <1>4, <1>5, <1>6, <1>7, <1>8 DEF GenerateStep

LEMMA VerifierSaves ==
    ASSUME IInv, SavedInv, NEW p \in Processes, VerifierWrites(p) PROVE SavedInv' /\ Stays
<1>1. ~ChecksHash /\ proc[p].pc = "read" /\ artifact' = [artifact EXCEPT ![Task(p)] = Touched]
    BY DEF VerifierWrites, At
<1>2. p \in Evaluators
    BY <1>1 DEF IInv, OwnInv, MemoryInv, Grading
<1>3. \A t \in Tasks : artifact'[t] = artifact[t] \/ Verified(t)
    BY <1>1, <1>2 DEF IInv, TypeOK, Verified, At
<1> QED
    BY <1>1, <1>3 DEF SavedInv, Stays

LEMMA EvaluateSaves ==
    ASSUME IInv, SavedInv, NEW p \in Processes, EvaluateStep(p) \/ ReportStep(p), ~VerifierWrites(p)
    PROVE  SavedInv' /\ Stays
<1>1. UNCHANGED <<artifact, generations, overlap, raced>>
    BY DEF EvaluateStep, ReportStep, LoadManifest, NoManifest, CheckCoverage, LoadTrials,
           FinishEvaluate, CopyOutcome, CheckHash, GradeSaved, AppendTrial, RefuseTrial,
           ComputeMetrics, Publish, files, bounds
<1>2. proc \in [Processes -> Memory]
    BY DEF IInv, TypeOK
<1>3. ASSUME End(p) PROVE SavedInv'
    BY <1>1, <1>3, EndSaves
<1>4. ASSUME NEW place \in {"trials", "read"}, Goto(p, place) PROVE SavedInv'
    BY <1>1, <1>4, GotoSaves DEF Places, Holding
<1>5. ASSUME NEW status, NEW graded, DraftTrial(p, status, graded) PROVE SavedInv'
  <2>1. OnlyBy(p) /\ proc'[p].pc \notin Holding
      BY <1>2, <1>5 DEF DraftTrial, Memory, OnlyBy, Holding
  <2> QED
      BY <1>1, <2>1, NotHolding, QuietKeeps
<1>6. ASSUME NEW from, NEW to \in {"coverage", "metrics"}, LoadManifest(p, from, to) PROVE SavedInv'
  <2>1. OnlyBy(p) /\ proc'[p].pc \notin Holding
      BY <1>2, <1>6 DEF LoadManifest, Memory, OnlyBy, Holding
  <2> QED
      BY <1>1, <2>1, NotHolding, QuietKeeps
<1>7. ASSUME LoadTrials(p) \/ AppendTrial(p) \/ ComputeMetrics(p) PROVE SavedInv'
  <2>1. CASE End(p)
      BY <1>3, <2>1
  <2>2. CASE ~End(p)
    <3>1. OnlyBy(p) /\ proc'[p].pc \notin Holding
      <4>1. CASE LoadTrials(p)
          BY <1>2, <2>2, <4>1 DEF LoadTrials, Memory, OnlyBy, Holding
      <4>2. CASE AppendTrial(p)
          BY <1>2, <4>2 DEF AppendTrial, Memory, OnlyBy, Holding
      <4>3. CASE ComputeMetrics(p)
          BY <1>2, <2>2, <4>3 DEF ComputeMetrics, Memory, OnlyBy, Holding
      <4> QED
          BY <1>7, <4>1, <4>2, <4>3
    <3> QED
        BY <1>1, <3>1, NotHolding, QuietKeeps
  <2> QED
      BY <2>1, <2>2
<1>8. ASSUME CheckCoverage(p) \/ CheckHash(p) PROVE SavedInv'
    BY <1>3, <1>4, <1>8 DEF CheckCoverage, CheckHash
<1>9. ASSUME CopyOutcome(p) \/ GradeSaved(p) PROVE SavedInv'
    BY <1>5, <1>9 DEF CopyOutcome, GradeSaved
<1>10. ASSUME NoManifest(p) \/ FinishEvaluate(p) \/ RefuseTrial(p) \/ Publish(p) PROVE SavedInv'
    BY <1>3, <1>10 DEF NoManifest, FinishEvaluate, RefuseTrial, Publish
<1>11. SavedInv'
    BY <1>6, <1>7, <1>8, <1>9, <1>10 DEF EvaluateStep, ReportStep
<1> QED
    BY <1>1, <1>11 DEF Stays

LEMMA NextSaves == ASSUME IInv, SavedInv, [Next]_vars PROVE SavedInv' /\ Stays
<1>1. CASE Begin
    BY <1>1, BeginSaves DEF Stays
<1>2. ASSUME NEW p \in Processes, Work(p) PROVE SavedInv' /\ Stays
    BY <1>2, GenerateSaves, EvaluateSaves, VerifierSaves DEF Work
<1>3. ASSUME NEW p \in Processes, Stop(p) PROVE SavedInv' /\ Stays
    BY <1>3, EndSaves DEF Stop, files, bounds, Stays
<1>4. ASSUME NEW p \in Generators, AttemptInterrupted(p) PROVE SavedInv' /\ Stays
    BY <1>4, DraftSaves DEF AttemptInterrupted, files, Stays, Processes
<1>5. CASE UNCHANGED vars
  <2>1. \A q \in Processes : Task(q)' = Task(q)
      BY <1>5, SameTask DEF vars
  <2> QED
      BY <1>5, <2>1 DEF vars, SavedInv, RecordsNameFiles, HoldInv, Stays
<1> QED
    BY <1>1, <1>2, <1>3, <1>4, <1>5 DEF Next

LEMMA SavedInductive == Spec => [](IInv /\ SavedInv)
<1>1. Init => SavedInv
    BY DEF Init, Idle, SavedInv, RecordsNameFiles, HoldInv
<1>2. IInv /\ SavedInv /\ [Next]_vars => SavedInv'
    BY NextSaves
<1> QED
    BY <1>1, <1>2, Inductive, PTL DEF Spec

\* In the suites that compare hashes, every verdict on a saved answer is about the content
\* that was journaled; only two generations at once could write a file between its hash and
\* its reading, and while they do not overlap nothing does.
THEOREM GradedIsJournaled == Spec => []GradedWhatWasSaved
<1>1. ASSUME IInv, SavedInv PROVE GradedWhatWasSaved
  <2> SUFFICES ASSUME ChecksHash, overlap => ~raced, NEW r \in trials,
                      GenerationOf(r.run, r.task).status \in Graded
               PROVE  r.graded = GenerationOf(r.run, r.task).hash
      BY DEF GradedWhatWasSaved, Graded
  <2>1. ~raced
      BY <1>1 DEF SavedInv
  <2>2. PICK g \in generations : Names(g, r.run, r.task) /\ Faithful(r, g)
      BY <1>1 DEF IInv, FileInv, TrialInv
  <2>3. GenerationOf(r.run, r.task) = g
      BY <1>1, <2>2, SavedIs DEF IInv, FileInv
  <2> QED
      BY <2>1, <2>2, <2>3 DEF Faithful
<1> QED
    BY <1>1, SavedInductive, PTL

\* What an attempt saved is neither made again nor lost, for any number of kills, interrupts
\* and resumes, as long as two generations do not overlap; a verifier of terminal-bench may
\* change what it grades.
THEOREM SavedIsKept == Spec => SavedStays
<1>1. IInv /\ SavedInv /\ [Next]_vars => [Stays]_vars
    BY NextSaves
<1>2. ASSUME [Stays]_vars
      PROVE  [~overlap' => \A t \in Tasks :
                 artifact[t] # None => artifact'[t] = artifact[t] \/ Verified(t)]_vars
    BY <1>2 DEF Stays
<1> QED
    BY <1>1, <1>2, SavedInductive, PTL DEF Spec, SavedStays

\* The hash in a record is that of the file it was taken from, then and ever after, as long
\* as two generations do not overlap: no evaluation of a suite that compares hashes finds a
\* changed artifact.
THEOREM RecordsStayTrue == Spec => [](~overlap /\ ChecksHash => RecordsNameFiles)
BY SavedInductive, PTL DEF SavedInv

----------------------------------------------------------------------------
\* The ledger: a record is an entry, and a new key is an open attempt.

Entry(r) == <<<<r.run, r.task>>, r.status>>

LEMMA EntryAdded ==
    ASSUME NEW records, NEW r, \A x \in records : ~Names(x, r.run, r.task)
    PROVE  /\ Entries(records \union {r}) = Entries(records) \union {Entry(r)}
           /\ Ledger!Open(Entries(records), Entry(r)[1])
           /\ Entry(r) \notin Entries(records)
<1>1. Ledger!Open(Entries(records), Entry(r)[1])
    BY DEF Entries, Entry, Names, Ledger!Open
<1>2. Entry(r) \notin Entries(records)
    BY <1>1 DEF Ledger!Open
<1> QED
    BY <1>1, <1>2 DEF Entries, Entry

LEMMA GenerationRecorded ==
    ASSUME IInv, NEW p \in Processes, AppendGeneration(p) \/ AppendCancelled(p)
    PROVE  Ledger!Next
<1> DEFINE record == proc[p].draft
<1>1. /\ generations' = generations \union {record} /\ trials' = trials /\ ~Duplicate(p)
      /\ proc[p].pc \in {"append", "append_and_raise"}
    BY DEF AppendGeneration, AppendCancelled, At
<1>2. record \in Generation /\ record.run = proc[p].run /\ record.task = Task(p)
    BY <1>1 DEF IInv, OwnInv, DraftInv
<1> HIDE DEF record
<1>3. \A x \in generations : ~Names(x, record.run, record.task)
    BY <1>1, <1>2 DEF Duplicate, AttemptExists, Names
<1>4. /\ Entries(generations') = Entries(generations) \union {Entry(record)}
      /\ Ledger!Open(Entries(generations), Entry(record)[1])
      /\ Entry(record) \in Entries(generations') \ Entries(generations)
  <2>1. /\ Entries(generations \union {record}) = Entries(generations) \union {Entry(record)}
        /\ Ledger!Open(Entries(generations), Entry(record)[1])
        /\ Entry(record) \notin Entries(generations)
      BY <1>3, EntryAdded
  <2> QED
      BY <1>1, <2>1
<1>5. Entry(record)[2] \in Ledger!Outcomes
    BY <1>2 DEF Entry, Generation, Outcomes, Ledger!Outcomes
<1>6. Ledger!Record(Entry(record))
    BY <1>1, <1>4, <1>5 DEF Ledger!Record
<1> QED
    BY <1>4, <1>6 DEF Ledger!Next

LEMMA TrialGraded == ASSUME IInv, NEW p \in Processes, AppendTrial(p) PROVE Ledger!Next
<1> DEFINE record == proc[p].draft
<1>1. /\ trials' = trials \union {record} /\ generations' = generations
      /\ proc[p].pc = "append_trial" /\ ~AttemptExists(trials, proc[p].run, Task(p))
    BY DEF AppendTrial, At
<1>2. record \in Trial /\ record.run = proc[p].run /\ record.task = Task(p)
    BY <1>1 DEF IInv, OwnInv, DraftInv
<1>3. PICK g \in generations :
          Names(g, proc[p].run, Task(p)) /\ record.status \in Ledger!Allowed(g.status)
    BY <1>1 DEF IInv, OwnInv, GradeInv
<1> HIDE DEF record
<1>4. \A x \in trials : ~Names(x, record.run, record.task)
    BY <1>1, <1>2 DEF AttemptExists, Names
<1>5. /\ Entries(trials') = Entries(trials) \union {Entry(record)}
      /\ Ledger!Open(Entries(trials), Entry(record)[1])
      /\ Entry(record) \in Entries(trials') \ Entries(trials)
  <2>1. /\ Entries(trials \union {record}) = Entries(trials) \union {Entry(record)}
        /\ Ledger!Open(Entries(trials), Entry(record)[1])
        /\ Entry(record) \notin Entries(trials)
      BY <1>4, EntryAdded
  <2> QED
      BY <1>1, <2>1
<1>6. Entry(g) \in Entries(generations) /\ Entry(g)[1] = Entry(record)[1]
      /\ Entry(record)[2] \in Ledger!Allowed(Entry(g)[2])
    BY <1>2, <1>3 DEF Entry, Entries, Names
<1>7. Ledger!Grade(Entry(record))
    BY <1>1, <1>5, <1>6 DEF Ledger!Grade
<1> QED
    BY <1>5, <1>7 DEF Ledger!Next

LEMMA LedgerStep ==
    ASSUME IInv, [Next]_vars PROVE [Ledger!Next]_<<Entries(generations), Entries(trials)>>
<1> SUFFICES ASSUME <<generations, trials>>' # <<generations, trials>> PROVE Ledger!Next
    OBVIOUS
<1>1. ASSUME Begin PROVE FALSE
    BY <1>1 DEF Begin, StartGenerate, StartEvaluate, StartReport, Start, files
<1>2. ASSUME NEW p \in Processes, Stop(p) PROVE FALSE
    BY <1>2 DEF Stop, files
<1>3. ASSUME NEW p, AttemptInterrupted(p) PROVE FALSE
    BY <1>3 DEF AttemptInterrupted, files
<1>4. ASSUME NEW p \in Processes, GenerateStep(p) PROVE Ledger!Next
    BY <1>4, GenerationRecorded
       DEF GenerateStep, ManifestMissing, ResumeManifest, RefuseManifest, CreateManifest,
           LoadGenerations, RefuseGenerations, NextTask, RefuseOrphan, FinishGenerate,
           WriteArtifacts, AttemptEnds, AttemptRaises, RefuseGeneration, files
<1>5. ASSUME NEW p \in Processes, EvaluateStep(p) PROVE Ledger!Next
    BY <1>5, TrialGraded
       DEF EvaluateStep, LoadManifest, NoManifest, CheckCoverage, LoadTrials, FinishEvaluate,
           CopyOutcome, CheckHash, VerifierWrites, GradeSaved, RefuseTrial, files
<1>6. ASSUME NEW p \in Processes, ReportStep(p) PROVE FALSE
    BY <1>6 DEF ReportStep, LoadManifest, NoManifest, ComputeMetrics, Publish, files
<1>7. ASSUME UNCHANGED vars PROVE FALSE
    BY <1>7 DEF vars
<1> QED
    BY <1>1, <1>2, <1>3, <1>4, <1>5, <1>6, <1>7 DEF Next, Work

\* Scores are final: every attempt gets one outcome and then one verdict that its outcome
\* allows, and neither changes, through all interleavings, interrupts, kills and resumes.
THEOREM ScoresAreFinal == Spec => ImplementsLedger
<1>1. Init => Ledger!Init
    BY DEF Init, Ledger!Init, Entries
<1> QED
    BY <1>1, LedgerStep, Inductive, PTL DEF Spec, ImplementsLedger, Ledger!Spec
=============================================================================
