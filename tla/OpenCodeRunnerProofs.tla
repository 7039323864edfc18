------------------------ MODULE OpenCodeRunnerProofs ------------------------
(***************************************************************************)
(* What benchmarks/opencode_runner.py saves is what OpenCode printed, its  *)
(* patch is final, and it leaves nothing running: for any events, limits,  *)
(* numbers of lines and interrupts.                                        *)
(***************************************************************************)
EXTENDS OpenCodeRunner, SequenceTheorems, FiniteSetTheorems, WellFoundedInduction, TLAPS

----------------------------------------------------------------------------
\* The inductive invariant.

InLoop == {"poll", "deadline", "select", "read", "midline"}

Early == {"create", "start", "spawn"} \union InLoop

BreakReasons ==
    {"wall_time_limit", "event_line_size_limit", "trajectory_size_limit", "truncated_event",
     "malformed_event", "model_request_limit", "tool_event_limit", "generated_token_limit"}

\* What has been decided at each place.
PlaceInv ==
    /\ pc \in {"create", "start", "spawn"} =>
           client = "none" /\ saved = <<>> /\ pipe = <<>> /\ buffer = <<>> /\ written = <<>>
    /\ pc \in {"create", "start", "spawn"} => opencode = "none"
    /\ pc \in Early => reason = "none"
    /\ half => Len(written) < MaxWritten
    /\ pc = "kill" => reason \in BreakReasons
    /\ pc = "restart" =>
           reason \in BreakReasons \union {"client_nonzero_exit", "missing_completion_event"}

\* An exit code of 0 is OpenCode's, and a limit that was reached has stopped it.
StopInv ==
    /\ client = "exited" /\ code = 0 => opencode # "running"
    /\ pc \in {"wait", "reap"} /\ reason # "none" => reason \in BreakReasons
    /\ pc \in {"wait", "reap", "restart", "patch"} /\ reason \in BreakReasons =>
           opencode # "running"

\* The lines on their way from OpenCode to the runner.
Way == buffer \o pipe

\* pos[i] is the number of lines that were printed up to the i-th thing on the way.
Numbering(pos) ==
    /\ pos[0] = Len(saved)
    /\ \A i \in 0..Len(Way) : pos[i] =< Len(written)
    /\ \A i \in 1..Len(Way) :
           IF Way[i] = Part THEN pos[i] = pos[i - 1]
           ELSE pos[i] = pos[i - 1] + 1 /\ Way[i] = written[pos[i]]
    /\ client = "running" => pos[Len(Way)] = Len(written)

\* While events are read, the saved lines and those on the way are a prefix of what was
\* printed, the whole of it as long as the client relays; then the saved lines remain.
OrderInv ==
    /\ TrajectoryIsGenuine
    /\ pc \in Early =>
           /\ saved \in Seq(Events)
           /\ \E pos \in [0..Len(Way) -> Nat] : Numbering(pos)

IInv == TypeOK /\ PlaceInv /\ StopInv /\ OrderInv /\ PatchIsFinal /\ NothingRuns

----------------------------------------------------------------------------
\* Sequences.

LEMMA PrefixByElements ==
    ASSUME NEW S, NEW s \in Seq(S), NEW t \in Seq(S)
    PROVE  IsPrefix(s, t) <=> Len(s) =< Len(t) /\ \A i \in 1..Len(s) : s[i] = t[i]
<1>1. CASE Len(s) =< Len(t)
  <2>1. SubSeq(s, 1, Len(s)) = s
      BY SubSeqFull
  <2>2. /\ SubSeq(t, 1, Len(s)) \in Seq(S) /\ Len(SubSeq(t, 1, Len(s))) = Len(s)
        /\ \A i \in 1..Len(s) : SubSeq(t, 1, Len(s))[i] = t[i]
      BY <1>1
  <2>3. s = SubSeq(t, 1, Len(s)) <=> \A i \in 1..Len(s) : s[i] = t[i]
      BY <2>2, SeqEqual
  <2> QED
      BY <1>1, <2>1, <2>3 DEF IsPrefix
<1>2. CASE ~(Len(s) =< Len(t))
    BY <1>2 DEF IsPrefix
<1> QED
    BY <1>1, <1>2

LEMMA TailOfConcat ==
    ASSUME NEW S, NEW s \in Seq(S), NEW t \in Seq(S), s # <<>>
    PROVE  Tail(s) \o t = Tail(s \o t) /\ s \o t # <<>> /\ (s \o t)[1] = Head(s)
<1>1. Len(s) \in Nat \ {0} /\ Len(t) \in Nat
    OBVIOUS
<1>2. /\ s \o t \in Seq(S) /\ Len(s \o t) = Len(s) + Len(t)
      /\ \A i \in 1..Len(s) + Len(t) : (s \o t)[i] = IF i =< Len(s) THEN s[i] ELSE t[i - Len(s)]
    BY ConcatProperties
<1>3. /\ Tail(s) \in Seq(S) /\ Len(Tail(s)) = Len(s) - 1
      /\ \A i \in 1..Len(s) - 1 : Tail(s)[i] = s[i + 1]
    BY <1>1
<1>4. s \o t # <<>>
    BY <1>1, <1>2
<1>5. /\ Tail(s \o t) \in Seq(S) /\ Len(Tail(s \o t)) = Len(s) + Len(t) - 1
      /\ \A i \in 1..Len(s) + Len(t) - 1 : Tail(s \o t)[i] = (s \o t)[i + 1]
    BY <1>1, <1>2, <1>4
<1>6. /\ Tail(s) \o t \in Seq(S) /\ Len(Tail(s) \o t) = Len(s) - 1 + Len(t)
      /\ \A i \in 1..Len(s) - 1 + Len(t) :
             (Tail(s) \o t)[i] = IF i =< Len(s) - 1 THEN Tail(s)[i] ELSE t[i - (Len(s) - 1)]
    BY <1>3, ConcatProperties
<1>7. ASSUME NEW i \in 1..Len(s) + Len(t) - 1
      PROVE  (Tail(s) \o t)[i] = Tail(s \o t)[i]
  <2>1. Tail(s \o t)[i] = IF i + 1 =< Len(s) THEN s[i + 1] ELSE t[i + 1 - Len(s)]
      BY <1>1, <1>2, <1>5
  <2>2. CASE i =< Len(s) - 1
      BY <1>1, <1>3, <1>6, <2>1, <2>2
  <2>3. CASE ~(i =< Len(s) - 1)
    <3>1. i - (Len(s) - 1) = i + 1 - Len(s)
        BY <1>1
    <3> QED
        BY <1>1, <1>6, <2>1, <2>3, <3>1
  <2> QED
      BY <2>2, <2>3
<1>8. (s \o t)[1] = Head(s)
    BY <1>1, <1>2
<1>9. Tail(s) \o t = Tail(s \o t)
    BY <1>1, <1>5, <1>6, <1>7, SeqEqual
<1> QED
    BY <1>4, <1>8, <1>9

----------------------------------------------------------------------------
\* Lines and verdicts.

LEMMA PartIsNoEvent == Part \notin Events /\ Part.type = "part"
BY OpenCodeAssumption DEF Part, Event, Types

LEMMA WayIsSeq ==
    ASSUME TypeOK
    PROVE  /\ Way \in Seq(Events \union {Part}) /\ Len(Way) \in Nat
           /\ Len(Way) = Len(buffer) + Len(pipe)
BY ConcatProperties DEF TypeOK, Way

LEMMA ReachedIsReason ==
    ASSUME NEW lines
    PROVE  Reached(lines) \in {"none", "model_request_limit", "tool_event_limit",
                               "generated_token_limit"}
BY DEF Reached

LEMMA VerdictIsReason ==
    ASSUME NEW line
    PROVE  /\ Verdict(line) \in BreakReasons \union {"none"}
           /\ line = Part => Verdict(line) # "none"
<1>1. Reached(Append(saved, line)) \in BreakReasons \union {"none"}
    BY ReachedIsReason DEF BreakReasons
<1>2. Verdict(line) \in BreakReasons \union {"none"}
    BY <1>1 DEF Verdict, BreakReasons
<1>3. line = Part => Verdict(line) # "none"
    BY PartIsNoEvent DEF Verdict
<1> QED
    BY <1>2, <1>3

LEMMA HandleCases ==
    ASSUME NEW line, Handle(line)
    PROVE  \/ /\ line # Part /\ saved' = Append(saved, line)
              /\ pc' = "poll" /\ reason' = reason
           \/ /\ saved' \in {saved, Append(saved, line)}
              /\ pc' = "kill" /\ reason' \in BreakReasons
<1>1. Verdict(line) \in BreakReasons \union {"none"} /\ (line = Part => Verdict(line) # "none")
    BY VerdictIsReason
<1>2. CASE Verdict(line) = "none"
  <2>1. saved' = Append(saved, line) /\ pc' = "poll" /\ reason' = reason
      BY <1>2 DEF Handle
  <2> QED
      BY <1>1, <1>2, <2>1
<1>3. CASE Verdict(line) # "none"
    BY <1>1, <1>3 DEF Handle, Break
<1> QED
    BY <1>2, <1>3

LEMMA EndingCases ==
    /\ reason # "none" => Ending = reason
    /\ reason = "none" => Ending \in {"none", "client_nonzero_exit", "missing_completion_event"}
    /\ Ending = "none" => reason = "none" /\ code = 0
<1>1. CASE reason # "none"
  <2>1. Ending = reason
      BY <1>1 DEF Ending
  <2> QED
      BY <1>1, <2>1
<1>2. CASE reason = "none" /\ code # 0
  <2>1. Ending = "client_nonzero_exit"
      BY <1>2 DEF Ending
  <2> QED
      BY <1>2, <2>1
<1>3. CASE reason = "none" /\ code = 0
  <2>1. Ending \in {"none", "missing_completion_event"}
      BY <1>3 DEF Ending
  <2> QED
      BY <1>3, <2>1
<1> QED
    BY <1>1, <1>2, <1>3

----------------------------------------------------------------------------
\* The numbers of the lines on the way.

\* The client writes something to the pipe: a line that was just printed, or a part.
LEMMA WayGrows ==
    ASSUME TypeOK, NEW pos \in [0..Len(Way) -> Nat], Numbering(pos),
           NEW line \in Events \union {Part},
           client = "running", pipe' = Append(pipe, line),
           UNCHANGED <<buffer, saved, client>>,
           \/ line = Part /\ written' = written
           \/ line # Part /\ written' = Append(written, line)
    PROVE  \E p \in [0..Len(Way') -> Nat] : Numbering(p)'
<1> PICK p : p = [i \in 0..Len(Way) + 1 |-> IF i =< Len(Way) THEN pos[i] ELSE Len(written')]
    OBVIOUS
<1>1. /\ Way \in Seq(Events \union {Part}) /\ Len(Way) \in Nat
      /\ written \in Seq(Events) /\ Len(written) \in Nat
    BY WayIsSeq DEF TypeOK
<1>2. Way' = Append(Way, line)
  <2>1. /\ buffer \in Seq(Events \union {Part}) /\ pipe \in Seq(Events \union {Part})
        /\ <<line>> \in Seq(Events \union {Part})
      BY DEF TypeOK
  <2>2. Append(pipe, line) = pipe \o <<line>> /\ Append(Way, line) = Way \o <<line>>
      BY <1>1, <2>1, AppendIsConcat
  <2>3. (buffer \o pipe) \o <<line>> = buffer \o (pipe \o <<line>>)
      BY <2>1, ConcatAssociative
  <2> QED
      BY <2>2, <2>3 DEF Way
<1>3. /\ Len(Way') = Len(Way) + 1 /\ Way'[Len(Way) + 1] = line
      /\ \A i \in 1..Len(Way) : Way'[i] = Way[i]
    BY <1>1, <1>2
<1>4. /\ Len(written') \in Nat /\ Len(written') >= Len(written)
      /\ \A i \in 1..Len(written) : written'[i] = written[i]
  <2>1. CASE written' = written
      BY <1>1, <2>1
  <2>2. CASE line \in Events /\ written' = Append(written, line)
      BY <1>1, <2>2
  <2> QED
      BY <2>1, <2>2
<1>5. p \in [0..Len(Way') -> Nat]
    BY <1>1, <1>3, <1>4
<1>6. p[0] = Len(saved') /\ p[Len(Way')] = Len(written')
    BY <1>1, <1>3 DEF Numbering
<1>7. ASSUME NEW i \in 0..Len(Way') PROVE p[i] =< Len(written')
  <2>1. CASE i \in 0..Len(Way)
    <3>1. p[i] = pos[i] /\ pos[i] \in Nat
        BY <1>1, <2>1
    <3>2. pos[i] =< Len(written)
        BY <2>1 DEF Numbering
    <3> QED
        BY <1>1, <1>4, <3>1, <3>2
  <2>2. CASE i = Len(Way) + 1
      BY <1>1, <1>4, <2>2
  <2> QED
      BY <1>1, <1>3, <2>1, <2>2
<1>8. ASSUME NEW i \in 1..Len(Way')
      PROVE  IF Way'[i] = Part THEN p[i] = p[i - 1]
             ELSE p[i] = p[i - 1] + 1 /\ Way'[i] = written'[p[i]]
  <2>1. CASE i \in 1..Len(Way)
    <3>1. p[i] = pos[i] /\ p[i - 1] = pos[i - 1] /\ Way'[i] = Way[i]
        BY <1>1, <1>3, <2>1
    <3>2. pos[i - 1] \in Nat /\ pos[i] =< Len(written)
      <4>1. i - 1 \in 0..Len(Way) /\ i \in 0..Len(Way)
          BY <1>1, <2>1
      <4> QED
          BY <4>1 DEF Numbering
    <3>3. CASE Way[i] = Part
        BY <2>1, <3>1, <3>3 DEF Numbering
    <3>4. CASE Way[i] # Part
      <4>1. pos[i] = pos[i - 1] + 1 /\ Way[i] = written[pos[i]]
          BY <2>1, <3>4 DEF Numbering
      <4>2. pos[i] \in 1..Len(written)
          BY <1>1, <3>2, <4>1
      <4> QED
          BY <1>4, <3>1, <3>4, <4>1, <4>2
    <3> QED
        BY <3>3, <3>4
  <2>2. CASE i = Len(Way) + 1
    <3>1. p[i] = Len(written') /\ p[i - 1] = Len(written) /\ Way'[i] = line
        BY <1>1, <1>3, <2>2 DEF Numbering
    <3>2. CASE line = Part
        BY <3>1, <3>2, PartIsNoEvent
    <3>3. CASE line # Part
      <4>1. Len(written') = Len(written) + 1 /\ written'[Len(written) + 1] = line
          BY <1>1, <3>3
      <4> QED
          BY <3>1, <3>3, <4>1
    <3> QED
        BY <3>2, <3>3
  <2> QED
      BY <1>1, <1>3, <2>1, <2>2
<1>9. Numbering(p)'
    BY <1>6, <1>7, <1>8 DEF Numbering
<1> QED
    BY <1>5, <1>9

\* A line is printed that nobody relays.
LEMMA WayStays ==
    ASSUME TypeOK, NEW pos \in [0..Len(Way) -> Nat], Numbering(pos),
           UNCHANGED <<pipe, buffer, saved>>,
           client' # "running" \/ (client = "running" /\ written' = written),
           \/ written' = written
           \/ \E line \in Events : written' = Append(written, line)
    PROVE  Numbering(pos)'
<1>1. Way \in Seq(Events \union {Part}) /\ Len(Way) \in Nat /\ Way' = Way
    BY WayIsSeq DEF Way
<1>2. /\ Len(written) \in Nat /\ Len(written') \in Nat /\ Len(written') >= Len(written)
      /\ \A i \in 1..Len(written) : written'[i] = written[i]
  <2>1. written \in Seq(Events)
      BY DEF TypeOK
  <2> QED
      BY <2>1
<1>3. ASSUME NEW i \in 1..Len(Way), Way[i] # Part
      PROVE  pos[i] \in 1..Len(written)
  <2>1. pos[i] \in Nat /\ pos[i - 1] \in Nat
      BY <1>1
  <2>2. pos[i] = pos[i - 1] + 1 /\ pos[i] =< Len(written)
      BY <1>1, <1>3 DEF Numbering
  <2> QED
      BY <1>2, <2>1, <2>2
<1>4. ASSUME NEW i \in 0..Len(Way) PROVE pos[i] =< Len(written')
  <2>1. pos[i] \in Nat /\ pos[i] =< Len(written)
      BY <1>1 DEF Numbering
  <2> QED
      BY <1>2, <2>1
<1>5. ASSUME NEW i \in 1..Len(Way)
      PROVE  IF Way[i] = Part THEN pos[i] = pos[i - 1]
             ELSE pos[i] = pos[i - 1] + 1 /\ Way[i] = written'[pos[i]]
  <2>1. IF Way[i] = Part THEN pos[i] = pos[i - 1]
        ELSE pos[i] = pos[i - 1] + 1 /\ Way[i] = written[pos[i]]
      BY DEF Numbering
  <2> QED
      BY <1>2, <1>3, <2>1
<1>6. pos[0] = Len(saved') /\ (client' = "running" => pos[Len(Way)] = Len(written'))
    BY DEF Numbering
<1> QED
    BY <1>1, <1>4, <1>5, <1>6 DEF Numbering

\* The runner takes the first thing on the way.
LEMMA WayShrinks ==
    ASSUME TypeOK, NEW pos \in [0..Len(Way) -> Nat], Numbering(pos),
           buffer # <<>>, buffer' = Tail(buffer), UNCHANGED <<pipe, written, client>>,
           Len(saved') = pos[1]
    PROVE  \E p \in [0..Len(Way') -> Nat] : Numbering(p)'
<1> PICK p : p = [i \in 0..Len(Way) - 1 |-> pos[i + 1]]
    OBVIOUS
<1>1. /\ Way \in Seq(Events \union {Part}) /\ Len(Way) \in Nat \ {0} /\ Way' = Tail(Way)
  <2>1. buffer \in Seq(Events \union {Part}) /\ pipe \in Seq(Events \union {Part})
      BY DEF TypeOK
  <2>2. Way' = Tail(Way) /\ Way # <<>>
      BY <2>1, TailOfConcat DEF Way
  <2> QED
      BY <2>2, WayIsSeq
<1>2. Len(Way') = Len(Way) - 1 /\ \A i \in 1..Len(Way') : Way'[i] = Way[i + 1]
    BY <1>1
<1>3. p \in [0..Len(Way') -> Nat]
    BY <1>1, <1>2
<1>4. \A i \in 0..Len(Way') : p[i] = pos[i + 1]
    BY <1>1, <1>2
<1>5. Numbering(p)'
    BY <1>1, <1>2, <1>4 DEF Numbering
<1> QED
    BY <1>3, <1>5

----------------------------------------------------------------------------
\* What was saved.

Kept(lines) == IF lines # <<>> /\ Last(lines) = Part THEN Front(lines) ELSE lines

LEMMA KeptIsSeq ==
    ASSUME TypeOK
    PROVE  /\ Kept(saved) \in Seq(Events \union {Part})
           /\ saved \in Seq(Events) => Kept(saved) = saved
<1>1. saved \in Seq(Events \union {Part})
    BY DEF TypeOK
<1>2. CASE saved # <<>> /\ Last(saved) = Part
  <2>1. Len(saved) \in Nat \ {0} /\ saved[Len(saved)] = Part
      BY <1>1, <1>2 DEF Last
  <2>2. saved \notin Seq(Events)
      BY <2>1, PartIsNoEvent
  <2>3. Front(saved) \in Seq(Events \union {Part})
      BY <1>1, <2>1 DEF Front
  <2> QED
      BY <1>2, <2>2, <2>3 DEF Kept
<1>3. CASE ~(saved # <<>> /\ Last(saved) = Part)
    BY <1>1, <1>3 DEF Kept
<1> QED
    BY <1>2, <1>3

LEMMA GenuineKept ==
    ASSUME TypeOK, TrajectoryIsGenuine, saved' = saved,
           \/ written' = written
           \/ \E line \in Events : written' = Append(written, line)
    PROVE  TrajectoryIsGenuine'
<1> DEFINE S == Events \union {Part}
<1>1. /\ Kept(saved) \in Seq(S) /\ Len(Kept(saved)) \in Nat
      /\ written \in Seq(S) /\ Len(written) \in Nat /\ written \in Seq(Events)
    BY KeptIsSeq DEF TypeOK
<1>2. /\ written' \in Seq(S) /\ Len(written') \in Nat /\ Len(written') >= Len(written)
      /\ \A i \in 1..Len(written) : written'[i] = written[i]
    BY <1>1
<1>3. IsPrefix(Kept(saved), written)
    BY DEF TrajectoryIsGenuine, Kept
<1>4. /\ Len(Kept(saved)) =< Len(written)
      /\ \A i \in 1..Len(Kept(saved)) : Kept(saved)[i] = written[i]
    BY <1>1, <1>3, PrefixByElements
<1>5. Len(Kept(saved)) =< Len(written')
    BY <1>1, <1>2, <1>4
<1>6. \A i \in 1..Len(Kept(saved)) : Kept(saved)[i] = written'[i]
    BY <1>1, <1>2, <1>4
<1>7. IsPrefix(Kept(saved), written')
    BY <1>1, <1>2, <1>5, <1>6, PrefixByElements
<1> QED
    BY <1>7 DEF TrajectoryIsGenuine, Kept

\* The lines before a line that is printed, and a trajectory of events that are all printed.
LEMMA EventsAreKept ==
    ASSUME TypeOK, saved \in Seq(Events)
    PROVE  /\ TrajectoryIsGenuine <=>
                  /\ Len(saved) =< Len(written)
                  /\ \A i \in 1..Len(saved) : saved[i] = written[i]
           /\ Len(saved) \in Nat /\ Len(written) \in Nat
<1>1. Kept(saved) = saved
    BY KeptIsSeq
<1>2. TrajectoryIsGenuine <=> IsPrefix(saved, written)
    BY <1>1 DEF TrajectoryIsGenuine, Kept
<1>3. written \in Seq(Events)
    BY DEF TypeOK
<1> QED
    BY <1>2, <1>3, PrefixByElements

\* The line that is taken is the one that was printed next, or a part at the end of file.
LEMMA LineIsGenuine ==
    ASSUME TypeOK, TrajectoryIsGenuine, saved \in Seq(Events), written' = written,
           NEW line \in Events \union {Part},
           saved' \in {saved, Append(saved, line)},
           line # Part => Len(saved) < Len(written) /\ line = written[Len(saved) + 1]
    PROVE  TrajectoryIsGenuine' /\ (line # Part => saved' \in Seq(Events))
<1>1. CASE saved' = saved
    BY <1>1, GenuineKept
<1>2. CASE saved' = Append(saved, line) /\ line = Part
  <2>1. /\ saved' # <<>> /\ saved' \in Seq(Events \union {Part})
        /\ Len(saved') = Len(saved) + 1 /\ saved'[Len(saved) + 1] = Part
      BY <1>2
  <2>2. Last(saved') = Part /\ Front(saved') = saved
    <3>1. Last(saved') = Part
        BY <2>1 DEF Last
    <3>2. /\ Front(saved') \in Seq(Events \union {Part})
          /\ Len(Front(saved')) = Len(saved)
          /\ \A i \in 1..Len(saved) : Front(saved')[i] = saved'[i]
        BY <2>1 DEF Front
    <3>3. \A i \in 1..Len(saved) : saved'[i] = saved[i]
        BY <1>2
    <3>4. saved \in Seq(Events \union {Part})
        BY DEF TypeOK
    <3>5. Front(saved') = saved
        BY <3>2, <3>3, <3>4, SeqEqual
    <3> QED
        BY <3>1, <3>5
  <2>3. IsPrefix(saved, written)
      BY KeptIsSeq DEF TrajectoryIsGenuine, Kept
  <2> QED
      BY <1>2, <2>1, <2>2, <2>3 DEF TrajectoryIsGenuine
<1>3. CASE saved' = Append(saved, line) /\ line # Part
  <2>1. /\ written \in Seq(Events) /\ Len(written) \in Nat /\ Len(saved) \in Nat
        /\ saved' \in Seq(Events) /\ saved' \in Seq(Events \union {Part})
        /\ Len(saved') = Len(saved) + 1
      BY <1>3 DEF TypeOK
  <2>2. /\ Len(saved) =< Len(written)
        /\ \A i \in 1..Len(saved) : saved[i] = written[i]
      BY EventsAreKept
  <2>3. ASSUME NEW i \in 1..Len(saved')
        PROVE  saved'[i] = written[i]
    <3>1. CASE i \in 1..Len(saved)
        BY <1>3, <2>2, <3>1
    <3>2. CASE i = Len(saved) + 1
        BY <1>3, <3>2
    <3> QED
        BY <2>1, <3>1, <3>2
  <2>4. IsPrefix(saved', written)
    <3>1. Len(saved') =< Len(written)
        BY <1>3, <2>1
    <3> QED
        BY <2>1, <2>3, <3>1, PrefixByElements
  <2>5. saved'[Len(saved')] # Part
      BY <1>3, <2>1
  <2>6. Last(saved') # Part
      BY <2>5 DEF Last
  <2> QED
      BY <2>1, <2>4, <2>6 DEF TrajectoryIsGenuine
<1> QED
    BY <1>1, <1>2, <1>3

----------------------------------------------------------------------------
\* Steps that neither print nor read.
LEMMA OrderKept ==
    ASSUME TypeOK, OrderInv, UNCHANGED <<stream, saved>>,
           client' = "running" => client = "running", pc' \in Early => pc \in Early
    PROVE  OrderInv'
<1>1. pipe' = pipe /\ buffer' = buffer /\ written' = written /\ saved' = saved
    BY DEF stream
<1>2. TrajectoryIsGenuine'
    BY <1>1 DEF OrderInv, TrajectoryIsGenuine
<1>3. ASSUME NEW pos \in [0..Len(Way) -> Nat], Numbering(pos)
      PROVE  pos \in [0..Len(Way') -> Nat] /\ Numbering(pos)'
    BY <1>1, <1>3 DEF Numbering, Way
<1> QED
    BY <1>1, <1>2, <1>3 DEF OrderInv

\* OpenCode prints a line or the first part of one.
LEMMA OrderPrinted ==
    ASSUME TypeOK, OrderInv, PlaceInv, opencode = "running",
           NEW line \in Events \union {Part}, Relay(line),
           \/ line = Part /\ written' = written
           \/ line # Part /\ written' = Append(written, line)
    PROVE  OrderInv'
<1>1. /\ UNCHANGED <<pc, container, opencode, client, code, buffer, saved, reason>>
      /\ pipe' = IF client = "running" THEN Append(pipe, line) ELSE pipe
    BY DEF Relay, docker, runner
<1>2. written' = written \/ \E e \in Events : written' = Append(written, e)
    OBVIOUS
<1>3. TrajectoryIsGenuine'
    BY <1>1, <1>2, GenuineKept DEF OrderInv
<1>4. ASSUME pc \in Early
      PROVE  \E p \in [0..Len(Way') -> Nat] : Numbering(p)'
  <2>1. PICK pos \in [0..Len(Way) -> Nat] : Numbering(pos)
      BY <1>4 DEF OrderInv
  <2>2. CASE client = "running"
      BY <1>1, <2>1, <2>2, WayGrows
  <2>3. CASE client # "running"
    <3>1. Numbering(pos)'
        BY <1>1, <1>2, <2>1, <2>3, WayStays
    <3>2. Way' = Way
        BY <1>1, <2>3 DEF Way
    <3> QED
        BY <3>1, <3>2
  <2> QED
      BY <2>2, <2>3
<1> QED
    BY <1>1, <1>3, <1>4 DEF OrderInv

\* The runner takes the first thing of its buffer.
LEMMA OrderRead ==
    ASSUME TypeOK, OrderInv, ReadBuffer
    PROVE  OrderInv'
<1>1. /\ pc \in {"read", "midline"} /\ pc \in Early
      /\ buffer # <<>> /\ buffer' = Tail(buffer)
      /\ UNCHANGED <<pipe, written, client>>
    BY DEF ReadBuffer, docker, Early, InLoop
<1>2. /\ saved \in Seq(Events) /\ Len(saved) \in Nat /\ TrajectoryIsGenuine
      /\ written \in Seq(Events) /\ Len(written) \in Nat
    BY <1>1 DEF OrderInv, TypeOK
<1>3. PICK pos \in [0..Len(Way) -> Nat] : Numbering(pos)
    BY <1>1 DEF OrderInv
<1>4. /\ Way # <<>> /\ Way[1] = Head(buffer) /\ Head(buffer) \in Events \union {Part}
      /\ Len(Way) \in Nat \ {0}
  <2>1. buffer \in Seq(Events \union {Part}) /\ pipe \in Seq(Events \union {Part})
      BY DEF TypeOK
  <2>2. Way # <<>> /\ Way[1] = Head(buffer)
      BY <1>1, <2>1, TailOfConcat DEF Way
  <2> QED
      BY <1>1, <2>1, <2>2, WayIsSeq
<1>5. /\ pos[0] = Len(saved) /\ pos[1] =< Len(written)
      /\ IF Head(buffer) = Part THEN pos[1] = pos[0]
         ELSE pos[1] = pos[0] + 1 /\ Head(buffer) = written[pos[1]]
  <2>1. 1 \in 1..Len(Way) /\ 1 \in 0..Len(Way) /\ 1 - 1 = 0
      BY <1>4
  <2> QED
      BY <1>3, <1>4, <2>1 DEF Numbering
<1>6. CASE Head(buffer) = Part
  <2>1. pc' = "midline" /\ saved' = saved
      BY <1>6 DEF ReadBuffer
  <2>2. Len(saved') = pos[1]
      BY <1>5, <1>6, <2>1
  <2>3. \E p \in [0..Len(Way') -> Nat] : Numbering(p)'
      BY <1>1, <1>3, <2>2, WayShrinks
  <2>4. TrajectoryIsGenuine'
      BY <1>1, <1>2, <2>1, GenuineKept
  <2> QED
      BY <1>2, <2>1, <2>3, <2>4 DEF OrderInv
<1>7. CASE Head(buffer) # Part
  <2>1. Handle(Head(buffer))
      BY <1>7 DEF ReadBuffer
  <2>2. \/ pc' = "poll" /\ saved' = Append(saved, Head(buffer))
        \/ pc' = "kill" /\ saved' \in {saved, Append(saved, Head(buffer))}
      BY <2>1, HandleCases
  <2>3. Len(saved) < Len(written) /\ Head(buffer) = written[Len(saved) + 1]
      BY <1>2, <1>5, <1>7
  <2>4. TrajectoryIsGenuine' /\ saved' \in Seq(Events)
      BY <1>1, <1>2, <1>4, <1>7, <2>2, <2>3, LineIsGenuine
  <2>5. CASE pc' = "poll"
    <3>1. Len(saved') = pos[1]
        BY <1>2, <1>5, <1>7, <2>2, <2>5
    <3>2. \E p \in [0..Len(Way') -> Nat] : Numbering(p)'
        BY <1>1, <1>3, <3>1, WayShrinks
    <3> QED
        BY <2>4, <3>2 DEF OrderInv
  <2>6. CASE pc' = "kill"
      BY <2>4, <2>6 DEF OrderInv, Early, InLoop
  <2> QED
      BY <2>2, <2>5, <2>6
<1> QED
    BY <1>6, <1>7

\* Before OpenCode is started nothing was printed.
LEMMA NothingPrinted ==
    ASSUME saved = <<>>, pipe = <<>>, buffer = <<>>, written = <<>>
    PROVE  OrderInv /\ (UNCHANGED <<saved, pipe, buffer, written>> => OrderInv')
<1>1. Way = <<>> /\ Len(Way) = 0 /\ Len(written) = 0 /\ Len(saved) = 0
    BY DEF Way
<1>2. [i \in 0..0 |-> 0] \in [0..Len(Way) -> Nat] /\ Numbering([i \in 0..0 |-> 0])
    BY <1>1 DEF Numbering
<1>3. TrajectoryIsGenuine
  <2>1. saved \in Seq(Events) /\ written \in Seq(Events)
      OBVIOUS
  <2>2. Len(saved) =< Len(written) /\ \A i \in 1..Len(saved) : saved[i] = written[i]
      BY <1>1
  <2>3. IsPrefix(saved, written)
      BY <2>1, <2>2, PrefixByElements
  <2> QED
      BY <2>3 DEF TrajectoryIsGenuine
<1>4. saved \in Seq(Events)
    OBVIOUS
<1>5. ASSUME UNCHANGED <<saved, pipe, buffer, written>>
      PROVE  OrderInv'
  <2>1. Way' = Way /\ TrajectoryIsGenuine' /\ saved' \in Seq(Events)
      BY <1>3, <1>4, <1>5 DEF Way, TrajectoryIsGenuine
  <2>2. Numbering([i \in 0..0 |-> 0])'
      BY <1>1, <1>5, <2>1 DEF Numbering
  <2> QED
      BY <1>2, <2>1, <2>2 DEF OrderInv
<1> QED
    BY <1>2, <1>3, <1>4, <1>5 DEF OrderInv

\* What is read from the pipe stays in its order.
LEMMA OrderFilled ==
    ASSUME TypeOK, OrderInv, FillBuffer
    PROVE  OrderInv'
<1>1. PICK n \in 1..Len(pipe) : /\ buffer' = SubSeq(pipe, 1, n)
                                /\ pipe' = SubSeq(pipe, n + 1, Len(pipe))
    BY DEF FillBuffer
<1>2. buffer = <<>> /\ UNCHANGED <<pc, client, written, saved>>
    BY DEF FillBuffer, docker
<1>3. pipe \in Seq(Events \union {Part}) /\ Len(pipe) \in Nat
    BY DEF TypeOK
<1>4. Way' = Way
  <2>1. Way = pipe
      BY <1>2, <1>3 DEF Way
  <2>2. SubSeq(pipe, 1, n) \o SubSeq(pipe, n + 1, Len(pipe)) = SubSeq(pipe, 1, Len(pipe))
      BY <1>3, ConcatAdjacentSubSeq
  <2>3. SubSeq(pipe, 1, Len(pipe)) = pipe
      BY <1>3, SubSeqFull
  <2> QED
      BY <1>1, <2>1, <2>2, <2>3 DEF Way
<1>5. TrajectoryIsGenuine'
    BY <1>2 DEF OrderInv, TrajectoryIsGenuine
<1>6. ASSUME NEW pos, Numbering(pos)
      PROVE  Numbering(pos)'
    BY <1>2, <1>4, <1>6 DEF Numbering
<1> QED
    BY <1>2, <1>4, <1>5, <1>6 DEF OrderInv
----------------------------------------------------------------------------
LEMMA InitIInv == Init => IInv
<1> SUFFICES ASSUME Init PROVE IInv
    OBVIOUS
<1> USE DEF Init
<1>1. TypeOK
  <2>1. <<>> \in Seq(Events \union {Part}) /\ <<>> \in Seq(Events) /\ Len(<<>>) = 0
      OBVIOUS
  <2>2. MaxWritten \in Nat /\ 0 \in 0..MaxSignals
      BY OpenCodeAssumption
  <2>3. pc \in Places /\ reason \in Reasons
      BY DEF Places, Reasons
  <2>4. half \in BOOLEAN /\ late \in BOOLEAN /\ left \in BOOLEAN
      OBVIOUS
  <2>5. /\ pipe = <<>> /\ buffer = <<>> /\ saved = <<>> /\ written = <<>>
        /\ container = "absent" /\ opencode = "none" /\ client = "none" /\ code = 0
        /\ signals = 0
      OBVIOUS
  <2> HIDE DEF Init
  <2> QED
      BY <2>1, <2>2, <2>3, <2>4, <2>5 DEF TypeOK
<1>2. PlaceInv /\ StopInv /\ PatchIsFinal /\ NothingRuns
    BY DEF PlaceInv, StopInv, PatchIsFinal, NothingRuns, Early, InLoop, BreakReasons
<1>3. OrderInv
    BY NothingPrinted
<1> QED
    BY <1>1, <1>2, <1>3 DEF IInv

----------------------------------------------------------------------------
\* What is taken from the buffer or stands for an unfinished line, and what becomes of it.
LEMMA HandleStep ==
    ASSUME IInv, pc \in {"read", "midline"}, NEW line \in Events \union {Part}, Handle(line),
           {pipe, buffer}' \subseteq Seq(Events \union {Part}),
           UNCHANGED <<docker, half, written, late, signals, left>>
    PROVE  TypeOK' /\ PlaceInv' /\ StopInv' /\ PatchIsFinal' /\ NothingRuns'
<1> USE DEF IInv
<1>1. /\ saved' \in {saved, Append(saved, line)}
      /\ \/ pc' = "poll" /\ reason' = reason
         \/ pc' = "kill" /\ reason' \in BreakReasons
    BY HandleCases
<1>2. saved' \in Seq(Events \union {Part})
  <2>1. saved \in Seq(Events \union {Part})
      BY DEF TypeOK
  <2> QED
      BY <1>1, <2>1
<1>3. pc' \in Places /\ reason' \in Reasons
    BY <1>1 DEF TypeOK, Places, Reasons, BreakReasons
<1>4. UNCHANGED <<container, opencode, client, code, half, written, late, signals, left>>
    BY DEF docker
<1>5. TypeOK'
    BY <1>2, <1>3, <1>4 DEF TypeOK
<1>6. reason = "none"
    BY DEF PlaceInv, Early, InLoop
<1>7. PlaceInv'
    BY <1>1, <1>4, <1>6 DEF PlaceInv, Early, InLoop
<1>8. StopInv'
    BY <1>1, <1>4 DEF StopInv
<1>9. PatchIsFinal' /\ NothingRuns'
    BY <1>1 DEF PatchIsFinal, NothingRuns
<1> QED
    BY <1>5, <1>7, <1>8, <1>9

\* What OpenCode prints does not touch the runner.
LEMMA PrintStep ==
    ASSUME IInv, opencode = "running", NEW line \in Events \union {Part}, Relay(line),
           \/ line = Part /\ written' = written
           \/ line # Part /\ written' = Append(written, line),
           half' \in BOOLEAN, Len(written) < MaxWritten,
           half' => written' = written
    PROVE  IInv'
<1> USE DEF IInv
<1>1. /\ UNCHANGED <<pc, container, opencode, client, code, buffer, saved, reason>>
      /\ UNCHANGED <<late, signals, left>>
      /\ pipe' = IF client = "running" THEN Append(pipe, line) ELSE pipe
    BY DEF Relay, docker, runner
<1>2. written \in Seq(Events) /\ Len(written) \in Nat /\ MaxWritten \in Nat
    BY OpenCodeAssumption DEF TypeOK
<1>3. /\ written' \in Seq(Events) /\ Len(written') =< MaxWritten
      /\ (half' => Len(written') < MaxWritten)
  <2>1. CASE written' = written
      BY <1>2, <2>1
  <2>2. CASE line \in Events /\ written' = Append(written, line) /\ ~half'
      BY <1>2, <2>2
  <2>3. CASE line \in Events /\ written' = Append(written, line) /\ half'
      BY <1>2, <2>3
  <2> QED
      BY <2>1, <2>2, <2>3
<1>4. pipe' \in Seq(Events \union {Part})
    BY <1>1 DEF TypeOK
<1>5. TypeOK'
    BY <1>1, <1>3, <1>4 DEF TypeOK
<1>6. PlaceInv'
    BY <1>1, <1>3 DEF PlaceInv
<1>7. StopInv'
    BY <1>1 DEF StopInv
<1>8. OrderInv'
    BY OrderPrinted
<1>9. PatchIsFinal' /\ NothingRuns'
    BY <1>1 DEF PatchIsFinal, NothingRuns, Status
<1> QED
    BY <1>5, <1>6, <1>7, <1>8, <1>9

LEMMA StepIInv == IInv /\ [Next]_vars => IInv'
<1> SUFFICES ASSUME IInv, [Next]_vars PROVE IInv'
    OBVIOUS
<1> USE DEF IInv
<1>1. CASE Create
  <2> USE <1>1 DEF Create, Goto, docker, stream
  <2>1. TypeOK'
      BY DEF TypeOK, Places
  <2>2. PlaceInv'
      BY DEF PlaceInv, Early, InLoop, BreakReasons
  <2>3. StopInv'
      BY DEF StopInv, PlaceInv, Early, InLoop
  <2>4. OrderInv'
      BY OrderKept DEF Early, InLoop
  <2>5. PatchIsFinal' /\ NothingRuns'
      BY DEF PatchIsFinal, NothingRuns, Status
  <2> QED
      BY <2>1, <2>2, <2>3, <2>4, <2>5
<1>2. CASE CreateRaises
  <2> USE <1>2 DEF CreateRaises, Goto, docker, stream
  <2>1. TypeOK'
      BY DEF TypeOK, Places
  <2>2. PlaceInv'
      BY DEF PlaceInv, Early, InLoop, BreakReasons
  <2>3. StopInv'
      BY DEF StopInv, PlaceInv, Early, InLoop
  <2>4. OrderInv'
      BY OrderKept DEF Early, InLoop
  <2>5. PatchIsFinal' /\ NothingRuns'
      BY DEF PatchIsFinal, NothingRuns, Status
  <2> QED
      BY <2>1, <2>2, <2>3, <2>4, <2>5
<1>3. CASE Start
  <2> USE <1>3 DEF Start, Goto, docker, stream
  <2>1. TypeOK'
      BY DEF TypeOK, Places
  <2>2. PlaceInv'
      BY DEF PlaceInv, Early, InLoop, BreakReasons
  <2>3. StopInv'
      BY DEF StopInv, PlaceInv, Early, InLoop
  <2>4. OrderInv'
      BY OrderKept DEF Early, InLoop
  <2>5. PatchIsFinal' /\ NothingRuns'
      BY DEF PatchIsFinal, NothingRuns, Status
  <2> QED
      BY <2>1, <2>2, <2>3, <2>4, <2>5
<1>4. CASE Spawn
  <2> USE DEF Spawn, Goto, docker, stream
  <2>1. TypeOK'
      BY <1>4 DEF TypeOK, Places
  <2>2. PlaceInv'
      BY <1>4 DEF PlaceInv, Early, InLoop
  <2>3. StopInv'
      BY <1>4 DEF StopInv
  <2>4. PatchIsFinal' /\ NothingRuns'
      BY <1>4 DEF PatchIsFinal, NothingRuns
  <2>5. saved = <<>> /\ pipe = <<>> /\ buffer = <<>> /\ written = <<>>
      BY <1>4 DEF PlaceInv
  <2>6. OrderInv'
      BY <1>4, <2>5, NothingPrinted
  <2> QED
      BY <2>1, <2>2, <2>3, <2>4, <2>6
<1>5. CASE Poll
  <2> USE <1>5 DEF Poll, unread, docker, stream
  <2>1. TypeOK'
      BY DEF TypeOK, Places
  <2>2. PlaceInv'
      BY DEF PlaceInv, Early, InLoop, BreakReasons
  <2>3. StopInv'
    <3>1. /\ reason = "none" /\ reason' = reason /\ opencode' = opencode
          /\ client' = client /\ code' = code
        BY DEF PlaceInv, Early, InLoop
    <3> QED
        BY <3>1 DEF StopInv, BreakReasons
  <2>4. OrderInv'
      BY OrderKept DEF Early, InLoop
  <2>5. PatchIsFinal' /\ NothingRuns'
      BY DEF PatchIsFinal, NothingRuns, Status
  <2> QED
      BY <2>1, <2>2, <2>3, <2>4, <2>5
<1>6. CASE Deadline
  <2> USE <1>6 DEF Deadline, Break, unread, docker, stream
  <2>1. TypeOK'
      BY DEF TypeOK, Places, Reasons
  <2>2. PlaceInv'
      BY DEF PlaceInv, Early, InLoop, BreakReasons
  <2>3. StopInv'
      BY DEF StopInv, PlaceInv, Early, InLoop
  <2>4. OrderInv'
      BY OrderKept DEF Early, InLoop
  <2>5. PatchIsFinal' /\ NothingRuns'
      BY DEF PatchIsFinal, NothingRuns, Status
  <2> QED
      BY <2>1, <2>2, <2>3, <2>4, <2>5
<1>7. CASE Select
  <2> USE <1>7 DEF Select, unread, docker, stream
  <2>1. TypeOK'
      BY DEF TypeOK, Places
  <2>2. PlaceInv'
      BY DEF PlaceInv, Early, InLoop, BreakReasons
  <2>3. StopInv'
      BY DEF StopInv, PlaceInv, Early, InLoop
  <2>4. OrderInv'
      BY OrderKept DEF Early, InLoop
  <2>5. PatchIsFinal' /\ NothingRuns'
      BY DEF PatchIsFinal, NothingRuns, Status
  <2> QED
      BY <2>1, <2>2, <2>3, <2>4, <2>5
<1>8. CASE ReadBuffer
  <2>1. /\ pc \in {"read", "midline"} /\ buffer # <<>> /\ buffer' = Tail(buffer)
        /\ UNCHANGED <<docker, pipe, half, written, late, signals, left>>
      BY <1>8 DEF ReadBuffer
  <2>2. {pipe, buffer}' \subseteq Seq(Events \union {Part}) /\ Head(buffer) \in Events \union {Part}
      BY <2>1 DEF TypeOK
  <2>3. OrderInv'
      BY <1>8, OrderRead
  <2>4. CASE Head(buffer) = Part
    <3>1. pc' = "midline" /\ UNCHANGED <<saved, reason>>
        BY <1>8, <2>4 DEF ReadBuffer
    <3>2. TypeOK'
        BY <2>1, <2>2, <3>1 DEF TypeOK, Places, docker
    <3>3. PlaceInv'
        BY <2>1, <3>1 DEF PlaceInv, Early, InLoop
    <3>4. StopInv'
        BY <2>1, <3>1 DEF StopInv, docker
    <3>5. PatchIsFinal' /\ NothingRuns'
        BY <3>1 DEF PatchIsFinal, NothingRuns
    <3> QED
        BY <2>3, <3>2, <3>3, <3>4, <3>5
  <2>5. CASE Head(buffer) # Part
    <3>1. Handle(Head(buffer))
        BY <1>8, <2>5 DEF ReadBuffer
    <3> QED
        BY <2>1, <2>2, <2>3, <3>1, HandleStep
  <2> QED
      BY <2>4, <2>5
<1>9. CASE FillBuffer
  <2>1. /\ pc \in {"read", "midline"}
        /\ UNCHANGED <<pc, docker, half, written, saved, reason, late, signals, left>>
      BY <1>9 DEF FillBuffer
  <2>2. {pipe, buffer}' \subseteq Seq(Events \union {Part})
    <3>1. PICK n \in 1..Len(pipe) : /\ buffer' = SubSeq(pipe, 1, n)
                                    /\ pipe' = SubSeq(pipe, n + 1, Len(pipe))
        BY <1>9 DEF FillBuffer
    <3> QED
        BY <3>1 DEF TypeOK
  <2>3. TypeOK'
      BY <2>1, <2>2 DEF TypeOK, docker
  <2>4. PlaceInv'
      BY <2>1 DEF PlaceInv, Early, InLoop
  <2>5. StopInv'
      BY <2>1 DEF StopInv, docker
  <2>6. PatchIsFinal' /\ NothingRuns'
      BY <2>1 DEF PatchIsFinal, NothingRuns
  <2>7. OrderInv'
      BY <1>9, OrderFilled
  <2> QED
      BY <2>3, <2>4, <2>5, <2>6, <2>7
<1>10. CASE EndOfFile
  <2>1. UNCHANGED <<docker, stream, late, signals, left>>
      BY <1>10 DEF EndOfFile
  <2>2. UNCHANGED <<container, opencode, client, code, pipe, buffer, half, written>>
      BY <2>1 DEF docker, stream
  <2>3. CASE pc = "read" /\ pc' = "poll" /\ UNCHANGED <<saved, reason>>
    <3>1. TypeOK'
        BY <2>1, <2>2, <2>3 DEF TypeOK, Places
    <3>2. PlaceInv' /\ PatchIsFinal' /\ NothingRuns'
        BY <2>2, <2>3 DEF PlaceInv, Early, InLoop, PatchIsFinal, NothingRuns
    <3>3. StopInv'
        BY <2>2, <2>3 DEF StopInv
    <3>4. OrderInv'
        BY <2>1, <2>2, <2>3, OrderKept DEF Early, InLoop
    <3> QED
        BY <3>1, <3>2, <3>3, <3>4
  <2>4. CASE pc = "midline" /\ Handle(Part)
    <3>1. {pipe, buffer}' \subseteq Seq(Events \union {Part})
        BY <2>2 DEF TypeOK
    <3>2. TypeOK' /\ PlaceInv' /\ StopInv' /\ PatchIsFinal' /\ NothingRuns'
        BY <2>1, <2>2, <2>4, <3>1, HandleStep
    <3>3. pc' = "kill" /\ saved' \in {saved, Append(saved, Part)}
        BY <2>4, HandleCases
    <3>4. TrajectoryIsGenuine /\ saved \in Seq(Events)
        BY <2>4 DEF OrderInv, Early, InLoop
    <3>5. TrajectoryIsGenuine'
        BY <2>2, <3>3, <3>4, LineIsGenuine
    <3>6. OrderInv'
        BY <3>3, <3>5 DEF OrderInv, Early, InLoop
    <3> QED
        BY <3>2, <3>6
  <2> QED
      BY <1>10, <2>3, <2>4 DEF EndOfFile, Goto
<1>11. CASE KillContainer
  <2> USE <1>11 DEF KillContainer, Goto, Stopped, docker, stream
  <2>1. TypeOK'
      BY DEF TypeOK, Places
  <2>2. PlaceInv'
      BY DEF PlaceInv, Early, InLoop, BreakReasons
  <2>3. StopInv'
      BY DEF StopInv, PlaceInv, Early, InLoop
  <2>4. OrderInv'
      BY OrderKept DEF Early, InLoop
  <2>5. PatchIsFinal' /\ NothingRuns'
      BY DEF PatchIsFinal, NothingRuns, Status
  <2> QED
      BY <2>1, <2>2, <2>3, <2>4, <2>5
<1>12. CASE Wait
  <2>1. /\ pc \in {"wait", "reap"} /\ client = "exited" /\ reason' = Ending
        /\ pc' = IF Ending = "none" THEN "patch" ELSE "restart"
        /\ UNCHANGED <<docker, stream, saved, late, signals, left>>
      BY <1>12 DEF Wait
  <2>2. UNCHANGED <<container, opencode, client, code, pipe, buffer, half, written>>
      BY <2>1 DEF docker, stream
  <2>3. \/ reason # "none" /\ reason' = reason /\ pc' = "restart"
        \/ reason = "none" /\ pc' = "restart"
           /\ reason' \in {"client_nonzero_exit", "missing_completion_event"}
        \/ reason = "none" /\ code = 0 /\ pc' = "patch" /\ reason' = "none"
      BY <2>1, EndingCases
  <2>4. TypeOK'
    <3>1. reason' \in Reasons /\ pc' \in Places
        BY <2>3 DEF TypeOK, Reasons, Places
    <3> QED
        BY <2>1, <2>2, <3>1 DEF TypeOK
  <2>5. PlaceInv'
      BY <2>1, <2>2, <2>3 DEF PlaceInv, StopInv, Early, InLoop
  <2>6. StopInv'
      BY <2>1, <2>2, <2>3 DEF StopInv, BreakReasons
  <2>7. PatchIsFinal' /\ NothingRuns'
      BY <2>1, <2>2, <2>3 DEF PatchIsFinal, StopInv, NothingRuns
  <2>8. OrderInv'
      BY <2>1, <2>2, <2>3, OrderKept DEF Early, InLoop
  <2> QED
      BY <2>4, <2>5, <2>6, <2>7, <2>8
<1>13. CASE WaitExpires
  <2> USE <1>13 DEF WaitExpires, Goto, docker, stream
  <2>1. TypeOK'
      BY DEF TypeOK, Places
  <2>2. PlaceInv'
      BY DEF PlaceInv, Early, InLoop, BreakReasons
  <2>3. StopInv'
      BY DEF StopInv, PlaceInv, Early, InLoop
  <2>4. OrderInv'
      BY OrderKept DEF Early, InLoop
  <2>5. PatchIsFinal' /\ NothingRuns'
      BY DEF PatchIsFinal, NothingRuns, Status
  <2> QED
      BY <2>1, <2>2, <2>3, <2>4, <2>5
<1>14. CASE Restart
  <2> USE <1>14 DEF Restart, Goto, docker, stream
  <2>1. TypeOK'
      BY DEF TypeOK, Places
  <2>2. PlaceInv'
      BY DEF PlaceInv, Early, InLoop
  <2>3. StopInv'
      BY DEF StopInv
  <2>4. PatchIsFinal'
    <3>1. reason \in BreakReasons => opencode # "running"
        BY DEF StopInv
    <3>2. reason \in {"client_nonzero_exit", "missing_completion_event"} =>
              Status(reason) = "infra_error"
        BY DEF Status
    <3>3. reason' = reason /\ opencode' = opencode /\ Status(reason') = Status(reason)
        BY DEF Status
    <3> QED
        BY <3>1, <3>2, <3>3 DEF PlaceInv, PatchIsFinal
  <2>5. OrderInv'
      BY OrderKept DEF Early, InLoop
  <2>6. NothingRuns'
      BY DEF NothingRuns
  <2> QED
      BY <2>1, <2>2, <2>3, <2>4, <2>5, <2>6
<1>15. CASE Diff
  <2> USE <1>15 DEF Diff, Goto, docker, stream
  <2>1. TypeOK'
      BY DEF TypeOK, Places
  <2>2. PlaceInv'
      BY DEF PlaceInv, Early, InLoop, BreakReasons
  <2>3. StopInv'
      BY DEF StopInv, PlaceInv, Early, InLoop
  <2>4. OrderInv'
      BY OrderKept DEF Early, InLoop
  <2>5. PatchIsFinal' /\ NothingRuns'
      BY DEF PatchIsFinal, NothingRuns, Status
  <2> QED
      BY <2>1, <2>2, <2>3, <2>4, <2>5
<1>16. CASE Raise
  <2> USE <1>16 DEF Raise, unread, docker, stream
  <2>1. TypeOK'
      BY DEF TypeOK, Places
  <2>2. PlaceInv'
      BY DEF PlaceInv, Early, InLoop, BreakReasons
  <2>3. StopInv'
      BY DEF StopInv, PlaceInv, Early, InLoop
  <2>4. OrderInv'
      BY OrderKept DEF Early, InLoop
  <2>5. PatchIsFinal' /\ NothingRuns'
      BY DEF PatchIsFinal, NothingRuns, Status
  <2> QED
      BY <2>1, <2>2, <2>3, <2>4, <2>5
<1>17. CASE RemoveContainer
  <2> USE <1>17 DEF RemoveContainer, Leave, Stopped, docker, stream
  <2>1. TypeOK'
      BY DEF TypeOK, Places
  <2>2. PlaceInv'
      BY DEF PlaceInv, Early, InLoop, BreakReasons
  <2>3. StopInv'
      BY DEF StopInv, PlaceInv, Early, InLoop
  <2>4. OrderInv'
      BY OrderKept DEF Early, InLoop
  <2>5. PatchIsFinal' /\ NothingRuns'
      BY DEF PatchIsFinal, NothingRuns, Status
  <2> QED
      BY <2>1, <2>2, <2>3, <2>4, <2>5
<1>18. CASE RemoveFails
  <2> USE <1>18 DEF RemoveFails, Leave, docker, stream
  <2>1. TypeOK'
      BY DEF TypeOK, Places
  <2>2. PlaceInv'
      BY DEF PlaceInv, Early, InLoop, BreakReasons
  <2>3. StopInv'
      BY DEF StopInv, PlaceInv, Early, InLoop
  <2>4. OrderInv'
      BY OrderKept DEF Early, InLoop
  <2>5. PatchIsFinal' /\ NothingRuns'
      BY DEF PatchIsFinal, NothingRuns, Status
  <2> QED
      BY <2>1, <2>2, <2>3, <2>4, <2>5
<1>19. CASE Interrupt
  <2> USE <1>19 DEF Interrupt, InTry, Places, docker, stream
  <2>1. TypeOK'
    <3>1. signals' \in 0..MaxSignals
        BY OpenCodeAssumption DEF TypeOK
    <3>2. pc' \in Places /\ left' \in BOOLEAN
        BY DEF TypeOK
    <3>3. container' \in {container, "creating"}
        OBVIOUS
    <3> QED
        BY <3>1, <3>2, <3>3 DEF TypeOK
  <2>2. PlaceInv'
      BY DEF PlaceInv, Early, InLoop, BreakReasons
  <2>3. StopInv'
      BY DEF StopInv, PlaceInv, Early, InLoop
  <2>4. OrderInv'
      BY OrderKept DEF Early, InLoop
  <2>5. PatchIsFinal' /\ NothingRuns'
      BY DEF PatchIsFinal, NothingRuns, Status
  <2> QED
      BY <2>1, <2>2, <2>3, <2>4, <2>5
<1>20. CASE WriteLine
  <2>1. PICK e \in Events : Relay(e) /\ written' = Append(written, e)
      BY <1>20 DEF WriteLine
  <2>2. opencode = "running" /\ half' = half /\ ~half /\ Len(written) < MaxWritten
      BY <1>20 DEF WriteLine
  <2>3. half' \in BOOLEAN
      BY <2>2 DEF TypeOK
  <2> QED
      BY <2>1, <2>2, <2>3, PrintStep, PartIsNoEvent
<1>21. CASE BeginLine
  <2>1. /\ opencode = "running" /\ Relay(Part) /\ written' = written /\ half' = TRUE
        /\ Len(written) < MaxWritten
      BY <1>21 DEF BeginLine
  <2>2. half' \in BOOLEAN
      BY <2>1
  <2> QED
      BY <2>1, <2>2, PrintStep
<1>22. CASE EndLine
  <2>1. PICK e \in Events : Relay(e) /\ written' = Append(written, e)
      BY <1>22 DEF EndLine
  <2>2. opencode = "running" /\ half /\ half' = FALSE
      BY <1>22 DEF EndLine
  <2>3. Len(written) < MaxWritten /\ half' \in BOOLEAN
      BY <2>2 DEF PlaceInv
  <2> QED
      BY <2>1, <2>2, <2>3, PrintStep, PartIsNoEvent
<1>23. CASE OpenCodeEnds
  <2> USE <1>23 DEF OpenCodeEnds, runner, docker, stream
  <2>1. TypeOK'
      BY DEF TypeOK, Places
  <2>2. PlaceInv'
      BY DEF PlaceInv, Early, InLoop, BreakReasons
  <2>3. StopInv'
      BY DEF StopInv, PlaceInv, Early, InLoop
  <2>4. OrderInv'
      BY OrderKept DEF Early, InLoop
  <2>5. PatchIsFinal' /\ NothingRuns'
      BY DEF PatchIsFinal, NothingRuns, Status
  <2> QED
      BY <2>1, <2>2, <2>3, <2>4, <2>5
<1>24. CASE ClientExits
  <2> USE <1>24 DEF ClientExits, runner, docker, stream
  <2>1. TypeOK'
      BY DEF TypeOK, Places
  <2>2. PlaceInv'
      BY DEF PlaceInv, Early, InLoop, BreakReasons
  <2>3. StopInv'
      BY DEF StopInv, PlaceInv, Early, InLoop
  <2>4. OrderInv'
      BY OrderKept DEF Early, InLoop
  <2>5. PatchIsFinal' /\ NothingRuns'
      BY DEF PatchIsFinal, NothingRuns, Status
  <2> QED
      BY <2>1, <2>2, <2>3, <2>4, <2>5
<1>25. CASE ClientLost
  <2> USE <1>25 DEF ClientLost, runner, docker, stream
  <2>1. TypeOK'
      BY DEF TypeOK, Places
  <2>2. PlaceInv'
      BY DEF PlaceInv, Early, InLoop, BreakReasons
  <2>3. StopInv'
      BY DEF StopInv, PlaceInv, Early, InLoop
  <2>4. OrderInv'
      BY OrderKept DEF Early, InLoop
  <2>5. PatchIsFinal' /\ NothingRuns'
      BY DEF PatchIsFinal, NothingRuns, Status
  <2> QED
      BY <2>1, <2>2, <2>3, <2>4, <2>5
<1>26. CASE ContainerDies
  <2> USE <1>26 DEF ContainerDies, runner, Stopped, docker, stream
  <2>1. TypeOK'
      BY DEF TypeOK, Places
  <2>2. PlaceInv'
      BY DEF PlaceInv, Early, InLoop, BreakReasons
  <2>3. StopInv'
      BY DEF StopInv, PlaceInv, Early, InLoop
  <2>4. OrderInv'
      BY OrderKept DEF Early, InLoop
  <2>5. PatchIsFinal' /\ NothingRuns'
      BY DEF PatchIsFinal, NothingRuns, Status
  <2> QED
      BY <2>1, <2>2, <2>3, <2>4, <2>5
<1>27. CASE DaemonCreates
  <2> USE <1>27 DEF DaemonCreates, runner, docker, stream
  <2>1. TypeOK'
      BY DEF TypeOK, Places
  <2>2. PlaceInv'
      BY DEF PlaceInv, Early, InLoop, BreakReasons
  <2>3. StopInv'
      BY DEF StopInv, PlaceInv, Early, InLoop
  <2>4. OrderInv'
      BY OrderKept DEF Early, InLoop
  <2>5. PatchIsFinal' /\ NothingRuns'
      BY DEF PatchIsFinal, NothingRuns, Status
  <2> QED
      BY <2>1, <2>2, <2>3, <2>4, <2>5
<1>28. CASE Clock
  <2> USE <1>28 DEF Clock, runner, docker, stream
  <2>1. TypeOK'
      BY DEF TypeOK, Places
  <2>2. PlaceInv'
      BY DEF PlaceInv, Early, InLoop, BreakReasons
  <2>3. StopInv'
      BY DEF StopInv, PlaceInv, Early, InLoop
  <2>4. OrderInv'
      BY OrderKept DEF Early, InLoop
  <2>5. PatchIsFinal' /\ NothingRuns'
      BY DEF PatchIsFinal, NothingRuns, Status
  <2> QED
      BY <2>1, <2>2, <2>3, <2>4, <2>5
<1>29. CASE UNCHANGED vars
  <2> USE <1>29 DEF vars, docker, stream
  <2>1. TypeOK'
      BY DEF TypeOK
  <2>2. PlaceInv' /\ StopInv'
      BY DEF PlaceInv, StopInv
  <2>3. OrderInv'
      BY OrderKept
  <2>4. PatchIsFinal' /\ NothingRuns'
      BY DEF PatchIsFinal, NothingRuns, Status
  <2> QED
      BY <2>1, <2>2, <2>3, <2>4
<1> QED
    BY <1>1, <1>2, <1>3, <1>4, <1>5, <1>6, <1>7, <1>8, <1>9, <1>10, <1>11, <1>12, <1>13, <1>14, <1>15, <1>16, <1>17, <1>18, <1>19, <1>20, <1>21, <1>22, <1>23, <1>24, <1>25, <1>26, <1>27, <1>28, <1>29 DEF Next, Runner, Environment

LEMMA Invariance == Spec => []IInv
BY InitIInv, StepIInv, PTL DEF Spec

----------------------------------------------------------------------------
\* Type correctness of the runner, its container and the lines.
THEOREM TypeCorrect == Spec => []TypeOK
<1>1. IInv => TypeOK
    BY DEF IInv
<1> QED
    BY <1>1, Invariance, PTL

\* Whatever limit ended the loop, and however the client ended, a patch that is graded was
\* taken when OpenCode had stopped.
THEOREM PatchStays == Spec => []PatchIsFinal
<1>1. IInv => PatchIsFinal
    BY DEF IInv
<1> QED
    BY <1>1, Invariance, PTL

\* However often the runner is interrupted, a removal that succeeds leaves nothing running.
THEOREM NothingLeft == Spec => []NothingRuns
<1>1. IInv => NothingRuns
    BY DEF IInv
<1> QED
    BY <1>1, Invariance, PTL

\* However many lines OpenCode prints and in whatever parts they are read, the trajectory
\* is a beginning of what it printed.
THEOREM TrajectoryStays == Spec => []TrajectoryIsGenuine
<1>1. IInv => TrajectoryIsGenuine
    BY DEF IInv, OrderInv
<1> QED
    BY <1>1, Invariance, PTL

----------------------------------------------------------------------------
\* The limits: counters and sums of the lines of a trajectory.

\* What readline may return.
Line == Events \union {Part}

\* A nonempty set of numbers has a least element: what the inductions below rest on.
LEMMA Least ==
    ASSUME NEW T, T \subseteq Nat, T # {}
    PROVE  \E m \in T : \A k \in T : m =< k
<1> DEFINE R == OpToRel(<, Nat)
<1>1. IsWellFoundedOn(R, Nat)
    BY NatLessThanWellFounded
<1>2. \A k, m \in Nat : k < m => <<k, m>> \in R
    BY DEF OpToRel
<1> HIDE DEF R
<1>3. PICK m \in T : \A k \in T : <<k, m>> \notin R
    BY <1>1, WFMin
<1>4. \A k \in T : k \in Nat /\ m \in Nat /\ ~(k < m)
    BY <1>2, <1>3
<1> QED
    BY <1>4

\* sum holds the tokens of the first 0, 1, ... n lines.
Sums(sum, n, lines) ==
    sum = [i \in 0..n |-> IF i = 0 THEN 0 ELSE sum[i - 1] + lines[i].tokens]

LEMMA LinesHaveTokens ==
    ASSUME NEW line \in Line
    PROVE  line.tokens \in Nat /\ (line.type # "step_finish" => line.tokens = 0)
BY OpenCodeAssumption DEF Line, Part, Event

Agree(f, g, D) == \A i \in D : f[i] = g[i]

\* Two tables of sums agree where both are defined, over lines that agree there.
LEMMA SumsUnique ==
    ASSUME NEW m \in Nat, NEW n \in 0..m, NEW s, NEW t, Agree(s, t, 1..n),
           NEW f, Sums(f, m, s), NEW g, Sums(g, n, t)
    PROVE  Agree(f, g, 0..n)
<1> DEFINE T == {i \in 0..n : f[i] # g[i]}
<1>1. SUFFICES ASSUME T # {} PROVE FALSE
    BY DEF Agree
<1>2. PICK i \in T : \A k \in T : i =< k
  <2>1. T \subseteq Nat
      OBVIOUS
  <2> HIDE DEF T
  <2> QED
      BY <1>1, <2>1, Least
<1>3. i \in 0..n /\ f[i] # g[i]
    BY <1>2
<1>4. i # 0
    BY <1>3 DEF Sums
<1>5. f[i - 1] = g[i - 1]
    BY <1>2, <1>4
<1> QED
    BY <1>3, <1>4, <1>5 DEF Sums, Agree

\* The tokens of any lines can be summed up.
LEMMA SumsExist ==
    ASSUME NEW lines \in Seq(Line)
    PROVE  \E f \in [0..Len(lines) -> Nat] : Sums(f, Len(lines), lines)
<1> DEFINE P(n) == \E f \in [0..n -> Nat] : Sums(f, n, lines)
           T == {n \in 0..Len(lines) : ~P(n)}
<1>1. SUFFICES ASSUME T # {} PROVE FALSE
  <2>1. Len(lines) \in 0..Len(lines)
      OBVIOUS
  <2> QED
      BY <2>1
<1>2. PICK n \in T : \A k \in T : n =< k
  <2>1. T \subseteq Nat
      OBVIOUS
  <2> HIDE DEF T
  <2> QED
      BY <1>1, <2>1, Least
<1>3. n # 0
  <2>1. Sums([i \in 0..0 |-> 0], 0, lines) /\ [i \in 0..0 |-> 0] \in [0..0 -> Nat]
      BY DEF Sums
  <2> QED
      BY <1>2, <2>1
<1>4. n \in 1..Len(lines) /\ n - 1 \in 0..Len(lines)
    BY <1>2, <1>3
<1>5. PICK f \in [0..n - 1 -> Nat] : Sums(f, n - 1, lines)
  <2>1. n - 1 \notin T
    <3> HIDE DEF T
    <3> QED
        BY <1>2, <1>4
  <2>2. P(n - 1)
    <3> HIDE DEF P
    <3> QED
        BY <1>4, <2>1
  <2> QED
      BY <2>2
<1> DEFINE g == [i \in 0..n |-> IF i = n THEN f[n - 1] + lines[n].tokens ELSE f[i]]
<1>6. lines[n].tokens \in Nat /\ f[n - 1] \in Nat
  <2>1. lines[n] \in Line
      BY <1>4
  <2> QED
      BY <1>4, <2>1, LinesHaveTokens
<1>7. g \in [0..n -> Nat]
    BY <1>4, <1>6
<1>8. \A i \in 0..n : g[i] = IF i = 0 THEN 0 ELSE g[i - 1] + lines[i].tokens
    BY <1>4, <1>5, <1>6 DEF Sums
<1>9. Sums(g, n, lines)
    BY <1>8 DEF Sums
<1> HIDE DEF g
<1> QED
    BY <1>2, <1>7, <1>9

\* Tokens is the last entry of such a table.
LEMMA TokensAreSum ==
    ASSUME NEW lines \in Seq(Line)
    PROVE  \E f \in [0..Len(lines) -> Nat] :
               Sums(f, Len(lines), lines) /\ Tokens(lines) = f[Len(lines)]
<1>1. PICK f \in [0..Len(lines) -> Nat] : Sums(f, Len(lines), lines)
    BY SumsExist
<1> DEFINE sum == CHOOSE sum :
               sum = [n \in 0..Len(lines) |->
                         IF n = 0 THEN 0 ELSE sum[n - 1] + lines[n].tokens]
<1>2. sum = [n \in 0..Len(lines) |-> IF n = 0 THEN 0 ELSE sum[n - 1] + lines[n].tokens]
    BY <1>1 DEF Sums
<1>3. Tokens(lines) = sum[Len(lines)]
    BY DEF Tokens
<1> HIDE DEF sum
<1>4. Sums(sum, Len(lines), lines)
    BY <1>2 DEF Sums
<1>5. Len(lines) \in Nat /\ Len(lines) \in 0..Len(lines) /\ Agree(lines, lines, 1..Len(lines))
    BY DEF Agree
<1>6. Agree(sum, f, 0..Len(lines))
    BY <1>1, <1>4, <1>5, SumsUnique
<1> QED
    BY <1>1, <1>3, <1>5, <1>6 DEF Agree

LEMMA TokensAppend ==
    ASSUME NEW lines \in Seq(Line), NEW line \in Line
    PROVE  Tokens(Append(lines, line)) = Tokens(lines) + line.tokens /\ Tokens(lines) \in Nat
<1>1. PICK f \in [0..Len(lines) -> Nat] :
          Sums(f, Len(lines), lines) /\ Tokens(lines) = f[Len(lines)]
    BY TokensAreSum
<1>2. /\ Append(lines, line) \in Seq(Line) /\ Len(Append(lines, line)) = Len(lines) + 1
      /\ Append(lines, line)[Len(lines) + 1] = line
      /\ \A i \in 1..Len(lines) : Append(lines, line)[i] = lines[i]
      /\ Len(lines) \in Nat
    OBVIOUS
<1>3. PICK g \in [0..Len(lines) + 1 -> Nat] :
          /\ Sums(g, Len(lines) + 1, Append(lines, line))
          /\ Tokens(Append(lines, line)) = g[Len(lines) + 1]
  <2> DEFINE t == Append(lines, line)
  <2>1. t \in Seq(Line) /\ Len(t) = Len(lines) + 1
      BY <1>2
  <2> HIDE DEF t
  <2>2. PICK g \in [0..Len(t) -> Nat] : Sums(g, Len(t), t) /\ Tokens(t) = g[Len(t)]
      BY <2>1, TokensAreSum
  <2>3. g \in [0..Len(lines) + 1 -> Nat] /\ Sums(g, Len(lines) + 1, t) /\ Tokens(t) = g[Len(lines) + 1]
      BY <2>1, <2>2
  <2> QED
      BY <2>3 DEF t
<1>4. g[Len(lines)] = f[Len(lines)]
  <2> DEFINE t == Append(lines, line)
             n == Len(lines)
             m == Len(lines) + 1
  <2>1. m \in Nat /\ n \in 0..m /\ n \in 0..n /\ Agree(t, lines, 1..n)
      BY <1>2 DEF Agree
  <2>2. Sums(g, m, t) /\ Sums(f, n, lines)
      BY <1>1, <1>3
  <2> HIDE DEF t, n, m
  <2>3. Agree(g, f, 0..n)
      BY <2>1, <2>2, SumsUnique
  <2>4. g[n] = f[n]
      BY <2>1, <2>3 DEF Agree
  <2> QED
      BY <2>4 DEF n
<1>5. g[Len(lines) + 1] = g[Len(lines)] + line.tokens
  <2> DEFINE t == Append(lines, line)
             m == Len(lines) + 1
  <2>1. m \in 0..m /\ m # 0 /\ m - 1 = Len(lines) /\ t[m] = line
      BY <1>2
  <2>2. Sums(g, m, t)
      BY <1>3
  <2> HIDE DEF t, m
  <2>3. g[m] = g[m - 1] + t[m].tokens
      BY <2>1, <2>2 DEF Sums
  <2> QED
      BY <2>1, <2>3 DEF m
<1>6. Tokens(lines) \in Nat
    BY <1>1, <1>2
<1> QED
    BY <1>1, <1>3, <1>4, <1>5, <1>6

LEMMA CountAppend ==
    ASSUME NEW lines \in Seq(Line), NEW line \in Line, NEW type
    PROVE  /\ Count(type, lines) \in Nat
           /\ line.type = type => Count(type, Append(lines, line)) = Count(type, lines) + 1
           /\ line.type # type => Count(type, Append(lines, line)) = Count(type, lines)
<1> DEFINE C(s) == {n \in DOMAIN s : s[n].type = type}
           t == Append(lines, line)
<1>1. IsFiniteSet(C(lines)) /\ Cardinality(C(lines)) \in Nat
  <2>1. IsFiniteSet(1..Len(lines))
      BY FS_Interval
  <2>2. C(lines) \subseteq 1..Len(lines)
      OBVIOUS
  <2> QED
      BY <2>1, <2>2, FS_Subset, FS_CardinalityType
<1>2. /\ DOMAIN t = 1..Len(lines) + 1 /\ DOMAIN lines = 1..Len(lines) /\ Len(lines) \in Nat
      /\ t[Len(lines) + 1] = line
      /\ \A i \in 1..Len(lines) : t[i] = lines[i]
    OBVIOUS
<1>6. Count(type, lines) = Cardinality(C(lines)) /\ Count(type, t) = Cardinality(C(t))
    BY DEF Count
<1> HIDE DEF t
<1>3. Len(lines) + 1 \notin C(lines)
    BY <1>2
<1>4. CASE line.type = type
  <2>1. C(t) = C(lines) \union {Len(lines) + 1}
      BY <1>2, <1>4
  <2>2. Cardinality(C(t)) = Cardinality(C(lines)) + 1
      BY <1>1, <1>3, <2>1, FS_AddElement
  <2> QED
      BY <1>1, <1>4, <1>6, <2>2 DEF t
<1>5. CASE ~(line.type = type)
  <2>1. C(t) = C(lines)
      BY <1>2, <1>5
  <2> QED
      BY <1>1, <1>5, <1>6, <2>1 DEF t
<1> QED
    BY <1>4, <1>5

----------------------------------------------------------------------------
\* No line is saved after the one that reaches a limit.

\* A trajectory holds no more lines, requests and tool events than its limits say.
TrajectoryIsBounded ==
    /\ Len(saved) =< MaxLines
    /\ Count("step_finish", saved) =< MaxRequests
    /\ Count("tool_use", saved) =< MaxTools

LimitsInv == LimitsHold /\ Len(saved) =< MaxLines

LEMMA NothingReached == Reached(<<>>) = "none"
<1>1. Count("step_finish", <<>>) = 0 /\ Count("tool_use", <<>>) = 0
  <2>1. {n \in DOMAIN <<>> : <<>>[n].type = "step_finish"} = {}
        /\ {n \in DOMAIN <<>> : <<>>[n].type = "tool_use"} = {}
      OBVIOUS
  <2> QED
      BY <2>1, FS_EmptySet DEF Count
<1>2. Tokens(<<>>) = 0
  <2>1. <<>> \in Seq(Line) /\ Len(<<>>) = 0
      OBVIOUS
  <2>2. PICK f \in [0..Len(<<>>) -> Nat] : Sums(f, Len(<<>>), <<>>) /\ Tokens(<<>>) = f[Len(<<>>)]
      BY <2>1, TokensAreSum
  <2> QED
      BY <2>1, <2>2 DEF Sums
<1>3. MaxRequests \in Nat \ {0} /\ MaxTools \in Nat \ {0} /\ MaxTokens \in Nat \ {0}
    BY OpenCodeAssumption
<1> QED
    BY <1>1, <1>2, <1>3 DEF Reached

\* A line that is no request, no tool event and has no tokens reaches no limit.
LEMMA OthersReachNothing ==
    ASSUME NEW lines \in Seq(Line), NEW line \in Line,
           line.type \notin {"step_finish", "tool_use"}
    PROVE  Reached(Append(lines, line)) = Reached(lines)
<1>1. /\ Count("step_finish", Append(lines, line)) = Count("step_finish", lines)
      /\ Count("tool_use", Append(lines, line)) = Count("tool_use", lines)
    BY CountAppend
<1>2. Tokens(Append(lines, line)) = Tokens(lines)
    BY TokensAppend, LinesHaveTokens
<1> QED
    BY <1>1, <1>2 DEF Reached

LEMMA BeginningsOfAppend ==
    ASSUME NEW S, NEW s \in Seq(S), NEW x \in S, NEW n \in 1..Len(s)
    PROVE  SubSeq(Append(s, x), 1, n) = SubSeq(s, 1, n)
<1>1. /\ SubSeq(Append(s, x), 1, n) \in Seq(S) /\ Len(SubSeq(Append(s, x), 1, n)) = n
      /\ \A i \in 1..n : SubSeq(Append(s, x), 1, n)[i] = s[i]
    OBVIOUS
<1>2. /\ SubSeq(s, 1, n) \in Seq(S) /\ Len(SubSeq(s, 1, n)) = n
      /\ \A i \in 1..n : SubSeq(s, 1, n)[i] = s[i]
    OBVIOUS
<1> QED
    BY <1>1, <1>2, SeqEqual

LEMMA HandleKeepsLimits ==
    ASSUME TypeOK, LimitsInv, reason = "none", NEW line \in Line, Handle(line)
    PROVE  LimitsInv'
<1>1. saved \in Seq(Line) /\ Len(saved) \in Nat /\ MaxLines \in Nat
    BY OpenCodeAssumption DEF TypeOK, Line
<1>2. Reached(saved) = "none"
    BY DEF LimitsInv, LimitsHold
<1>3. CASE Verdict(line) \in {"event_line_size_limit", "trajectory_size_limit"}
  <2>1. saved' = saved
      BY <1>3 DEF Handle
  <2> QED
      BY <1>2, <2>1 DEF LimitsInv, LimitsHold
<1>4. CASE Verdict(line) \notin {"event_line_size_limit", "trajectory_size_limit"}
  <2>1. saved' = Append(saved, line) /\ Len(saved) < MaxLines
      BY <1>1, <1>4 DEF Handle, Verdict
  <2>2. Len(saved') = Len(saved) + 1
      BY <1>1, <2>1
  <2>3. ASSUME NEW n \in 1..Len(saved') - 1 PROVE Reached(SubSeq(saved', 1, n)) = "none"
    <3>1. n \in 1..Len(saved) /\ SubSeq(saved', 1, n) = SubSeq(saved, 1, n)
        BY <1>1, <2>1, <2>2, BeginningsOfAppend
    <3>2. CASE n = Len(saved)
      <4>1. SubSeq(saved, 1, n) = saved
          BY <1>1, <3>2, SubSeqFull
      <4> QED
          BY <1>2, <3>1, <4>1
    <3>3. CASE n # Len(saved)
      <4>1. n \in 1..Len(saved) - 1
          BY <1>1, <3>1, <3>3
      <4> QED
          BY <3>1, <4>1 DEF LimitsInv, LimitsHold
    <3> QED
        BY <3>2, <3>3
  <2>4. Reached(saved') # "none" => reason' = Reached(saved')
    <3>1. CASE line.type \in {"part", "malformed"}
      <4>1. Reached(saved') = "none"
          BY <1>1, <1>2, <2>1, <3>1, OthersReachNothing
      <4> QED
          BY <4>1
    <3>2. CASE line.type \notin {"part", "malformed"}
      <4>1. Verdict(line) = Reached(saved')
          BY <1>4, <2>1, <3>2 DEF Verdict
      <4> QED
          BY <4>1 DEF Handle, Break
    <3> QED
        BY <3>1, <3>2
  <2>5. LimitsHold'
      BY <2>3, <2>4 DEF LimitsHold
  <2> QED
      BY <1>1, <2>1, <2>2, <2>5 DEF LimitsInv
<1> QED
    BY <1>3, <1>4

\* Every other step leaves the lines alone, and a reason that was given.
LEMMA OthersKeepLimits ==
    ASSUME LimitsInv, saved' = saved, reason # "none" => reason' = reason
    PROVE  LimitsInv'
BY DEF LimitsInv, LimitsHold

LEMMA StepLimits ==
    ASSUME IInv, LimitsInv, [Next]_vars
    PROVE  LimitsInv'
<1> USE DEF IInv
<1>1. CASE ReadBuffer
  <2>1. pc \in Early /\ buffer # <<>> /\ reason = "none"
      BY <1>1 DEF ReadBuffer, PlaceInv, Early, InLoop
  <2>2. Head(buffer) \in Line
    <3>1. buffer \in Seq(Line)
        BY DEF TypeOK, Line
    <3> QED
        BY <2>1, <3>1
  <2>3. (saved' = saved /\ reason' = reason) \/ Handle(Head(buffer))
      BY <1>1 DEF ReadBuffer
  <2> QED
      BY <2>1, <2>2, <2>3, HandleKeepsLimits, OthersKeepLimits
<1>2. CASE EndOfFile
  <2>1. (saved' = saved /\ reason' = reason) \/ (pc = "midline" /\ Handle(Part))
      BY <1>2 DEF EndOfFile
  <2>2. pc = "midline" => reason = "none"
      BY DEF PlaceInv, Early, InLoop
  <2>3. Part \in Line
      BY DEF Line
  <2> QED
      BY <2>1, <2>2, <2>3, HandleKeepsLimits, OthersKeepLimits
<1>3. CASE Deadline
  <2>1. saved' = saved /\ reason = "none"
      BY <1>3 DEF Deadline, unread, PlaceInv, Early, InLoop
  <2> QED
      BY <2>1, OthersKeepLimits
<1>4. CASE Wait
  <2>1. saved' = saved /\ reason' = Ending
      BY <1>4 DEF Wait
  <2> QED
      BY <2>1, EndingCases, OthersKeepLimits
<1>5. CASE Create \/ CreateRaises \/ Start \/ Spawn \/ Poll \/ Select \/ FillBuffer
           \/ KillContainer \/ WaitExpires \/ Restart \/ Diff \/ Raise
           \/ RemoveContainer \/ RemoveFails
  <2>1. saved' = saved /\ reason' = reason
      BY <1>5 DEF Create, CreateRaises, Start, Spawn, Poll, Select, FillBuffer, KillContainer,
                  WaitExpires, Restart, Diff, Raise, RemoveContainer, RemoveFails, unread
  <2> QED
      BY <2>1, OthersKeepLimits
<1>6. CASE Interrupt \/ Environment \/ UNCHANGED vars
  <2>1. saved' = saved /\ reason' = reason
      BY <1>6 DEF Interrupt, Environment, WriteLine, BeginLine, EndLine, Relay, OpenCodeEnds,
                  ClientExits, ClientLost, ContainerDies, DaemonCreates, Clock, runner, vars
  <2> QED
      BY <2>1, OthersKeepLimits
<1> QED
    BY <1>1, <1>2, <1>3, <1>4, <1>5, <1>6 DEF Next, Runner

LEMMA LimitsInvariance == Spec => []LimitsInv
<1>1. Init => LimitsInv
  <2> SUFFICES ASSUME Init PROVE LimitsInv
      OBVIOUS
  <2>1. saved = <<>> /\ Len(saved) = 0 /\ 1..Len(saved) - 1 = {} /\ MaxLines \in Nat
      BY OpenCodeAssumption DEF Init
  <2> QED
      BY <2>1, NothingReached DEF LimitsInv, LimitsHold
<1>2. IInv /\ LimitsInv /\ [Next]_vars => LimitsInv'
    BY StepLimits
<1> QED
    BY <1>1, <1>2, Invariance, PTL DEF Spec

\* Whatever waits in the pipe and the buffer, and however long the trajectory may become,
\* no event is saved after the one that reaches a limit, and that limit is the reason.
THEOREM LimitsAreKept == Spec => []LimitsHold
<1>1. LimitsInv => LimitsHold
    BY DEF LimitsInv
<1> QED
    BY <1>1, LimitsInvariance, PTL

LEMMA BoundedByLimits == IInv /\ LimitsInv => TrajectoryIsBounded
<1> SUFFICES ASSUME IInv, LimitsInv PROVE TrajectoryIsBounded
    OBVIOUS
<1> USE DEF IInv
<1>1. saved \in Seq(Line) /\ Len(saved) \in Nat
    BY DEF TypeOK, Line
<1>2. MaxRequests \in Nat \ {0} /\ MaxTools \in Nat \ {0}
    BY OpenCodeAssumption
<1>3. PICK front \in Seq(Line) :
          Reached(front) = "none" /\ (saved = front \/ \E line \in Line : saved = Append(front, line))
  <2>1. CASE Len(saved) = 0
    <3>1. saved = <<>> /\ <<>> \in Seq(Line)
        BY <1>1, <2>1
    <3> QED
        BY <3>1, NothingReached
  <2>2. CASE Len(saved) = 1
    <3>1. saved[1] \in Line /\ saved = Append(<<>>, saved[1]) /\ <<>> \in Seq(Line)
        BY <1>1, <2>2
    <3> QED
        BY <3>1, NothingReached
  <2>3. CASE Len(saved) > 1
    <3> DEFINE n == Len(saved) - 1
               front == SubSeq(saved, 1, n)
    <3>1. n \in 1..Len(saved) - 1 /\ saved[Len(saved)] \in Line
        BY <1>1, <2>3
    <3>2. Reached(front) = "none"
        BY <3>1 DEF LimitsInv, LimitsHold
    <3>3. front \in Seq(Line) /\ Len(front) = n /\ \A i \in 1..n : front[i] = saved[i]
        BY <1>1, <3>1
    <3>4. saved = Append(front, saved[Len(saved)])
        BY <1>1, <3>1, <3>3
    <3> QED
        BY <3>1, <3>2, <3>3, <3>4
  <2>4. Len(saved) = 0 \/ Len(saved) = 1 \/ Len(saved) > 1
      BY <1>1
  <2> QED
      BY <2>1, <2>2, <2>3, <2>4
<1>4. Count("step_finish", front) < MaxRequests /\ Count("tool_use", front) < MaxTools
  <2>1. Count("step_finish", front) \in Nat /\ Count("tool_use", front) \in Nat
    <3>1. Part \in Line
        BY DEF Line
    <3> QED
        BY <3>1, CountAppend
  <2> QED
      BY <1>2, <1>3, <2>1 DEF Reached
<1>5. Count("step_finish", saved) =< MaxRequests /\ Count("tool_use", saved) =< MaxTools
  <2>1. CASE saved = front
    <3>1. Part \in Line
        BY DEF Line
    <3> QED
      BY <1>2, <1>4, <2>1, <3>1, CountAppend
  <2>2. ASSUME NEW line \in Line, saved = Append(front, line)
        PROVE  Count("step_finish", saved) =< MaxRequests /\ Count("tool_use", saved) =< MaxTools
    <3>1. /\ Count("step_finish", front) \in Nat /\ Count("tool_use", front) \in Nat
          /\ Count("step_finish", saved) \in {Count("step_finish", front), Count("step_finish", front) + 1}
          /\ Count("tool_use", saved) \in {Count("tool_use", front), Count("tool_use", front) + 1}
        BY <2>2, CountAppend
    <3> QED
        BY <1>2, <1>4, <3>1
  <2> QED
      BY <1>3, <2>1, <2>2
<1> QED
    BY <1>5 DEF TrajectoryIsBounded, LimitsInv

\* A trajectory is finite whatever OpenCode prints: it has no more lines, requests and tool
\* events than its limits, not even one that was waiting when a limit was reached.
THEOREM TrajectoryStaysBounded == Spec => []TrajectoryIsBounded
BY BoundedByLimits, Invariance, LimitsInvariance, PTL

=============================================================================
