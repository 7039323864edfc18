--------------------------- MODULE TransportProofs ---------------------------
(***************************************************************************)
(* A streaming call of benchmarks/transport.py asks once and returns whole *)
(* answers, for answers of any length, any timeouts and any server.        *)
(***************************************************************************)
EXTENDS Transport, SequenceTheorems, TLAPS

----------------------------------------------------------------------------
\* The inductive invariant.

Ended == {"done", "failed"}

\* No wait outlasts its limit, and no limit the deadline by more than the least wait,
\* unless a line comes in parts.
TimeInv ==
    /\ pc \in {"connect", "head", "read"} => clock =< limit
    /\ pc = "connect" => limit = ConnectTimeout /\ posted = 0
    /\ pc = "head" => limit =< 2 * ConnectTimeout
    /\ ~dripped =>
           /\ pc = "loop" => clock =< TotalTimeout + Grain
           /\ pc = "read" => limit =< TotalTimeout + Grain

\* pos[i] is the number of lines of the answer up to the i-th line on the wire.
Numbering(pos) ==
    /\ pos[0] = 2 * Len(got) + Len(pending)
    /\ pos[Len(wire)] = sent
    /\ \A i \in 0..Len(wire) : pos[i] =< sent
    /\ \A i \in 1..Len(wire) :
           IF wire[i].kind \in {"data", "empty"}
           THEN pos[i] = pos[i - 1] + 1 /\ wire[i] = Answer(pos[i])
           ELSE pos[i] = pos[i - 1]

\* What was processed is the beginning of the answer, and the wire continues it.
OrderInv ==
    /\ got = [i \in 1..Len(got) |-> i]
    /\ pc \notin Ended =>
           /\ pending \in {<<>>, <<Len(got) + 1>>}
           /\ \E pos \in [0..Len(wire) -> Nat] : Numbering(pos)

IInv == TypeOK /\ TimeInv /\ OrderInv /\ AskedOnce /\ OnlyWholeAnswers

----------------------------------------------------------------------------
LEMMA AnswerLines ==
    ASSUME NEW g \in Nat
    PROVE  /\ Answer(2 * g + 1) = [kind |-> "data", event |-> g + 1]
           /\ Answer(2 * g + 2) = [kind |-> "empty", event |-> 0]
<1>1. (2 * g + 1) % 2 = 1 /\ (2 * g + 2) % 2 = 0 /\ (2 * g + 1 + 1) \div 2 = g + 1
    OBVIOUS
<1> QED
    BY <1>1 DEF Answer

LEMMA AnswerIsLine ==
    ASSUME NEW i \in 1..2 * Done
    PROVE  Answer(i) \in Line /\ Answer(i).kind \in {"data", "empty"}
<1>1. Done \in Nat
    BY TransportAssumption DEF Done
<1>2. CASE i % 2 = 1
  <2>1. (i + 1) \div 2 \in 1..Done
      BY <1>1, <1>2
  <2> QED
      BY <1>2, <2>1 DEF Answer, Line
<1>3. CASE i % 2 # 1
    BY <1>3 DEF Answer, Line
<1> QED
    BY <1>2, <1>3

\* A line that is appended to the wire gets the next number, or the last one again.
LEMMA WireGrows ==
    ASSUME TypeOK, NEW pos \in [0..Len(wire) -> Nat], Numbering(pos),
           NEW line \in Line, wire' = Append(wire, line), got' = got, pending' = pending,
           \/ line.kind \in {"data", "empty"} /\ line = Answer(sent + 1) /\ sent' = sent + 1
           \/ line.kind \notin {"data", "empty"} /\ sent' = sent
    PROVE  \E p \in [0..Len(wire') -> Nat] : Numbering(p)'
<1> PICK p : p = [i \in 0..Len(wire) + 1 |-> IF i =< Len(wire) THEN pos[i] ELSE sent']
    OBVIOUS
<1>1. wire \in Seq(Line) /\ sent \in Nat
    BY TransportAssumption DEF TypeOK, Done
<1>2. Len(wire) \in Nat /\ Len(wire') = Len(wire) + 1
    BY <1>1
<1>3. p \in [0..Len(wire') -> Nat]
    BY <1>1, <1>2
<1>4. \A i \in 1..Len(wire) : wire'[i] = wire[i]
    BY <1>1
<1>5. wire'[Len(wire) + 1] = line
    BY <1>1
<1>6. p[0] = 2 * Len(got') + Len(pending')
    BY <1>2 DEF Numbering
<1>7. p[Len(wire')] = sent'
    BY <1>2
<1>8. \A i \in 0..Len(wire') : p[i] =< sent'
    BY <1>1, <1>2 DEF Numbering
<1>9. ASSUME NEW i \in 1..Len(wire')
      PROVE  IF wire'[i].kind \in {"data", "empty"}
             THEN p[i] = p[i - 1] + 1 /\ wire'[i] = Answer(p[i])
             ELSE p[i] = p[i - 1]
  <2>1. CASE i \in 1..Len(wire)
      BY <1>2, <1>4, <2>1 DEF Numbering
  <2>2. CASE i = Len(wire) + 1
    <3>1. p[i] = sent' /\ p[i - 1] = sent
        BY <1>2, <2>2 DEF Numbering
    <3> QED
        BY <1>1, <1>5, <2>2, <3>1
  <2> QED
      BY <1>2, <2>1, <2>2
<1>10. Numbering(p)'
    BY <1>6, <1>7, <1>8, <1>9 DEF Numbering
<1> QED
    BY <1>3, <1>10

\* When a line is taken from the wire, the numbers of the others stay.
LEMMA WireShrinks ==
    ASSUME TypeOK, NEW pos \in [0..Len(wire) -> Nat], Numbering(pos),
           wire # <<>>, wire' = Tail(wire), sent' = sent,
           2 * Len(got') + Len(pending') = pos[1]
    PROVE  \E p \in [0..Len(wire') -> Nat] : Numbering(p)'
<1> PICK p : p = [i \in 0..Len(wire) - 1 |-> pos[i + 1]]
    OBVIOUS
<1>1. wire \in Seq(Line)
    BY DEF TypeOK
<1>2. Len(wire) \in Nat \ {0} /\ Len(wire') = Len(wire) - 1
    BY <1>1
<1>3. p \in [0..Len(wire') -> Nat]
    BY <1>2
<1>4. \A i \in 1..Len(wire') : wire'[i] = wire[i + 1]
    BY <1>1, <1>2
<1>5. \A i \in 0..Len(wire') : p[i] = pos[i + 1]
    BY <1>2
<1>6. Numbering(p)'
    BY <1>2, <1>4, <1>5 DEF Numbering
<1> QED
    BY <1>3, <1>6

----------------------------------------------------------------------------
LEMMA InitIInv == Init => IInv
<1> SUFFICES ASSUME Init PROVE IInv
    OBVIOUS
<1> USE TransportAssumption DEF Init
<1>1. TypeOK
  <2>1. /\ Deltas \in Nat /\ MaxRetries \in Nat /\ MaxParts \in Nat /\ MaxComments \in Nat
        /\ ConnectTimeout \in Nat
      OBVIOUS
  <2>2. 0 \in 0..2 * Done /\ 1 \in 1..MaxRetries + 1 /\ 0 \in 0..MaxParts /\ 0 \in 0..MaxComments
      BY <2>1 DEF Done
  <2>3. {clock, limit, wait, lines, posted} \subseteq Nat
      BY <2>1
  <2>4. dripped \in BOOLEAN
      OBVIOUS
  <2>5. pending \in Seq(1..Done) /\ got \in Seq(1..Deltas) /\ wire \in Seq(Line)
      OBVIOUS
  <2> HIDE DEF Init
  <2>6. pc = "connect" /\ error = "none" /\ server = "none"
        /\ attempt = 1 /\ sent = 0 /\ parts = 0 /\ comments = 0
      BY DEF Init
  <2> QED
      BY <2>2, <2>3, <2>4, <2>5, <2>6 DEF TypeOK
<1>2. TimeInv
    BY DEF TimeInv
<1>3. OrderInv
  <2>1. [i \in 0..0 |-> 0] \in [0..Len(wire) -> Nat] /\ Numbering([i \in 0..0 |-> 0])
      BY DEF Numbering
  <2> QED
      BY <2>1 DEF OrderInv, Ended
<1> QED
    BY <1>1, <1>2, <1>3 DEF IInv, AskedOnce, OnlyWholeAnswers

\* Steps that neither read the answer nor send more of it.
LEMMA OrderKept ==
    ASSUME OrderInv, pc' \in Ended \/ pc \notin Ended,
           UNCHANGED <<wire, sent, got, pending>>
    PROVE  OrderInv'
<1>1. ASSUME NEW pos, Numbering(pos)
      PROVE  Numbering(pos)'
    BY <1>1 DEF Numbering
<1> QED
    BY <1>1 DEF OrderInv

----------------------------------------------------------------------------
\* The empty line that ends an event: the event is the next one of the answer.
LEMMA EventEnds ==
    ASSUME IInv, pc = "read", wire # <<>>, wire' = Tail(wire),
           Head(wire).kind = "empty", EndEvent,
           UNCHANGED <<request, timing, server, sent, parts, comments>>
    PROVE  IInv'
<1> USE DEF IInv
<1>1. wire \in Seq(Line) /\ Len(wire) \in Nat \ {0} /\ Head(wire) = wire[1]
    BY DEF TypeOK
<1>2. /\ Deltas \in Nat /\ Done = Deltas + 1 /\ sent \in 0..2 * Done
      /\ got \in Seq(1..Deltas) /\ pending \in Seq(1..Done) /\ lines \in Nat
    BY TransportAssumption DEF TypeOK, Done
<1> DEFINE g == Len(got)
<1>3. g \in Nat /\ Len(<<g + 1>>) = 1 /\ <<g + 1>>[1] = g + 1 /\ Len(<<>>) = 0
    BY <1>2
<1>4. PICK pos \in [0..Len(wire) -> Nat] : Numbering(pos)
    BY DEF OrderInv, Ended
<1>5. /\ pos[0] = 2 * g + Len(pending)
      /\ pos[1] = pos[0] + 1 /\ wire[1] = Answer(pos[1]) /\ pos[1] =< sent
    BY <1>1, <1>4 DEF Numbering
<1>6. pending = <<g + 1>>
  <2>1. pending \in {<<>>, <<g + 1>>}
      BY DEF OrderInv, Ended
  <2>2. ASSUME pending = <<>> PROVE FALSE
    <3>1. wire[1] = Answer(2 * g + 1)
        BY <1>3, <1>5, <2>2
    <3>2. Answer(2 * g + 1) = [kind |-> "data", event |-> g + 1]
        BY <1>3, AnswerLines
    <3> QED
        BY <1>1, <3>1, <3>2
  <2> QED
      BY <2>1, <2>2
<1>7. pos[1] = 2 * g + 2
    BY <1>3, <1>5, <1>6
<1>8. got = [i \in 1..g |-> i]
    BY DEF OrderInv
<1>9. AskedOnce'
    BY DEF AskedOnce, request
<1>10. CASE g + 1 = Done
  <2>1. pc' = "done" /\ pending' = <<>> /\ got' = got /\ error' = error /\ lines' = lines + 1
      BY <1>3, <1>6, <1>10 DEF EndEvent
  <2>2. TypeOK'
    <3>1. wire' \in Seq(Line) /\ <<>> \in Seq(1..Done)
        BY <1>1
    <3> QED
        BY <1>2, <2>1, <3>1 DEF TypeOK, request, timing
  <2>3. TimeInv'
      BY <2>1 DEF TimeInv
  <2>4. OrderInv'
      BY <1>8, <2>1 DEF OrderInv, Ended
  <2>5. OnlyWholeAnswers'
    <3>1. sent = 2 * Done
        BY <1>2, <1>3, <1>5, <1>7, <1>10
    <3>2. g = Deltas
        BY <1>2, <1>3, <1>10
    <3> QED
        BY <1>8, <2>1, <3>1, <3>2 DEF OnlyWholeAnswers
  <2> QED
      BY <1>9, <2>2, <2>3, <2>4, <2>5
<1>11. CASE g + 1 # Done
  <2>1. pending # <<>> /\ pending # <<Done>> /\ ~(Len(pending) > 1)
      BY <1>2, <1>3, <1>6, <1>11
  <2>2. /\ pc' = "loop" /\ got' = got \o pending /\ pending' = <<>>
        /\ error' = error /\ lines' = lines + 1
      BY <2>1 DEF EndEvent
  <2>3. g + 1 \in 1..Deltas
      BY <1>2, <1>3, <1>5, <1>7, <1>11
  <2>4. /\ got' \in Seq(1..Deltas) /\ Len(got') = g + 1
        /\ \A i \in 1..g : got'[i] = got[i]
        /\ got'[g + 1] = g + 1
      BY <1>2, <1>3, <1>6, <2>2, <2>3
  <2>5. TypeOK'
    <3>1. wire' \in Seq(Line) /\ <<>> \in Seq(1..Done)
        BY <1>1
    <3> QED
        BY <1>2, <2>2, <2>4, <3>1 DEF TypeOK, request, timing
  <2>6. TimeInv'
    <3>1. clock' = clock /\ limit' = limit /\ dripped' = dripped
        BY DEF timing
    <3>2. clock \in Nat /\ limit \in Nat /\ clock =< limit
        BY DEF TypeOK, TimeInv
    <3>3. ~dripped => clock =< TotalTimeout + Grain
        BY TransportAssumption, <3>2 DEF TimeInv
    <3> QED
        BY <2>2, <3>1, <3>3 DEF TimeInv
  <2>7. OrderInv'
    <3>1. got' = [i \in 1..Len(got') |-> i]
        BY <1>3, <1>8, <2>4
    <3>2. 2 * Len(got') + Len(pending') = pos[1]
        BY <1>3, <1>7, <2>2, <2>4
    <3>3. \E p \in [0..Len(wire') -> Nat] : Numbering(p)'
        BY <1>4, <3>2, WireShrinks
    <3> QED
        BY <2>2, <3>1, <3>3 DEF OrderInv, Ended
  <2>8. OnlyWholeAnswers'
      BY <2>2 DEF OnlyWholeAnswers
  <2> QED
      BY <1>9, <2>5, <2>6, <2>7, <2>8
<1> QED
    BY <1>10, <1>11

\* The other lines: one more data line begins the next event, the rest changes nothing.
LEMMA LineIsRead ==
    ASSUME IInv, ReadLine
    PROVE  IInv'
<1> USE DEF IInv
<1>1. /\ pc = "read" /\ wire # <<>> /\ wire' = Tail(wire)
      /\ UNCHANGED <<request, timing, server, sent, parts, comments>>
    BY DEF ReadLine
<1>2. wire \in Seq(Line) /\ Len(wire) \in Nat \ {0} /\ Head(wire) = wire[1] /\ wire[1] \in Line
    BY <1>1 DEF TypeOK
<1>3. /\ Deltas \in Nat /\ Done = Deltas + 1 /\ sent \in 0..2 * Done
      /\ got \in Seq(1..Deltas) /\ pending \in Seq(1..Done) /\ lines \in Nat /\ MaxLines \in Nat
    BY TransportAssumption DEF TypeOK, Done
<1> DEFINE g == Len(got)
<1>4. g \in Nat
    BY <1>3
<1>5. PICK pos \in [0..Len(wire) -> Nat] : Numbering(pos)
    BY <1>1 DEF OrderInv, Ended
<1>6. wire' \in Seq(Line)
    BY <1>1, <1>2
<1>7. AskedOnce'
    BY <1>1 DEF AskedOnce, request
<1>8. CASE lines >= MaxLines \/ (lines < MaxLines /\ Head(wire).kind = "malformed")
  <2>1. pc' = "failed" /\ UNCHANGED reading
        /\ error' \in {"ResponseTooLargeError", "StreamMalformedError"}
      BY <1>3, <1>8 DEF ReadLine, Fail
  <2>2. TypeOK'
      BY <1>1, <1>6, <2>1 DEF TypeOK, request, timing, reading
  <2>3. TimeInv'
      BY <2>1 DEF TimeInv
  <2>4. OrderInv'
      BY <2>1 DEF OrderInv, Ended, reading
  <2> QED
      BY <1>7, <2>1, <2>2, <2>3, <2>4 DEF OnlyWholeAnswers
<1>9. CASE lines < MaxLines /\ Head(wire).kind = "empty"
  <2>1. EndEvent
      BY <1>3, <1>9 DEF ReadLine
  <2> QED
      BY <1>1, <1>9, <2>1, EventEnds
<1>10. CASE lines < MaxLines /\ Head(wire).kind \notin {"empty", "malformed"}
  <2>1. /\ pc' = "loop" /\ lines' = lines + 1 /\ got' = got /\ error' = error
        /\ pending' = IF Head(wire).kind = "data" THEN Append(pending, Head(wire).event)
                      ELSE pending
      BY <1>3, <1>10 DEF ReadLine
  <2>2. TimeInv'
    <3>1. clock' = clock /\ limit' = limit /\ dripped' = dripped
        BY <1>1 DEF timing
    <3>2. clock \in Nat /\ limit \in Nat /\ clock =< limit
        BY <1>1 DEF TypeOK, TimeInv
    <3>3. ~dripped => clock =< TotalTimeout + Grain
        BY TransportAssumption, <1>1, <3>2 DEF TimeInv
    <3> QED
        BY <2>1, <3>1, <3>3 DEF TimeInv
  <2>3. CASE Head(wire).kind = "data"
    <3>1. /\ pos[0] = 2 * g + Len(pending)
          /\ pos[1] = pos[0] + 1 /\ wire[1] = Answer(pos[1]) /\ pos[1] =< sent
        BY <1>2, <1>5, <2>3 DEF Numbering
    <3>2. pending = <<>>
      <4>1. pending \in {<<>>, <<g + 1>>}
          BY <1>1 DEF OrderInv, Ended
      <4>2. ASSUME pending = <<g + 1>> PROVE FALSE
        <5>1. pos[1] = 2 * g + 2
            BY <1>4, <3>1, <4>2
        <5>2. Answer(2 * g + 2) = [kind |-> "empty", event |-> 0]
            BY <1>4, AnswerLines
        <5> QED
            BY <1>2, <2>3, <3>1, <5>1, <5>2
      <4> QED
          BY <4>1, <4>2
    <3>3. pos[1] = 2 * g + 1
        BY <1>4, <3>1, <3>2
    <3>4. wire[1].event = g + 1
        BY <1>4, <3>1, <3>3, AnswerLines
    <3>5. pending' = <<g + 1>> /\ Len(pending') = 1
        BY <1>2, <2>1, <2>3, <3>2, <3>4
    <3>6. g + 1 \in 1..Done
        BY <1>3, <1>4, <3>1, <3>3
    <3>7. TypeOK'
      <4>1. pending' \in Seq(1..Done)
          BY <3>5, <3>6
      <4> QED
          BY <1>1, <1>3, <1>6, <2>1, <4>1 DEF TypeOK, request, timing
    <3>8. OrderInv'
      <4>1. 2 * Len(got') + Len(pending') = pos[1]
          BY <1>4, <2>1, <3>3, <3>5
      <4>2. \E p \in [0..Len(wire') -> Nat] : Numbering(p)'
          BY <1>1, <1>5, <4>1, WireShrinks
      <4> QED
          BY <2>1, <3>5, <4>2 DEF OrderInv, Ended
    <3> QED
        BY <1>7, <2>1, <2>2, <3>7, <3>8 DEF OnlyWholeAnswers
  <2>4. CASE Head(wire).kind # "data"
    <3>1. pending' = pending
        BY <2>1, <2>4
    <3>2. TypeOK'
        BY <1>1, <1>3, <1>6, <2>1, <3>1 DEF TypeOK, request, timing
    <3>3. OrderInv'
      <4>1. pos[0] = 2 * g + Len(pending) /\ pos[1] = pos[0]
          BY <1>2, <1>5, <1>10, <2>4 DEF Numbering
      <4>2. \E p \in [0..Len(wire') -> Nat] : Numbering(p)'
          BY <1>1, <1>5, <2>1, <3>1, <4>1, WireShrinks
      <4> QED
          BY <1>1, <2>1, <3>1, <4>2 DEF OrderInv, Ended
    <3> QED
        BY <1>7, <2>1, <2>2, <3>2, <3>3 DEF OnlyWholeAnswers
  <2> QED
      BY <2>3, <2>4
<1> QED
    BY <1>3, <1>8, <1>9, <1>10

\* Every other step leaves the events alone.
LEMMA StepIInv == IInv /\ [Next]_vars => IInv'
<1> SUFFICES ASSUME IInv, [Next]_vars PROVE IInv'
    OBVIOUS
<1> USE DEF IInv
<1>c. /\ Deltas \in Nat /\ Done = Deltas + 1 /\ MaxRetries \in Nat /\ MaxParts \in Nat
      /\ MaxComments \in Nat /\ ConnectTimeout \in Nat \ {0} /\ ReadTimeout \in Nat \ {0}
      /\ TotalTimeout \in Nat \ {0} /\ Grain \in Nat \ {0}
      /\ 2 * ConnectTimeout =< TotalTimeout
    BY TransportAssumption DEF Done
<1>t. /\ clock \in Nat /\ limit \in Nat /\ wait \in Nat /\ posted \in Nat /\ lines \in Nat
      /\ attempt \in 1..MaxRetries + 1 /\ sent \in 0..2 * Done
      /\ parts \in 0..MaxParts /\ comments \in 0..MaxComments /\ wire \in Seq(Line)
    BY DEF TypeOK
<1>1. CASE Connect
  <2>1. TypeOK'
      BY <1>c, <1>t, <1>1 DEF TypeOK, Connect, reading
  <2>2. TimeInv'
      BY <1>c, <1>t, <1>1 DEF TimeInv, Connect, reading
  <2>3. OrderInv'
      BY <1>1, OrderKept DEF Connect, reading, Ended
  <2>4. AskedOnce'
      BY <1>1 DEF TimeInv, AskedOnce, Connect, reading
  <2>5. OnlyWholeAnswers'
      BY <1>1 DEF OnlyWholeAnswers, Connect, reading
  <2> QED
      BY <2>1, <2>2, <2>3, <2>4, <2>5
<1>2. CASE ConnectFails
  <2>1. TypeOK'
      BY <1>c, <1>t, <1>2 DEF TypeOK, ConnectFails, Fail, reading, remote
  <2>2. TimeInv'
      BY <1>c, <1>t, <1>2 DEF TimeInv, ConnectFails, Fail, reading, remote
  <2>3. OrderInv'
      BY <1>2, OrderKept DEF ConnectFails, Fail, reading, remote, Ended
  <2>4. AskedOnce'
      BY <1>2 DEF TimeInv, AskedOnce, ConnectFails, Fail, reading, remote
  <2>5. OnlyWholeAnswers'
      BY <1>2 DEF OnlyWholeAnswers, ConnectFails, Fail, reading, remote
  <2> QED
      BY <2>1, <2>2, <2>3, <2>4, <2>5
<1>3. CASE Head200
  <2>1. TypeOK'
      BY <1>c, <1>t, <1>3 DEF TypeOK, Head200, request, timing, reading, remote
  <2>2. TimeInv'
      BY <1>c, <1>t, <1>3 DEF TimeInv, Head200, request, timing, reading, remote
  <2>3. OrderInv'
      BY <1>3, OrderKept DEF Head200, request, timing, reading, remote, Ended
  <2>4. AskedOnce'
      BY <1>3 DEF TimeInv, AskedOnce, Head200, request, timing, reading, remote
  <2>5. OnlyWholeAnswers'
      BY <1>3 DEF OnlyWholeAnswers, Head200, request, timing, reading, remote
  <2> QED
      BY <2>1, <2>2, <2>3, <2>4, <2>5
<1>4. CASE HeadFails
  <2>1. TypeOK'
      BY <1>c, <1>t, <1>4 DEF TypeOK, HeadFails, Fail, request, timing, reading, remote
  <2>2. TimeInv'
      BY <1>c, <1>t, <1>4 DEF TimeInv, HeadFails, Fail, request, timing, reading, remote
  <2>3. OrderInv'
      BY <1>4, OrderKept DEF HeadFails, Fail, request, timing, reading, remote, Ended
  <2>4. AskedOnce'
      BY <1>4 DEF TimeInv, AskedOnce, HeadFails, Fail, request, timing, reading, remote
  <2>5. OnlyWholeAnswers'
      BY <1>4 DEF OnlyWholeAnswers, HeadFails, Fail, request, timing, reading, remote
  <2> QED
      BY <2>1, <2>2, <2>3, <2>4, <2>5
<1>5. CASE HeadExpires
  <2>1. TypeOK'
      BY <1>c, <1>t, <1>5 DEF TypeOK, HeadExpires, Fail, request, timing, reading, remote
  <2>2. TimeInv'
      BY <1>c, <1>t, <1>5 DEF TimeInv, HeadExpires, Fail, request, timing, reading, remote
  <2>3. OrderInv'
      BY <1>5, OrderKept DEF HeadExpires, Fail, request, timing, reading, remote, Ended
  <2>4. AskedOnce'
      BY <1>5 DEF TimeInv, AskedOnce, HeadExpires, Fail, request, timing, reading, remote
  <2>5. OnlyWholeAnswers'
      BY <1>5 DEF OnlyWholeAnswers, HeadExpires, Fail, request, timing, reading, remote
  <2> QED
      BY <2>1, <2>2, <2>3, <2>4, <2>5
<1>6. CASE TotalExpires
  <2>1. TypeOK'
      BY <1>c, <1>t, <1>6 DEF TypeOK, TotalExpires, Fail, request, timing, reading, remote
  <2>2. TimeInv'
      BY <1>c, <1>t, <1>6 DEF TimeInv, TotalExpires, Fail, request, timing, reading, remote
  <2>3. OrderInv'
      BY <1>6, OrderKept DEF TotalExpires, Fail, request, timing, reading, remote, Ended
  <2>4. AskedOnce'
      BY <1>6 DEF TimeInv, AskedOnce, TotalExpires, Fail, request, timing, reading, remote
  <2>5. OnlyWholeAnswers'
      BY <1>6 DEF OnlyWholeAnswers, TotalExpires, Fail, request, timing, reading, remote
  <2> QED
      BY <2>1, <2>2, <2>3, <2>4, <2>5
<1>7. CASE StartRead
  <2>1. TypeOK'
    <3>1. wait' \in Nat /\ limit' \in Nat
        BY <1>c, <1>t, <1>7 DEF StartRead, Least, Greatest
    <3>2. dripped' \in BOOLEAN /\ pc' = "read" /\ clock' = clock
        BY <1>7 DEF StartRead
    <3> QED
        BY <1>7, <3>1, <3>2 DEF TypeOK, StartRead, request, reading, remote
  <2>2. TimeInv'
      BY <1>c, <1>t, <1>7 DEF TimeInv, StartRead, Least, Greatest, request, reading, remote
  <2>3. OrderInv'
      BY <1>7, OrderKept DEF StartRead, Least, Greatest, request, reading, remote, Ended
  <2>4. AskedOnce'
      BY <1>7 DEF TimeInv, AskedOnce, StartRead, Least, Greatest, request, reading, remote
  <2>5. OnlyWholeAnswers'
      BY <1>7 DEF OnlyWholeAnswers, StartRead, Least, Greatest, request, reading, remote
  <2> QED
      BY <2>1, <2>2, <2>3, <2>4, <2>5
<1>8. CASE ReadPart
  <2>1. wire' = Tail(wire) /\ wire # <<>> /\ wire[1].kind = "part" /\ pc = "read" /\ pc' = "read"
      BY <1>t, <1>8 DEF ReadPart
  <2>2. wire' \in Seq(Line) /\ Len(wire) \in Nat \ {0}
      BY <1>t, <2>1
  <2>3. TypeOK'
      BY <1>c, <1>t, <1>8, <2>2 DEF TypeOK, ReadPart, request, reading
  <2>4. TimeInv'
      BY <1>c, <1>t, <1>8 DEF TimeInv, ReadPart
  <2>5. OrderInv'
    <3>1. PICK pos \in [0..Len(wire) -> Nat] : Numbering(pos)
        BY <2>1 DEF OrderInv, Ended
    <3>2. pos[0] = 2 * Len(got) + Len(pending) /\ pos[1] = pos[0]
        BY <2>1, <2>2, <3>1 DEF Numbering
    <3>3. got' = got /\ pending' = pending /\ sent' = sent
        BY <1>8 DEF ReadPart, reading
    <3>4. \E p \in [0..Len(wire') -> Nat] : Numbering(p)'
        BY <2>1, <3>1, <3>2, <3>3, WireShrinks
    <3> QED
        BY <2>1, <3>3, <3>4 DEF OrderInv, Ended
  <2>6. AskedOnce' /\ OnlyWholeAnswers'
      BY <1>8, <2>1 DEF AskedOnce, OnlyWholeAnswers, ReadPart, request
  <2> QED
      BY <2>3, <2>4, <2>5, <2>6
<1>9. CASE ReadLine
    BY <1>9, LineIsRead
<1>10. CASE EndOfStream
  <2>1. TypeOK'
      BY <1>c, <1>t, <1>10 DEF TypeOK, EndOfStream, Fail, request, timing, reading, remote
  <2>2. TimeInv'
      BY <1>c, <1>t, <1>10 DEF TimeInv, EndOfStream, Fail, request, timing, reading, remote
  <2>3. OrderInv'
      BY <1>10, OrderKept DEF EndOfStream, Fail, request, timing, reading, remote, Ended
  <2>4. AskedOnce'
      BY <1>10 DEF TimeInv, AskedOnce, EndOfStream, Fail, request, timing, reading, remote
  <2>5. OnlyWholeAnswers'
      BY <1>10 DEF OnlyWholeAnswers, EndOfStream, Fail, request, timing, reading, remote
  <2> QED
      BY <2>1, <2>2, <2>3, <2>4, <2>5
<1>11. CASE ReadBreaks
  <2>1. TypeOK'
      BY <1>c, <1>t, <1>11 DEF TypeOK, ReadBreaks, Fail, request, timing, reading, remote
  <2>2. TimeInv'
      BY <1>c, <1>t, <1>11 DEF TimeInv, ReadBreaks, Fail, request, timing, reading, remote
  <2>3. OrderInv'
      BY <1>11, OrderKept DEF ReadBreaks, Fail, request, timing, reading, remote, Ended
  <2>4. AskedOnce'
      BY <1>11 DEF TimeInv, AskedOnce, ReadBreaks, Fail, request, timing, reading, remote
  <2>5. OnlyWholeAnswers'
      BY <1>11 DEF OnlyWholeAnswers, ReadBreaks, Fail, request, timing, reading, remote
  <2> QED
      BY <2>1, <2>2, <2>3, <2>4, <2>5
<1>12. CASE ReadExpires
  <2>1. TypeOK'
      BY <1>c, <1>t, <1>12 DEF TypeOK, ReadExpires, Fail, request, timing, reading, remote
  <2>2. TimeInv'
      BY <1>c, <1>t, <1>12 DEF TimeInv, ReadExpires, Fail, request, timing, reading, remote
  <2>3. OrderInv'
      BY <1>12, OrderKept DEF ReadExpires, Fail, request, timing, reading, remote, Ended
  <2>4. AskedOnce'
      BY <1>12 DEF TimeInv, AskedOnce, ReadExpires, Fail, request, timing, reading, remote
  <2>5. OnlyWholeAnswers'
      BY <1>12 DEF OnlyWholeAnswers, ReadExpires, Fail, request, timing, reading, remote
  <2> QED
      BY <2>1, <2>2, <2>3, <2>4, <2>5
<1>13. CASE Respond
  <2>1. TypeOK'
      BY <1>c, <1>t, <1>13 DEF TypeOK, Respond, local, request, timing, reading
  <2>2. TimeInv'
      BY <1>c, <1>t, <1>13 DEF TimeInv, Respond, local, request, timing, reading
  <2>3. OrderInv'
      BY <1>13, OrderKept DEF Respond, local, request, timing, reading, Ended
  <2>4. AskedOnce'
      BY <1>13 DEF TimeInv, AskedOnce, Respond, local, request, timing, reading
  <2>5. OnlyWholeAnswers'
      BY <1>13 DEF OnlyWholeAnswers, Respond, local, request, timing, reading
  <2> QED
      BY <2>1, <2>2, <2>3, <2>4, <2>5
<1>14. CASE SendLine
  <2>1. PICK line \in Line : /\ line.kind \in {"data", "empty"} /\ line = Answer(sent + 1)
                             /\ sent' = sent + 1 /\ sent < 2 * Done /\ Send(line)
    <3>1. sent < 2 * Done /\ sent' = sent + 1 /\ Send(Answer(sent + 1))
        BY <1>14 DEF SendLine
    <3>2. sent + 1 \in 1..2 * Done
        BY <1>c, <1>t, <3>1
    <3> QED
        BY <3>1, <3>2, AnswerIsLine
  <2>2. wire' = Append(wire, line) /\ UNCHANGED <<local, server>>
      BY <2>1 DEF Send
  <2>3. TypeOK'
    <3>1. wire' \in Seq(Line)
        BY <1>t, <2>1, <2>2
    <3>2. sent' \in 0..2 * Done /\ parts' \in 0..MaxParts /\ comments' \in 0..MaxComments
        BY <1>c, <1>t, <1>14, <2>1 DEF SendLine
    <3> QED
        BY <2>2, <3>1, <3>2 DEF TypeOK, local, request, timing, reading
  <2>4. TimeInv'
      BY <2>2 DEF TimeInv, local, request, timing
  <2>5. OrderInv'
    <3>1. pc' = pc /\ got' = got /\ pending' = pending
        BY <2>2 DEF local, reading
    <3>2. ASSUME pc \notin Ended
          PROVE  \E p \in [0..Len(wire') -> Nat] : Numbering(p)'
      <4>1. PICK pos \in [0..Len(wire) -> Nat] : Numbering(pos)
          BY <3>2 DEF OrderInv
      <4> QED
          BY <2>1, <2>2, <3>1, <4>1, WireGrows
    <3> QED
        BY <3>1, <3>2 DEF OrderInv
  <2>6. AskedOnce' /\ OnlyWholeAnswers'
      BY <1>c, <1>t, <2>1, <2>2 DEF AskedOnce, OnlyWholeAnswers, local, request, reading
  <2> QED
      BY <2>3, <2>4, <2>5, <2>6
<1>15. CASE SendOther
  <2>1. PICK line \in Line : /\ line.kind \notin {"data", "empty"}
                             /\ sent' = sent /\ Send(line)
      BY <1>15 DEF SendOther, Line, Other
  <2>2. wire' = Append(wire, line) /\ UNCHANGED <<local, server>>
      BY <2>1 DEF Send
  <2>3. TypeOK'
    <3>1. wire' \in Seq(Line)
        BY <1>t, <2>1, <2>2
    <3>2. sent' \in 0..2 * Done /\ parts' \in 0..MaxParts /\ comments' \in 0..MaxComments
        BY <1>c, <1>t, <1>15, <2>1 DEF SendOther
    <3> QED
        BY <2>2, <3>1, <3>2 DEF TypeOK, local, request, timing, reading
  <2>4. TimeInv'
      BY <2>2 DEF TimeInv, local, request, timing
  <2>5. OrderInv'
    <3>1. pc' = pc /\ got' = got /\ pending' = pending
        BY <2>2 DEF local, reading
    <3>2. ASSUME pc \notin Ended
          PROVE  \E p \in [0..Len(wire') -> Nat] : Numbering(p)'
      <4>1. PICK pos \in [0..Len(wire) -> Nat] : Numbering(pos)
          BY <3>2 DEF OrderInv
      <4> QED
          BY <2>1, <2>2, <3>1, <4>1, WireGrows
    <3> QED
        BY <3>1, <3>2 DEF OrderInv
  <2>6. AskedOnce' /\ OnlyWholeAnswers'
      BY <1>c, <1>t, <2>1, <2>2 DEF AskedOnce, OnlyWholeAnswers, local, request, reading
  <2> QED
      BY <2>3, <2>4, <2>5, <2>6
<1>16. CASE SendPart
  <2>1. PICK line \in Line : /\ line.kind \notin {"data", "empty"}
                             /\ sent' = sent /\ Send(line)
      BY <1>16 DEF SendPart, Line, Other
  <2>2. wire' = Append(wire, line) /\ UNCHANGED <<local, server>>
      BY <2>1 DEF Send
  <2>3. TypeOK'
    <3>1. wire' \in Seq(Line)
        BY <1>t, <2>1, <2>2
    <3>2. sent' \in 0..2 * Done /\ parts' \in 0..MaxParts /\ comments' \in 0..MaxComments
        BY <1>c, <1>t, <1>16, <2>1 DEF SendPart
    <3> QED
        BY <2>2, <3>1, <3>2 DEF TypeOK, local, request, timing, reading
  <2>4. TimeInv'
      BY <2>2 DEF TimeInv, local, request, timing
  <2>5. OrderInv'
    <3>1. pc' = pc /\ got' = got /\ pending' = pending
        BY <2>2 DEF local, reading
    <3>2. ASSUME pc \notin Ended
          PROVE  \E p \in [0..Len(wire') -> Nat] : Numbering(p)'
      <4>1. PICK pos \in [0..Len(wire) -> Nat] : Numbering(pos)
          BY <3>2 DEF OrderInv
      <4> QED
          BY <2>1, <2>2, <3>1, <4>1, WireGrows
    <3> QED
        BY <3>1, <3>2 DEF OrderInv
  <2>6. AskedOnce' /\ OnlyWholeAnswers'
      BY <1>c, <1>t, <2>1, <2>2 DEF AskedOnce, OnlyWholeAnswers, local, request, reading
  <2> QED
      BY <2>3, <2>4, <2>5, <2>6
<1>17. CASE Close
  <2>1. TypeOK'
      BY <1>c, <1>t, <1>17 DEF TypeOK, Close, local, request, timing, reading
  <2>2. TimeInv'
      BY <1>c, <1>t, <1>17 DEF TimeInv, Close, local, request, timing, reading
  <2>3. OrderInv'
      BY <1>17, OrderKept DEF Close, local, request, timing, reading, Ended
  <2>4. AskedOnce'
      BY <1>17 DEF TimeInv, AskedOnce, Close, local, request, timing, reading
  <2>5. OnlyWholeAnswers'
      BY <1>17 DEF OnlyWholeAnswers, Close, local, request, timing, reading
  <2> QED
      BY <2>1, <2>2, <2>3, <2>4, <2>5
<1>18. CASE Tick
  <2>1. TypeOK'
      BY <1>c, <1>t, <1>18 DEF TypeOK, Tick, request, reading, remote
  <2>2. TimeInv'
      BY <1>c, <1>t, <1>18 DEF TimeInv, Tick, request, reading, remote
  <2>3. OrderInv'
      BY <1>18, OrderKept DEF Tick, request, reading, remote, Ended
  <2>4. AskedOnce'
      BY <1>18 DEF TimeInv, AskedOnce, Tick, request, reading, remote
  <2>5. OnlyWholeAnswers'
      BY <1>18 DEF OnlyWholeAnswers, Tick, request, reading, remote
  <2> QED
      BY <2>1, <2>2, <2>3, <2>4, <2>5
<1>19. CASE UNCHANGED vars
  <2> USE <1>19 DEF vars, request, timing, reading, remote
  <2>1. TypeOK'
      BY DEF TypeOK
  <2>2. TimeInv'
      BY DEF TimeInv
  <2>3. OrderInv'
      BY OrderKept DEF OrderInv, Numbering
  <2>4. AskedOnce' /\ OnlyWholeAnswers'
      BY DEF AskedOnce, OnlyWholeAnswers
  <2> QED
      BY <2>1, <2>2, <2>3, <2>4
<1> QED
    BY <1>1, <1>2, <1>3, <1>4, <1>5, <1>6, <1>7, <1>8, <1>9, <1>10, <1>11, <1>12, <1>13, <1>14, <1>15, <1>16, <1>17, <1>18, <1>19 DEF Next, Client

LEMMA Invariance == Spec => []IInv
BY InitIInv, StepIInv, PTL DEF Spec

----------------------------------------------------------------------------
\* Type correctness of a call and of what the model server sent.
THEOREM TypeCorrect == Spec => []TypeOK
<1>1. IInv => TypeOK
    BY DEF IInv
<1> QED
    BY <1>1, Invariance, PTL

\* However long the answer and wherever the stream may end, what a call returns is the
\* whole answer, in order and with its [DONE].
THEOREM AnswersAreWhole == Spec => []OnlyWholeAnswers
<1>1. IInv => OnlyWholeAnswers
    BY DEF IInv
<1> QED
    BY <1>1, Invariance, PTL

\* However often the connection is tried again, the model is asked once.
THEOREM OneRequest == Spec => []AskedOnce
<1>1. IInv => AskedOnce
    BY DEF IInv
<1> QED
    BY <1>1, Invariance, PTL

\* For any timeouts, the wait for the next line never takes a call past its deadline by
\* more than the least wait, unless that line comes in parts.
THEOREM DeadlineIsKept == Spec => []DeadlineKept
<1>1. IInv => DeadlineKept
  <2> SUFFICES ASSUME IInv, pc \in {"loop", "read"}, ~dripped
               PROVE  clock =< TotalTimeout + Grain
      BY DEF DeadlineKept
  <2>1. clock \in Nat /\ limit \in Nat /\ TotalTimeout \in Nat /\ Grain \in Nat
      BY TransportAssumption DEF IInv, TypeOK
  <2> QED
      BY <2>1 DEF IInv, TimeInv
<1> QED
    BY <1>1, Invariance, PTL
=============================================================================
