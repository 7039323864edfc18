--------------------------- MODULE JournalProofs ---------------------------
(***************************************************************************)
(* The journal protocol of benchmarks/state.py is safe for any number of   *)
(* writers, keys, calls and power losses.  IInv is inductive: the flock    *)
(* makes scan and write one critical section (LockInv), CallInv says what  *)
(* a writer inside it has established so far, and AckedKept is what its    *)
(* return leaves behind.  From it also follows that a journal implements   *)
(* the log of UniqueLog.                                                   *)
(***************************************************************************)
EXTENDS Journal, SequenceTheorems, TLAPS

\* The journal's content, and what has been promised about it.
content == <<kind, file, synced, linked, acked>>

ContentInv == UniqueKeys /\ OnlyTailTorn /\ AckedKept

LEMMA InitIInv == Init => IInv
<1> SUFFICES ASSUME Init PROVE IInv
    OBVIOUS
<1> USE JournalAssumption
<1>1. TypeOK
  <2>1. file \in Seq(Line) /\ synced \in 0..Len(file)
      BY DEF Init
  <2>2. pc \in [Writers -> Holding \union {"idle", "lock"}]
      BY DEF Init
  <2>3. calls \in 0..MaxCalls /\ losses \in 0..MaxPowerLosses
      BY DEF Init
  <2> QED
      BY <2>1, <2>2, <2>3 DEF Init, TypeOK
<1>2. LockInv
    BY DEF Init, LockInv, Holding
<1>3. ContentInv
    BY DEF Init, ContentInv, UniqueKeys, OnlyTailTorn, AckedKept
<1>4. \A w \in Writers : CallInv(w)
    BY DEF Init, CallInv
<1> QED
    BY <1>1, <1>2, <1>3, <1>4 DEF IInv, ContentInv

\* Outside the critical section nothing is claimed about a writer.
LEMMA OutsideCallInv ==
    ASSUME NEW v, pc[v] \notin Holding
    PROVE  CallInv(v)
BY DEF CallInv, Holding

\* Two writers are never both between the scan and the close of the descriptor.
LEMMA OnlyOneHolder ==
    ASSUME LockInv, NEW w \in Writers, NEW v \in Writers,
           pc[w] \in Holding, pc[v] \in Holding
    PROVE  v = w
BY DEF LockInv

\* A step that leaves the content alone leaves what is said of it alone.
LEMMA SameContent ==
    ASSUME ContentInv, UNCHANGED content
    PROVE  ContentInv'
BY DEF ContentInv, content, UniqueKeys, OnlyTailTorn, AckedKept, WritesComplete

\* A step inside the critical section, from one place to the next, without a write.
LEMMA SameLock ==
    ASSUME TypeOK, LockInv, NEW w \in Writers, NEW from \in Holding, NEW to \in Holding,
           Step(w, from, to), lock' = lock
    PROVE  /\ LockInv'
           /\ pc' \in [Writers -> Holding \union {"idle", "lock"}]
           /\ \A v \in Writers : v # w => pc'[v] \notin Holding
<1>1. pc' = [pc EXCEPT ![w] = to] /\ pc[w] = from
    BY DEF Step
<1>2. \A v \in Writers : pc'[v] = IF v = w THEN to ELSE pc[v]
    BY <1>1 DEF TypeOK
<1> QED
    BY <1>1, <1>2 DEF TypeOK, LockInv

\* Leaving the critical section, or giving up the wait for it.
LEMMA ReleaseLock ==
    ASSUME TypeOK, LockInv, NEW w \in Writers, Release(w), JournalAssumption
    PROVE  /\ LockInv'
           /\ lock' \in Writers \union {NoWriter}
           /\ pc' \in [Writers -> Holding \union {"idle", "lock"}]
           /\ pc'[w] \notin Holding
           /\ \A v \in Writers : v # w => pc'[v] = pc[v]
           /\ pc[w] \in Holding => \A v \in Writers : pc'[v] \notin Holding
<1>1. \A v \in Writers : pc'[v] = IF v = w THEN "idle" ELSE pc[v]
    BY DEF Release, TypeOK
<1>2. "idle" \notin Holding
    BY DEF Holding
<1>3. pc' \in [Writers -> Holding \union {"idle", "lock"}]
    BY DEF Release, TypeOK
<1>4. lock' = IF lock = w THEN NoWriter ELSE lock
    BY DEF Release
<1> QED
    BY <1>1, <1>2, <1>3, <1>4 DEF LockInv, TypeOK, JournalAssumption

LEMMA CallStep ==
    ASSUME IInv, NEW w \in Writers, NEW k \in Keys, Call(w, k)
    PROVE  IInv'
<1> USE JournalAssumption DEF IInv
<1>1. TypeOK'
    BY DEF TypeOK, Call, Step
<1>2. \A v \in Writers : pc'[v] = IF v = w THEN "lock" ELSE pc[v]
    BY DEF Call, Step, TypeOK
<1>3. LockInv'
    BY <1>2 DEF Call, Step, LockInv, Holding
<1>4. ContentInv'
    BY SameContent DEF Call, content, ContentInv
<1>5. ASSUME NEW v \in Writers PROVE CallInv(v)'
  <2>1. CASE v = w
      BY <1>2, <2>1 DEF CallInv
  <2>2. CASE v # w
    <3>1. arg'[v] = arg[v] /\ pc'[v] = pc[v]
        BY <1>2, <2>2 DEF Call, TypeOK
    <3> QED
        BY <3>1 DEF Call, CallInv, EndsTorn, HasKey, WritesComplete
  <2> QED
      BY <2>1, <2>2
<1> QED
    BY <1>1, <1>3, <1>4, <1>5 DEF ContentInv

LEMMA AcquireStep ==
    ASSUME IInv, NEW w \in Writers, AcquireLock(w)
    PROVE  IInv'
<1> USE JournalAssumption DEF IInv
<1>1. TypeOK'
    BY DEF TypeOK, AcquireLock, Step, Holding
<1>2. \A v \in Writers : pc'[v] = IF v = w THEN "scan" ELSE pc[v]
    BY DEF AcquireLock, Step, TypeOK
<1>3. \A v \in Writers : pc[v] \notin Holding
    BY DEF AcquireLock, LockInv
<1>4. LockInv'
    BY <1>2, <1>3 DEF AcquireLock, LockInv, Holding
<1>5. ContentInv'
    BY SameContent DEF AcquireLock, content, ContentInv
<1>6. ASSUME NEW v \in Writers PROVE CallInv(v)'
    BY <1>2, <1>3 DEF CallInv, Holding
<1> QED
    BY <1>1, <1>4, <1>5, <1>6 DEF ContentInv

LEMMA ScanAcceptsStep ==
    ASSUME IInv, NEW w \in Writers, ScanAccepts(w)
    PROVE  IInv'
<1> USE JournalAssumption DEF IInv
<1>1. LockInv' /\ pc' \in [Writers -> Holding \union {"idle", "lock"}]
      /\ \A v \in Writers : v # w => pc'[v] \notin Holding
    BY SameLock DEF ScanAccepts, Holding
<1>2. TypeOK'
    BY <1>1 DEF TypeOK, ScanAccepts
<1>3. ContentInv'
    BY SameContent DEF ScanAccepts, content, ContentInv
<1>4. pc'[w] = "write"
    BY DEF ScanAccepts, Step, TypeOK
<1>5. CallInv(w)'
    BY <1>4 DEF ScanAccepts, Rejected, CallInv, EndsTorn, HasKey
<1>6. ASSUME NEW v \in Writers, v # w PROVE CallInv(v)'
    BY <1>1, <1>6 DEF CallInv, Holding
<1> QED
    BY <1>1, <1>2, <1>3, <1>5, <1>6 DEF ContentInv

\* ScanRejects, Return and Abort: the lock goes, the lines stay.
LEMMA LeaveStep ==
    ASSUME IInv, NEW w \in Writers, Release(w), 
           UNCHANGED <<kind, file, synced, linked, arg, calls, losses>>,
           ContentInv', acked' \subseteq Keys
    PROVE  IInv'
<1> USE JournalAssumption DEF IInv
<1>1. LockInv' /\ lock' \in Writers \union {NoWriter}
      /\ pc' \in [Writers -> Holding \union {"idle", "lock"}]
      /\ pc'[w] \notin Holding /\ \A v \in Writers : v # w => pc'[v] = pc[v]
    BY ReleaseLock
<1>2. TypeOK'
    BY <1>1 DEF TypeOK
<1>3. ASSUME NEW v \in Writers PROVE CallInv(v)'
  <2>1. CASE v = w
      BY <1>1, <2>1 DEF CallInv, Holding
  <2>2. CASE v # w
    <3>1. pc'[v] = pc[v] /\ CallInv(v)
        BY <1>1, <2>2
    <3> QED
        BY <3>1 DEF CallInv, EndsTorn, HasKey, WritesComplete
  <2> QED
      BY <2>1, <2>2
<1> QED
    BY <1>1, <1>2, <1>3 DEF ContentInv

LEMMA ReturnStep ==
    ASSUME IInv, NEW w \in Writers, Return(w)
    PROVE  IInv'
<1> USE JournalAssumption DEF IInv
<1>1. arg[w] \in Keys /\ acked' \subseteq Keys
    BY DEF Return, TypeOK
<1>2. ContentInv'
  <2>1. linked /\ synced = Len(file) /\ file # <<>> /\ file[Len(file)].key = arg[w]
        /\ (WritesComplete => file[Len(file)].whole)
      BY DEF Return, CallInv
  <2>2. Len(file) \in 1..synced
      BY <2>1 DEF TypeOK
  <2>3. AckedKept'
      BY <2>1, <2>2 DEF Return, AckedKept, WritesComplete
  <2> QED
      BY <2>3 DEF Return, ContentInv, UniqueKeys, OnlyTailTorn
<1> QED
    BY <1>1, <1>2, LeaveStep DEF Return

\* Appending a line to a whole-line file with a new key.
LEMMA AppendLine ==
    ASSUME TypeOK, ContentInv, ~EndsTorn, NEW line \in Line, ~HasKey(line.key),
           file' = Append(file, line), UNCHANGED <<kind, synced, linked, acked>>
    PROVE  /\ ContentInv'
           /\ file' \in Seq(Line)
           /\ Len(file') = Len(file) + 1
           /\ file'[Len(file')] = line
<1>1. /\ file' \in Seq(Line) /\ Len(file') = Len(file) + 1
      /\ file'[Len(file')] = line
      /\ \A i \in 1..Len(file) : file'[i] = file[i]
    BY DEF TypeOK
<1>2. Len(file) \in Nat /\ synced \in 0..Len(file) /\ 1..Len(file') = 1..Len(file) \union {Len(file')}
    BY <1>1 DEF TypeOK
<1>3. \A i \in 1..Len(file) : file[i].whole /\ file[i].key # line.key
  <2> SUFFICES ASSUME NEW i \in 1..Len(file) PROVE file[i].whole /\ file[i].key # line.key
      OBVIOUS
  <2>1. file[i].whole \/ i = Len(file)
      BY DEF ContentInv, OnlyTailTorn
  <2>2. i = Len(file) => file[i].whole
      BY DEF EndsTorn, TypeOK
  <2> QED
      BY <2>1, <2>2 DEF HasKey
<1>4. UniqueKeys'
    BY <1>1, <1>2, <1>3 DEF ContentInv, UniqueKeys
<1>5. OnlyTailTorn'
    BY <1>1, <1>2, <1>3 DEF OnlyTailTorn
<1>6. AckedKept'
  <2> SUFFICES ASSUME NEW k \in acked
               PROVE  linked /\ \E i \in 1..synced : file'[i].key = k /\ file'[i].whole
      BY DEF AckedKept
  <2>1. PICK i \in 1..synced : linked /\ file[i].key = k
      BY DEF ContentInv, AckedKept
  <2> QED
      BY <2>1, <1>1, <1>2, <1>3 DEF ContentInv, AckedKept
<1> QED
    BY <1>1, <1>4, <1>5, <1>6 DEF ContentInv

LEMMA BeginWriteStep ==
    ASSUME IInv, NEW w \in Writers, BeginWrite(w)
    PROVE  IInv'
<1> USE JournalAssumption DEF IInv
<1> DEFINE line == [key |-> arg[w], whole |-> FALSE]
<1>1. LockInv' /\ pc' \in [Writers -> Holding \union {"idle", "lock"}]
      /\ \A v \in Writers : v # w => pc'[v] \notin Holding
    BY SameLock DEF BeginWrite, Holding
<1>2. pc[w] = "write" /\ pc'[w] = "writing"
    BY DEF BeginWrite, Step, TypeOK
<1>3. line \in Line /\ ~EndsTorn /\ ~HasKey(line.key)
    BY <1>2 DEF CallInv, TypeOK, Line
<1>4. /\ ContentInv' /\ file' \in Seq(Line)
      /\ Len(file') = Len(file) + 1 /\ file'[Len(file')] = line
    BY <1>3, AppendLine DEF BeginWrite, ContentInv
<1>5. TypeOK'
    BY <1>1, <1>4 DEF TypeOK, BeginWrite
<1>6. CallInv(w)'
  <2>1. file' # <<>> /\ synced' < Len(file')
      BY <1>4 DEF BeginWrite, TypeOK
  <2> QED
      BY <1>2, <1>4, <2>1 DEF BeginWrite, CallInv
<1>7. ASSUME NEW v \in Writers, v # w PROVE CallInv(v)'
    BY <1>1, <1>7 DEF CallInv, Holding
<1> QED
    BY <1>1, <1>4, <1>5, <1>6, <1>7 DEF ContentInv

\* The last, torn, line of a file becomes whole.
LEMMA CompleteLine ==
    ASSUME TypeOK, ContentInv, file # <<>>, synced < Len(file),
           file' = [file EXCEPT ![Len(file)].whole = TRUE],
           UNCHANGED <<kind, synced, linked, acked>>
    PROVE  /\ ContentInv'
           /\ file' \in Seq(Line)
           /\ Len(file') = Len(file)
           /\ file'[Len(file)].key = file[Len(file)].key
           /\ file'[Len(file)].whole
<1>1. Len(file) \in 1..Len(file) /\ \A i \in 1..Len(file) : file[i] \in Line
    BY DEF TypeOK
<1> DEFINE line == [file[Len(file)] EXCEPT !.whole = TRUE]
<1>2. line \in Line /\ line.key = file[Len(file)].key /\ line.whole
    BY <1>1 DEF Line
<1>3. file' = [file EXCEPT ![Len(file)] = line]
    OBVIOUS
<1> HIDE DEF line
<1>8. /\ Len(file') = Len(file)
      /\ file'[Len(file)] = line
      /\ \A i \in 1..Len(file) : i # Len(file) => file'[i] = file[i]
    BY <1>1, <1>3 DEF TypeOK
<1>4. file' \in Seq(Line)
  <2>1. file \in Seq(Line) /\ Len(file) \in 1..Len(file) /\ line \in Line
      BY <1>1, <1>2 DEF TypeOK
  <2>2. [file EXCEPT ![Len(file)] = line] \in Seq(Line)
      BY ONLY <2>1, ExceptSeq
  <2> QED
      BY ONLY <2>2, <1>3
<1>5. \A i \in 1..Len(file) : file'[i].key = file[i].key
    BY <1>2, <1>8
<1>6. UniqueKeys' /\ OnlyTailTorn'
    BY <1>2, <1>8, <1>5 DEF ContentInv, UniqueKeys, OnlyTailTorn
<1>7. AckedKept'
  <2> SUFFICES ASSUME NEW k \in acked
               PROVE  linked /\ \E i \in 1..synced : file'[i].key = k /\ file'[i].whole
      BY DEF AckedKept
  <2>1. PICK i \in 1..synced : linked /\ file[i].key = k /\ (file[i].whole \/ i = Len(file))
      BY DEF ContentInv, AckedKept
  <2>2. i \in 1..Len(file) /\ i # Len(file)
      BY DEF TypeOK
  <2> QED
      BY <2>1, <2>2, <1>8
<1> QED
    BY <1>2, <1>8, <1>4, <1>6, <1>7 DEF ContentInv

LEMMA EndWriteStep ==
    ASSUME IInv, NEW w \in Writers, EndWrite(w)
    PROVE  IInv'
<1> USE JournalAssumption DEF IInv
<1>1. LockInv' /\ pc' \in [Writers -> Holding \union {"idle", "lock"}]
      /\ \A v \in Writers : v # w => pc'[v] \notin Holding
    BY SameLock DEF EndWrite, Holding
<1>2. pc[w] = "writing" /\ pc'[w] = "fsync"
    BY DEF EndWrite, Step, TypeOK
<1>3. /\ ContentInv' /\ file' \in Seq(Line) /\ Len(file') = Len(file)
      /\ file'[Len(file)].key = file[Len(file)].key /\ file'[Len(file)].whole
    BY <1>2, CompleteLine DEF EndWrite, CallInv, ContentInv
<1>4. TypeOK'
    BY <1>1, <1>3 DEF TypeOK, EndWrite
<1>5. CallInv(w)'
  <2>1. file # <<>> /\ file[Len(file)].key = arg[w]
      BY <1>2 DEF CallInv
  <2>2. file' # <<>>
      BY <2>1, <1>3 DEF TypeOK
  <2> QED
      BY <1>2, <1>3, <2>1, <2>2 DEF EndWrite, CallInv
<1>6. ASSUME NEW v \in Writers, v # w PROVE CallInv(v)'
    BY <1>1, <1>6 DEF CallInv, Holding
<1> QED
    BY <1>1, <1>3, <1>4, <1>5, <1>6 DEF ContentInv

LEMMA ShortWriteStep ==
    ASSUME IInv, NEW w \in Writers, ShortWrite(w)
    PROVE  IInv'
<1> USE JournalAssumption DEF IInv
<1>1. LockInv' /\ pc' \in [Writers -> Holding \union {"idle", "lock"}]
      /\ \A v \in Writers : v # w => pc'[v] \notin Holding
    BY SameLock DEF ShortWrite, Holding
<1>2. TypeOK' /\ ContentInv'
    BY <1>1, SameContent DEF TypeOK, ShortWrite, content, ContentInv
<1>3. pc[w] = "writing" /\ pc'[w] = "fsync" /\ ~WritesComplete
    BY DEF ShortWrite, Step, TypeOK, WritesComplete
<1>4. CallInv(w)'
    BY <1>3 DEF ShortWrite, CallInv, WritesComplete
<1>5. ASSUME NEW v \in Writers, v # w PROVE CallInv(v)'
    BY <1>1, <1>5 DEF CallInv, Holding
<1> QED
    BY <1>1, <1>2, <1>4, <1>5 DEF ContentInv

LEMMA FsyncStep ==
    ASSUME IInv, NEW w \in Writers, Fsync(w)
    PROVE  IInv'
<1> USE JournalAssumption DEF IInv
<1>1. LockInv' /\ pc' \in [Writers -> Holding \union {"idle", "lock"}]
      /\ \A v \in Writers : v # w => pc'[v] \notin Holding
    BY SameLock DEF Fsync, Holding
<1>2. TypeOK'
    BY <1>1 DEF TypeOK, Fsync
<1>3. ContentInv'
  <2>1. 1..synced \subseteq 1..synced'
      BY DEF Fsync, TypeOK
  <2>2. AckedKept'
      BY <2>1 DEF Fsync, AckedKept, WritesComplete
  <2> QED
      BY <2>2 DEF Fsync, ContentInv, UniqueKeys, OnlyTailTorn
<1>4. pc[w] = "fsync" /\ pc'[w] = "fsyncdir"
    BY DEF Fsync, Step, TypeOK
<1>5. CallInv(w)'
    BY <1>4 DEF Fsync, CallInv, WritesComplete
<1>6. ASSUME NEW v \in Writers, v # w PROVE CallInv(v)'
    BY <1>1, <1>6 DEF CallInv, Holding
<1> QED
    BY <1>1, <1>2, <1>3, <1>5, <1>6 DEF ContentInv

LEMMA FsyncDirectoryStep ==
    ASSUME IInv, NEW w \in Writers, FsyncDirectory(w)
    PROVE  IInv'
<1> USE JournalAssumption DEF IInv
<1>1. LockInv' /\ pc' \in [Writers -> Holding \union {"idle", "lock"}]
      /\ \A v \in Writers : v # w => pc'[v] \notin Holding
    BY SameLock DEF FsyncDirectory, Holding
<1>2. TypeOK'
    BY <1>1 DEF TypeOK, FsyncDirectory
<1>3. ContentInv'
    BY DEF FsyncDirectory, ContentInv, UniqueKeys, OnlyTailTorn, AckedKept, WritesComplete
<1>4. pc[w] = "fsyncdir" /\ pc'[w] = "return"
    BY DEF FsyncDirectory, Step, TypeOK
<1>5. CallInv(w)'
    BY <1>4 DEF FsyncDirectory, CallInv, WritesComplete
<1>6. ASSUME NEW v \in Writers, v # w PROVE CallInv(v)'
    BY <1>1, <1>6 DEF CallInv, Holding
<1> QED
    BY <1>1, <1>2, <1>3, <1>5, <1>6 DEF ContentInv

LEMMA AbortFlushesStep ==
    ASSUME IInv, NEW w \in Writers, AbortFlushes(w)
    PROVE  IInv'
<1> USE JournalAssumption DEF IInv
<1>1. pc[w] \in Holding
    BY DEF AbortFlushes, Holding
<1>2. /\ LockInv' /\ lock' \in Writers \union {NoWriter}
      /\ pc' \in [Writers -> Holding \union {"idle", "lock"}]
      /\ \A v \in Writers : pc'[v] \notin Holding
    BY <1>1, ReleaseLock DEF AbortFlushes
<1>3. ContentInv' /\ file' \in Seq(Line) /\ Len(file') >= Len(file)
  <2>1. CASE pc[w] = "writing"
      BY <2>1, CompleteLine DEF AbortFlushes, CallInv, ContentInv, TypeOK
  <2>2. CASE pc[w] = "write"
    <3> DEFINE line == [key |-> arg[w], whole |-> TRUE]
    <3>1. line \in Line /\ line.key = arg[w]
        BY DEF Line, TypeOK
    <3>2. ~EndsTorn /\ ~HasKey(line.key)
        BY <2>2, <3>1 DEF CallInv
    <3>3. file' = Append(file, line) /\ UNCHANGED <<kind, synced, linked, acked>>
        BY <2>2 DEF AbortFlushes
    <3>4. Len(file) \in Nat
        BY DEF TypeOK
    <3> HIDE DEF line
    <3> QED
        BY <3>1, <3>2, <3>3, <3>4, AppendLine DEF ContentInv
  <2> QED
      BY <2>1, <2>2 DEF AbortFlushes
<1>4. TypeOK'
    BY <1>2, <1>3 DEF TypeOK, AbortFlushes
<1>5. ASSUME NEW v \in Writers PROVE CallInv(v)'
    BY <1>2 DEF CallInv, Holding
<1> QED
    BY <1>2, <1>3, <1>4, <1>5 DEF ContentInv

\* What the disk holds after a power loss: a prefix of the file that reaches at
\* least to the synced lines, its last line perhaps cut short.
LEMMA DiskIsPrefix ==
    ASSUME TypeOK, NEW f \in OnDisk, linked \/ f # <<>>
    PROVE  /\ f \in Seq(Line)
           /\ Len(f) \in synced..Len(file)
           /\ \A i \in 1..Len(f) : f[i].key = file[i].key
           /\ \A i \in 1..Len(f) : i < Len(f) \/ i <= synced => f[i] = file[i]
           /\ \A i \in 1..Len(f) : f[i].whole => file[i].whole
<1>1. synced \in Nat /\ Len(file) \in Nat /\ \A i \in 1..Len(file) : file[i] \in Line
    BY DEF TypeOK
<1>2. ASSUME NEW n \in 0..Len(file)
      PROVE  /\ SubSeq(file, 1, n) \in Seq(Line)
             /\ Len(SubSeq(file, 1, n)) = n
             /\ \A i \in 1..n : SubSeq(file, 1, n)[i] = file[i]
    BY <1>1, SubSeqProperties
<1>3. CASE \E n \in synced..Len(file) : f = SubSeq(file, 1, n)
    BY <1>1, <1>2, <1>3
<1>4. CASE \E n \in synced + 1..Len(file) : f = Cut(n)
  <2>1. PICK n \in synced + 1..Len(file) : f = Cut(n)
      BY <1>4
  <2> DEFINE torn == [file[n] EXCEPT !.whole = FALSE]
             kept == SubSeq(file, 1, n - 1)
  <2>2. n \in 1..Len(file) /\ n - 1 \in 0..Len(file) /\ n > synced
      BY <1>1
  <2>3. torn \in Line /\ torn.key = file[n].key /\ ~torn.whole
      BY <1>1, <2>2 DEF Line
  <2>4. kept \in Seq(Line) /\ Len(kept) = n - 1 /\ \A i \in 1..n-1 : kept[i] = file[i]
      BY <1>2, <2>2
  <2>5. f = Append(kept, torn)
      BY <2>1 DEF Cut
  <2> HIDE DEF torn, kept
  <2>6. /\ f \in Seq(Line) /\ Len(f) = n /\ f[n] = torn
        /\ \A i \in 1..n-1 : f[i] = file[i]
      BY <2>2, <2>3, <2>4, <2>5, AppendProperties
  <2> QED
      BY <1>1, <2>2, <2>3, <2>6
<1>5. CASE f = <<>> /\ ~linked
    BY <1>5
<1> QED
    BY <1>3, <1>4, <1>5 DEF OnDisk

LEMMA PowerLossStep ==
    ASSUME IInv, PowerLoss
    PROVE  IInv'
<1> USE JournalAssumption DEF IInv
<1>1. file' \in OnDisk /\ synced' = Len(file') /\ linked' = (linked \/ file' # <<>>)
      /\ acked' = acked /\ kind' = kind
    BY DEF PowerLoss
<1>2. \A w \in Writers : pc'[w] = "idle"
    BY DEF PowerLoss
<1>3. ContentInv' /\ file' \in Seq(Line)
  <2>1. CASE linked \/ file' # <<>>
    <3>1. /\ file' \in Seq(Line)
          /\ Len(file') \in synced..Len(file)
          /\ \A i \in 1..Len(file') : file'[i].key = file[i].key
          /\ \A i \in 1..Len(file') : i < Len(file') \/ i <= synced => file'[i] = file[i]
        BY <1>1, <2>1, DiskIsPrefix
    <3>2. 1..Len(file') \subseteq 1..Len(file) /\ 1..synced \subseteq 1..Len(file')
          /\ Len(file) \in Nat /\ synced \in Nat /\ Len(file') \in Nat
        BY <3>1 DEF TypeOK
    <3>3. UniqueKeys'
        BY <3>1, <3>2 DEF UniqueKeys
    <3>4. OnlyTailTorn'
        BY <3>1, <3>2 DEF OnlyTailTorn
    <3>5. AckedKept'
      <4> SUFFICES ASSUME NEW k \in acked
                   PROVE  /\ linked'
                          /\ \E i \in 1..Len(file') :
                                /\ file'[i].key = k
                                /\ file'[i].whole \/ (i = Len(file') /\ ~WritesComplete')
          BY <1>1 DEF AckedKept
      <4>1. PICK i \in 1..synced : /\ linked /\ file[i].key = k
                                   /\ file[i].whole \/ (i = Len(file) /\ ~WritesComplete)
          BY DEF AckedKept
      <4>2. i \in 1..Len(file') /\ file'[i] = file[i]
          BY <3>1, <3>2
      <4>3. i = Len(file) => i = Len(file')
          BY <3>1, <3>2
      <4> QED
          BY <1>1, <4>1, <4>2, <4>3 DEF WritesComplete
    <3> QED
        BY <3>1, <3>3, <3>4, <3>5 DEF ContentInv
  <2>2. CASE ~linked /\ file' = <<>>
    <3>1. acked = {}
        BY <2>2 DEF AckedKept
    <3> QED
        BY <1>1, <2>2, <3>1 DEF ContentInv, UniqueKeys, OnlyTailTorn, AckedKept
  <2> QED
      BY <2>1, <2>2
<1>4. TypeOK'
  <2>1. synced' \in 0..Len(file')
      BY <1>1, <1>3
  <2>2. linked' \in BOOLEAN /\ losses' \in 0..MaxPowerLosses
      BY DEF PowerLoss, TypeOK
  <2> QED
      BY <1>3, <2>1, <2>2 DEF PowerLoss, TypeOK
<1>5. LockInv'
    BY <1>2 DEF PowerLoss, LockInv, Holding
<1>6. \A w \in Writers : CallInv(w)'
    BY <1>2 DEF CallInv
<1> QED
    BY <1>3, <1>4, <1>5, <1>6 DEF ContentInv

----------------------------------------------------------------------------
\* IInv is inductive.
LEMMA StepIInv == IInv /\ [Next]_vars => IInv'
<1> SUFFICES ASSUME IInv, [Next]_vars PROVE IInv'
    OBVIOUS
<1>1. ASSUME NEW w \in Writers, NEW k \in Keys, Call(w, k) PROVE IInv'
    BY <1>1, CallStep
<1>2. ASSUME NEW w \in Writers, Proceed(w) PROVE IInv'
  <2>1. CASE AcquireLock(w)
      BY <2>1, AcquireStep
  <2>2. CASE ScanAccepts(w)
      BY <2>2, ScanAcceptsStep
  <2>3. CASE ScanRejects(w)
    <3>1. ContentInv'
        BY <2>3, SameContent DEF ScanRejects, content, IInv, ContentInv
    <3> QED
        BY <2>3, <3>1, LeaveStep DEF ScanRejects, IInv, TypeOK
  <2>4. CASE BeginWrite(w)
      BY <2>4, BeginWriteStep
  <2>5. CASE EndWrite(w)
      BY <2>5, EndWriteStep
  <2>6. CASE ShortWrite(w)
      BY <2>6, ShortWriteStep
  <2>7. CASE Fsync(w)
      BY <2>7, FsyncStep
  <2>8. CASE FsyncDirectory(w)
      BY <2>8, FsyncDirectoryStep
  <2>9. CASE Return(w)
      BY <2>9, ReturnStep
  <2> QED
      BY <1>2, <2>1, <2>2, <2>3, <2>4, <2>5, <2>6, <2>7, <2>8, <2>9 DEF Proceed
<1>3. ASSUME NEW w \in Writers, Fail(w) PROVE IInv'
  <2>1. CASE Abort(w)
    <3>1. ContentInv'
        BY <2>1, SameContent DEF Abort, content, IInv, ContentInv
    <3> QED
        BY <2>1, <3>1, LeaveStep DEF Abort, IInv, TypeOK
  <2>2. CASE AbortFlushes(w)
      BY <2>2, AbortFlushesStep
  <2> QED
      BY <1>3, <2>1, <2>2 DEF Fail
<1>4. CASE PowerLoss
    BY <1>4, PowerLossStep
<1>5. CASE UNCHANGED vars
    BY <1>5 DEF vars, IInv, TypeOK, LockInv, UniqueKeys, OnlyTailTorn, AckedKept,
                CallInv, EndsTorn, HasKey, WritesComplete
<1> QED
    BY <1>1, <1>2, <1>3, <1>4, <1>5 DEF Next

LEMMA Inductive == Spec => []IInv
<1> QED
    BY InitIInv, StepIInv, PTL DEF Spec

\* Every variable of the journal keeps its type.
THEOREM TypeCorrect == Spec => []TypeOK
<1>1. IInv => TypeOK
    BY DEF IInv
<1> QED
    BY Inductive, <1>1, PTL

\* The duplicate check and the write are one critical section: no attempt id is
\* ever written twice, for any number of writers and failures.
THEOREM KeysAreUnique == Spec => []UniqueKeys
<1>1. IInv => UniqueKeys
    BY DEF IInv
<1> QED
    BY Inductive, <1>1, PTL

\* A torn line is always the last one: readers never meet a broken line before it.
THEOREM TornLineIsLast == Spec => []OnlyTailTorn
<1>1. IInv => OnlyTailTorn
    BY DEF IInv
<1> QED
    BY Inductive, <1>1, PTL

\* What an append call acknowledged survives every kill and every power loss; the
\* worst a short write can leave is a torn tail that stops every later append.
THEOREM AcknowledgedIsKept == Spec => []AckedKept
<1>1. IInv => AckedKept
    BY DEF IInv
<1> QED
    BY Inductive, <1>1, PTL

\* On a disk that never takes part of a write, an acknowledged record is a whole
\* line on disk, whichever of the two append functions wrote it.
THEOREM AcknowledgedIsDurable ==
    ASSUME ~DiskMayFill
    PROVE  Spec => []AckedDurable
<1>1. IInv => AckedDurable
    BY DEF IInv, AckedKept, AckedDurable, WritesComplete
<1> QED
    BY Inductive, <1>1, PTL

----------------------------------------------------------------------------
\* The refinement: what readers see is the log.

\* How many lines they see, the keys of these, and which of them were acknowledged.
Readable == IF EndsTorn THEN Len(file) - 1 ELSE Len(file)

KeyLog == [i \in 1..Readable |-> file[i].key]

Told == {k \in acked : \E i \in 1..Readable : file[i].key = k}

ReadableFacts ==
    /\ Readable \in Nat /\ Readable =< Len(file) /\ Len(file) \in Nat
    /\ \A i \in 1..Len(file) : file[i] \in Line
    /\ KeyLog \in Seq(Keys) /\ Len(KeyLog) = Readable /\ DOMAIN KeyLog = 1..Readable

LEMMA ReadableLines == TypeOK => ReadableFacts
<1> SUFFICES ASSUME TypeOK PROVE ReadableFacts
    OBVIOUS
<1>1. file \in Seq(Line) /\ Len(file) \in Nat /\ DOMAIN file = 1..Len(file)
    BY DEF TypeOK
<1>2. EndsTorn => Len(file) > 0
    BY <1>1, EmptySeq DEF EndsTorn
<1>3. Readable \in Nat /\ Readable =< Len(file)
    BY <1>1, <1>2 DEF Readable
<1>4. \A i \in 1..Len(file) : file[i] \in Line
    BY <1>1
<1>5. KeyLog \in [1..Readable -> Keys]
    BY <1>3, <1>4 DEF KeyLog, Line
<1> QED
    BY <1>1, <1>3, <1>4, <1>5 DEF ReadableFacts

LEMMA ReadableLinesNext == TypeOK' => ReadableFacts'
<1> QED
    BY ReadableLines, PTL

\* The log of the refinement, as Journal words it.
ReaderLog == [i \in 1..Len(Returned) |-> Returned[i].key]

ReaderTold == {k \in acked : \E i \in 1..Len(Returned) : Returned[i].key = k}

SameLog == ReaderLog = KeyLog /\ ReaderTold = Told

LEMMA LogIsKeyLog == TypeOK => SameLog
<1> SUFFICES ASSUME TypeOK PROVE SameLog
    OBVIOUS
<1>1. Len(Returned) = Readable /\ \A i \in 1..Readable : Returned[i] = file[i]
    BY ReadableLines DEF ReadableFacts, Returned, Readable, TypeOK
<1> QED
    BY <1>1 DEF KeyLog, Told, ReaderLog, ReaderTold, SameLog

LEMMA LogIsKeyLogNext == TypeOK' => SameLog'
<1> QED
    BY LogIsKeyLog, PTL

\* Two ways to know a sequence: one that grew by an element, one that is a prefix.
LEMMA OneMore ==
    ASSUME NEW n \in Nat, NEW f \in Seq(Keys), Len(f) = n, NEW g \in Seq(Keys), Len(g) = n + 1,
           \A i \in 1..n : g[i] = f[i]
    PROVE  g = Append(f, g[n + 1])
<1>1. g[n + 1] \in Keys
    OBVIOUS
<1>2. Append(f, g[n + 1]) \in Seq(Keys) /\ Len(Append(f, g[n + 1])) = n + 1
      /\ \A i \in 1..n + 1 : Append(f, g[n + 1])[i] = g[i]
    BY <1>1
<1> QED
    BY <1>2, SeqEqual

LEMMA Prefix ==
    ASSUME NEW f \in Seq(Keys), NEW g \in Seq(Keys), Len(g) =< Len(f),
           \A i \in 1..Len(g) : g[i] = f[i]
    PROVE  g = SubSeq(f, 1, Len(g))
<1>1. SubSeq(f, 1, Len(g)) \in Seq(Keys) /\ Len(SubSeq(f, 1, Len(g))) = Len(g)
      /\ \A i \in 1..Len(g) : SubSeq(f, 1, Len(g))[i] = g[i]
    OBVIOUS
<1> QED
    BY <1>1, SeqEqual

\* The keys in the log.
Shown == {KeyLog[i] : i \in 1..Len(KeyLog)}

ShownIsRead == Shown = {file[i].key : i \in 1..Readable}

LEMMA ShownKeys == TypeOK => ShownIsRead
<1> SUFFICES ASSUME TypeOK PROVE ShownIsRead
    OBVIOUS
<1>1. Len(KeyLog) = Readable
    BY ReadableLines DEF ReadableFacts
<1>2. \A i \in 1..Readable : KeyLog[i] = file[i].key
    BY DEF KeyLog
<1> QED
    BY <1>1, <1>2 DEF Shown, ShownIsRead

LEMMA ShownKeysNext == TypeOK' => ShownIsRead'
<1> QED
    BY ShownKeys, PTL

\* One more readable line is one more record, which nobody was told of yet.
LEMMA LineAdded ==
    ASSUME IInv, IInv', NEW k \in Keys, acked' = acked, synced =< Readable,
           Readable' = Readable + 1, file'[Readable + 1].key = k,
           \A i \in 1..Readable : file'[i].key = file[i].key
    PROVE  /\ KeyLog' = Append(KeyLog, k)
           /\ k \notin Shown
           /\ Told' = Told
<1>1. /\ Readable \in Nat /\ KeyLog \in Seq(Keys) /\ Len(KeyLog) = Readable
      /\ DOMAIN KeyLog = 1..Readable
    BY ReadableLines DEF IInv, ReadableFacts
<1>2. /\ KeyLog' \in Seq(Keys) /\ Len(KeyLog') = Readable + 1 /\ Readable + 1 =< Len(file')
      /\ Len(file') \in Nat
    BY ReadableLinesNext DEF IInv, ReadableFacts
<1>3. /\ \A i \in 1..Readable : KeyLog[i] = file[i].key
      /\ \A i \in 1..Readable + 1 : KeyLog'[i] = file'[i].key
    BY DEF KeyLog
<1>4. KeyLog' = Append(KeyLog, KeyLog'[Readable + 1])
  <2>1. \A i \in 1..Readable : KeyLog'[i] = KeyLog[i]
      BY <1>1, <1>3
  <2> QED
      BY <1>1, <1>2, <2>1, OneMore
<1>5. KeyLog'[Readable + 1] = k
    BY <1>1, <1>3
<1>6. \A i \in 1..Readable : file[i].key # k
    BY <1>1, <1>2 DEF IInv, UniqueKeys
<1>7. k \notin Shown
    BY <1>6, ShownKeys DEF IInv, ShownIsRead
<1>8. k \notin acked
  <2> SUFFICES ASSUME k \in acked PROVE FALSE
      OBVIOUS
  <2>1. PICK i \in 1..synced : file[i].key = k
      BY DEF IInv, AckedKept
  <2>2. i \in 1..Readable
      BY <1>1 DEF IInv, TypeOK
  <2> QED
      BY <1>6, <2>1, <2>2
<1>9. Told' = Told
  <2>1. 1..Readable' = 1..Readable \union {Readable + 1}
      BY <1>1
  <2> QED
      BY <1>8, <2>1 DEF Told
<1> QED
    BY <1>4, <1>5, <1>7, <1>9

\* A step that changes neither the file nor the promises changes nothing for a reader.
LEMMA SameView ==
    ASSUME UNCHANGED <<file, acked>> PROVE KeyLog' = KeyLog /\ Told' = Told
BY DEF KeyLog, Told, Readable, EndsTorn

\* The first bytes of a line are not a record yet.
LEMMA BeginWriteView ==
    ASSUME IInv, NEW w \in Writers, BeginWrite(w)
    PROVE  KeyLog' = KeyLog /\ Told' = Told
<1> DEFINE line == [key |-> arg[w], whole |-> FALSE]
<1>1. ~EndsTorn /\ acked' = acked /\ file' = Append(file, line)
    BY DEF BeginWrite, Step, IInv, CallInv
<1>2. file \in Seq(Line) /\ line \in Line /\ ~line.whole
    BY DEF IInv, TypeOK, Line
<1> HIDE DEF line
<1>3. /\ Len(file) \in Nat /\ Len(file') = Len(file) + 1 /\ file'[Len(file) + 1] = line
      /\ \A i \in 1..Len(file) : file'[i] = file[i]
      /\ file' # <<>>
    BY <1>1, <1>2
<1>4. Readable = Len(file) /\ Readable' = Len(file)
    BY <1>1, <1>2, <1>3 DEF Readable, EndsTorn
<1> QED
    BY <1>1, <1>3, <1>4 DEF KeyLog, Told

\* The write of a line, or the flush of it when the call raises, adds its record.
LEMMA WriteView ==
    ASSUME IInv, IInv', NEW w \in Writers, EndWrite(w) \/ AbortFlushes(w)
    PROVE  /\ KeyLog' = Append(KeyLog, arg[w])
           /\ arg[w] \notin Shown
           /\ Told' = Told
<1>1. arg[w] \in Keys /\ synced \in 0..Len(file) /\ Len(file) \in Nat /\ file \in Seq(Line)
    BY DEF IInv, TypeOK
<1>2. CASE pc[w] = "writing"
  <2>1. /\ file # <<>> /\ file[Len(file)].key = arg[w] /\ synced < Len(file) /\ EndsTorn
        /\ file' = [file EXCEPT ![Len(file)].whole = TRUE]
        /\ UNCHANGED <<kind, synced, linked, acked>>
      BY <1>2 DEF EndWrite, AbortFlushes, IInv, CallInv, EndsTorn
  <2>2. Len(file) \in 1..Len(file)
      BY <1>1, <2>1
  <2>3. /\ Len(file') = Len(file) /\ file'[Len(file)].key = arg[w] /\ file'[Len(file)].whole
      BY <2>1, CompleteLine DEF IInv, ContentInv
  <2>4. \A i \in 1..Len(file) - 1 : file'[i] = file[i]
      BY <1>1, <2>1
  <2>5. Readable = Len(file) - 1 /\ Readable' = Len(file)
      BY <2>1, <2>3 DEF Readable, EndsTorn
  <2> QED
      BY <1>1, <2>1, <2>2, <2>3, <2>4, <2>5, LineAdded
<1>3. CASE pc[w] = "write"
  <2> DEFINE line == [key |-> arg[w], whole |-> TRUE]
  <2>1. ~EndsTorn /\ acked' = acked /\ file' = Append(file, line)
      BY <1>3 DEF EndWrite, Step, AbortFlushes, IInv, CallInv
  <2>2. line \in Line /\ line.whole /\ line.key = arg[w]
      BY <1>1 DEF Line
  <2> HIDE DEF line
  <2>3. /\ Len(file') = Len(file) + 1 /\ file'[Len(file) + 1] = line
        /\ \A i \in 1..Len(file) : file'[i] = file[i]
      BY <1>1, <2>1, <2>2
  <2>4. Readable = Len(file) /\ Readable' = Len(file) + 1
      BY <2>1, <2>2, <2>3 DEF Readable, EndsTorn
  <2> QED
      BY <1>1, <2>1, <2>2, <2>3, <2>4, LineAdded
<1> QED
    BY <1>2, <1>3 DEF EndWrite, Step, AbortFlushes

\* A return acknowledges the record, unless a short write left it unreadable.
LEMMA ReturnView ==
    ASSUME IInv, NEW w \in Writers, Return(w)
    PROVE  /\ KeyLog' = KeyLog
           /\ \/ arg[w] \in Shown /\ Told' = Told \union {arg[w]}
              \/ Told' = Told
<1>1. /\ file' = file /\ acked' = acked \union {arg[w]}
      /\ file # <<>> /\ file[Len(file)].key = arg[w]
    BY DEF Return, IInv, CallInv
<1>2. KeyLog' = KeyLog /\ Readable' = Readable
    BY <1>1 DEF KeyLog, Readable, EndsTorn
<1>3. Len(file) \in Nat /\ Len(file) \in 1..Len(file)
    BY <1>1 DEF IInv, TypeOK
<1>4. CASE EndsTorn
  <2>1. Readable = Len(file) - 1
      BY <1>4 DEF Readable
  <2>2. \A i \in 1..Readable : file[i].key # arg[w]
      BY <1>1, <1>3, <2>1 DEF IInv, UniqueKeys
  <2> QED
      BY <1>1, <1>2, <2>2 DEF Told
<1>5. CASE ~EndsTorn
  <2>1. Len(file) \in 1..Readable
      BY <1>3, <1>5 DEF Readable
  <2>2. arg[w] \in Shown
      BY <1>1, <2>1, ShownKeys DEF IInv, ShownIsRead
  <2>3. Told' = Told \union {arg[w]}
      BY <1>1, <1>2, <2>1 DEF Told
  <2> QED
      BY <1>2, <2>2, <2>3
<1> QED
    BY <1>4, <1>5

\* A power loss takes at most a tail nobody was told of.
LEMMA PowerLossView ==
    ASSUME IInv, IInv', PowerLoss
    PROVE  /\ \E n \in 0..Len(KeyLog) : KeyLog' = SubSeq(KeyLog, 1, n)
           /\ Told' = Told
           /\ Told \subseteq Shown'
<1>1. file' \in OnDisk /\ acked' = acked
    BY DEF PowerLoss
<1>2. /\ Readable \in Nat /\ Readable =< Len(file) /\ Len(file) \in Nat
      /\ KeyLog \in Seq(Keys) /\ Len(KeyLog) = Readable
    BY ReadableLines DEF IInv, ReadableFacts
<1>3. /\ Readable' \in Nat /\ Readable' =< Len(file') /\ Len(file') \in Nat
      /\ KeyLog' \in Seq(Keys) /\ Len(KeyLog') = Readable'
    BY ReadableLinesNext DEF IInv, ReadableFacts
<1>4. CASE linked \/ file' # <<>>
  <2>1. /\ Len(file') \in synced..Len(file)
        /\ \A i \in 1..Len(file') : file'[i].key = file[i].key
        /\ \A i \in 1..Len(file') : i < Len(file') \/ i <= synced => file'[i] = file[i]
        /\ \A i \in 1..Len(file') : file'[i].whole => file[i].whole
      BY <1>1, <1>4, DiskIsPrefix DEF IInv
  <2>2. Readable' =< Readable
    <3>1. CASE ~EndsTorn
        BY <1>2, <1>3, <2>1, <3>1 DEF Readable
    <3>2. CASE EndsTorn /\ Len(file') < Len(file)
        BY <1>2, <1>3, <2>1, <3>2 DEF Readable
    <3>3. CASE EndsTorn /\ Len(file') = Len(file)
      <4>1. Len(file) \in 1..Len(file') /\ ~file'[Len(file')].whole
          BY <1>2, <2>1, <3>3 DEF EndsTorn, IInv, TypeOK
      <4>2. EndsTorn'
          BY <4>1 DEF EndsTorn
      <4> QED
          BY <1>2, <3>3, <4>2 DEF Readable
    <3> QED
        BY <1>2, <1>3, <2>1, <3>1, <3>2, <3>3 DEF IInv, TypeOK
  <2>3. \A i \in 1..Readable' : KeyLog'[i] = KeyLog[i]
      BY <1>2, <1>3, <2>1, <2>2 DEF KeyLog
  <2>4. KeyLog' = SubSeq(KeyLog, 1, Len(KeyLog'))
      BY <1>2, <1>3, <2>2, <2>3, Prefix
  <2>5. ASSUME NEW k \in Told PROVE \E i \in 1..Readable' : file'[i].key = k
    <3>1. PICK j \in 1..Readable : file[j].key = k
        BY DEF Told
    <3>2. j \in 1..Len(file) /\ synced \in Nat /\ synced =< Len(file)
        BY <1>2 DEF IInv, TypeOK
    <3>3. j \in 1..synced
        BY <3>1, <3>2 DEF Told, IInv, AckedKept, UniqueKeys
    <3>4. j \in 1..Len(file') /\ file'[j] = file[j]
        BY <2>1, <3>2, <3>3
    <3>5. file[j].whole
      <4>1. EndsTorn => j # Len(file)
          BY <1>2, <3>1 DEF Readable
      <4> QED
          BY <3>2, <4>1 DEF IInv, OnlyTailTorn, EndsTorn, TypeOK
    <3>6. j \in 1..Readable'
        BY <1>3, <3>4, <3>5 DEF Readable, EndsTorn
    <3> QED
        BY <3>1, <3>4, <3>6
  <2>6. ASSUME NEW k \in Told' PROVE k \in Told
    <3>1. PICK i \in 1..Readable' : file'[i].key = k
        BY DEF Told
    <3>2. i \in 1..Readable /\ file[i].key = k
        BY <1>2, <1>3, <2>1, <2>2, <3>1
    <3> QED
        BY <1>1, <3>2 DEF Told
  <2>7. Told' = Told
      BY <1>1, <2>5, <2>6 DEF Told
  <2>8. Told \subseteq Shown'
      BY <2>5, ShownKeysNext DEF IInv, ShownIsRead
  <2> QED
      BY <1>2, <1>3, <2>2, <2>4, <2>7, <2>8
<1>5. CASE ~linked /\ file' = <<>>
  <2>1. acked = {}
      BY <1>5 DEF IInv, AckedKept
  <2>2. Told = {} /\ Told' = {}
      BY <1>1, <2>1 DEF Told
  <2>3. Len(KeyLog') = 0
      BY <1>3, <1>5
  <2>4. KeyLog' = SubSeq(KeyLog, 1, Len(KeyLog'))
      BY <1>2, <1>3, <2>3, Prefix
  <2> QED
      BY <1>2, <2>2, <2>3, <2>4
<1> QED
    BY <1>4, <1>5

\* What one step of the journal can do to the log.
LEMMA ViewStep ==
    ASSUME IInv, IInv', [Next]_vars
    PROVE  \/ /\ KeyLog' = KeyLog /\ Told' = Told
           \/ /\ \E k \in Keys : k \notin Shown /\ KeyLog' = Append(KeyLog, k)
              /\ Told' = Told
           \/ /\ \E k \in Keys : k \in Shown /\ Told' = Told \union {k}
              /\ KeyLog' = KeyLog
           \/ /\ \E n \in 0..Len(KeyLog) : KeyLog' = SubSeq(KeyLog, 1, n)
              /\ Told' = Told /\ Told \subseteq Shown'
<1>1. ASSUME NEW w \in Writers, NEW k \in Keys, Call(w, k) PROVE UNCHANGED <<file, acked>>
    BY <1>1 DEF Call
<1>2. ASSUME NEW w \in Writers, Abort(w) PROVE UNCHANGED <<file, acked>>
    BY <1>2 DEF Abort
<1>3. ASSUME NEW w \in Writers, Proceed(w)
      PROVE \/ BeginWrite(w) \/ EndWrite(w) \/ Return(w) \/ UNCHANGED <<file, acked>>
    BY <1>3 DEF Proceed, AcquireLock, ScanAccepts, ScanRejects, ShortWrite, Fsync, FsyncDirectory
<1>4. \A w \in Writers : arg[w] \in Keys
    BY DEF IInv, TypeOK
<1> QED
    BY <1>1, <1>2, <1>3, <1>4, SameView, BeginWriteView, WriteView, ReturnView, PowerLossView
       DEF Next, Fail, vars

LEMMA LogStep ==
    ASSUME IInv, IInv', [Next]_vars
    PROVE  [Log!Next]_<<ReaderLog, ReaderTold>>
<1>1. ReaderLog = KeyLog /\ ReaderTold = Told /\ ReaderLog' = KeyLog' /\ ReaderTold' = Told'
    BY LogIsKeyLog, LogIsKeyLogNext DEF IInv, SameLog
<1>2. Shown = Log!Present(ReaderLog) /\ Shown' = Log!Present(ReaderLog')
    BY <1>1 DEF Shown, Log!Present
<1>3. CASE KeyLog' = KeyLog /\ Told' = Told
    BY <1>1, <1>3
<1>4. ASSUME NEW k \in Keys, k \notin Shown, KeyLog' = Append(KeyLog, k), Told' = Told
      PROVE  Log!Next
  <2>1. Log!Add(k)
      BY <1>1, <1>2, <1>4 DEF Log!Add, ReaderLog, ReaderTold
  <2> QED
      BY <2>1 DEF Log!Next
<1>5. ASSUME NEW k \in Keys, k \in Shown, Told' = Told \union {k}, KeyLog' = KeyLog
      PROVE  Log!Next
  <2>1. Log!Acknowledge(k)
      BY <1>1, <1>2, <1>5 DEF Log!Acknowledge, ReaderLog, ReaderTold
  <2> QED
      BY <2>1 DEF Log!Next
<1>6. ASSUME NEW n \in 0..Len(KeyLog), KeyLog' = SubSeq(KeyLog, 1, n), Told' = Told,
             Told \subseteq Shown'
      PROVE  Log!Next
  <2>1. Log!DropTail
      BY <1>1, <1>2, <1>6 DEF Log!DropTail, ReaderLog, ReaderTold
  <2> QED
      BY <2>1 DEF Log!Next
<1> QED
    BY <1>3, <1>4, <1>5, <1>6, ViewStep

\* A journal is the log the harness relies on: every record once, in order, and only a tail
\* nobody was told of can go, whatever the writers, kills and power losses.
THEOREM LogKept == Spec => ImplementsUniqueLog
<1>1. Init => Log!Init
  <2> SUFFICES ASSUME Init PROVE Log!Init
      OBVIOUS
  <2>1. file = <<>> /\ acked = {}
      BY DEF Init
  <2>2. TypeOK
      BY InitIInv DEF IInv
  <2>3. Readable = 0
      BY <2>1 DEF Readable, EndsTorn
  <2>4. KeyLog = <<>>
      BY <2>2, <2>3, ReadableLines DEF ReadableFacts
  <2> QED
      BY <2>1, <2>2, <2>4, LogIsKeyLog DEF Log!Init, Told, ReaderLog, ReaderTold, SameLog
<1> QED
    BY <1>1, LogStep, StepIInv, Inductive, PTL
       DEF Spec, ImplementsUniqueLog, Log!Spec, ReaderLog, ReaderTold

----------------------------------------------------------------------------
\* The length of records, and what the readers notice of an append.

\* The check for the length comes before the lock, so that a generic journal never holds a
\* record that its readers would refuse.
LEMMA StepLengthInv == TypeOK /\ LengthInv /\ [Next]_vars => LengthInv'
<1> SUFFICES ASSUME TypeOK, LengthInv, [Next]_vars, kind' = "generic" PROVE LengthInv'
    BY DEF LengthInv
<1> USE DEF TypeOK
<1>1. kind = "generic"
    BY DEF Next, vars, Call, Proceed, Fail, AcquireLock, ScanAccepts, ScanRejects, BeginWrite,
           EndWrite, ShortWrite, Fsync, FsyncDirectory, Return, Abort, AbortFlushes, PowerLoss
<1>2. /\ \A w \in Writers : pc[w] # "idle" => arg[w] \notin Oversized
      /\ \A i \in 1..Len(file) : file[i].key \notin Oversized
    BY <1>1 DEF LengthInv, HasOversized
<1> SUFFICES /\ \A w \in Writers : pc'[w] # "idle" => arg'[w] \notin Oversized
             /\ \A i \in 1..Len(file') : file'[i].key \notin Oversized
    BY DEF LengthInv, HasOversized
<1>3. ASSUME NEW w \in Writers, NEW k \in Keys, Call(w, k)
      PROVE  /\ \A v \in Writers : pc'[v] # "idle" => arg'[v] \notin Oversized
             /\ UNCHANGED file
    BY <1>1, <1>2, <1>3 DEF Call, Step
<1>4. ASSUME NEW w \in Writers,
             \/ AcquireLock(w) \/ ScanAccepts(w) \/ ScanRejects(w) \/ ShortWrite(w)
             \/ Fsync(w) \/ FsyncDirectory(w) \/ Return(w) \/ Abort(w)
      PROVE  /\ \A v \in Writers : pc'[v] # "idle" => arg'[v] \notin Oversized
             /\ UNCHANGED file
    BY <1>2, <1>4 DEF AcquireLock, ScanAccepts, ScanRejects, ShortWrite, Fsync, FsyncDirectory,
                      Return, Abort, Step, Release
<1>5. ASSUME NEW w \in Writers, BeginWrite(w) \/ EndWrite(w) \/ AbortFlushes(w)
      PROVE  \A v \in Writers : pc'[v] # "idle" => arg'[v] \notin Oversized
    BY <1>2, <1>5 DEF BeginWrite, EndWrite, AbortFlushes, Step, Release
<1>6. ASSUME NEW w \in Writers, BeginWrite(w)
      PROVE  \A i \in 1..Len(file') : file'[i].key \notin Oversized
  <2>1. arg[w] \notin Oversized /\ [key |-> arg[w], whole |-> FALSE] \in Line
      BY <1>2, <1>6 DEF BeginWrite, Step, Line
  <2>2. Len(file') = Len(file) + 1
        /\ \A i \in 1..Len(file') :
               file'[i] = IF i =< Len(file) THEN file[i] ELSE [key |-> arg[w], whole |-> FALSE]
      BY <1>6, <2>1 DEF BeginWrite
  <2> QED
      BY <1>2, <2>1, <2>2
<1>7. ASSUME NEW w \in Writers, EndWrite(w) \/ AbortFlushes(w), pc[w] = "writing"
      PROVE  \A i \in 1..Len(file') : file'[i].key \notin Oversized
  <2>1. file' = [file EXCEPT ![Len(file)].whole = TRUE]
      BY <1>7 DEF EndWrite, AbortFlushes
  <2>2. Len(file') = Len(file) /\ \A i \in 1..Len(file) : file'[i].key = file[i].key
      BY <2>1 DEF Line
  <2> QED
      BY <1>2, <2>2
<1>8. ASSUME NEW w \in Writers, AbortFlushes(w)
      PROVE  FALSE
    BY <1>1, <1>8 DEF AbortFlushes
<1>9. CASE PowerLoss
  <2>1. \A w \in Writers : pc'[w] = "idle"
      BY <1>9 DEF PowerLoss
  <2>2. /\ Len(file') =< Len(file)
        /\ \A i \in 1..Len(file') : file'[i].key = file[i].key
      BY <1>9, DiskIsPrefix DEF PowerLoss
  <2> QED
      BY <1>2, <2>1, <2>2
<1>10. CASE UNCHANGED vars
    BY <1>2, <1>10 DEF vars
<1>11. ASSUME NEW w \in Writers, EndWrite(w) PROVE pc[w] = "writing"
    BY <1>11 DEF EndWrite, Step
<1> QED
    BY <1>2, <1>3, <1>4, <1>5, <1>6, <1>7, <1>8, <1>9, <1>10, <1>11 DEF Next, Proceed, Fail

\* What append_json_record accepted, read_json_records accepts, for every length limit; what
\* append_trial accepts, read_trials may refuse (the run journal_oversized).
GenericIsReadable == kind = "generic" => AcceptedIsReadable

\* A generic journal never holds a record that its readers refuse for its length, whatever
\* the limit and whoever appends.
THEOREM GenericRecordsAreReadable == Spec => []GenericIsReadable
<1>1. Init => LengthInv
    BY DEF Init, LengthInv, HasOversized
<1>2. IInv => TypeOK
    BY DEF IInv
<1>3. TypeOK /\ LengthInv => GenericIsReadable
  <2> SUFFICES ASSUME TypeOK, LengthInv, kind = "generic" PROVE AcceptedIsReadable
      BY DEF GenericIsReadable
  <2>1. Len(Returned) = Readable /\ \A i \in 1..Readable : Returned[i] = file[i]
      BY ReadableLines DEF ReadableFacts, Returned, Readable, TypeOK
  <2>2. Readable =< Len(file) /\ Readable \in Nat
      BY ReadableLines DEF ReadableFacts
  <2> QED
      BY <2>1, <2>2 DEF AcceptedIsReadable, LengthInv, HasOversized, TypeOK
<1> QED
    BY <1>1, <1>2, <1>3, StepLengthInv, Inductive, PTL DEF Spec

\* A line that a writer ends becomes one record more at the end of what the readers get.
LEMMA EndedLine ==
    ASSUME TypeOK, NEW w \in Writers, CallInv(w), pc[w] = "writing",
           file' = [file EXCEPT ![Len(file)].whole = TRUE]
    PROVE  Returned' = Append(Returned, [key |-> arg[w], whole |-> TRUE])
<1> DEFINE n == Len(file)
           line == [key |-> arg[w], whole |-> TRUE]
<1>1. file \in Seq(Line) /\ file # <<>> /\ file[n].key = arg[w] /\ ~file[n].whole
    BY DEF TypeOK, CallInv
<1>2. n \in Nat /\ n > 0 /\ n \in 1..Len(file) /\ file[n] \in Line
    BY <1>1, EmptySeq
<1>3. line \in Line /\ [file[n] EXCEPT !.whole = TRUE] = line
  <2> DEFINE ended == [file[n] EXCEPT !.whole = TRUE]
  <2>1. ended \in Line /\ ended.key = arg[w] /\ ended.whole = TRUE
      BY <1>1, <1>2 DEF Line
  <2> HIDE DEF ended
  <2>2. PICK k \in Keys, b \in BOOLEAN : ended = [key |-> k, whole |-> b]
      BY <2>1 DEF Line
  <2>3. k = arg[w] /\ b = TRUE
      BY <2>1, <2>2
  <2>4. ended = line /\ line \in Line
      BY <2>1, <2>2, <2>3
  <2> QED
      BY <2>4 DEF ended
<1>4. file' = [file EXCEPT ![n] = line]
    BY <1>3
<1> HIDE DEF line
<1>5. file' \in Seq(Line)
    BY ONLY <1>1, <1>2, <1>3, <1>4, ExceptSeq
<1>6. Len(file') = n /\ file'[n] = line /\ \A i \in 1..n - 1 : file'[i] = file[i]
    BY <1>1, <1>2, <1>4
<1>7. Returned = SubSeq(file, 1, n - 1) /\ Returned' = file'
    BY <1>1, <1>3, <1>6 DEF Returned, EndsTorn, line
<1>8. n - 1 \in 0..Len(file)
    BY <1>2
<1>9. Returned \in Seq(Line) /\ Len(Returned) = n - 1
      /\ \A i \in 1..n - 1 : Returned[i] = file[i]
  <2>1. ASSUME NEW m \in 0..Len(file)
        PROVE  /\ SubSeq(file, 1, m) \in Seq(Line)
               /\ Len(SubSeq(file, 1, m)) = m
               /\ \A i \in 1..m : SubSeq(file, 1, m)[i] = file[i]
      BY <1>1, <1>2, SubSeqProperties
  <2> QED
      BY <1>7, <1>8, <2>1
<1>10. Append(Returned, line) \in Seq(Line) /\ Len(Append(Returned, line)) = n
       /\ \A i \in 1..n - 1 : Append(Returned, line)[i] = Returned[i]
       /\ Append(Returned, line)[n] = line
    BY <1>2, <1>3, <1>9, AppendProperties
<1>11. \A i \in 1..n : Append(Returned, line)[i] = file'[i]
  <2> SUFFICES ASSUME NEW i \in 1..n PROVE Append(Returned, line)[i] = file'[i]
      OBVIOUS
  <2>1. CASE i = n
    <3>1. file'[n] = line /\ Append(Returned, line)[n] = line
        BY <1>6, <1>10
    <3> QED
        BY ONLY <2>1, <3>1
  <2>2. CASE i # n
    <3>1. i \in 1..n - 1
        BY <1>2, <2>2
    <3> QED
        BY <1>6, <1>9, <1>10, <3>1
  <2> QED
      BY <2>1, <2>2
<1> QED
    BY <1>5, <1>6, <1>7, <1>10, <1>11, SeqEqual DEF line

\* Lines as a reader sees them after one more was begun, or written at once.
LEMMA BegunLine ==
    ASSUME TypeOK, NEW w \in Writers, ~EndsTorn, NEW b \in BOOLEAN,
           file' = Append(file, [key |-> arg[w], whole |-> b])
    PROVE  Returned' = IF b THEN Append(Returned, [key |-> arg[w], whole |-> TRUE])
                            ELSE Returned
<1> DEFINE line == [key |-> arg[w], whole |-> b]
<1>1. file \in Seq(Line) /\ line \in Line /\ Returned = file
    BY DEF TypeOK, Line, Returned
<1>2. file' \in Seq(Line) /\ Len(file') = Len(file) + 1 /\ file'[Len(file')] = line
      /\ file' # <<>> /\ \A i \in 1..Len(file) : file'[i] = file[i]
    BY <1>1
<1>3. CASE b
    BY <1>1, <1>2, <1>3 DEF Returned, EndsTorn
<1>4. CASE ~b
  <2>1. Returned' = SubSeq(file', 1, Len(file))
      BY <1>1, <1>2, <1>4 DEF Returned, EndsTorn
  <2>2. Returned' \in Seq(Line) /\ Len(Returned') = Len(file)
        /\ \A i \in 1..Len(file) : Returned'[i] = file[i]
      BY <1>1, <1>2, <2>1
  <2> QED
      BY <1>1, <1>4, <2>2, SeqEqual
<1> QED
    BY <1>3, <1>4

\* What a step that is not a power loss does to the records.
Noticed ==
    losses' = losses =>
        \/ Returned' = Returned
        \/ \E w \in Writers :
               /\ lock = w
               /\ Returned' = Append(Returned, [key |-> arg[w], whole |-> TRUE])

LEMMA StepNoticed == IInv /\ [Next]_vars => Noticed
<1> SUFFICES ASSUME IInv, [Next]_vars, losses' = losses PROVE Noticed
    BY DEF Noticed
<1>1. TypeOK /\ (\A w \in Writers : CallInv(w)) /\ LockInv
    BY DEF IInv
<1>2. ASSUME NEW w \in Writers, BeginWrite(w) PROVE Returned' = Returned
  <2>1. ~EndsTorn
      BY <1>1, <1>2 DEF BeginWrite, Step, CallInv
  <2>2. file' = Append(file, [key |-> arg[w], whole |-> FALSE])
      BY <1>2 DEF BeginWrite
  <2> QED
      BY <1>1, <2>1, <2>2, BegunLine
<1>3. ASSUME NEW w \in Writers, EndWrite(w) \/ AbortFlushes(w)
      PROVE  lock = w /\ Returned' = Append(Returned, [key |-> arg[w], whole |-> TRUE])
  <2>1. pc[w] \in {"write", "writing"}
      BY <1>3 DEF EndWrite, AbortFlushes, Step
  <2>2. lock = w
      BY <1>1, <2>1 DEF LockInv, Holding
  <2>3. CASE pc[w] = "writing"
    <3>1. file' = [file EXCEPT ![Len(file)].whole = TRUE]
        BY <1>3, <2>3 DEF EndWrite, AbortFlushes
    <3> QED
        BY <1>1, <2>2, <2>3, <3>1, EndedLine
  <2>4. CASE pc[w] = "write"
    <3>1. file' = Append(file, [key |-> arg[w], whole |-> TRUE])
        BY <1>3, <2>4 DEF EndWrite, AbortFlushes, Step
    <3>2. ~EndsTorn
        BY <1>1, <2>4 DEF CallInv
    <3> QED
        BY <1>1, <2>2, <3>1, <3>2, BegunLine
  <2> QED
      BY <2>1, <2>3, <2>4
<1>4. ASSUME UNCHANGED file PROVE Returned' = Returned
    BY <1>4 DEF Returned, EndsTorn
<1>5. ASSUME NEW w \in Writers, NEW k \in Keys, Call(w, k) PROVE UNCHANGED file
    BY <1>5 DEF Call
<1>6. ASSUME NEW w \in Writers,
             Proceed(w) \/ Fail(w), ~BeginWrite(w), ~EndWrite(w), ~AbortFlushes(w)
      PROVE  UNCHANGED file
    BY <1>6 DEF Proceed, Fail, AcquireLock, ScanAccepts, ScanRejects, ShortWrite, Fsync,
                FsyncDirectory, Return, Abort
<1>7. ~PowerLoss
    BY <1>1 DEF PowerLoss, TypeOK
<1>8. UNCHANGED vars => UNCHANGED file
    BY DEF vars
<1> QED
    BY <1>2, <1>3, <1>4, <1>5, <1>6, <1>7, <1>8 DEF Next, Noticed, Proceed, Fail

\* For any number of writers and failures, an append is one atomic step to those who read:
\* the assumption under which RunDirectory takes the journals for sets.
THEOREM AppendsAreAtomic == Spec => AppendIsAtomic
<1> QED
    BY StepNoticed, Inductive, PTL DEF Spec, AppendIsAtomic, Noticed
=============================================================================
