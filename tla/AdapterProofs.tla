--------------------------- MODULE AdapterProofs ---------------------------
(***************************************************************************)
(* The adapter of scripts/thinking.py keeps its promise to the model       *)
(* server and answers every request once, for any number of sessions,      *)
(* requests and slots, whoever opens and closes it.                        *)
(***************************************************************************)
EXTENDS Adapter, FiniteSetTheorems, TLAPS

\* All that can happen to the adapters, whoever drives them.
Opens(s) ==
    /\ Door(s, "none", "open")
    /\ UNCHANGED <<free, connections, pc, sock, status, gone, forwarded>>

Stops(s) ==
    /\ Door(s, "open", "stopping")
    /\ UNCHANGED <<free, connections, pc, sock, status, gone, forwarded>>

HangUp ==
    /\ \E S \in SUBSET Requests : gone' = gone \union S
    /\ UNCHANGED <<door, free, connections, pc, sock, status, forwarded, data>>

AdapterNext ==
    \/ \E r \in Requests : Post(r) \/ Handle(r)
    \/ HangUp
    \/ \E s \in Sessions : Opens(s) \/ Stops(s) \/ CloseAdapter(s) \/ Vanish(s)

----------------------------------------------------------------------------
\* The inductive invariant.

Outside == {"idle", "backlog", "post", "done"}

Early == {"idle", "backlog", "post", "read", "connect", "register", "request"}

Upstream == {"response", "head", "stream", "write", "cleanup"}

\* Who holds a slot.
Holders(s) == {r \in Requests : Home[r] = s /\ pc[r] \notin Outside}

\* The semaphore counts the handlers that hold a slot, as long as there is a process.
SlotInv == \A s \in Sessions : door[s] # "gone" => free[s] = Slots - Cardinality(Holders(s))

DoorInv ==
    \A r \in Requests :
        /\ door[Home[r]] = "none" => pc[r] = "idle"
        /\ door[Home[r]] = "gone" => pc[r] \in {"idle", "done"} /\ sock[r] # "open"
        /\ door[Home[r]] = "closed" /\ r \in connections => sock[r] # "open"

\* What is at the model server is registered, so that the session can take it back.
ForwardInv ==
    \A r \in Requests :
        /\ pc[r] \in Early => r \notin forwarded
        /\ pc[r] \in Early => (r \in connections <=> pc[r] = "request")
        /\ r \in forwarded /\ sock[r] = "open" => pc[r] \in Upstream /\ r \in connections

StatusInv ==
    \A r \in Requests :
        /\ pc[r] \in Early \union {"response", "head"} => status[r] = <<>>
        /\ Len(status[r]) <= 1
        /\ pc[r] \notin Early \union {"response", "head"} /\ r \notin gone =>
               Len(status[r]) = 1 \/ Muted(body[r], Model)

LevelInv ==
    \A r \in Requests :
        /\ pc[r] # "idle" => body[r] \in Bodies[r]
        /\ pc[r] \in {"connect", "register", "request"} \/ r \in forwarded =>
               Acceptable(body[r], Model) /\ payload[r] = translate(body[r], Model)

AInv == AdapterTypeOK /\ SlotInv /\ DoorInv /\ ForwardInv /\ StatusInv /\ LevelInv

----------------------------------------------------------------------------
LEMMA InitAInv == AdapterInit => AInv
<1> SUFFICES ASSUME AdapterInit PROVE AInv
    OBVIOUS
<1>1. \A s \in Sessions : Holders(s) = {}
    BY DEF AdapterInit, Holders, Outside
<1>2. Cardinality({}) = 0
    BY FS_EmptySet
<1>5. SlotInv
  <2> SUFFICES ASSUME NEW s \in Sessions PROVE free[s] = Slots - Cardinality(Holders(s))
      BY DEF SlotInv
  <2>1. Cardinality(Holders(s)) = 0
      BY <1>1, <1>2
  <2>2. free[s] = Slots /\ Slots \in Nat
      BY AdapterAssumption DEF AdapterInit
  <2> QED
      BY <2>1, <2>2
<1>3. AdapterTypeOK
    BY AdapterAssumption DEF AdapterInit, AdapterTypeOK
<1>4. DoorInv /\ ForwardInv /\ StatusInv /\ LevelInv
    BY AdapterAssumption DEF AdapterInit, DoorInv, ForwardInv, StatusInv, LevelInv, Early
<1> QED
    BY <1>5, <1>3, <1>4 DEF AInv

\* What Answer does to the status lines of a request.
LEMMA Answered ==
    ASSUME AdapterTypeOK, NEW r \in Requests,
           NEW code \in {"400", "404", "502", "503", "upstream"}, Answer(r, code)
    PROVE  /\ status' \in [Requests -> Seq({"400", "404", "502", "503", "upstream"})]
           /\ \A q \in Requests \ {r} : status'[q] = status[q]
           /\ status[r] = <<>> => Len(status'[r]) <= 1 /\ (r \notin gone => Len(status'[r]) = 1)
<1> DEFINE C == {"400", "404", "502", "503", "upstream"}
<1>1. status \in [Requests -> Seq(C)] /\ status[r] \in Seq(C)
    BY DEF AdapterTypeOK
<1>2. Append(status[r], code) \in Seq(C) /\ Len(Append(status[r], code)) = Len(status[r]) + 1
    BY <1>1
<1>3. status'[r] = IF r \in gone THEN status[r] ELSE Append(status[r], code)
    BY <1>1 DEF Answer
<1>4. status' \in [Requests -> Seq(C)] /\ \A q \in Requests \ {r} : status'[q] = status[q]
    BY <1>1, <1>2 DEF Answer
<1>5. status[r] = <<>> => Len(status[r]) = 0
    OBVIOUS
<1> QED
    BY <1>2, <1>3, <1>4, <1>5

\* Nobody takes or gives back a slot.
LEMMA SlotsKept ==
    ASSUME SlotInv, free' = free,
           \A s \in Sessions : door'[s] # "gone" => door[s] # "gone",
           \A r \in Requests : pc[r] \in Outside <=> pc'[r] \in Outside
    PROVE  SlotInv'
<1>1. \A s \in Sessions : Holders(s)' = Holders(s)
    BY DEF Holders
<1> QED
    BY <1>1 DEF SlotInv

\* A handler takes a slot, or gives it back.
LEMMA SlotTaken ==
    ASSUME AdapterTypeOK, SlotInv, NEW r \in Requests, door' = door,
           pc[r] \in Outside, NEW to, to \notin Outside, pc' = [pc EXCEPT ![r] = to],
           free' = [free EXCEPT ![Home[r]] = @ - 1]
    PROVE  SlotInv'
<1> SUFFICES ASSUME NEW s \in Sessions, door[s] # "gone"
             PROVE  free'[s] = Slots - Cardinality(Holders(s)')
    BY DEF SlotInv
<1>1. IsFiniteSet(Holders(s)) /\ Cardinality(Holders(s)) \in Nat
    BY AdapterAssumption, FS_Subset, FS_CardinalityType DEF Holders
<1>2. free[s] = Slots - Cardinality(Holders(s)) /\ free \in [Sessions -> Int]
    BY AdapterAssumption DEF SlotInv, AdapterTypeOK
<1>3. CASE s = Home[r]
  <2>1. Holders(s)' = Holders(s) \union {r} /\ r \notin Holders(s)
      BY <1>3 DEF Holders, AdapterTypeOK
  <2>2. Cardinality(Holders(s)') = Cardinality(Holders(s)) + 1
      BY <1>1, <2>1, FS_AddElement
  <2> QED
      BY <1>1, <1>2, <1>3, <2>2, AdapterAssumption
<1>4. CASE s # Home[r]
  <2>1. Holders(s)' = Holders(s)
      BY <1>4 DEF Holders, AdapterTypeOK
  <2> QED
      BY <1>2, <1>4, <2>1, AdapterAssumption
<1> QED
    BY <1>3, <1>4

LEMMA SlotReturned ==
    ASSUME AdapterTypeOK, SlotInv, NEW r \in Requests, door' = door, door[Home[r]] # "gone",
           pc[r] \notin Outside, NEW to, to \in Outside, pc' = [pc EXCEPT ![r] = to],
           free' = [free EXCEPT ![Home[r]] = @ + 1]
    PROVE  SlotInv' /\ free' \in [Sessions -> 0..Slots]
<1> DEFINE h == Home[r]
<1>0. h \in Sessions /\ free \in [Sessions -> 0..Slots] /\ Slots \in Nat
    BY AdapterAssumption DEF AdapterTypeOK
<1>1. \A s \in Sessions : IsFiniteSet(Holders(s)) /\ Cardinality(Holders(s)) \in Nat
    BY AdapterAssumption, FS_Subset, FS_CardinalityType DEF Holders
<1>2. Holders(h)' = Holders(h) \ {r} /\ r \in Holders(h)
    BY DEF Holders, AdapterTypeOK
<1>3. Cardinality(Holders(h)') = Cardinality(Holders(h)) - 1
  <2> DEFINE H == Holders(h)
  <2>1. IsFiniteSet(H) /\ r \in H
      BY <1>0, <1>1, <1>2
  <2>2. Cardinality(H \ {r}) = Cardinality(H) - 1
      BY <2>1, FS_RemoveElement
  <2> QED
      BY <1>2, <2>2
<1>4. Cardinality(Holders(h)) > 0
    BY <1>0, <1>1, <1>2, FS_EmptySet
<1>5. \A s \in Sessions \ {h} : Holders(s)' = Holders(s)
    BY DEF Holders, AdapterTypeOK
<1>6. free[h] = Slots - Cardinality(Holders(h))
    BY <1>0 DEF SlotInv
<1>7. SlotInv'
    BY <1>0, <1>1, <1>3, <1>5, <1>6 DEF SlotInv
<1>8. free[h] + 1 \in 0..Slots
    BY <1>0, <1>1, <1>4, <1>6 DEF AdapterTypeOK
<1> QED
    BY <1>0, <1>7, <1>8 DEF AdapterTypeOK

----------------------------------------------------------------------------
LEMMA PostStep == ASSUME AInv, NEW r \in Requests, Post(r) PROVE AInv'
<1> USE AdapterAssumption DEF AInv, data
<1>1. AdapterTypeOK'
    BY DEF AdapterTypeOK, Posts, Post, Place
<1>2. SlotInv'
  <2>1. \A q \in Requests : pc[q] \in Outside <=> pc'[q] \in Outside
      BY DEF Outside, AdapterTypeOK, DoorInv, Post, Place
  <2>2. free' = free /\ \A t \in Sessions : door'[t] # "gone" => door[t] # "gone"
      BY DEF AdapterTypeOK, Post, Place
  <2> QED
      BY <2>1, <2>2, SlotsKept
<1>3. DoorInv'
    BY DEF AdapterTypeOK, DoorInv, Post, Place
<1>4. ForwardInv'
    BY DEF AdapterTypeOK, DoorInv, ForwardInv, Early, Upstream, Post, Place
<1>5. StatusInv'
    BY DEF AdapterTypeOK, StatusInv, Early, Post, Place
<1>6. LevelInv'
    BY DEF AdapterTypeOK, LevelInv, ForwardInv, Early, Post, Place
<1> QED
    BY <1>1, <1>2, <1>3, <1>4, <1>5, <1>6

LEMMA AcceptStep == ASSUME AInv, NEW r \in Requests, Accept(r) PROVE AInv'
<1> USE AdapterAssumption DEF AInv, data
<1>1. AdapterTypeOK'
    BY DEF AdapterTypeOK, Accept, Move, Go, Place
<1>2. SlotInv'
  <2>1. \A q \in Requests : pc[q] \in Outside <=> pc'[q] \in Outside
      BY DEF Outside, AdapterTypeOK, DoorInv, Accept, Move, Go, Place
  <2>2. free' = free /\ \A t \in Sessions : door'[t] # "gone" => door[t] # "gone"
      BY DEF AdapterTypeOK, Accept, Move, Go, Place
  <2> QED
      BY <2>1, <2>2, SlotsKept
<1>3. DoorInv'
    BY DEF AdapterTypeOK, DoorInv, Accept, Move, Go, Place
<1>4. ForwardInv'
    BY DEF AdapterTypeOK, DoorInv, ForwardInv, Early, Upstream, Accept, Move, Go, Place
<1>5. StatusInv'
    BY DEF AdapterTypeOK, StatusInv, Early, Accept, Move, Go, Place
<1>6. LevelInv'
    BY DEF AdapterTypeOK, LevelInv, ForwardInv, Early, Accept, Move, Go, Place
<1> QED
    BY <1>1, <1>2, <1>3, <1>4, <1>5, <1>6

LEMMA AdmitStep == ASSUME AInv, NEW r \in Requests, Admit(r) PROVE AInv'
<1> USE AdapterAssumption DEF AInv, data
<1>1. AdapterTypeOK'
  <2>1. Home[r] \in Sessions /\ free[Home[r]] \in 1..Slots
      BY DEF AdapterTypeOK, Admit
  <2>2. free' \in [Sessions -> 0..Slots]
      BY <2>1 DEF AdapterTypeOK, Admit, Acquire
  <2> QED
      BY <2>2 DEF AdapterTypeOK, Admit, Go, Place
<1>2. SlotInv'
    BY SlotTaken DEF Admit, Acquire, Go, Place, Outside
<1>3. DoorInv'
    BY DEF AdapterTypeOK, DoorInv, Admit, Acquire, Go, Place
<1>4. ForwardInv'
    BY DEF AdapterTypeOK, DoorInv, ForwardInv, Early, Upstream, Admit, Acquire, Go, Place
<1>5. StatusInv'
    BY DEF AdapterTypeOK, StatusInv, Early, Admit, Acquire, Go, Place
<1>6. LevelInv'
    BY DEF AdapterTypeOK, LevelInv, ForwardInv, Early, Admit, Acquire, Go, Place
<1> QED
    BY <1>1, <1>2, <1>3, <1>4, <1>5, <1>6

LEMMA RefuseStep == ASSUME AInv, NEW r \in Requests, Refuse(r) PROVE AInv'
<1> USE AdapterAssumption DEF AInv, data
<1>1. AdapterTypeOK'
  <2>1. PICK code \in {"404", "503"} : Answer(r, code)
      BY DEF Refuse
  <2>2. status' \in [Requests -> Seq({"400", "404", "502", "503", "upstream"})]
      BY <2>1, Answered
  <2> QED
      BY <2>2 DEF AdapterTypeOK, Refuse, Go, Place
<1>2. SlotInv'
  <2>1. \A q \in Requests : pc[q] \in Outside <=> pc'[q] \in Outside
      BY DEF Outside, AdapterTypeOK, DoorInv, Refuse, Answer, Go, Place
  <2>2. free' = free /\ \A t \in Sessions : door'[t] # "gone" => door[t] # "gone"
      BY DEF AdapterTypeOK, Refuse, Answer, Go, Place
  <2> QED
      BY <2>1, <2>2, SlotsKept
<1>3. DoorInv'
    BY DEF AdapterTypeOK, DoorInv, Refuse, Answer, Go, Place
<1>4. ForwardInv'
    BY DEF AdapterTypeOK, DoorInv, ForwardInv, Early, Upstream, Refuse, Answer, Go, Place
<1>5. StatusInv'
  <2>1. PICK code \in {"404", "503"} : Answer(r, code)
      BY DEF Refuse
  <2>2. status[r] = <<>>
      BY DEF StatusInv, Refuse, Go, Place, Early
  <2>3. Len(status'[r]) <= 1 /\ (r \notin gone => Len(status'[r]) = 1)
      BY <2>1, <2>2, Answered
  <2>4. \A q \in Requests \ {r} : status'[q] = status[q]
      BY <2>1, Answered
  <2> QED
      BY <2>3, <2>4 DEF AdapterTypeOK, StatusInv, Early, Refuse, Go, Place
<1>6. LevelInv'
    BY DEF AdapterTypeOK, LevelInv, ForwardInv, Early, Refuse, Answer, Go, Place
<1> QED
    BY <1>1, <1>2, <1>3, <1>4, <1>5, <1>6

LEMMA ReadStep == ASSUME AInv, NEW r \in Requests, Read(r) PROVE AInv'
<1> USE AdapterAssumption DEF AInv, data
<1>1. AdapterTypeOK'
  <2>1. body[r] \in Posts
      BY DEF AdapterTypeOK, LevelInv, Posts, Read, Place
  <2>2. payload' \in [Requests -> {translate(b, Model) : b \in Posts} \union {None}]
      BY <2>1 DEF AdapterTypeOK, Read
  <2> QED
      BY <2>2 DEF AdapterTypeOK, Read, Place
<1>2. SlotInv'
  <2>1. \A q \in Requests : pc[q] \in Outside <=> pc'[q] \in Outside
      BY DEF Outside, AdapterTypeOK, DoorInv, Read, Place
  <2>2. free' = free /\ \A t \in Sessions : door'[t] # "gone" => door[t] # "gone"
      BY DEF AdapterTypeOK, Read, Place
  <2> QED
      BY <2>1, <2>2, SlotsKept
<1>3. DoorInv'
    BY DEF AdapterTypeOK, DoorInv, Read, Place
<1>4. ForwardInv'
    BY DEF AdapterTypeOK, DoorInv, ForwardInv, Early, Upstream, Read, Place
<1>5. StatusInv'
    BY DEF AdapterTypeOK, StatusInv, Early, Read, Place
<1>6. LevelInv'
    BY DEF AdapterTypeOK, LevelInv, ForwardInv, Early, Read, Place
<1> QED
    BY <1>1, <1>2, <1>3, <1>4, <1>5, <1>6

LEMMA ConnectStep == ASSUME AInv, NEW r \in Requests, Connect(r) PROVE AInv'
<1> USE AdapterAssumption DEF AInv, data
<1>1. AdapterTypeOK'
    BY DEF AdapterTypeOK, Connect, Go, Place
<1>2. SlotInv'
  <2>1. \A q \in Requests : pc[q] \in Outside <=> pc'[q] \in Outside
      BY DEF Outside, AdapterTypeOK, DoorInv, Connect, Go, Place
  <2>2. free' = free /\ \A t \in Sessions : door'[t] # "gone" => door[t] # "gone"
      BY DEF AdapterTypeOK, Connect, Go, Place
  <2> QED
      BY <2>1, <2>2, SlotsKept
<1>3. DoorInv'
    BY DEF AdapterTypeOK, DoorInv, ForwardInv, Early, Connect, Go, Place
<1>4. ForwardInv'
    BY DEF AdapterTypeOK, DoorInv, ForwardInv, Early, Upstream, Connect, Go, Place
<1>5. StatusInv'
    BY DEF AdapterTypeOK, StatusInv, Early, Connect, Go, Place
<1>6. LevelInv'
    BY DEF AdapterTypeOK, LevelInv, ForwardInv, Early, Connect, Go, Place
<1> QED
    BY <1>1, <1>2, <1>3, <1>4, <1>5, <1>6

LEMMA RegisterStep == ASSUME AInv, NEW r \in Requests, Register(r) PROVE AInv'
<1> USE AdapterAssumption DEF AInv, data
<1>1. AdapterTypeOK'
    BY DEF AdapterTypeOK, Register, Stopping, Go, Place
<1>2. SlotInv'
  <2>1. \A q \in Requests : pc[q] \in Outside <=> pc'[q] \in Outside
      BY DEF Outside, AdapterTypeOK, DoorInv, Register, Stopping, Go, Place
  <2>2. free' = free /\ \A t \in Sessions : door'[t] # "gone" => door[t] # "gone"
      BY DEF AdapterTypeOK, Register, Stopping, Go, Place
  <2> QED
      BY <2>1, <2>2, SlotsKept
<1>3. DoorInv'
    BY DEF AdapterTypeOK, DoorInv, Register, Stopping, Go, Place
<1>4. ForwardInv'
    BY DEF AdapterTypeOK, DoorInv, ForwardInv, Early, Upstream, Register, Stopping, Go, Place
<1>5. StatusInv'
    BY DEF AdapterTypeOK, StatusInv, Early, Register, Stopping, Go, Place
<1>6. LevelInv'
    BY DEF AdapterTypeOK, LevelInv, ForwardInv, Early, Register, Stopping, Go, Place
<1> QED
    BY <1>1, <1>2, <1>3, <1>4, <1>5, <1>6

LEMMA RequestStep == ASSUME AInv, NEW r \in Requests, Request(r) PROVE AInv'
<1> USE AdapterAssumption DEF AInv, data
<1>1. AdapterTypeOK'
    BY DEF AdapterTypeOK, Request, Go, Place
<1>2. SlotInv'
  <2>1. \A q \in Requests : pc[q] \in Outside <=> pc'[q] \in Outside
      BY DEF Outside, AdapterTypeOK, DoorInv, Request, Go, Place
  <2>2. free' = free /\ \A t \in Sessions : door'[t] # "gone" => door[t] # "gone"
      BY DEF AdapterTypeOK, Request, Go, Place
  <2> QED
      BY <2>1, <2>2, SlotsKept
<1>3. DoorInv'
    BY DEF AdapterTypeOK, DoorInv, Request, Go, Place
<1>4. ForwardInv'
    BY DEF AdapterTypeOK, DoorInv, ForwardInv, Early, Upstream, Request, Go, Place
<1>5. StatusInv'
    BY DEF AdapterTypeOK, StatusInv, Early, Request, Go, Place
<1>6. LevelInv'
    BY DEF AdapterTypeOK, LevelInv, ForwardInv, Early, Request, Go, Place
<1> QED
    BY <1>1, <1>2, <1>3, <1>4, <1>5, <1>6

LEMMA GetResponseStep == ASSUME AInv, NEW r \in Requests, GetResponse(r) PROVE AInv'
<1> USE AdapterAssumption DEF AInv, data
<1>1. AdapterTypeOK'
    BY DEF AdapterTypeOK, GetResponse, Move, Go, Place
<1>2. SlotInv'
  <2>1. \A q \in Requests : pc[q] \in Outside <=> pc'[q] \in Outside
      BY DEF Outside, AdapterTypeOK, DoorInv, GetResponse, Move, Go, Place
  <2>2. free' = free /\ \A t \in Sessions : door'[t] # "gone" => door[t] # "gone"
      BY DEF AdapterTypeOK, GetResponse, Move, Go, Place
  <2> QED
      BY <2>1, <2>2, SlotsKept
<1>3. DoorInv'
    BY DEF AdapterTypeOK, DoorInv, GetResponse, Move, Go, Place
<1>4. ForwardInv'
    BY DEF AdapterTypeOK, DoorInv, ForwardInv, Early, Upstream, GetResponse, Move, Go, Place
<1>5. StatusInv'
    BY DEF AdapterTypeOK, StatusInv, Early, GetResponse, Move, Go, Place
<1>6. LevelInv'
    BY DEF AdapterTypeOK, LevelInv, ForwardInv, Early, GetResponse, Move, Go, Place
<1> QED
    BY <1>1, <1>2, <1>3, <1>4, <1>5, <1>6

LEMMA SendHeadStep == ASSUME AInv, NEW r \in Requests, SendHead(r) PROVE AInv'
<1> USE AdapterAssumption DEF AInv, data
<1>1. AdapterTypeOK'
  <2>1. status' \in [Requests -> Seq({"400", "404", "502", "503", "upstream"})]
      BY Answered DEF SendHead
  <2> QED
      BY <2>1 DEF AdapterTypeOK, SendHead, Go, Place
<1>2. SlotInv'
  <2>1. \A q \in Requests : pc[q] \in Outside <=> pc'[q] \in Outside
      BY DEF Outside, AdapterTypeOK, DoorInv, SendHead, Answer, Go, Place
  <2>2. free' = free /\ \A t \in Sessions : door'[t] # "gone" => door[t] # "gone"
      BY DEF AdapterTypeOK, SendHead, Answer, Go, Place
  <2> QED
      BY <2>1, <2>2, SlotsKept
<1>3. DoorInv'
    BY DEF AdapterTypeOK, DoorInv, SendHead, Answer, Go, Place
<1>4. ForwardInv'
    BY DEF AdapterTypeOK, DoorInv, ForwardInv, Early, Upstream, SendHead, Answer, Go, Place
<1>5. StatusInv'
  <2>1. Answer(r, "upstream")
      BY DEF SendHead
  <2>2. status[r] = <<>>
      BY DEF StatusInv, SendHead, Go, Place, Early
  <2>3. Len(status'[r]) <= 1 /\ (r \notin gone => Len(status'[r]) = 1)
      BY <2>1, <2>2, Answered
  <2>4. \A q \in Requests \ {r} : status'[q] = status[q]
      BY <2>1, Answered
  <2> QED
      BY <2>3, <2>4 DEF AdapterTypeOK, StatusInv, Early, SendHead, Go, Place
<1>6. LevelInv'
    BY DEF AdapterTypeOK, LevelInv, ForwardInv, Early, SendHead, Answer, Go, Place
<1> QED
    BY <1>1, <1>2, <1>3, <1>4, <1>5, <1>6

LEMMA ChunkStep == ASSUME AInv, NEW r \in Requests, Chunk(r) PROVE AInv'
<1> USE AdapterAssumption DEF AInv, data
<1>1. AdapterTypeOK'
    BY DEF AdapterTypeOK, Chunk, Move, Go, Place
<1>2. SlotInv'
  <2>1. \A q \in Requests : pc[q] \in Outside <=> pc'[q] \in Outside
      BY DEF Outside, AdapterTypeOK, DoorInv, Chunk, Move, Go, Place
  <2>2. free' = free /\ \A t \in Sessions : door'[t] # "gone" => door[t] # "gone"
      BY DEF AdapterTypeOK, Chunk, Move, Go, Place
  <2> QED
      BY <2>1, <2>2, SlotsKept
<1>3. DoorInv'
    BY DEF AdapterTypeOK, DoorInv, Chunk, Move, Go, Place
<1>4. ForwardInv'
    BY DEF AdapterTypeOK, DoorInv, ForwardInv, Early, Upstream, Chunk, Move, Go, Place
<1>5. StatusInv'
    BY DEF AdapterTypeOK, StatusInv, Early, Chunk, Move, Go, Place
<1>6. LevelInv'
    BY DEF AdapterTypeOK, LevelInv, ForwardInv, Early, Chunk, Move, Go, Place
<1> QED
    BY <1>1, <1>2, <1>3, <1>4, <1>5, <1>6

LEMMA WriteStep == ASSUME AInv, NEW r \in Requests, Write(r) PROVE AInv'
<1> USE AdapterAssumption DEF AInv, data
<1>1. AdapterTypeOK'
    BY DEF AdapterTypeOK, Write, Move, Go, Place
<1>2. SlotInv'
  <2>1. \A q \in Requests : pc[q] \in Outside <=> pc'[q] \in Outside
      BY DEF Outside, AdapterTypeOK, DoorInv, Write, Move, Go, Place
  <2>2. free' = free /\ \A t \in Sessions : door'[t] # "gone" => door[t] # "gone"
      BY DEF AdapterTypeOK, Write, Move, Go, Place
  <2> QED
      BY <2>1, <2>2, SlotsKept
<1>3. DoorInv'
    BY DEF AdapterTypeOK, DoorInv, Write, Move, Go, Place
<1>4. ForwardInv'
    BY DEF AdapterTypeOK, DoorInv, ForwardInv, Early, Upstream, Write, Move, Go, Place
<1>5. StatusInv'
    BY DEF AdapterTypeOK, StatusInv, Early, Write, Move, Go, Place
<1>6. LevelInv'
    BY DEF AdapterTypeOK, LevelInv, ForwardInv, Early, Write, Move, Go, Place
<1> QED
    BY <1>1, <1>2, <1>3, <1>4, <1>5, <1>6

LEMMA EndOfReplyStep == ASSUME AInv, NEW r \in Requests, EndOfReply(r) PROVE AInv'
<1> USE AdapterAssumption DEF AInv, data
<1>1. AdapterTypeOK'
    BY DEF AdapterTypeOK, EndOfReply, Move, Go, Place
<1>2. SlotInv'
  <2>1. \A q \in Requests : pc[q] \in Outside <=> pc'[q] \in Outside
      BY DEF Outside, AdapterTypeOK, DoorInv, EndOfReply, Move, Go, Place
  <2>2. free' = free /\ \A t \in Sessions : door'[t] # "gone" => door[t] # "gone"
      BY DEF AdapterTypeOK, EndOfReply, Move, Go, Place
  <2> QED
      BY <2>1, <2>2, SlotsKept
<1>3. DoorInv'
    BY DEF AdapterTypeOK, DoorInv, EndOfReply, Move, Go, Place
<1>4. ForwardInv'
    BY DEF AdapterTypeOK, DoorInv, ForwardInv, Early, Upstream, EndOfReply, Move, Go, Place
<1>5. StatusInv'
    BY DEF AdapterTypeOK, StatusInv, Early, EndOfReply, Move, Go, Place
<1>6. LevelInv'
    BY DEF AdapterTypeOK, LevelInv, ForwardInv, Early, EndOfReply, Move, Go, Place
<1> QED
    BY <1>1, <1>2, <1>3, <1>4, <1>5, <1>6

LEMMA RaiseStep == ASSUME AInv, NEW r \in Requests, NEW p, NEW code,
           p \in {"read", "connect", "register", "request", "response", "head", "stream", "write"},
           code \in {"400", "502"}, Raise(r, p, code)
     PROVE AInv'
<1> USE AdapterAssumption DEF AInv, data
<1>1. AdapterTypeOK'
  <2>1. CASE MayTell(r)
    <3>1. status' \in [Requests -> Seq({"400", "404", "502", "503", "upstream"})]
        BY <2>1, Answered DEF Raise
    <3> QED
        BY <3>1 DEF AdapterTypeOK, Raise, Go, Place
  <2>2. CASE ~MayTell(r)
      BY <2>2 DEF AdapterTypeOK, Raise, Go, Place
  <2> QED
      BY <2>1, <2>2
<1>2. SlotInv'
  <2>1. \A q \in Requests : pc[q] \in Outside <=> pc'[q] \in Outside
      BY DEF Outside, AdapterTypeOK, DoorInv, Raise, MayTell, Answer, Go, Place
  <2>2. free' = free /\ \A t \in Sessions : door'[t] # "gone" => door[t] # "gone"
      BY DEF AdapterTypeOK, Raise, MayTell, Answer, Go, Place
  <2> QED
      BY <2>1, <2>2, SlotsKept
<1>3. DoorInv'
    BY DEF AdapterTypeOK, DoorInv, Raise, MayTell, Answer, Go, Place
<1>4. ForwardInv'
    BY DEF AdapterTypeOK, DoorInv, ForwardInv, Early, Upstream, Raise, MayTell, Answer, Go, Place
<1>5. StatusInv'
  <2>1. CASE MayTell(r)
    <3>1. status[r] = <<>> /\ Answer(r, code)
        BY <2>1 DEF StatusInv, Raise, Go, Place, Early, MayTell
    <3>2. Len(status'[r]) <= 1 /\ (r \notin gone => Len(status'[r]) = 1)
        BY <3>1, Answered
    <3>3. \A q \in Requests \ {r} : status'[q] = status[q]
        BY <3>1, Answered
    <3> QED
        BY <3>2, <3>3 DEF AdapterTypeOK, StatusInv, Early, Raise, Go, Place
  <2>2. CASE ~MayTell(r)
      BY <2>2 DEF AdapterTypeOK, StatusInv, Early, Raise, MayTell, Go, Place
  <2> QED
      BY <2>1, <2>2
<1>6. LevelInv'
    BY DEF AdapterTypeOK, LevelInv, ForwardInv, Early, Raise, MayTell, Answer, Go, Place
<1> QED
    BY <1>1, <1>2, <1>3, <1>4, <1>5, <1>6

LEMMA UnansweredStep == ASSUME AInv, NEW r \in Requests, Unanswered(r) PROVE AInv'
<1> USE AdapterAssumption DEF AInv, data
<1>1. AdapterTypeOK'
    BY DEF AdapterTypeOK, Unanswered, Move, Go, Place
<1>2. SlotInv'
  <2>1. \A q \in Requests : pc[q] \in Outside <=> pc'[q] \in Outside
      BY DEF Outside, AdapterTypeOK, DoorInv, Unanswered, Move, Go, Place
  <2>2. free' = free /\ \A t \in Sessions : door'[t] # "gone" => door[t] # "gone"
      BY DEF AdapterTypeOK, Unanswered, Move, Go, Place
  <2> QED
      BY <2>1, <2>2, SlotsKept
<1>3. DoorInv'
    BY DEF AdapterTypeOK, DoorInv, Unanswered, Move, Go, Place
<1>4. ForwardInv'
    BY DEF AdapterTypeOK, DoorInv, ForwardInv, Early, Upstream, Unanswered, Move, Go, Place
<1>5. StatusInv'
    BY DEF AdapterTypeOK, StatusInv, Early, Unanswered, Move, Go, Place
<1>6. LevelInv'
    BY DEF AdapterTypeOK, LevelInv, ForwardInv, Early, Unanswered, Move, Go, Place
<1> QED
    BY <1>1, <1>2, <1>3, <1>4, <1>5, <1>6

LEMMA CloseStep == ASSUME AInv, NEW r \in Requests, Close(r) PROVE AInv'
<1> USE AdapterAssumption DEF AInv, data
<1>1. AdapterTypeOK'
    BY DEF AdapterTypeOK, Close, Go, Place
<1>2. SlotInv'
  <2>1. \A q \in Requests : pc[q] \in Outside <=> pc'[q] \in Outside
      BY DEF Outside, AdapterTypeOK, DoorInv, Close, Go, Place
  <2>2. free' = free /\ \A t \in Sessions : door'[t] # "gone" => door[t] # "gone"
      BY DEF AdapterTypeOK, Close, Go, Place
  <2> QED
      BY <2>1, <2>2, SlotsKept
<1>3. DoorInv'
    BY DEF AdapterTypeOK, DoorInv, Close, Go, Place
<1>4. ForwardInv'
    BY DEF AdapterTypeOK, DoorInv, ForwardInv, Early, Upstream, Close, Go, Place
<1>5. StatusInv'
    BY DEF AdapterTypeOK, StatusInv, Early, Close, Go, Place
<1>6. LevelInv'
    BY DEF AdapterTypeOK, LevelInv, ForwardInv, Early, Close, Go, Place
<1> QED
    BY <1>1, <1>2, <1>3, <1>4, <1>5, <1>6

LEMMA DiscardStep == ASSUME AInv, NEW r \in Requests, Discard(r) PROVE AInv'
<1> USE AdapterAssumption DEF AInv, data
<1>1. AdapterTypeOK'
    BY DEF AdapterTypeOK, Discard, Go, Place
<1>2. SlotInv'
  <2>1. \A q \in Requests : pc[q] \in Outside <=> pc'[q] \in Outside
      BY DEF Outside, AdapterTypeOK, DoorInv, Discard, Go, Place
  <2>2. free' = free /\ \A t \in Sessions : door'[t] # "gone" => door[t] # "gone"
      BY DEF AdapterTypeOK, Discard, Go, Place
  <2> QED
      BY <2>1, <2>2, SlotsKept
<1>3. DoorInv'
    BY DEF AdapterTypeOK, DoorInv, Discard, Go, Place
<1>4. ForwardInv'
    BY DEF AdapterTypeOK, DoorInv, ForwardInv, Early, Upstream, Discard, Go, Place
<1>5. StatusInv'
    BY DEF AdapterTypeOK, StatusInv, Early, Discard, Go, Place
<1>6. LevelInv'
    BY DEF AdapterTypeOK, LevelInv, ForwardInv, Early, Discard, Go, Place
<1> QED
    BY <1>1, <1>2, <1>3, <1>4, <1>5, <1>6

LEMMA ReleaseStep == ASSUME AInv, NEW r \in Requests, Release(r) PROVE AInv'
<1> USE AdapterAssumption DEF AInv, data
<1>1. AdapterTypeOK'
  <2>1. free' \in [Sessions -> 0..Slots]
      BY SlotReturned DEF Release, Go, Place, Outside, DoorInv
  <2> QED
      BY <2>1 DEF AdapterTypeOK, Release, Go, Place
<1>2. SlotInv'
    BY SlotReturned DEF Release, Go, Place, Outside, DoorInv
<1>3. DoorInv'
    BY DEF AdapterTypeOK, DoorInv, Release, Go, Place
<1>4. ForwardInv'
    BY DEF AdapterTypeOK, DoorInv, ForwardInv, Early, Upstream, Release, Go, Place
<1>5. StatusInv'
    BY DEF AdapterTypeOK, StatusInv, Early, Release, Go, Place
<1>6. LevelInv'
    BY DEF AdapterTypeOK, LevelInv, ForwardInv, Early, Release, Go, Place
<1> QED
    BY <1>1, <1>2, <1>3, <1>4, <1>5, <1>6

LEMMA HangUpStep == ASSUME AInv, HangUp PROVE AInv'
<1> USE AdapterAssumption DEF AInv, data
<1>1. AdapterTypeOK'
    BY DEF AdapterTypeOK, HangUp
<1>2. SlotInv'
  <2>1. \A q \in Requests : pc[q] \in Outside <=> pc'[q] \in Outside
      BY DEF Outside, AdapterTypeOK, DoorInv, HangUp
  <2>2. free' = free /\ \A t \in Sessions : door'[t] # "gone" => door[t] # "gone"
      BY DEF AdapterTypeOK, HangUp
  <2> QED
      BY <2>1, <2>2, SlotsKept
<1>3. DoorInv'
    BY DEF AdapterTypeOK, DoorInv, HangUp
<1>4. ForwardInv'
    BY DEF AdapterTypeOK, DoorInv, ForwardInv, Early, Upstream, HangUp
<1>5. StatusInv'
    BY DEF AdapterTypeOK, StatusInv, Early, HangUp
<1>6. LevelInv'
    BY DEF AdapterTypeOK, LevelInv, ForwardInv, Early, HangUp
<1> QED
    BY <1>1, <1>2, <1>3, <1>4, <1>5, <1>6

LEMMA OpensStep == ASSUME AInv, NEW s \in Sessions, Opens(s) PROVE AInv'
<1> USE AdapterAssumption DEF AInv, data
<1>1. AdapterTypeOK'
    BY DEF AdapterTypeOK, Opens, Door
<1>2. SlotInv'
  <2>1. \A q \in Requests : pc[q] \in Outside <=> pc'[q] \in Outside
      BY DEF Outside, AdapterTypeOK, DoorInv, Opens, Door
  <2>2. free' = free /\ \A t \in Sessions : door'[t] # "gone" => door[t] # "gone"
      BY DEF AdapterTypeOK, Opens, Door
  <2> QED
      BY <2>1, <2>2, SlotsKept
<1>3. DoorInv'
    BY DEF AdapterTypeOK, DoorInv, Opens, Door
<1>4. ForwardInv'
    BY DEF AdapterTypeOK, DoorInv, ForwardInv, Early, Upstream, Opens, Door
<1>5. StatusInv'
    BY DEF AdapterTypeOK, StatusInv, Early, Opens, Door
<1>6. LevelInv'
    BY DEF AdapterTypeOK, LevelInv, ForwardInv, Early, Opens, Door
<1> QED
    BY <1>1, <1>2, <1>3, <1>4, <1>5, <1>6

LEMMA StopsStep == ASSUME AInv, NEW s \in Sessions, Stops(s) PROVE AInv'
<1> USE AdapterAssumption DEF AInv, data
<1>1. AdapterTypeOK'
    BY DEF AdapterTypeOK, Stops, Door
<1>2. SlotInv'
  <2>1. \A q \in Requests : pc[q] \in Outside <=> pc'[q] \in Outside
      BY DEF Outside, AdapterTypeOK, DoorInv, Stops, Door
  <2>2. free' = free /\ \A t \in Sessions : door'[t] # "gone" => door[t] # "gone"
      BY DEF AdapterTypeOK, Stops, Door
  <2> QED
      BY <2>1, <2>2, SlotsKept
<1>3. DoorInv'
    BY DEF AdapterTypeOK, DoorInv, Stops, Door
<1>4. ForwardInv'
    BY DEF AdapterTypeOK, DoorInv, ForwardInv, Early, Upstream, Stops, Door
<1>5. StatusInv'
    BY DEF AdapterTypeOK, StatusInv, Early, Stops, Door
<1>6. LevelInv'
    BY DEF AdapterTypeOK, LevelInv, ForwardInv, Early, Stops, Door
<1> QED
    BY <1>1, <1>2, <1>3, <1>4, <1>5, <1>6

LEMMA ShutdownStep == ASSUME AInv, NEW s \in Sessions, Shutdown(s) PROVE AInv'
<1> USE AdapterAssumption DEF AInv, data
<1>1. AdapterTypeOK'
    BY DEF AdapterTypeOK, Shutdown, Door
<1>2. SlotInv'
  <2>1. \A q \in Requests : pc[q] \in Outside <=> pc'[q] \in Outside
      BY DEF Outside, AdapterTypeOK, DoorInv, Shutdown, Door
  <2>2. free' = free /\ \A t \in Sessions : door'[t] # "gone" => door[t] # "gone"
      BY DEF AdapterTypeOK, Shutdown, Door
  <2> QED
      BY <2>1, <2>2, SlotsKept
<1>3. DoorInv'
    BY DEF AdapterTypeOK, DoorInv, Shutdown, Door
<1>4. ForwardInv'
    BY DEF AdapterTypeOK, DoorInv, ForwardInv, Early, Upstream, Shutdown, Door
<1>5. StatusInv'
    BY DEF AdapterTypeOK, StatusInv, Early, Shutdown, Door
<1>6. LevelInv'
    BY DEF AdapterTypeOK, LevelInv, ForwardInv, Early, Shutdown, Door
<1> QED
    BY <1>1, <1>2, <1>3, <1>4, <1>5, <1>6

LEMMA ServerCloseStep == ASSUME AInv, NEW s \in Sessions, ServerClose(s) PROVE AInv'
<1> USE AdapterAssumption DEF AInv, data
<1>1. AdapterTypeOK'
    BY DEF AdapterTypeOK, ServerClose, Door, Cut, Of
<1>2. SlotInv'
  <2>1. \A q \in Requests : pc[q] \in Outside <=> pc'[q] \in Outside
      BY DEF Outside, AdapterTypeOK, DoorInv, ServerClose, Door, Cut, Of
  <2>2. free' = free /\ \A t \in Sessions : door'[t] # "gone" => door[t] # "gone"
      BY DEF AdapterTypeOK, ServerClose, Door, Cut, Of
  <2> QED
      BY <2>1, <2>2, SlotsKept
<1>3. DoorInv'
    BY DEF AdapterTypeOK, DoorInv, ServerClose, Door, Cut, Of
<1>4. ForwardInv'
    BY DEF AdapterTypeOK, DoorInv, ForwardInv, Early, Upstream, ServerClose, Door, Cut, Of
<1>5. StatusInv'
    BY DEF AdapterTypeOK, StatusInv, Early, ServerClose, Door, Cut, Of
<1>6. LevelInv'
    BY DEF AdapterTypeOK, LevelInv, ForwardInv, Early, ServerClose, Door, Cut, Of
<1> QED
    BY <1>1, <1>2, <1>3, <1>4, <1>5, <1>6

LEMMA CloseConnectionStep == ASSUME AInv, NEW s \in Sessions, NEW r \in Requests, CloseConnection(s, r) PROVE AInv'
<1> USE AdapterAssumption DEF AInv, data
<1>1. AdapterTypeOK'
    BY DEF AdapterTypeOK, CloseConnection
<1>2. SlotInv'
  <2>1. \A q \in Requests : pc[q] \in Outside <=> pc'[q] \in Outside
      BY DEF Outside, AdapterTypeOK, DoorInv, CloseConnection
  <2>2. free' = free /\ \A t \in Sessions : door'[t] # "gone" => door[t] # "gone"
      BY DEF AdapterTypeOK, CloseConnection
  <2> QED
      BY <2>1, <2>2, SlotsKept
<1>3. DoorInv'
    BY DEF AdapterTypeOK, DoorInv, CloseConnection
<1>4. ForwardInv'
    BY DEF AdapterTypeOK, DoorInv, ForwardInv, Early, Upstream, CloseConnection
<1>5. StatusInv'
    BY DEF AdapterTypeOK, StatusInv, Early, CloseConnection
<1>6. LevelInv'
    BY DEF AdapterTypeOK, LevelInv, ForwardInv, Early, CloseConnection
<1> QED
    BY <1>1, <1>2, <1>3, <1>4, <1>5, <1>6

LEMMA ClosedStep == ASSUME AInv, NEW s \in Sessions, Closed(s) PROVE AInv'
<1> USE AdapterAssumption DEF AInv, data
<1>1. AdapterTypeOK'
    BY DEF AdapterTypeOK, Closed, Door, Of
<1>2. SlotInv'
  <2>1. \A q \in Requests : pc[q] \in Outside <=> pc'[q] \in Outside
      BY DEF Outside, AdapterTypeOK, DoorInv, Closed, Door, Of
  <2>2. free' = free /\ \A t \in Sessions : door'[t] # "gone" => door[t] # "gone"
      BY DEF AdapterTypeOK, Closed, Door, Of
  <2> QED
      BY <2>1, <2>2, SlotsKept
<1>3. DoorInv'
    BY DEF AdapterTypeOK, DoorInv, Closed, Door, Of
<1>4. ForwardInv'
    BY DEF AdapterTypeOK, DoorInv, ForwardInv, Early, Upstream, Closed, Door, Of
<1>5. StatusInv'
    BY DEF AdapterTypeOK, StatusInv, Early, Closed, Door, Of
<1>6. LevelInv'
    BY DEF AdapterTypeOK, LevelInv, ForwardInv, Early, Closed, Door, Of
<1> QED
    BY <1>1, <1>2, <1>3, <1>4, <1>5, <1>6

LEMMA VanishStep == ASSUME AInv, NEW s \in Sessions, Vanish(s) PROVE AInv'
<1> USE AdapterAssumption DEF AInv, data
<1>1. AdapterTypeOK'
    BY DEF AdapterTypeOK, Vanish, Cut, Of
<1>2. SlotInv'
  <2>1. \A t \in Sessions \ {s} : Holders(t)' = Holders(t)
      BY DEF Holders, AdapterTypeOK, Vanish, Cut, Of
  <2>2. free' = free /\ door'[s] = "gone" /\ \A t \in Sessions \ {s} : door'[t] = door[t]
      BY DEF AdapterTypeOK, Vanish
  <2> QED
      BY <2>1, <2>2 DEF SlotInv
<1>3. DoorInv'
    BY DEF AdapterTypeOK, DoorInv, Vanish, Cut, Of
<1>4. ForwardInv'
    BY DEF AdapterTypeOK, DoorInv, ForwardInv, Early, Upstream, Vanish, Cut, Of
<1>5. StatusInv'
    BY DEF AdapterTypeOK, StatusInv, Early, Vanish, Cut, Of
<1>6. LevelInv'
    BY DEF AdapterTypeOK, LevelInv, ForwardInv, Early, Vanish, Cut, Of
<1> QED
    BY <1>1, <1>2, <1>3, <1>4, <1>5, <1>6

----------------------------------------------------------------------------
LEMMA HandleStep == ASSUME AInv, NEW r \in Requests, Handle(r) PROVE AInv'
<1>1. CASE Invalid(r)
    BY <1>1, RaiseStep DEF Invalid
<1>2. CASE TooLate(r)
    BY <1>2, RaiseStep DEF TooLate
<1>3. CASE Fail(r)
    BY <1>3, RaiseStep DEF Fail
<1> QED
    BY <1>1, <1>2, <1>3, AcceptStep, AdmitStep, RefuseStep, ReadStep, ConnectStep, RegisterStep,
       RequestStep, GetResponseStep, SendHeadStep, ChunkStep, WriteStep, EndOfReplyStep, CloseStep,
       DiscardStep, ReleaseStep, UnansweredStep DEF Handle

LEMMA CloseAdapterStep == ASSUME AInv, NEW s \in Sessions, CloseAdapter(s) PROVE AInv'
BY ShutdownStep, ServerCloseStep, CloseConnectionStep, ClosedStep DEF CloseAdapter, Of

LEMMA UnchangedStep == ASSUME AInv, UNCHANGED adapterVars PROVE AInv'
<1> USE DEF AInv, adapterVars, data
<1>1. AdapterTypeOK' /\ StatusInv'
    BY DEF AdapterTypeOK, StatusInv
<1>2. SlotInv'
    BY DEF SlotInv, Holders
<1>3. DoorInv' /\ ForwardInv' /\ LevelInv'
    BY DEF DoorInv, ForwardInv, LevelInv
<1> QED
    BY <1>1, <1>2, <1>3

LEMMA StepAInv == AInv /\ [AdapterNext]_adapterVars => AInv'
BY PostStep, HandleStep, HangUpStep, OpensStep, StopsStep, CloseAdapterStep, VanishStep,
   UnchangedStep DEF AdapterNext

----------------------------------------------------------------------------
\* Nobody but the selected level speaks for it, whatever arguments the client sent.
LEMMA TranslateSelects ==
    ASSUME NEW b, NEW model \in Models, Effort(b, model) \in levels(model)
    PROVE  LET sent == translate(b, model) IN
           /\ TemplateLevel(model, sent.kwargs) = Effort(b, model)
           /\ sent.reasoning = b.reasoning \ {"effort"}
           /\ \A k \in DOMAIN b.kwargs \ Controls :
                  k \in DOMAIN sent.kwargs /\ sent.kwargs[k] = b.kwargs[k]
<1> DEFINE native == template_kwargs(model, Effort(b, model))
           kwargs == Override(b.kwargs, native)
<1>1. translate(b, model).kwargs = kwargs /\ translate(b, model).reasoning = b.reasoning \ {"effort"}
    BY DEF translate
<1>2. \A k \in DOMAIN native : kwargs[k] = native[k]
    BY DEF Override
<1>3. \A k \in DOMAIN b.kwargs \ DOMAIN native : k \in DOMAIN kwargs /\ kwargs[k] = b.kwargs[k]
    BY DEF Override
<1>4. DOMAIN native \subseteq Controls
    BY DEF template_kwargs, Controls, Models, Super, Muse, Binary, Gemma
<1>5. TemplateLevel(model, kwargs) = Effort(b, model)
  <2>1. CASE model \in Muse
    <3>1. native = [reasoning_strength |-> Effort(b, model)]
        BY <2>1 DEF template_kwargs, Super, Muse, Binary, Gemma
    <3>2. kwargs.reasoning_strength = Effort(b, model)
        BY <1>2, <3>1
    <3> QED
        BY <2>1, <3>2 DEF TemplateLevel, Super, Muse, Binary, Gemma
  <2>2. CASE model = Super
    <3> DEFINE e == Effort(b, model)
    <3>1. native = [enable_thinking |-> e # "none", low_effort |-> e = "low"]
        BY <2>2 DEF template_kwargs, Super, Muse, Binary, Gemma
    <3>2. kwargs.enable_thinking = (e # "none") /\ kwargs.low_effort = (e = "low")
        BY <1>2, <3>1
    <3>3. e \in {"none", "low", "high"}
        BY <2>2 DEF levels, Super, Muse
    <3> QED
        BY <2>2, <3>2, <3>3 DEF TemplateLevel, Super, Muse, Binary, Gemma
  <2>3. CASE model \in Binary
    <3> DEFINE e == Effort(b, model)
    <3>1. native = [enable_thinking |-> e # "none"]
        BY <2>3 DEF template_kwargs, Super, Muse, Binary, Gemma
    <3>2. kwargs.enable_thinking = (e # "none")
        BY <1>2, <3>1
    <3>3. e \in {"none", "high"}
        BY <2>3 DEF levels, Super, Muse, Binary, Gemma
    <3> QED
        BY <2>3, <3>2, <3>3 DEF TemplateLevel, Super, Muse, Binary, Gemma
  <2> QED
      BY <2>1, <2>2, <2>3 DEF Models
<1> QED
    BY <1>1, <1>3, <1>4, <1>5

\* Two levels of one model never reach the model server as the same arguments.
THEOREM LevelsAreDistinguished ==
    ASSUME NEW model \in Models, NEW e \in levels(model), NEW f \in levels(model),
           template_kwargs(model, e) = template_kwargs(model, f)
    PROVE  e = f
<1>1. CASE model = Super
    BY <1>1 DEF levels, template_kwargs, Super, Muse, Binary, Gemma
<1>2. CASE model \in Muse
    BY <1>2 DEF levels, template_kwargs, Super, Muse, Binary, Gemma
<1>3. CASE model \in Binary
    BY <1>3 DEF levels, template_kwargs, Super, Muse, Binary, Gemma
<1> QED
    BY <1>1, <1>2, <1>3 DEF Models

LEMMA AnsweredFromAInv == AInv => AnsweredOnce
BY DEF AInv, StatusInv, AnsweredOnce, Early

LEMMA LevelFromAInv == AInv => SelectedLevelArrives
<1> SUFFICES ASSUME AInv, NEW r \in forwarded
             PROVE  /\ Effort(body[r], Model) \in levels(Model)
                    /\ TemplateLevel(Model, payload[r].kwargs) = Effort(body[r], Model)
                    /\ payload[r].reasoning = body[r].reasoning \ {"effort"}
                    /\ \A k \in DOMAIN body[r].kwargs \ Controls :
                           k \in DOMAIN payload[r].kwargs /\ payload[r].kwargs[k] = body[r].kwargs[k]
    BY DEF SelectedLevelArrives
<1>1. Acceptable(body[r], Model) /\ payload[r] = translate(body[r], Model)
    BY DEF AInv, AdapterTypeOK, LevelInv
<1>2. Effort(body[r], Model) \in levels(Model)
    BY <1>1 DEF Acceptable
<1> QED
    BY <1>1, <1>2, TranslateSelects, AdapterAssumption

----------------------------------------------------------------------------
\* The refinement.

LEMMA PromiseInit == AdapterInit => Promise!Init
BY DEF AdapterInit, Promise!Init, Session, Busy

LEMMA NothingSeen ==
    ASSUME AInv, UNCHANGED <<door, forwarded>>,
           \A r \in forwarded : sock'[r] = "open" <=> sock[r] = "open"
    PROVE  UNCHANGED <<Session, Busy, forwarded>>
BY DEF Session, Busy

\* The instance brings an operator of its own.
LEMMA SameCardinality == ASSUME NEW S PROVE Promise!Cardinality(S) = Cardinality(S)
BY DEF Promise!Cardinality, Cardinality

\* A handler that sends its request holds a slot that no request at the model server holds.
LEMMA RequestBegins == ASSUME AInv, NEW r \in Requests, Request(r) PROVE Promise!Begin(r)
<1> DEFINE h == Home[r]
           B == Promise!Of(h, Busy)
<1> USE AdapterAssumption DEF AInv, AdapterTypeOK
<1>1. h \in Sessions /\ pc[r] = "request" /\ sock[r] = "open" /\ r \in connections
    BY DEF Request, Go, Place, ForwardInv, Early
<1>2. r \notin forwarded /\ r \notin Busy
    BY <1>1 DEF ForwardInv, Early, Busy
<1>3. door[h] \notin {"none", "closed", "gone"}
    BY <1>1 DEF DoorInv
<1>4. B \union {r} \subseteq Holders(h)
    BY <1>1 DEF Holders, Outside, Promise!Of, Busy, ForwardInv, Upstream
<1>5. IsFiniteSet(Holders(h)) /\ Cardinality(Holders(h)) \in Nat
    BY FS_Subset, FS_CardinalityType DEF Holders
<1>6. IsFiniteSet(B) /\ Cardinality(B) \in Nat
    BY <1>4, <1>5, FS_Subset, FS_CardinalityType
<1>7. Cardinality(B \union {r}) = Cardinality(B) + 1
    BY <1>2, <1>6, FS_AddElement DEF Promise!Of
<1>8. Cardinality(B \union {r}) <= Cardinality(Holders(h))
    BY <1>4, <1>5, FS_Subset
<1>9. Cardinality(Holders(h)) <= Slots
    BY <1>1, <1>3, <1>5 DEF SlotInv
<1>10. Cardinality(B) < Slots
    BY <1>5, <1>6, <1>7, <1>8, <1>9
<1>11. Busy' = Busy \union {r} /\ forwarded' = forwarded \union {r} /\ Session' = Session
    BY <1>1 DEF Request, Go, Place, Busy, Session
<1>12. Session[h] = "open"
    BY <1>1, <1>3 DEF Session
<1> HIDE DEF h, B
<1>13. /\ Session[Home[r]] = "open"
       /\ Cardinality(Promise!Of(Home[r], Busy)) < Slots
    BY <1>10, <1>12 DEF h, B
<1> QED
    BY <1>2, <1>11, <1>13, SameCardinality DEF Promise!Begin

LEMMA ShutFinishes ==
    ASSUME AInv, NEW r \in Requests, UNCHANGED <<door, forwarded>>, sock[r] = "open",
           sock' = [sock EXCEPT ![r] = "shut"]
    PROVE  Promise!Finish(r) \/ UNCHANGED <<Session, Busy, forwarded>>
<1> USE DEF AInv, AdapterTypeOK
<1>1. Busy' = Busy \ {r} /\ UNCHANGED <<Session, forwarded>>
    BY DEF Busy, Session
<1>2. CASE r \in Busy
    BY <1>1, <1>2 DEF Promise!Finish
<1>3. CASE r \notin Busy
    BY <1>1, <1>3
<1> QED
    BY <1>2, <1>3

LEMMA CloseFinishes ==
    ASSUME AInv, NEW r \in Requests, Close(r)
    PROVE  Promise!Finish(r) \/ UNCHANGED <<Session, Busy, forwarded>>
<1>1. CASE sock[r] = "open"
    BY <1>1, ShutFinishes DEF Close, Go, Place
<1>2. CASE sock[r] # "open"
    BY <1>2, NothingSeen DEF Close, Go, Place, AInv, AdapterTypeOK
<1> QED
    BY <1>1, <1>2

LEMMA HandleRefines ==
    ASSUME AInv, NEW r \in Requests, Handle(r)
    PROVE  Promise!Begin(r) \/ Promise!Finish(r) \/ UNCHANGED <<Session, Busy, forwarded>>
<1>1. CASE Request(r)
    BY <1>1, RequestBegins
<1>2. CASE Close(r)
    BY <1>2, CloseFinishes
<1>3. CASE Connect(r)
    BY <1>3, NothingSeen DEF Connect, Go, Place, AInv, AdapterTypeOK, ForwardInv, Early
<1>4. CASE \/ Accept(r) \/ Admit(r) \/ Refuse(r) \/ Read(r) \/ Register(r) \/ GetResponse(r)
           \/ SendHead(r) \/ Chunk(r) \/ Write(r) \/ EndOfReply(r) \/ Invalid(r) \/ Unanswered(r)
           \/ TooLate(r) \/ Fail(r) \/ Discard(r) \/ Release(r)
  <2>1. UNCHANGED <<door, sock, forwarded>>
      BY <1>4 DEF Accept, Admit, Refuse, Read, Register, GetResponse, SendHead, Chunk, Write,
                  EndOfReply, Invalid, Unanswered, TooLate, Fail, Raise, Discard, Release, Move, Go, Place
  <2> QED
      BY <2>1, NothingSeen
<1> QED
    BY <1>1, <1>2, <1>3, <1>4 DEF Handle

\* The main thread: the session begins, goes on, ends.
LEMMA MainRefines ==
    ASSUME AInv, NEW s \in Sessions, Opens(s) \/ Stops(s) \/ CloseAdapter(s) \/ Vanish(s)
    PROVE  \/ Promise!Open(s) \/ Promise!End(s) \/ \E r \in Requests : Promise!Finish(r)
           \/ UNCHANGED <<Session, Busy, forwarded>>
<1> USE DEF AInv, AdapterTypeOK
<1>1. CASE Opens(s)
  <2>1. Session' = [Session EXCEPT ![s] = "open"] /\ Session[s] = "none"
      BY <1>1 DEF Opens, Door, Session
  <2> QED
      BY <1>1, <2>1 DEF Opens, Busy, Promise!Open
<1>2. CASE Stops(s) \/ Shutdown(s) \/ ServerClose(s)
  <2>1. \A t \in Sessions :
            /\ door'[t] = "none" <=> door[t] = "none"
            /\ door'[t] \in {"closed", "gone"} <=> door[t] \in {"closed", "gone"}
      BY <1>2 DEF Stops, Shutdown, ServerClose, Door
  <2>2. UNCHANGED <<sock, forwarded>>
      BY <1>2 DEF Stops, Shutdown, ServerClose
  <2> QED
      BY <2>1, <2>2 DEF Session, Busy
<1>3. CASE \E r \in Of(s) : CloseConnection(s, r)
    BY <1>3, ShutFinishes DEF CloseConnection, Of
<1>4. CASE Closed(s)
  <2>1. Session' = [Session EXCEPT ![s] = "ended"]
      BY <1>4 DEF Closed, Door, Session
  <2>2. Promise!Of(s, Busy) = {}
      BY <1>4 DEF Closed, Of, Busy, ForwardInv, Promise!Of
  <2> QED
      BY <1>4, <2>1, <2>2 DEF Closed, Busy, Promise!End
<1>5. CASE Vanish(s)
  <2>1. Session' = [Session EXCEPT ![s] = "ended"]
      BY <1>5 DEF Vanish, Session
  <2>2. Busy' = Busy \ Promise!Of(s, Busy)
      BY <1>5 DEF Vanish, Of, Busy, Promise!Of
  <2> QED
      BY <1>5, <2>1, <2>2 DEF Vanish, Promise!End
<1> QED
    BY <1>1, <1>2, <1>3, <1>4, <1>5 DEF CloseAdapter

LEMMA PromiseStep ==
    AInv /\ [AdapterNext]_adapterVars => [Promise!Next]_<<Session, Busy, forwarded>>
<1> SUFFICES ASSUME AInv, [AdapterNext]_adapterVars
             PROVE  [Promise!Next]_<<Session, Busy, forwarded>>
    OBVIOUS
<1>1. ASSUME NEW r \in Requests, Handle(r) PROVE [Promise!Next]_<<Session, Busy, forwarded>>
    BY <1>1, HandleRefines DEF Promise!Next
<1>2. ASSUME NEW s \in Sessions, Opens(s) \/ Stops(s) \/ CloseAdapter(s) \/ Vanish(s)
      PROVE  [Promise!Next]_<<Session, Busy, forwarded>>
    BY <1>2, MainRefines DEF Promise!Next
<1>3. CASE (\E r \in Requests : Post(r)) \/ HangUp \/ UNCHANGED adapterVars
  <2>1. UNCHANGED <<door, sock, forwarded>>
      BY <1>3 DEF Post, Move, Go, Place, HangUp, adapterVars
  <2> QED
      BY <2>1, NothingSeen
<1> QED
    BY <1>1, <1>2, <1>3 DEF AdapterNext
=============================================================================
