------------------------- MODULE LaunchCodexProofs -------------------------
(***************************************************************************)
(* Sessions of scripts/launch-codex.py, any number of them: what they do   *)
(* to their adapters is what AdapterProofs is about, no Codex loses its    *)
(* adapter, and none reads the catalog of another session.                 *)
(***************************************************************************)
EXTENDS LaunchCodex, AdapterProofs

\* The adapter is being closed only when nobody needs it.
PlaceInv ==
    \A s \in Sessions :
        /\ launch[s] \notin {"leave", "exited"} => door[s] \in {"none", "open"}
        /\ launch[s] \in Preparing \union {"popen"} => child[s] = "none"
        /\ launch[s] \in {"leave", "exited"} /\ s \notin abandoned => child[s] \in {"none", "reaped"}

\* A catalog is what its name says, and it is there before it is used.
CatalogInv ==
    /\ \A name \in DOMAIN catalogs : catalogs[name] = model_catalog(name)
    /\ \A s \in Sessions :
        /\ child[s] # "none" \/ launch[s] \in {"verify", "enter", "popen"} =>
               context[s] \in DOMAIN catalogs
        /\ child[s] # "none" \/ launch[s] \in (Preparing \ {"arguments"}) \union {"popen"} =>
               InitialEffort(s) \in levels(Model)
        /\ launch[s] = "inspect" => load_profile
        /\ launch[s] \in {"write", "replace"} => context[s] \in MinContext..Profile
        /\ s \in temps => launch[s] = "replace" \/ signals[s] > 0

IInv == AInv /\ LaunchTypeOK /\ PlaceInv /\ CatalogInv

LEMMA InitIInv == Init => IInv
BY InitAInv, LaunchAssumption DEF Init, IInv, LaunchTypeOK, PlaceInv, CatalogInv, AdapterInit, Preparing

----------------------------------------------------------------------------
\* The launcher drives its adapter as AdapterNext allows.
LEMMA AdapterStep == ASSUME Next PROVE [AdapterNext]_adapterVars
<1>1. CASE Handlers
  <2>1. CASE \E r \in Requests : Handle(r)
      BY <2>1 DEF AdapterNext
  <2>2. ASSUME NEW r \in Requests, Disconnect(r) PROVE HangUp
      BY <2>2 DEF Disconnect, HangUp
  <2> QED
      BY <1>1, <2>1, <2>2 DEF Handlers, AdapterNext
<1>2. ASSUME NEW s \in Sessions, CodexEnds(s) PROVE HangUp
  <2> DEFINE S == {r \in Of(s) : pc[r] \notin {"idle", "done"}}
  <2>1. S \in SUBSET Requests /\ gone' = gone \union S
      BY <1>2 DEF CodexEnds, Of
  <2> QED
      BY <1>2, <2>1 DEF CodexEnds, HangUp
<1>3. ASSUME NEW s \in Sessions, NEW place, Leave(s, place) PROVE Stops(s)
    BY <1>3 DEF Leave, Stops
<1>4. ASSUME NEW s \in Sessions, Launcher(s) PROVE [AdapterNext]_adapterVars
  <2>1. CASE OpenAdapter(s)
      BY <2>1 DEF OpenAdapter, Opens, AdapterNext
  <2>2. CASE Closing(s)
      BY <2>2 DEF Closing, AdapterNext
  <2>3. CASE Exit(s)
      BY <2>3 DEF Exit, AdapterNext
  <2>4. CASE PopenFails(s) \/ FoundEnded(s) \/ LastWait(s)
      BY <2>4, <1>3 DEF PopenFails, FoundEnded, LastWait, AdapterNext
  <2>5. CASE \/ CheckArguments(s) \/ Inspect(s) \/ WriteTemporary(s) \/ Replace(s) \/ Verified(s)
             \/ GiveUp(s) \/ PopenForks(s) \/ PopenReturns(s) \/ ChildEnded(s) \/ Terminate(s)
             \/ GraceExpires(s) \/ FoundAlive(s)
      BY <2>5 DEF CheckArguments, Inspect, WriteTemporary, Replace, Verified, GiveUp, PopenForks,
                  PopenReturns, ChildEnded, Terminate, GraceExpires, FoundAlive, Kill, Pass
  <2> QED
      BY <1>4, <2>1, <2>2, <2>3, <2>4, <2>5 DEF Launcher
<1>5. ASSUME NEW s \in Sessions, Interrupt(s) PROVE [AdapterNext]_adapterVars
  <2>1. CASE InterruptOutside(s)
      BY <2>1, <1>3 DEF InterruptOutside, AdapterNext
  <2>2. CASE InterruptLeave(s)
      BY <2>2 DEF InterruptLeave, AdapterNext
  <2>3. CASE TerminatedEarly(s) \/ InterruptWait(s)
      BY <2>3 DEF TerminatedEarly, InterruptWait
  <2> QED
      BY <1>5, <2>1, <2>2, <2>3 DEF Interrupt
<1>6. CASE (\E r \in Requests : CodexPosts(r)) \/ ServerRestarts
    BY <1>6 DEF CodexPosts, ServerRestarts, AdapterNext
<1> QED
    BY <1>1, <1>2, <1>4, <1>5, <1>6 DEF Next, AdapterNext

----------------------------------------------------------------------------
\* The limit that Codex is told is one of those it was found among.
LEMMA Smallest ==
    ASSUME NEW a \in Adverts, inspect_endpoint(a), Profile >= MinContext
    PROVE  Min({Profile} \union Limits(a)) \in MinContext..Profile
<1> DEFINE S == {Profile} \union Limits(a)
<1>1. S \subseteq Nat /\ \A x \in S : x >= MinContext
    BY LaunchAssumption DEF Limits, inspect_endpoint
<1>2. \E x \in S : \A y \in S : x =< y
    BY LaunchAssumption DEF Limits
<1>3. Min(S) \in S /\ \A y \in S : Min(S) =< y
    BY <1>2 DEF Min
<1> QED
    BY <1>1, <1>3, LaunchAssumption

----------------------------------------------------------------------------
\* What the launcher itself keeps, step by step.
KInv == AdapterTypeOK /\ LaunchTypeOK /\ PlaceInv /\ CatalogInv

Kept == LaunchTypeOK' /\ PlaceInv' /\ CatalogInv'

LEMMA CheckArgumentsKeeps == ASSUME KInv, NEW s \in Sessions, CheckArguments(s) PROVE Kept
<1> USE LaunchAssumption DEF KInv, LaunchTypeOK, files, codex, world, adapterVars, data
<1>1. LaunchTypeOK'
    BY DEF CheckArguments, Pass, Step
<1>2. PlaceInv'
    BY DEF PlaceInv, Preparing, AdapterTypeOK, CheckArguments, Pass, Step
<1>3. CatalogInv'
    BY DEF CatalogInv, PlaceInv, InitialEffort, Preparing, load_profile, CheckArguments, Pass, Step
<1> QED
    BY <1>1, <1>2, <1>3 DEF Kept

LEMMA InspectKeeps == ASSUME KInv, NEW s \in Sessions, Inspect(s) PROVE Kept
<1> USE LaunchAssumption DEF KInv, LaunchTypeOK, files, codex, world, adapterVars, data
<1>0. context'[s] \in MinContext..Profile /\ \A t \in Sessions \ {s} : context'[t] = context[t]
  <2>1. advert \in Adverts /\ inspect_endpoint(advert) /\ Profile >= MinContext
      BY DEF Inspect, Step, CatalogInv, load_profile
  <2>2. Min({Profile} \union Limits(advert)) \in MinContext..Profile
      BY <2>1, Smallest
  <2> QED
      BY <2>2 DEF Inspect
<1>1. LaunchTypeOK'
    BY <1>0 DEF Inspect, Step
<1>2. PlaceInv'
    BY <1>0 DEF PlaceInv, Preparing, AdapterTypeOK, Inspect, Step
<1>3. CatalogInv'
    BY <1>0 DEF CatalogInv, PlaceInv, InitialEffort, Preparing, load_profile, Inspect, Step
<1> QED
    BY <1>1, <1>2, <1>3 DEF Kept

LEMMA WriteTemporaryKeeps == ASSUME KInv, NEW s \in Sessions, WriteTemporary(s) PROVE Kept
<1> USE LaunchAssumption DEF KInv, LaunchTypeOK, files, codex, world, adapterVars, data
<1>1. LaunchTypeOK'
    BY DEF WriteTemporary, Step
<1>2. PlaceInv'
    BY DEF PlaceInv, Preparing, AdapterTypeOK, WriteTemporary, Step
<1>3. CatalogInv'
    BY DEF CatalogInv, PlaceInv, InitialEffort, Preparing, load_profile, WriteTemporary, Step
<1> QED
    BY <1>1, <1>2, <1>3 DEF Kept

LEMMA ReplaceKeeps == ASSUME KInv, NEW s \in Sessions, Replace(s) PROVE Kept
<1> USE LaunchAssumption DEF KInv, LaunchTypeOK, files, codex, world, adapterVars, data
<1>0. /\ DOMAIN catalogs' = DOMAIN catalogs \union {context[s]}
      /\ catalogs'[context[s]] = model_catalog(context[s])
      /\ \A name \in DOMAIN catalogs : name # context[s] => catalogs'[name] = catalogs[name]
    BY DEF Replace, CatalogName
<1>00. context[s] \in MinContext..Profile
    BY DEF Replace, Step, CatalogInv
<1>1. LaunchTypeOK'
    BY <1>0, <1>00 DEF Replace, Step, CatalogName
<1>2. PlaceInv'
    BY <1>0, <1>00 DEF PlaceInv, Preparing, AdapterTypeOK, Replace, Step, CatalogName
<1>3. CatalogInv'
    BY <1>0, <1>00 DEF CatalogInv, PlaceInv, InitialEffort, Preparing, load_profile, Replace, Step, CatalogName
<1> QED
    BY <1>1, <1>2, <1>3 DEF Kept

LEMMA VerifiedKeeps == ASSUME KInv, NEW s \in Sessions, Verified(s) PROVE Kept
<1> USE LaunchAssumption DEF KInv, LaunchTypeOK, files, codex, world, adapterVars, data
<1>1. LaunchTypeOK'
    BY DEF Verified, Pass, Step
<1>2. PlaceInv'
    BY DEF PlaceInv, Preparing, AdapterTypeOK, Verified, Pass, Step
<1>3. CatalogInv'
    BY DEF CatalogInv, PlaceInv, InitialEffort, Preparing, load_profile, Verified, Pass, Step
<1> QED
    BY <1>1, <1>2, <1>3 DEF Kept

LEMMA GiveUpKeeps == ASSUME KInv, NEW s \in Sessions, GiveUp(s) PROVE Kept
<1> USE LaunchAssumption DEF KInv, LaunchTypeOK, files, codex, world, adapterVars, data
<1>1. LaunchTypeOK'
    BY DEF GiveUp, Step
<1>2. PlaceInv'
    BY DEF PlaceInv, Preparing, AdapterTypeOK, GiveUp, Step
<1>3. CatalogInv'
    BY DEF CatalogInv, PlaceInv, InitialEffort, Preparing, load_profile, GiveUp, Step
<1> QED
    BY <1>1, <1>2, <1>3 DEF Kept

LEMMA OpenAdapterKeeps == ASSUME KInv, NEW s \in Sessions, OpenAdapter(s) PROVE Kept
<1> USE LaunchAssumption DEF KInv, LaunchTypeOK, files, codex, world, adapterVars, data
<1>1. LaunchTypeOK'
    BY DEF OpenAdapter, Step, Door
<1>2. PlaceInv'
    BY DEF PlaceInv, Preparing, AdapterTypeOK, OpenAdapter, Step, Door
<1>3. CatalogInv'
    BY DEF CatalogInv, PlaceInv, InitialEffort, Preparing, load_profile, OpenAdapter, Step, Door
<1> QED
    BY <1>1, <1>2, <1>3 DEF Kept

LEMMA PopenForksKeeps == ASSUME KInv, NEW s \in Sessions, PopenForks(s) PROVE Kept
<1> USE LaunchAssumption DEF KInv, LaunchTypeOK, files, codex, world, adapterVars, data
<1>1. LaunchTypeOK'
    BY DEF PopenForks, Step
<1>2. PlaceInv'
    BY DEF PlaceInv, Preparing, AdapterTypeOK, PopenForks, Step
<1>3. CatalogInv'
    BY DEF CatalogInv, PlaceInv, InitialEffort, Preparing, load_profile, PopenForks, Step
<1> QED
    BY <1>1, <1>2, <1>3 DEF Kept

LEMMA PopenFailsKeeps == ASSUME KInv, NEW s \in Sessions, PopenFails(s) PROVE Kept
<1> USE LaunchAssumption DEF KInv, LaunchTypeOK, files, codex, world, adapterVars, data
<1>1. LaunchTypeOK'
    BY DEF PopenFails, Leave, Step, Door
<1>2. PlaceInv'
    BY DEF PlaceInv, Preparing, AdapterTypeOK, PopenFails, Leave, Step, Door
<1>3. CatalogInv'
    BY DEF CatalogInv, PlaceInv, InitialEffort, Preparing, load_profile, PopenFails, Leave, Step, Door
<1> QED
    BY <1>1, <1>2, <1>3 DEF Kept

LEMMA PopenReturnsKeeps == ASSUME KInv, NEW s \in Sessions, PopenReturns(s) PROVE Kept
<1> USE LaunchAssumption DEF KInv, LaunchTypeOK, files, codex, world, adapterVars, data
<1>1. LaunchTypeOK'
    BY DEF PopenReturns, Pass, Step
<1>2. PlaceInv'
    BY DEF PlaceInv, Preparing, AdapterTypeOK, PopenReturns, Pass, Step
<1>3. CatalogInv'
    BY DEF CatalogInv, PlaceInv, InitialEffort, Preparing, load_profile, PopenReturns, Pass, Step
<1> QED
    BY <1>1, <1>2, <1>3 DEF Kept

LEMMA ChildEndedKeeps == ASSUME KInv, NEW s \in Sessions, ChildEnded(s) PROVE Kept
<1> USE LaunchAssumption DEF KInv, LaunchTypeOK, files, codex, world, adapterVars, data
<1>1. LaunchTypeOK'
    BY DEF ChildEnded, Reap, Step
<1>2. PlaceInv'
    BY DEF PlaceInv, Preparing, AdapterTypeOK, ChildEnded, Reap, Step
<1>3. CatalogInv'
    BY DEF CatalogInv, PlaceInv, InitialEffort, Preparing, load_profile, ChildEnded, Reap, Step
<1> QED
    BY <1>1, <1>2, <1>3 DEF Kept

LEMMA TerminateKeeps == ASSUME KInv, NEW s \in Sessions, Terminate(s) PROVE Kept
<1> USE LaunchAssumption DEF KInv, LaunchTypeOK, files, codex, world, adapterVars, data
<1>1. LaunchTypeOK'
    BY DEF Terminate, Pass, Step
<1>2. PlaceInv'
    BY DEF PlaceInv, Preparing, AdapterTypeOK, Terminate, Pass, Step
<1>3. CatalogInv'
    BY DEF CatalogInv, PlaceInv, InitialEffort, Preparing, load_profile, Terminate, Pass, Step
<1> QED
    BY <1>1, <1>2, <1>3 DEF Kept

LEMMA GraceExpiresKeeps == ASSUME KInv, NEW s \in Sessions, GraceExpires(s) PROVE Kept
<1> USE LaunchAssumption DEF KInv, LaunchTypeOK, files, codex, world, adapterVars, data
<1>1. LaunchTypeOK'
    BY DEF GraceExpires, Kill, Step
<1>2. PlaceInv'
    BY DEF PlaceInv, Preparing, AdapterTypeOK, GraceExpires, Kill, Step
<1>3. CatalogInv'
    BY DEF CatalogInv, PlaceInv, InitialEffort, Preparing, load_profile, GraceExpires, Kill, Step
<1> QED
    BY <1>1, <1>2, <1>3 DEF Kept

LEMMA FoundEndedKeeps == ASSUME KInv, NEW s \in Sessions, FoundEnded(s) PROVE Kept
<1> USE LaunchAssumption DEF KInv, LaunchTypeOK, files, codex, world, adapterVars, data
<1>1. LaunchTypeOK'
    BY DEF FoundEnded, Leave, Reap, Step, Door
<1>2. PlaceInv'
    BY DEF PlaceInv, Preparing, AdapterTypeOK, FoundEnded, Leave, Reap, Step, Door
<1>3. CatalogInv'
    BY DEF CatalogInv, PlaceInv, InitialEffort, Preparing, load_profile, FoundEnded, Leave, Reap, Step, Door
<1> QED
    BY <1>1, <1>2, <1>3 DEF Kept

LEMMA FoundAliveKeeps == ASSUME KInv, NEW s \in Sessions, FoundAlive(s) PROVE Kept
<1> USE LaunchAssumption DEF KInv, LaunchTypeOK, files, codex, world, adapterVars, data
<1>1. LaunchTypeOK'
    BY DEF FoundAlive, Kill, Step
<1>2. PlaceInv'
    BY DEF PlaceInv, Preparing, AdapterTypeOK, FoundAlive, Kill, Step
<1>3. CatalogInv'
    BY DEF CatalogInv, PlaceInv, InitialEffort, Preparing, load_profile, FoundAlive, Kill, Step
<1> QED
    BY <1>1, <1>2, <1>3 DEF Kept

LEMMA LastWaitKeeps == ASSUME KInv, NEW s \in Sessions, LastWait(s) PROVE Kept
<1> USE LaunchAssumption DEF KInv, LaunchTypeOK, files, codex, world, adapterVars, data
<1>1. LaunchTypeOK'
    BY DEF LastWait, Leave, Reap, Step, Door
<1>2. PlaceInv'
    BY DEF PlaceInv, Preparing, AdapterTypeOK, LastWait, Leave, Reap, Step, Door
<1>3. CatalogInv'
    BY DEF CatalogInv, PlaceInv, InitialEffort, Preparing, load_profile, LastWait, Leave, Reap, Step, Door
<1> QED
    BY <1>1, <1>2, <1>3 DEF Kept

LEMMA ClosingKeeps == ASSUME KInv, NEW s \in Sessions, Closing(s) PROVE Kept
<1> USE LaunchAssumption DEF KInv, LaunchTypeOK, files, codex, world, adapterVars, data
<1>1. LaunchTypeOK'
    BY DEF Closing, CloseAdapter, Shutdown, ServerClose, Closed, CloseConnection, Door
<1>2. PlaceInv'
    BY DEF PlaceInv, Preparing, AdapterTypeOK, Closing, CloseAdapter, Shutdown, ServerClose, Closed, CloseConnection, Door
<1>3. CatalogInv'
    BY DEF CatalogInv, PlaceInv, InitialEffort, Preparing, load_profile, Closing, CloseAdapter, Shutdown, ServerClose, Closed, CloseConnection, Door
<1> QED
    BY <1>1, <1>2, <1>3 DEF Kept

LEMMA ExitKeeps == ASSUME KInv, NEW s \in Sessions, Exit(s) PROVE Kept
<1> USE LaunchAssumption DEF KInv, LaunchTypeOK, files, codex, world, adapterVars, data
<1>1. LaunchTypeOK'
    BY DEF Exit, Step, Vanish
<1>2. PlaceInv'
    BY DEF PlaceInv, Preparing, AdapterTypeOK, Exit, Step, Vanish
<1>3. CatalogInv'
    BY DEF CatalogInv, PlaceInv, InitialEffort, Preparing, load_profile, Exit, Step, Vanish
<1> QED
    BY <1>1, <1>2, <1>3 DEF Kept

LEMMA TerminatedEarlyKeeps == ASSUME KInv, NEW s \in Sessions, TerminatedEarly(s) PROVE Kept
<1> USE LaunchAssumption DEF KInv, LaunchTypeOK, files, codex, world, adapterVars, data
<1>1. LaunchTypeOK'
    BY DEF TerminatedEarly, Signal, Step
<1>2. PlaceInv'
    BY DEF PlaceInv, Preparing, AdapterTypeOK, TerminatedEarly, Signal, Step
<1>3. CatalogInv'
    BY DEF CatalogInv, PlaceInv, InitialEffort, Preparing, load_profile, TerminatedEarly, Signal, Step
<1> QED
    BY <1>1, <1>2, <1>3 DEF Kept

LEMMA InterruptWaitKeeps == ASSUME KInv, NEW s \in Sessions, InterruptWait(s) PROVE Kept
<1> USE LaunchAssumption DEF KInv, LaunchTypeOK, files, codex, world, adapterVars, data
<1>1. LaunchTypeOK'
    BY DEF InterruptWait, Signal, Step
<1>2. PlaceInv'
    BY DEF PlaceInv, Preparing, AdapterTypeOK, InterruptWait, Signal, Step
<1>3. CatalogInv'
    BY DEF CatalogInv, PlaceInv, InitialEffort, Preparing, load_profile, InterruptWait, Signal, Step
<1> QED
    BY <1>1, <1>2, <1>3 DEF Kept

LEMMA InterruptOutsideKeeps == ASSUME KInv, NEW s \in Sessions, InterruptOutside(s) PROVE Kept
<1> USE LaunchAssumption DEF KInv, LaunchTypeOK, files, codex, world, adapterVars, data
<1>1. LaunchTypeOK'
    BY DEF InterruptOutside, Signal, Leave, Step, Door
<1>2. PlaceInv'
    BY DEF PlaceInv, Preparing, AdapterTypeOK, InterruptOutside, Signal, Leave, Step, Door
<1>3. CatalogInv'
    BY DEF CatalogInv, PlaceInv, InitialEffort, Preparing, load_profile, InterruptOutside, Signal, Leave, Step, Door
<1> QED
    BY <1>1, <1>2, <1>3 DEF Kept

LEMMA InterruptLeaveKeeps == ASSUME KInv, NEW s \in Sessions, InterruptLeave(s) PROVE Kept
<1> USE LaunchAssumption DEF KInv, LaunchTypeOK, files, codex, world, adapterVars, data
<1>1. LaunchTypeOK'
    BY DEF InterruptLeave, Signal, Step, Vanish
<1>2. PlaceInv'
    BY DEF PlaceInv, Preparing, AdapterTypeOK, InterruptLeave, Signal, Step, Vanish
<1>3. CatalogInv'
    BY DEF CatalogInv, PlaceInv, InitialEffort, Preparing, load_profile, InterruptLeave, Signal, Step, Vanish
<1> QED
    BY <1>1, <1>2, <1>3 DEF Kept

LEMMA CodexEndsKeeps == ASSUME KInv, NEW s \in Sessions, CodexEnds(s) PROVE Kept
<1> USE LaunchAssumption DEF KInv, LaunchTypeOK, files, codex, world, adapterVars, data
<1>1. LaunchTypeOK'
    BY DEF CodexEnds
<1>2. PlaceInv'
    BY DEF PlaceInv, Preparing, AdapterTypeOK, CodexEnds
<1>3. CatalogInv'
    BY DEF CatalogInv, PlaceInv, InitialEffort, Preparing, load_profile, CodexEnds
<1> QED
    BY <1>1, <1>2, <1>3 DEF Kept

\* Requests, and what is not the launcher's.
LEMMA OthersKeep ==
    ASSUME KInv, Handlers \/ (\E r \in Requests : CodexPosts(r)) \/ ServerRestarts \/ UNCHANGED vars
    PROVE  Kept
<1> USE DEF KInv, files, codex, world, adapterVars, vars
<1>1. door' = door
    BY DEF Handlers, Handle, Disconnect, CodexPosts, Post, ServerRestarts, Move, Go, Place, Accept, Admit,
           Refuse, Read, Connect, Register, Request, GetResponse, SendHead, Chunk, Write,
           EndOfReply, Invalid, Unanswered, TooLate, Fail, Raise, Close, Discard, Release
<1>2. UNCHANGED <<launch, files, codex, signals>>
    BY DEF Handlers, CodexPosts, ServerRestarts
<1>3. advert' \in Adverts /\ restarts' \in 0..MaxRestarts
    BY LaunchAssumption DEF LaunchTypeOK, Handlers, CodexPosts, ServerRestarts
<1>4. LaunchTypeOK'
    BY <1>2, <1>3 DEF LaunchTypeOK
<1>5. PlaceInv'
    BY <1>1, <1>2 DEF PlaceInv
<1>6. CatalogInv'
    BY <1>2 DEF CatalogInv, InitialEffort, load_profile
<1> QED
    BY <1>4, <1>5, <1>6 DEF Kept

LEMMA StepIInv == IInv /\ [Next]_vars => IInv'
<1> SUFFICES ASSUME IInv, [Next]_vars PROVE IInv'
    OBVIOUS
<1>1. AInv'
    BY StepAInv, AdapterStep DEF IInv, vars, adapterVars
<1>2. KInv
    BY DEF IInv, AInv, KInv
<1>3. ASSUME NEW s \in Sessions, Launcher(s) PROVE Kept
    BY <1>2, <1>3, CheckArgumentsKeeps, InspectKeeps, WriteTemporaryKeeps, ReplaceKeeps,
       VerifiedKeeps, GiveUpKeeps, OpenAdapterKeeps, PopenForksKeeps, PopenFailsKeeps,
       PopenReturnsKeeps, ChildEndedKeeps, TerminateKeeps, GraceExpiresKeeps, FoundEndedKeeps,
       FoundAliveKeeps, LastWaitKeeps, ClosingKeeps, ExitKeeps DEF Launcher
<1>4. ASSUME NEW s \in Sessions, Interrupt(s) \/ CodexEnds(s) PROVE Kept
    BY <1>2, <1>4, TerminatedEarlyKeeps, InterruptWaitKeeps, InterruptOutsideKeeps,
       InterruptLeaveKeeps, CodexEndsKeeps DEF Interrupt
<1>5. Kept
    BY <1>2, <1>3, <1>4, OthersKeep DEF Next
<1> QED
    BY <1>1, <1>5 DEF IInv, Kept

LEMMA Inductive == Spec => []IInv
BY InitIInv, StepIInv, PTL DEF Spec

----------------------------------------------------------------------------
\* Adapters, requests, launchers and catalogs are as declared.
THEOREM TypeCorrect == Spec => []TypeOK
<1>1. IInv => TypeOK
    BY DEF IInv, AInv, TypeOK
<1> QED
    BY <1>1, Inductive, PTL

\* No slot of a session is ever lost or made, for any number of sessions, requests and slots.
THEOREM SlotsAreCounted == Spec => []SlotsAddUp
<1>1. ASSUME IInv, NEW s \in Sessions, door[s] # "gone"
      PROVE  free[s] \in 0..Slots /\ free[s] + Cardinality(Admitted(s)) = Slots
  <2>1. Admitted(s) = Holders(s)
      BY DEF Admitted, Of, Holders, Outside
  <2>2. Cardinality(Holders(s)) \in Nat /\ Slots \in Nat
      BY AdapterAssumption, FS_Subset, FS_CardinalityType DEF Holders
  <2>3. free[s] = Slots - Cardinality(Holders(s)) /\ free[s] \in 0..Slots
      BY <1>1 DEF IInv, AInv, SlotInv, AdapterTypeOK
  <2> QED
      BY <2>1, <2>2, <2>3
<1>2. IInv => SlotsAddUp
    BY <1>1 DEF SlotsAddUp
<1> QED
    BY <1>2, Inductive, PTL

\* Codex is dead and reaped before its adapter is closed, on every way out of a session but
\* for the two places that InterruptOutside names.
THEOREM AdapterStays == Spec => []AdapterOutlivesCodex
<1>1. IInv => AdapterOutlivesCodex
    BY DEF IInv, AInv, PlaceInv, AdapterOutlivesCodex
<1> QED
    BY <1>1, Inductive, PTL

\* Any number of sessions of one profile read the catalogs that were meant for them.
THEOREM CatalogsStay == Spec => []CatalogsIntact
<1>1. IInv => CatalogsIntact
    BY DEF IInv, LaunchTypeOK, PlaceInv, CatalogInv, CatalogsIntact, Command, CatalogName, Agree,
           model_catalog, codex_command, Preparing
<1> QED
    BY <1>1, Inductive, PTL

\* One status line for each request that is not cut off and that the handler has an answer to,
\* and never a second one, however its handler, the client, the model server and the closing
\* session interleave.
THEOREM OneAnswer == Spec => []AnsweredOnce
<1>1. IInv => AnsweredOnce
    BY AnsweredFromAInv DEF IInv
<1> QED
    BY <1>1, Inductive, PTL

\* What reaches the model server carries the level of the request, or the default.
THEOREM LevelArrives == Spec => []SelectedLevelArrives
<1>1. IInv => SelectedLevelArrives
    BY LevelFromAInv DEF IInv
<1> QED
    BY <1>1, Inductive, PTL

\* The sessions implement the promise of Gateway: at most Slots requests of a session are at the
\* model server, each gets there once, and none is left there or gets there after the end.
THEOREM GatewayKept == Spec => ImplementsGateway
<1>1. Init => Promise!Init
    BY PromiseInit DEF Init
<1>2. IInv /\ [Next]_vars => [Promise!Next]_<<Session, Busy, forwarded>>
    BY PromiseStep, AdapterStep DEF IInv, vars, adapterVars
<1> QED
    BY <1>1, <1>2, Inductive, PTL DEF Spec, ImplementsGateway, Promise!Spec
=============================================================================
