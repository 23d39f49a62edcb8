--------------------------- MODULE ResidencyProofs ---------------------------
(***************************************************************************)
(* Proofs about Residency, whichever faults may happen: what a command     *)
(* knows of the box, in its copy of the engine while it runs and in the    *)
(* file between commands, and from that every safety property.             *)
(***************************************************************************)
EXTENDS Residency, TLAPS

Engines ==
  [mode : {"off", "queue", "explorer"}, phase : {"offline", "launching", "ready", "retired"},
   handle : {"none", "queue", "explorer"}, materialized : {0, 1}, ready : BOOLEAN]

\* The engine that speaks for the box: the running command's, or the saved one.
Current == IF pc = "idle" THEN file ELSE engine

(***************************************************************************)
(* The inductive invariant, in the parts the properties need.              *)
(***************************************************************************)
Typed ==
  /\ file \in Engines /\ engine \in Engines
  /\ pc \in {"idle", "retire", "launch", "wait", "save"}
  /\ answering \subseteq containers /\ containers \subseteq {"queue", "explorer"}
  /\ faults \subseteq Faults

\* Phase, handle and view of an engine tell one story.
OneStory(e) ==
  /\ e.materialized = (IF Live(e) THEN 1 ELSE 0)
  /\ e.ready <=> e.phase = "ready"
  /\ Live(e) <=> e.handle # "none"

\* Where a command is tells what its copy of the engine looks like.
Staged ==
  /\ pc # "idle" => engine.mode # "off"
  /\ pc = "launch" => ~ Live(engine)
  /\ pc = "wait" => engine.phase = "launching" /\ engine.handle = engine.mode

\* A host, once the prior one is retired, is the mode's own.
OwnHost ==
  "retire" \notin faults =>
    /\ file.handle \in {"none", file.mode}
    /\ pc = "save" => engine.handle \in {"none", engine.mode}

\* Every container is the one Current names.
Known == faults \cap {"kill", "cut"} = {} => containers \subseteq {Current.handle}

\* A confirmed host answers, and a launched container is there to be waited for.
Up ==
  faults \cap {"died", "kill"} = {} =>
    /\ Current.ready => Current.handle \in answering
    /\ pc = "wait" => containers = {engine.mode}

\* Without faults Current and the box agree at every step.
Faultless ==
  faults = {} =>
    /\ containers = IF Live(Current) THEN {Current.handle} ELSE {}
    /\ pc \in {"idle", "save"} /\ Current.mode # "off" =>
         Current.phase = "ready" /\ Current.handle = Current.mode /\ answering = containers

ResidencyInv ==
  /\ Typed /\ OneStory(file) /\ OneStory(engine)
  /\ Staged /\ OwnHost /\ Known /\ Up /\ Faultless

-----------------------------------------------------------------------------
\* The invariant, at the start.
LEMMA ResidencyInit == Init => ResidencyInv
BY DEF Init, ResidencyInv, Typed, OneStory, Staged, OwnHost, Known, Up, Faultless,
       FreshEngine, Engines, Current, Live

\* The changes of the host keep the story straight.
LEMMA HostSteps ==
  ASSUME NEW e \in Engines, OneStory(e)
  PROVE  /\ Live(e) => HostRetired(e) \in Engines /\ OneStory(HostRetired(e)) /\ ~ Live(HostRetired(e))
         /\ ~ Live(e) /\ e.mode # "off" => HostLaunched(e) \in Engines /\ OneStory(HostLaunched(e))
         /\ e.phase = "launching" => HostReady(e) \in Engines /\ OneStory(HostReady(e))
<1> USE DEF OneStory, Live
<1>1. ASSUME Live(e)
      PROVE  HostRetired(e) \in Engines /\ OneStory(HostRetired(e)) /\ ~ Live(HostRetired(e))
  <2>1. e.materialized - 1 = 0
    BY <1>1 DEF Engines
  <2>2. HostRetired(e) = [e EXCEPT !.phase = "retired", !.handle = "none", !.materialized = 0, !.ready = FALSE]
    BY <2>1 DEF HostRetired
  <2>3. HostRetired(e) \in Engines
    BY <2>2 DEF Engines
  <2>4. /\ HostRetired(e).phase = "retired" /\ HostRetired(e).handle = "none"
        /\ HostRetired(e).materialized = 0 /\ HostRetired(e).ready = FALSE
    BY <2>2 DEF Engines
  <2>. QED BY <2>3, <2>4
<1>2. ASSUME ~ Live(e), e.mode # "off"
      PROVE  HostLaunched(e) \in Engines /\ OneStory(HostLaunched(e))
  <2>1. e.materialized + 1 = 1
    BY <1>2 DEF Engines
  <2>2. HostLaunched(e) = [e EXCEPT !.phase = "launching", !.handle = e.mode, !.materialized = 1, !.ready = FALSE]
    BY <2>1 DEF HostLaunched
  <2>3. HostLaunched(e) \in Engines
    BY <1>2, <2>2 DEF Engines
  <2>4. /\ HostLaunched(e).phase = "launching" /\ HostLaunched(e).handle = e.mode
        /\ HostLaunched(e).materialized = 1 /\ HostLaunched(e).ready = FALSE
    BY <2>2 DEF Engines
  <2>5. e.mode # "none"
    BY DEF Engines
  <2>. QED BY <2>3, <2>4, <2>5
<1>3. ASSUME e.phase = "launching"
      PROVE  HostReady(e) \in Engines /\ OneStory(HostReady(e))
  BY <1>3 DEF HostReady, Engines
<1>. QED BY <1>1, <1>2, <1>3

\* Setting the mode keeps the invariant.
LEMMA ModeSetKeeps ==
  ASSUME ResidencyInv, NEW m \in {"queue", "explorer"}, ModeSet(m) PROVE ResidencyInv'
<1> USE DEF ResidencyInv, ModeSet, Current, Live
<1>1. engine' \in Engines /\ engine'.mode = m /\ engine'.phase = file.phase
      /\ engine'.handle = file.handle /\ engine'.materialized = file.materialized
      /\ engine'.ready = file.ready
  BY DEF Typed, Engines
<1>2. Typed'
  BY <1>1 DEF Typed
<1>3. OneStory(file)' /\ OneStory(engine)'
  BY <1>1 DEF OneStory
<1>4. Staged' /\ OwnHost'
  BY <1>1 DEF Staged, OwnHost
<1>5. Known' /\ Up' /\ Faultless'
  BY <1>1 DEF Known, Up, Faultless
<1>. QED BY <1>2, <1>3, <1>4, <1>5

\* Retiring the host keeps it.
LEMMA RetireKeeps == ASSUME ResidencyInv, Retire PROVE ResidencyInv'
<1> USE DEF ResidencyInv, Current
<1>1. CASE ~ Live(engine) /\ pc' = "launch" /\ UNCHANGED <<engine, containers, answering, faults>>
  BY <1>1 DEF Retire, Typed, OneStory, Staged, OwnHost, Known, Up, Faultless, Live
<1>2. CASE /\ Live(engine)
           /\ containers' = containers \ {engine.handle}
           /\ answering' = answering \ {engine.handle}
           /\ engine' = HostRetired(engine)
           /\ pc' = "launch" /\ UNCHANGED faults
  <2>1. /\ engine' \in Engines /\ OneStory(engine') /\ ~ Live(engine')
        /\ engine'.mode = engine.mode /\ engine'.handle = "none" /\ engine'.ready = FALSE
    BY <1>2, HostSteps DEF Typed, HostRetired, Engines
  <2>. QED BY <1>2, <2>1 DEF Retire, Typed, OneStory, Staged, OwnHost, Known, Up, Faultless, Live
<1>3. CASE Live(engine) /\ Fault("retire") /\ pc' = "save" /\ UNCHANGED <<engine, containers, answering>>
  BY <1>3 DEF Retire, Fault, Typed, OneStory, Staged, OwnHost, Known, Up, Faultless, Live
<1>. QED BY <1>1, <1>2, <1>3 DEF Retire

\* Launching a host keeps it.
LEMMA LaunchKeeps == ASSUME ResidencyInv, Launch PROVE ResidencyInv'
<1> USE DEF ResidencyInv, Current
<1>1. CASE /\ containers = {} /\ containers' = {engine.mode}
           /\ engine' = HostLaunched(engine)
           /\ pc' = "wait" /\ UNCHANGED faults
  <2>1. /\ engine' \in Engines /\ OneStory(engine')
        /\ engine'.mode = engine.mode /\ engine'.handle = engine.mode
        /\ engine'.ready = FALSE /\ engine'.phase = "launching"
    BY <1>1, HostSteps DEF Launch, Staged, Typed, HostLaunched, Engines
  <2>2. engine.mode \in {"queue", "explorer"} /\ answering = {}
    BY <1>1 DEF Launch, Staged, Typed, Engines
  <2>. QED BY <1>1, <2>1, <2>2 DEF Launch, Typed, OneStory, Staged, OwnHost, Known, Up, Faultless, Live
<1>2. CASE containers # {} /\ pc' = "save" /\ UNCHANGED <<engine, containers, faults>>
  BY <1>2 DEF Launch, Typed, OneStory, Staged, OwnHost, Known, Up, Faultless, Live
<1>3. CASE Fault("launch") /\ pc' = "save" /\ UNCHANGED <<engine, containers>>
  BY <1>3 DEF Launch, Fault, Typed, OneStory, Staged, OwnHost, Known, Up, Faultless, Live
<1>4. CASE containers = {} /\ Fault("cut") /\ containers' = {engine.mode} /\ pc' = "save" /\ UNCHANGED engine
  <2>1. engine.mode \in {"queue", "explorer"} /\ answering = {}
    BY <1>4 DEF Launch, Staged, Typed, Engines
  <2>. QED BY <1>4, <2>1 DEF Launch, Fault, Typed, OneStory, Staged, OwnHost, Known, Up, Faultless, Live
<1>. QED BY <1>1, <1>2, <1>3, <1>4 DEF Launch

\* The wait for the host, ready or given up, keeps it.
LEMMA WaitKeeps == ASSUME ResidencyInv, Wait PROVE ResidencyInv'
<1> USE DEF ResidencyInv, Current
<1>1. CASE answering # {} /\ engine' = HostReady(engine) /\ UNCHANGED faults
  <2>1. /\ engine' \in Engines /\ OneStory(engine')
        /\ engine'.mode = engine.mode /\ engine'.handle = engine.handle
        /\ engine'.phase = "ready" /\ engine'.ready = TRUE
    BY <1>1, HostSteps DEF Wait, Staged, Typed, HostReady, Engines
  <2>. QED BY <1>1, <2>1 DEF Wait, Typed, OneStory, Staged, OwnHost, Known, Up, Faultless, Live
<1>2. CASE answering = {} /\ Fault("slow") /\ UNCHANGED engine
  BY <1>2 DEF Wait, Fault, Typed, OneStory, Staged, OwnHost, Known, Up, Faultless, Live
<1>3. CASE answering = {} /\ containers = {} /\ UNCHANGED <<engine, faults>>
  BY <1>3 DEF Wait, Typed, OneStory, Staged, OwnHost, Known, Up, Faultless, Live
<1>. QED BY <1>1, <1>2, <1>3 DEF Wait

\* Saving the state file keeps it.
LEMMA SaveKeeps == ASSUME ResidencyInv, Save PROVE ResidencyInv'
<1>1. FreshEngine \in Engines /\ OneStory(FreshEngine)
  BY DEF FreshEngine, Engines, OneStory, Live
<1>. QED BY <1>1 DEF ResidencyInv, Current, Save, Typed, OneStory, Staged, OwnHost, Known, Up, Faultless, Live

\* A command killed between two steps keeps it.
LEMMA KillKeeps == ASSUME ResidencyInv, Kill PROVE ResidencyInv'
<1>1. FreshEngine \in Engines /\ OneStory(FreshEngine)
  BY DEF FreshEngine, Engines, OneStory, Live
<1>. QED BY <1>1 DEF ResidencyInv, Current, Kill, Fault, Typed, OneStory, Staged, OwnHost, Known, Up, Faultless, Live

\* A host that gets warm, or dies, keeps it.
LEMMA BoxKeeps == ASSUME ResidencyInv, Warm \/ Die PROVE ResidencyInv'
<1>1. CASE Warm
  BY <1>1 DEF ResidencyInv, Current, Warm, Typed, OneStory, Staged, OwnHost, Known, Up, Faultless, Live
<1>2. CASE Die
  BY <1>2 DEF ResidencyInv, Current, Die, Fault, Typed, OneStory, Staged, OwnHost, Known, Up, Faultless, Live
<1>. QED BY <1>1, <1>2

\* The invariant, at every step.
LEMMA ResidencyStep == ResidencyInv /\ [Next]_vars => ResidencyInv'
<1> SUFFICES ASSUME ResidencyInv, [Next]_vars PROVE ResidencyInv'
  OBVIOUS
<1>1. CASE UNCHANGED vars
  BY <1>1 DEF vars, ResidencyInv, Current, Typed, OneStory, Staged, OwnHost, Known, Up, Faultless, Live
<1>. QED BY <1>1, ModeSetKeeps, RetireKeeps, LaunchKeeps, WaitKeeps, SaveKeeps, KillKeeps, BoxKeeps DEF Next

\* The invariant, always.
LEMMA ResidencyInvariant == Spec => []ResidencyInv
BY ResidencyInit, ResidencyStep, PTL DEF Spec

-----------------------------------------------------------------------------
\* The type invariant: 0 or 1 hosts materialized, and only the two modes' own
\* containers ever on the box.
THEOREM ResidencyTyped == Spec => []TypeOK
<1>1. ResidencyInv => TypeOK
  BY DEF ResidencyInv, Typed, Engines, TypeOK
<1>. QED BY <1>1, ResidencyInvariant, PTL

\* Without faults the box mirrors the mode one-to-one, and the mode's host is
\* confirmed and answering, after every command.
THEOREM MirrorsProved == Spec => []MirrorsBarringFaults
<1>1. ResidencyInv => MirrorsBarringFaults
  <2> SUFFICES ASSUME ResidencyInv, faults = {}, pc = "idle", file.mode # "off"
               PROVE  Mirrors /\ WorkerFor(file) = file.mode /\ answering = containers
    BY DEF MirrorsBarringFaults
  <2>1. file.phase = "ready" /\ file.handle = file.mode /\ answering = containers
    BY DEF ResidencyInv, Faultless, Current
  <2>2. containers = {file.mode}
    BY <2>1 DEF ResidencyInv, Faultless, Current, Live
  <2>3. file.mode \in {"queue", "explorer"}
    BY DEF ResidencyInv, Typed, Engines
  <2>. QED BY <2>1, <2>2, <2>3 DEF Mirrors, WorkerFor
<1>. QED BY <1>1, ResidencyInvariant, PTL

\* As long as no retirement fails, kiln serve in QUEUE dispatches to QUEUE's
\* host or to none, whatever else goes wrong.
THEOREM OwnHostServes == Spec => []ServedByOwnHost
<1>1. ResidencyInv => ServedByOwnHost
  BY DEF ResidencyInv, OwnHost, ServedByOwnHost, WorkerFor
<1>. QED BY <1>1, ResidencyInvariant, PTL

\* A host kiln serve would dispatch to answers, unless its container died or a
\* command was killed.
THEOREM ConfirmedAnswers == Spec => []ConfirmedIsUp
<1>1. ResidencyInv => ConfirmedIsUp
  BY DEF ResidencyInv, OneStory, Up, Current, ConfirmedIsUp, WorkerFor
<1>. QED BY <1>1, ResidencyInvariant, PTL

\* Between commands no container runs that the saved state does not name,
\* unless a command was killed or its ssh session cut.
THEOREM NoOrphanLeft == Spec => []NoOrphan
<1>1. ResidencyInv => NoOrphan
  BY DEF ResidencyInv, Known, Current, NoOrphan
<1>. QED BY <1>1, ResidencyInvariant, PTL
=============================================================================
