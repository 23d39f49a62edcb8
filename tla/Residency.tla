------------------------------ MODULE Residency ------------------------------
(***************************************************************************)
(* kiln mode set on a configured box: the switch is thrown in memory, the  *)
(* live host is retired and the new mode's vLLM container is launched over *)
(* ssh, its endpoint is polled, and only then is the state saved.  The box *)
(* itself (docker, the containers, the network) is modelled from how the   *)
(* host crate drives it.                                                   *)
(***************************************************************************)
EXTENDS Naturals, FiniteSets

CONSTANT Faults   \* the faults that may happen, each at most once

(***************************************************************************)
(* retire, launch: the ssh command fails and did nothing.  cut: the ssh    *)
(* session of a launch fails after the container started.  slow: the host  *)
(* does not answer in time.  died: a running container dies.  kill: kiln   *)
(* is killed before it saves.                                              *)
(***************************************************************************)
FaultKinds == {"retire", "launch", "cut", "slow", "died", "kill"}

ASSUME ResidencyAssumption == Faults \subseteq FaultKinds

VARIABLES
  file,        \* the saved engine: mode, host, host_handle, serving_host_view
  engine,      \* the engine of the kiln mode set that is running
  pc,          \* idle, or the next step of launch_residency, or save
  containers,  \* the containers on the box, each named after its mode
  answering,   \* the containers whose endpoint answers
  faults       \* the faults that happened (history)

vars == <<file, engine, pc, containers, answering, faults>>

FreshEngine ==
  [mode |-> "off", phase |-> "offline", handle |-> "none", materialized |-> 0, ready |-> FALSE]

Init ==
  /\ file = FreshEngine /\ engine = FreshEngine
  /\ pc = "idle"
  /\ containers = {} /\ answering = {}
  /\ faults = {}

Fault(kind) == kind \in Faults \ faults /\ faults' = faults \cup {kind}

Live(e) == e.phase \in {"launching", "ready"}

\* Seeded bug: the view does not count the host down.
HostRetiredKeepsCount(e) == [e EXCEPT !.phase = "retired", !.handle = "none", !.ready = FALSE]

\* HostState::evolve and ServingHostView::apply.
HostRetired(e) ==
  [e EXCEPT !.phase = "retired", !.handle = "none", !.materialized = @ - 1, !.ready = FALSE]

HostLaunched(e) ==
  [e EXCEPT !.phase = "launching", !.handle = e.mode, !.materialized = @ + 1, !.ready = FALSE]

HostReady(e) == [e EXCEPT !.phase = "ready", !.ready = TRUE]

-----------------------------------------------------------------------------
\* Seeded bug: the flip is saved before the residency is materialized.
ModeSetSaves(m) ==
  /\ pc = "idle"
  /\ file.mode # m
  /\ engine' = [file EXCEPT !.mode = m]
  /\ file' = engine'
  /\ pc' = "retire"
  /\ UNCHANGED <<containers, answering, faults>>

\* throw_switch, on the loaded engine: a flip to the saved mode is refused.
ModeSet(m) ==
  /\ pc = "idle"
  /\ file.mode # m
  /\ engine' = [file EXCEPT !.mode = m]
  /\ pc' = "retire"
  /\ UNCHANGED <<file, containers, answering, faults>>

\* Seeded bug: the live host is left running.
RetireNothing ==
  /\ pc = "retire"
  /\ engine' = IF Live(engine) THEN HostRetired(engine) ELSE engine
  /\ pc' = "launch"
  /\ UNCHANGED <<file, containers, answering, faults>>

\* retire_residency: nothing to do, or docker rm -f of the handle's container;
\* a failure ends launch_residency with the host as it was.
Retire ==
  /\ pc = "retire"
  /\ \/ /\ ~ Live(engine)
        /\ pc' = "launch"
        /\ UNCHANGED <<engine, containers, answering, faults>>
     \/ /\ Live(engine)
        /\ containers' = containers \ {engine.handle}
        /\ answering' = answering \ {engine.handle}
        /\ engine' = HostRetired(engine)
        /\ pc' = "launch"
        /\ UNCHANGED faults
     \/ /\ Live(engine) /\ Fault("retire")
        /\ pc' = "save"
        /\ UNCHANGED <<engine, containers, answering>>
  /\ UNCHANGED file

\* launch: docker run starts the container unless the port, which all modes
\* share, or the name is taken; then the phase and the handle are set.
Launch ==
  /\ pc = "launch"
  /\ \/ /\ containers = {}
        /\ containers' = {engine.mode}
        /\ engine' = HostLaunched(engine)
        /\ pc' = "wait"
        /\ UNCHANGED faults
     \/ /\ containers # {}
        /\ pc' = "save"
        /\ UNCHANGED <<engine, containers, faults>>
     \/ /\ Fault("launch")
        /\ pc' = "save"
        /\ UNCHANGED <<engine, containers>>
     \/ /\ containers = {} /\ Fault("cut")
        /\ containers' = {engine.mode}
        /\ pc' = "save"
        /\ UNCHANGED engine
  /\ UNCHANGED <<file, answering>>

\* wait_ready and confirm: whatever answers on the port is taken for the host.
Wait ==
  /\ pc = "wait"
  /\ \/ /\ answering # {}
        /\ engine' = HostReady(engine)
        /\ UNCHANGED faults
     \/ /\ answering = {}
        /\ \/ Fault("slow")
           \/ containers = {} /\ UNCHANGED faults
        /\ UNCHANGED engine
  /\ pc' = "save"
  /\ UNCHANGED <<file, containers, answering>>

Save ==
  /\ pc = "save"
  /\ file' = engine
  /\ engine' = FreshEngine
  /\ pc' = "idle"
  /\ UNCHANGED <<containers, answering, faults>>

\* Ctrl-C, most likely in the three minutes of the wait.
Kill ==
  /\ pc # "idle"
  /\ Fault("kill")
  /\ engine' = FreshEngine
  /\ pc' = "idle"
  /\ UNCHANGED <<file, containers, answering>>

\* The box: a model finishes loading, or its container dies and is removed.
Warm ==
  /\ answering # containers
  /\ answering' = containers
  /\ UNCHANGED <<file, engine, pc, containers, faults>>

Die ==
  /\ containers # {} /\ Fault("died")
  /\ containers' = {} /\ answering' = {}
  /\ UNCHANGED <<file, engine, pc>>

Next ==
  \/ \E m \in {"queue", "explorer"} : ModeSet(m)
  \/ Retire \/ Launch \/ Wait \/ Save \/ Kill
  \/ Warm \/ Die

Spec == Init /\ [][Next]_vars

\* The command runs on, a container that stays up warms up, and the developer
\* keeps flipping the switch.
FairSpec ==
  /\ Spec
  /\ WF_vars(Retire) /\ WF_vars(Launch) /\ WF_vars(Wait) /\ WF_vars(Save) /\ WF_vars(Warm)
  /\ WF_vars(\E m \in {"queue", "explorer"} : ModeSet(m))

-----------------------------------------------------------------------------
\* Seeded bug: the handle is enough, ready or not.
WorkerIfHandle(e) == IF e.handle # "none" THEN e.handle ELSE "fallback"

\* The worker cmd_serve chooses: the materialized host, if it is ready.
WorkerFor(e) == IF e.phase = "ready" /\ e.handle # "none" THEN e.handle ELSE "fallback"

\* The type invariant.
TypeOK ==
  /\ \A e \in {file, engine} :
        /\ e.mode \in {"off", "queue", "explorer"}
        /\ e.phase \in {"offline", "launching", "ready", "retired"}
        /\ e.handle \in {"none", "queue", "explorer"}
        /\ e.materialized \in 0 .. 1 /\ e.ready \in BOOLEAN
  /\ pc \in {"idle", "retire", "launch", "wait", "save"}
  /\ answering \subseteq containers /\ containers \subseteq {"queue", "explorer"}
  /\ faults \subseteq Faults

\* how-contract.yaml, physical-residency: the physical residency mirrors the
\* logical mode one-to-one.
Mirrors == pc = "idle" /\ file.mode # "off" => containers = {file.mode}

\* As long as nothing fails, it does; and only a confirmed host is dispatched to.
MirrorsBarringFaults ==
  faults = {} /\ pc = "idle" /\ file.mode # "off" =>
    Mirrors /\ WorkerFor(file) = file.mode /\ answering = containers

\* Whatever is launched slowly, cut short or killed, kiln serve in QUEUE never
\* dispatches to another mode's host: only a failed retirement does that.
ServedByOwnHost ==
  "retire" \notin faults /\ file.mode = "queue" => WorkerFor(file) \in {"queue", "fallback"}

\* A host kiln serve would dispatch to answers its endpoint, unless its container
\* died or a later flip was killed: readiness was confirmed on that container.
ConfirmedIsUp ==
  faults \cap {"died", "kill"} = {} /\ pc = "idle" /\ WorkerFor(file) # "fallback" =>
    WorkerFor(file) \in answering

\* Failures heal: while the developer flips on, the box has again and again the
\* mode's own host, confirmed and answering, provided no kill and no cut session
\* left a container that no state names.
Heals ==
  [](faults \cap {"kill", "cut"} = {}) =>
    []<>(pc = "idle" /\ WorkerFor(file) = file.mode /\ file.mode \in answering)

\* The prior host is retired before the next launches, so every container left
\* on the box between commands is one the saved state names and a later flip
\* retires; only a launch that was killed or cut short leaves one nobody knows.
NoOrphan ==
  pc = "idle" /\ faults \cap {"kill", "cut"} = {} => containers \subseteq {file.handle}

\* how-contract.yaml, physical-residency, of dispatch: in QUEUE only QUEUE's
\* host serves work.
QueueServesQueue == file.mode = "queue" => WorkerFor(file) \in {"queue", "fallback"}
=============================================================================
