------------------------------ MODULE Deciders -------------------------------
(***************************************************************************)
(* The eleven deciders the executor is gated by, each a state folded from  *)
(* events and a decision on a command; three of their projectors; and the  *)
(* conformance runner, which answers a command from a list of event ids.   *)
(* A command is a name and its payload; an answer emits one event or names *)
(* the violated invariant.  Only ModeChanged carries a payload, the mode.  *)
(***************************************************************************)
EXTENDS Integers, Sequences, SequencesExt

DeciderNames ==
  {"box", "work-unit", "execution-run", "exploration-session", "resident-set", "work-batch",
   "sandbox", "credential-lease", "verdict-log", "oracle-run", "serving-host"}

\* The commands each decider answers: any other is unknown to it.
CommandNames(which) ==
  CASE which = "box"                 -> {"ThrowSwitch"}
    [] which = "work-unit"           -> {"Admit", "Reprioritize", "Escalate"}
    [] which = "execution-run"       -> {"Admit", "ComputeVerdict", "Emit"}
    [] which = "exploration-session" -> {"Start", "ProduceDiscoveryRecord"}
    [] which = "resident-set"        -> {"Load", "Evict"}
    [] which = "work-batch"          -> {"Form", "Dispatch"}
    [] which = "sandbox"             -> {"Provision", "Teardown"}
    [] which = "credential-lease"    -> {"Exchange", "Revoke"}
    [] which = "verdict-log"         -> {"Append", "Reconcile"}
    [] which = "oracle-run"          -> {"RunGate"}
    [] which = "serving-host"        -> {"Launch", "ConfirmReady", "Retire"}

Default(which) ==
  CASE which = "box"                 -> "off"
    [] which = "work-unit"           -> [state |-> "new", ladder |-> 0]
    [] which = "resident-set"        -> FALSE
    [] which = "verdict-log"         -> 0
    [] which = "oracle-run"          -> FALSE
    [] which = "serving-host"        -> "offline"
    [] which = "exploration-session" -> "idle"
    [] which \in {"sandbox", "credential-lease"}     -> "none"
    [] which \in {"execution-run", "work-batch"}     -> "new"

\* evolve, of the deciders whose state is a phase that the event determines.
PhaseAfter(event) ==
  [UnitAdmitted |-> "admitted", UnitVerdictComputed |-> "verdict-reached", VerdictEmitted |-> "emitted",
   ExplorationStarted |-> "active", DiscoveryRecordProduced |-> "complete",
   BatchFormed |-> "forming", BatchDispatched |-> "dispatched",
   SandboxProvisioned |-> "provisioned", SandboxDestroyed |-> "destroyed",
   CredentialLeased |-> "leased", CredentialRevoked |-> "revoked",
   HostLaunched |-> "launching", HostReady |-> "ready", HostRetired |-> "retired",
   BindingLoaded |-> TRUE, BindingEvicted |-> FALSE, GateConfirmed |-> TRUE][event]

EvolveUnit(s, event) ==
  CASE event \in {"Enqueued", "Reprioritized"} -> [s EXCEPT !.state = "queued"]
    [] event = "Escalated" -> [state |-> "queued", ladder |-> s.ladder + 1]
    [] event = "Rejected"  -> [s EXCEPT !.state = "rejected"]
    [] event = "Halted"    -> [s EXCEPT !.state = "failed"]

EvolveLog(pending, event) == IF event = "VerdictAppended" THEN pending + 1 ELSE 0

Evolve(which, s, e) ==
  CASE which = "box"         -> e.with
    [] which = "work-unit"   -> EvolveUnit(s, e.event)
    [] which = "verdict-log" -> EvolveLog(s, e.event)
    [] OTHER                 -> PhaseAfter(e.event)

-----------------------------------------------------------------------------
Emits(event) == [emit |-> [event |-> event, with |-> "nothing"], reject |-> ""]
Rejects(invariant) == [emit |-> [event |-> "", with |-> "nothing"], reject |-> invariant]

Guarded(holds, event, invariant) == IF holds THEN Emits(event) ELSE Rejects(invariant)

DecideBox(s, c) ==
  IF c.with # s THEN [emit |-> [event |-> "ModeChanged", with |-> c.with], reject |-> ""]
  ELSE Rejects("inv-distinct-mode")

DecideUnit(s, c) ==
  CASE c.command = "Admit" ->
         Guarded(c.with = "homogeneous", "Enqueued", "inv-binding-homogeneity")
    [] c.command = "Reprioritize" ->
         Guarded(s.state = "queued", "Reprioritized", "inv-only-queued-reorderable")
    [] c.command = "Escalate" ->
         Guarded(s.ladder < c.with, "Escalated", "inv-ladder-exhausted")

DecideRun(s, c) ==
  CASE c.command = "Admit" -> Guarded(c.with = "queue", "UnitAdmitted", "inv-box-must-be-queue")
    [] c.command = "ComputeVerdict" ->
         Guarded(s = "admitted", "UnitVerdictComputed", "inv-run-not-admitted")
    [] c.command = "Emit" -> Guarded(s = "verdict-reached", "VerdictEmitted", "inv-no-verdict-yet")

DecideSession(s, c) ==
  CASE c.command = "Start" ->
         Guarded(c.with = "explorer", "ExplorationStarted", "inv-box-must-be-explorer")
    [] c.command = "ProduceDiscoveryRecord" ->
         Guarded(s = "active", "DiscoveryRecordProduced", "inv-session-not-active")

DecideResident(s, c) ==
  CASE c.command = "Load"  -> Guarded(c.with, "BindingLoaded", "inv-vram-budget")
    [] c.command = "Evict" -> Guarded(s, "BindingEvicted", "inv-nothing-resident")

\* The payload of a Form: the cells are homogeneous, mixed, or none.
DecideBatch(s, c) ==
  CASE c.command = "Form" ->
         IF c.with = "mixed" THEN Rejects("inv-batch-homogeneous")
         ELSE Guarded(c.with # "empty", "BatchFormed", "inv-batch-empty")
    [] c.command = "Dispatch" -> Guarded(s = "forming", "BatchDispatched", "inv-batch-not-formed")

DecideSandbox(s, c) ==
  CASE c.command = "Provision" -> Guarded(c.with, "SandboxProvisioned", "inv-undeclared-network")
    [] c.command = "Teardown"  -> Guarded(s = "provisioned", "SandboxDestroyed", "inv-no-sandbox")

DecideLease(s, c) ==
  CASE c.command = "Exchange" -> Guarded(c.with, "CredentialLeased", "inv-lease-needs-sandbox")
    [] c.command = "Revoke"   -> Guarded(s = "leased", "CredentialRevoked", "inv-nothing-to-revoke")

DecideLog(s, c) ==
  CASE c.command = "Append"    -> Guarded(~ c.with, "VerdictAppended", "inv-idempotent-append")
    [] c.command = "Reconcile" -> Guarded(s > 0, "DeliverableReconciled", "inv-nothing-to-reconcile")

DecideOracle(s, c) == Guarded(c.with, "GateConfirmed", "inv-oracle-writable")

\* Seeded bug: a launch is not refused while a host is live.
DecideHostAnyLaunch(s, c) ==
  CASE c.command = "Launch" -> Guarded(c.with, "HostLaunched", "inv-containerized-host")
    [] c.command = "ConfirmReady" -> Guarded(s = "launching", "HostReady", "inv-ready-needs-launch")
    [] c.command = "Retire" -> Guarded(s \in {"launching", "ready"}, "HostRetired", "inv-nothing-to-retire")

DecideHost(s, c) ==
  CASE c.command = "Launch" ->
         IF ~ c.with THEN Rejects("inv-containerized-host")
         ELSE Guarded(s \in {"offline", "retired"}, "HostLaunched", "inv-single-serving-host")
    [] c.command = "ConfirmReady" -> Guarded(s = "launching", "HostReady", "inv-ready-needs-launch")
    [] c.command = "Retire" -> Guarded(s \in {"launching", "ready"}, "HostRetired", "inv-nothing-to-retire")

Decide(which, s, c) ==
  CASE which = "box"                 -> DecideBox(s, c)
    [] which = "work-unit"           -> DecideUnit(s, c)
    [] which = "execution-run"       -> DecideRun(s, c)
    [] which = "exploration-session" -> DecideSession(s, c)
    [] which = "resident-set"        -> DecideResident(s, c)
    [] which = "work-batch"          -> DecideBatch(s, c)
    [] which = "sandbox"             -> DecideSandbox(s, c)
    [] which = "credential-lease"    -> DecideLease(s, c)
    [] which = "verdict-log"         -> DecideLog(s, c)
    [] which = "oracle-run"          -> DecideOracle(s, c)
    [] which = "serving-host"        -> DecideHost(s, c)

-----------------------------------------------------------------------------
\* The projectors that count what is open: residency-view, isolation-view and
\* serving-host-view add one on an opening event and take one off on a closing;
\* reconciliation-view's backlog does so on each append and each reconcile.
Opening == {"BindingLoaded", "SandboxProvisioned", "HostLaunched", "VerdictAppended"}
Closing == {"BindingEvicted", "SandboxDestroyed", "HostRetired", "DeliverableReconciled"}

Project(view, event) ==
  IF event \in Opening THEN view + 1 ELSE IF event \in Closing THEN view - 1 ELSE view

-----------------------------------------------------------------------------
\* The id under which the conformance runner emits each event.
EventId(event) ==
  [ModeChanged |-> "box-mode-changed",
   Enqueued |-> "work-unit-enqueued", Reprioritized |-> "work-unit-reprioritized",
   Escalated |-> "unit-escalated", Rejected |-> "work-unit-rejected", Halted |-> "unit-halted",
   UnitAdmitted |-> "unit-admitted", UnitVerdictComputed |-> "unit-verdict-computed",
   VerdictEmitted |-> "verdict-emitted",
   ExplorationStarted |-> "exploration-started", DiscoveryRecordProduced |-> "discovery-record-produced",
   BindingLoaded |-> "binding-loaded", BindingEvicted |-> "binding-evicted",
   BatchFormed |-> "batch-formed", BatchDispatched |-> "batch-dispatched",
   SandboxProvisioned |-> "sandbox-provisioned", SandboxDestroyed |-> "sandbox-destroyed",
   CredentialLeased |-> "credential-leased", CredentialRevoked |-> "credential-revoked",
   VerdictAppended |-> "verdict-appended", DeliverableReconciled |-> "deliverable-reconciled",
   HostLaunched |-> "host-launched", HostReady |-> "host-ready", HostRetired |-> "host-retired",
   GateConfirmed |-> "gate-confirmed"][event]

\* Seeded bug: the reader knows the reprioritization under another name.
ReadTableStale(which) ==
  IF which # "work-unit" THEN <<>>
  ELSE [e \in {"Enqueued", "Rejected", "Halted"} |-> EventId(e)]

\* The ids each decider reads back; the runner skips every other id, and
\* oracle_run_decider skips them all.
ReadTable(which) ==
  CASE which = "box" -> [ModeChanged |-> "box-mode-changed"]
    [] which = "work-unit" ->
         [Enqueued |-> "work-unit-enqueued", Reprioritized |-> "work-unit-reprioritized",
          Escalated |-> "unit-escalated", Rejected |-> "work-unit-rejected", Halted |-> "unit-halted"]
    [] which = "execution-run" ->
         [UnitAdmitted |-> "unit-admitted", UnitVerdictComputed |-> "unit-verdict-computed",
          VerdictEmitted |-> "verdict-emitted"]
    [] which = "exploration-session" ->
         [ExplorationStarted |-> "exploration-started",
          DiscoveryRecordProduced |-> "discovery-record-produced"]
    [] which = "resident-set" -> [BindingLoaded |-> "binding-loaded", BindingEvicted |-> "binding-evicted"]
    [] which = "work-batch" -> [BatchFormed |-> "batch-formed", BatchDispatched |-> "batch-dispatched"]
    [] which = "sandbox" ->
         [SandboxProvisioned |-> "sandbox-provisioned", SandboxDestroyed |-> "sandbox-destroyed"]
    [] which = "credential-lease" ->
         [CredentialLeased |-> "credential-leased", CredentialRevoked |-> "credential-revoked"]
    [] which = "verdict-log" ->
         [VerdictAppended |-> "verdict-appended", DeliverableReconciled |-> "deliverable-reconciled"]
    [] which = "serving-host" ->
         [HostLaunched |-> "host-launched", HostReady |-> "host-ready", HostRetired |-> "host-retired"]
    [] which = "oracle-run" -> <<>>

\* One entry of `given`, folded: an id is read as the event of that name.
ReadOne(which, s, entry) ==
  LET table == ReadTable(which)
      known == {e \in DOMAIN table : table[e] = entry.id}
  IN  IF known = {} THEN s
      ELSE Evolve(which, s, [event |-> CHOOSE e \in known : TRUE, with |-> entry.with])

Replay(which, given) ==
  LET s[n \in 0 .. Len(given)] ==
        IF n = 0 THEN Default(which) ELSE ReadOne(which, s[n - 1], given[n])
  IN  s[Len(given)]

\* An answer as the runner writes it: the event goes out by its id.
Written(answer) ==
  IF answer.reject # "" THEN answer ELSE [answer EXCEPT !.emit.event = EventId(answer.emit.event)]

\* One request: replay the history, then decide.
Conform(which, given, c) == Written(Decide(which, Replay(which, given), c))
=============================================================================
