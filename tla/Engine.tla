------------------------------- MODULE Engine -------------------------------
(***************************************************************************)
(* The executor's Engine, in memory: the developer switch above, the       *)
(* autonomous drain below.  A unit is admitted into the flat priority set, *)
(* drained from its front when the box is in QUEUE, walked against a       *)
(* protected oracle, answered by a verdict event on the stream, and        *)
(* escalated as a whole one binding up or dropped when the ladder is       *)
(* exhausted.  The Engine is driven by one thread through &mut self, so    *)
(* each method is one action.  Methods that return without a change        *)
(* (NotQueueMode, Idle, a refused command) are stuttering steps.           *)
(***************************************************************************)
EXTENDS Integers, WorkUnit, CellGraph, Ladder

CONSTANTS
  Units,           \* the frozen units producers hand over
  Manifests,       \* the manifests a box may publish
  MaxAdmissions,   \* bound: units enqueued
  MaxRejections,   \* bound: units refused at admission
  MaxDiscoveries   \* bound: discovery records produced

VARIABLES
  mode,              \* the logical box mode
  prioritySet,       \* the flat priority set, front first
  stream,            \* the verdict events emitted so far
  priorityView,      \* priority_view.queued
  heterogeneityView, \* heterogeneity_view: admitted and rejected
  emitted,           \* verdict_view.emitted
  utilization,       \* mode, inFlight, exploring, discoveries
  seq,               \* the counter event ids are built from
  manifest           \* the capabilities this box publishes, which no method changes

vars == <<mode, prioritySet, stream, priorityView, heterogeneityView, emitted, utilization, seq,
          manifest>>

Modes == {"off", "queue", "explorer"}
Verdicts == {"accepted", "rejected", "escalate", "not-admitted"}

\* The starting ladder position and tier of a unit come off the wire.
ASSUME EngineAssumption ==
  /\ \A u \in Units : u.ladder \in Nat /\ u.tier \in Tiers
  /\ MaxAdmissions \in Nat /\ MaxRejections \in Nat /\ MaxDiscoveries \in Nat

Entries == [unit : Units, ladder : Nat, tier : Tiers, ticket : Nat]

CellResultLists ==
  {<<>>} \cup UNION {{WalkCells(u.cells, pass) : pass \in SUBSET DOMAIN u.cells} : u \in Units}

Events ==
  [id : {u.ref : u \in Units} \X Nat, hash : {u.hash : u \in Units},
   verdict : Verdicts, missing : {MissingFor(m, u) : m \in Manifests, u \in Units} \cup {{}},
   tierRan : Tiers \cup {"none"}, results : CellResultLists,
   next : {"advance", "halt", "escalate"}, ticket : Nat]

Init ==
  /\ mode = "off"
  /\ prioritySet = <<>>
  /\ stream = <<>>
  /\ priorityView = 0
  /\ heterogeneityView = [admitted |-> 0, rejected |-> 0]
  /\ emitted = 0
  /\ utilization = [mode |-> "off", inFlight |-> 0, exploring |-> FALSE, discoveries |-> 0]
  /\ seq = 0
  /\ manifest \in Manifests

-----------------------------------------------------------------------------
\* throw_switch: a flip to the resident mode is refused (inv-distinct-mode).
ThrowSwitch(m) ==
  /\ m # mode
  /\ mode' = m
  /\ utilization' = [utilization EXCEPT !.mode = m]
  /\ UNCHANGED <<prioritySet, stream, priorityView, heterogeneityView, emitted, seq, manifest>>

AdmitEntry(u) ==
  [unit |-> u, ladder |-> u.ladder, tier |-> u.tier, ticket |-> heterogeneityView.admitted + 1]

\* admit, when validate passes.  Nothing looks for a unit already queued.
Admit(u) ==
  /\ heterogeneityView.admitted < MaxAdmissions
  /\ Validate(u) = "ok"
  /\ prioritySet' = Append(prioritySet, AdmitEntry(u))
  /\ priorityView' = priorityView + 1
  /\ heterogeneityView' = [heterogeneityView EXCEPT !.admitted = @ + 1]
  /\ UNCHANGED <<mode, stream, emitted, utilization, seq, manifest>>

\* admit, when validate names a violated invariant.
Reject(u) ==
  /\ heterogeneityView.rejected < MaxRejections
  /\ Validate(u) # "ok"
  /\ heterogeneityView' = [heterogeneityView EXCEPT !.rejected = @ + 1]
  /\ UNCHANGED <<mode, prioritySet, stream, priorityView, emitted, utilization, seq, manifest>>

\* Seeded bug: the unit is inserted at the front and not removed from its place.
MoveToFrontKeeps(s, i) == <<s[i]>> \o s

\* Seeded bug: the front unit trades places with the chosen one.
MoveToFrontSwaps(s, i) ==
  [k \in 1 .. Len(s) |-> IF k = 1 THEN s[i] ELSE IF k = i THEN s[1] ELSE s[k]]

MoveToFront(s, i) ==
  [k \in 1 .. Len(s) |-> IF k = 1 THEN s[i] ELSE IF k <= i THEN s[k - 1] ELSE s[k]]

\* reprioritize_to_front: the first queued unit with this ref moves to the front.
Reprioritize(ref) ==
  /\ \E i \in DOMAIN prioritySet :
        /\ prioritySet[i].unit.ref = ref
        /\ \A j \in 1 .. i - 1 : prioritySet[j].unit.ref # ref
        /\ prioritySet' = MoveToFront(prioritySet, i)
  /\ UNCHANGED <<mode, stream, priorityView, heterogeneityView, emitted, utilization, seq, manifest>>

-----------------------------------------------------------------------------
\* One verdict event; its id is built from the unit ref and the new seq.
Emit(e, verdict, missing, tierRan, results) ==
  /\ seq' = seq + 1
  /\ stream' = Append(stream,
       [id |-> <<e.unit.ref, seq + 1>>, hash |-> e.unit.hash, verdict |-> verdict,
        missing |-> missing, tierRan |-> tierRan, results |-> results,
        next |-> ConsequenceOf(verdict), ticket |-> e.ticket])
  /\ emitted' = emitted + 1

\* The whole unit goes to the back of the set, one binding up.
Escalated(e, rest) == Append(rest, OneBindingUp(e))

\* Seeded bug: the early return forgets that the unit left the set.
DrainNotAdmittedKeepsCount ==
  LET e == Head(prioritySet)
  IN /\ MissingFor(manifest, e.unit) # {}
     /\ Emit(e, "not-admitted", MissingFor(manifest, e.unit), "none", <<>>)
     /\ prioritySet' = Tail(prioritySet)
     /\ UNCHANGED <<mode, heterogeneityView, utilization, priorityView, manifest>>

\* drain_one, the unit the box cannot cover: answered without running.
DrainNotAdmitted ==
  LET e == Head(prioritySet)
  IN /\ MissingFor(manifest, e.unit) # {}
     /\ Emit(e, "not-admitted", MissingFor(manifest, e.unit), "none", <<>>)
     /\ prioritySet' = Tail(prioritySet)
     /\ priorityView' = priorityView - 1
     /\ UNCHANGED <<mode, heterogeneityView, utilization, manifest>>

\* drain_one, the unit that runs: walk, reduce, emit, and on a failing
\* verdict escalate or drop it.  in_flight goes up and down within the call.
DrainRun(pass) ==
  LET e       == Head(prioritySet)
      results == WalkCells(e.unit.cells, pass)
      verdict == ReduceVerdict(results)
      again   == verdict # "accepted" /\ HasHeadroom(e)
  IN /\ MissingFor(manifest, e.unit) = {}
     /\ Emit(e, verdict, {}, TierRan(e), results)
     /\ prioritySet' = IF again THEN Escalated(e, Tail(prioritySet)) ELSE Tail(prioritySet)
     /\ priorityView' = IF again THEN (priorityView - 1) + 1 ELSE priorityView - 1
     /\ UNCHANGED <<mode, heterogeneityView, utilization, manifest>>

\* Seeded bug: an off-by-one in the emptiness check.
DrainLeavesLast ==
  /\ mode = "queue"
  /\ Len(prioritySet) > 1
  /\ \/ DrainNotAdmitted
     \/ \E pass \in SUBSET DOMAIN Head(prioritySet).unit.cells : DrainRun(pass)

\* pass is what the oracle's gate answers for each cell of the front unit.
Drain ==
  /\ mode = "queue"
  /\ prioritySet # <<>>
  /\ \/ DrainNotAdmitted
     \/ \E pass \in SUBSET DOMAIN Head(prioritySet).unit.cells : DrainRun(pass)

-----------------------------------------------------------------------------
\* start_exploration: the session decider starts from a default state.
StartExploration ==
  /\ mode = "explorer"
  /\ utilization' = [utilization EXCEPT !.exploring = TRUE]
  /\ UNCHANGED <<mode, prioritySet, stream, priorityView, heterogeneityView, emitted, seq, manifest>>

\* produce_discovery_record: only the flag is asked, not the mode.
ProduceDiscoveryRecord ==
  /\ utilization.discoveries < MaxDiscoveries
  /\ utilization.exploring
  /\ utilization' = [utilization EXCEPT !.exploring = FALSE, !.discoveries = @ + 1]
  /\ UNCHANGED <<mode, prioritySet, stream, priorityView, heterogeneityView, emitted, seq, manifest>>

Next ==
  \/ \E m \in Modes : ThrowSwitch(m)
  \/ \E u \in Units : Admit(u) \/ Reject(u)
  \/ \E u \in Units : Reprioritize(u.ref)
  \/ Drain
  \/ StartExploration
  \/ ProduceDiscoveryRecord

Spec == Init /\ [][Next]_vars

\* cmd_run and cmd_serve call the drain in a loop until the set is empty.
FairSpec == Spec /\ WF_vars(Drain)

-----------------------------------------------------------------------------
\* The type invariant.
TypeOK ==
  /\ mode \in Modes
  /\ prioritySet \in Seq(Entries)
  /\ stream \in Seq(Events)
  /\ priorityView \in Int
  /\ heterogeneityView \in [admitted : Nat, rejected : Nat]
  /\ emitted \in Nat
  /\ utilization \in [mode : Modes, inFlight : Int, exploring : BOOLEAN, discoveries : Nat]
  /\ seq \in Nat
  /\ manifest \in Manifests

\* The projected views never drift from what they project: the queued count is
\* the size of the set, the emitted count and the id counter are the length of
\* the stream, nothing is in flight between calls, and the two copies of the
\* mode agree.  `kiln status` prints the views, not the state.
ViewsAgree ==
  /\ priorityView = Len(prioritySet)
  /\ emitted = Len(stream) /\ seq = Len(stream)
  /\ utilization.inFlight = 0 /\ utilization.mode = mode

\* Every admission has exactly one fate: it is queued exactly once and has no
\* final verdict, or it left the set and has exactly one final verdict.  No
\* interleaving of admissions, reprioritizations, flips and drains loses a unit,
\* queues it twice or answers it twice.
OneFate ==
  /\ \A i, j \in DOMAIN prioritySet : prioritySet[i].ticket = prioritySet[j].ticket => i = j
  /\ \A i, j \in DOMAIN stream :
        Final(stream[i]) /\ Final(stream[j]) /\ stream[i].ticket = stream[j].ticket => i = j
  /\ \A t \in 1 .. heterogeneityView.admitted :
        (\E i \in DOMAIN prioritySet : prioritySet[i].ticket = t)
          <=> ~ \E i \in DOMAIN stream : stream[i].ticket = t /\ Final(stream[i])

\* Verdicts of one admission climb the ladder: an earlier one is a failed light
\* run, a later one a heavy run.  So escalation is unit-atomic, one rung at a
\* time, and no tier is tried twice.
VerdictsClimb ==
  \A i, j \in DOMAIN stream :
    i < j /\ stream[i].ticket = stream[j].ticket =>
      /\ stream[i].verdict = "escalate" /\ stream[i].tierRan = "light"
      /\ stream[j].tierRan = "heavy"

\* The inductive form of OneFate and VerdictsClimb.  A queued unit was answered
\* at most by failed light runs, and if it was, it is past the light rung and
\* the box covers it; every admission not queued has a final verdict.
TicketsIssued ==
  /\ \A i \in DOMAIN prioritySet : prioritySet[i].ticket \in 1 .. heterogeneityView.admitted
  /\ \A i \in DOMAIN stream : stream[i].ticket \in 1 .. heterogeneityView.admitted

QueuedOnce ==
  \A i, j \in DOMAIN prioritySet : prioritySet[i].ticket = prioritySet[j].ticket => i = j

QueuedIsOpen ==
  \A i \in DOMAIN prioritySet : \A j \in DOMAIN stream :
    prioritySet[i].ticket = stream[j].ticket =>
      /\ stream[j].verdict = "escalate" /\ stream[j].tierRan = "light"
      /\ prioritySet[i].ladder >= 1
      /\ MissingFor(manifest, prioritySet[i].unit) = {}

QueuedOrAnswered ==
  \A t \in 1 .. heterogeneityView.admitted :
    \/ \E i \in DOMAIN prioritySet : prioritySet[i].ticket = t
    \/ \E i \in DOMAIN stream : stream[i].ticket = t /\ Final(stream[i])

FateInv == TicketsIssued /\ QueuedOnce /\ QueuedIsOpen /\ QueuedOrAnswered /\ VerdictsClimb

\* Queued units keep their relative order: only a unit moved to the front
\* overtakes, and only a unit that just escalated falls behind.
OrderKept ==
  [][\A i1, i2 \in DOMAIN prioritySet : \A j1, j2 \in DOMAIN prioritySet' :
       (/\ i1 < i2
        /\ prioritySet[i1].ticket = prioritySet'[j1].ticket
        /\ prioritySet[i2].ticket = prioritySet'[j2].ticket)
       => j1 < j2 \/ j2 = 1 \/ prioritySet'[j1].ladder > prioritySet[i1].ladder]_vars

\* A box left in QUEUE works the set off: each unit is answered at most once a
\* rung, so escalation and reprioritization cannot keep the set non-empty.
WorkedOff == <>[](mode = "queue") => []<>(prioritySet = <<>>)
=============================================================================
