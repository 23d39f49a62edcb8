---------------------------- MODULE EngineProofs ----------------------------
(***************************************************************************)
(* Proofs about Engine for any set of units, any manifest and any bounds:  *)
(* type correctness, the agreement of the projected views, and the fate    *)
(* of every admission.                                                     *)
(*                                                                         *)
(* What walk_cells computes is not needed: only that it is a list of       *)
(* results, which the reduction turns into accepted or escalate.           *)
(***************************************************************************)
EXTENDS Engine, FateProofs

-----------------------------------------------------------------------------
(***************************************************************************)
(* Helpers: sequences and the reduction.                                   *)
(***************************************************************************)

\* reduce_verdict answers accepted or escalate, never rejected.
LEMMA ReductionRange ==
  ASSUME NEW r PROVE ReduceVerdict(r) \in {"accepted", "escalate"}
BY DEF ReduceVerdict

\* The position the k-th element had before the i-th moved to the front.
Source(i, k) == IF k = 1 THEN i ELSE IF k <= i THEN k - 1 ELSE k

\* Moving one entry to the front permutes the sequence.
LEMMA MoveToFrontShape ==
  ASSUME NEW s \in Seq(Entries), NEW i \in DOMAIN s
  PROVE  /\ MoveToFront(s, i) \in Seq(Entries)
         /\ Len(MoveToFront(s, i)) = Len(s)
         /\ DOMAIN MoveToFront(s, i) = DOMAIN s
         /\ \A k \in DOMAIN s : Source(i, k) \in DOMAIN s /\ MoveToFront(s, i)[k] = s[Source(i, k)]
         /\ \A k, l \in DOMAIN s : Source(i, k) = Source(i, l) => k = l
         /\ \A k \in DOMAIN s : \E j \in DOMAIN s : MoveToFront(s, i)[j] = s[k]
<1> DEFINE f == MoveToFront(s, i)
<1>0. DOMAIN s = 1 .. Len(s) /\ Len(s) \in Nat /\ i \in 1 .. Len(s)
  OBVIOUS
<1>1. \A k \in DOMAIN s : Source(i, k) \in DOMAIN s
  BY <1>0 DEF Source
<1>2. \A k \in DOMAIN s : f[k] = s[Source(i, k)]
  BY <1>0 DEF MoveToFront, Source
<1>3. \A k, l \in DOMAIN s : Source(i, k) = Source(i, l) => k = l
  BY <1>0 DEF Source
<1>4. f \in Seq(Entries) /\ Len(f) = Len(s) /\ DOMAIN f = DOMAIN s
  <2>1. f \in [1 .. Len(s) -> Entries]
    BY <1>0 DEF MoveToFront
  <2>. QED BY <2>1, <1>0
<1>5. \A k \in DOMAIN s : \E j \in DOMAIN s : f[j] = s[k]
  <2>. SUFFICES ASSUME NEW k \in DOMAIN s PROVE \E j \in DOMAIN s : Source(i, j) = k
    BY <1>2
  <2>1. CASE k = i
    BY <2>1, <1>0 DEF Source
  <2>2. CASE k < i
    <3>1. k + 1 \in DOMAIN s /\ Source(i, k + 1) = k
      BY <2>2, <1>0 DEF Source
    <3>. QED BY <3>1
  <2>3. CASE k > i
    BY <2>3, <1>0 DEF Source
  <2>. QED BY <2>1, <2>2, <2>3, <1>0
<1>. QED BY <1>1, <1>2, <1>3, <1>4, <1>5

-----------------------------------------------------------------------------
(***************************************************************************)
(* Type correctness.                                                       *)
(***************************************************************************)

\* The event a drain pushes: well-typed, of the drained admission, and either
\* final or the failed light run of a unit that is queued again.
LEMMA DrainShape ==
  ASSUME TypeOK, Drain
  PROVE  \E ev \in Events :
    /\ prioritySet # <<>>
    /\ stream' = Append(stream, ev)
    /\ ev.ticket = prioritySet[1].ticket
    /\ \/ MissingFor(manifest, prioritySet[1].unit) # {}
       \/ prioritySet[1].ladder = 0
       \/ ev.tierRan = "heavy"
    /\ \/ /\ Final(ev)
          /\ prioritySet' = Tail(prioritySet)
          /\ priorityView' = priorityView - 1
       \/ /\ ev.verdict = "escalate" /\ ev.tierRan = "light"
          /\ MissingFor(manifest, prioritySet[1].unit) = {}
          /\ prioritySet' = Append(Tail(prioritySet), OneBindingUp(prioritySet[1]))
          /\ priorityView' = priorityView
    /\ emitted' = emitted + 1 /\ seq' = seq + 1
    /\ UNCHANGED <<mode, heterogeneityView, utilization, manifest>>
<1> DEFINE e == prioritySet[1]
           ev(v, m, t, r) == [id |-> <<e.unit.ref, seq + 1>>, hash |-> e.unit.hash, verdict |-> v,
                              missing |-> m, tierRan |-> t, results |-> r,
                              next |-> ConsequenceOf(v), ticket |-> e.ticket]
<1>1. /\ prioritySet # <<>> /\ Head(prioritySet) = e /\ e \in Entries
      /\ priorityView \in Int /\ seq \in Nat /\ manifest \in Manifests
  BY DEF TypeOK, Drain
<1>2. /\ e.unit \in Units /\ e.ladder \in Nat /\ e.ticket \in Nat
      /\ <<e.unit.ref, seq + 1>> \in {u.ref : u \in Units} \X Nat
      /\ e.unit.hash \in {u.hash : u \in Units}
  BY <1>1 DEF Entries
<1>3. CASE DrainNotAdmitted
  <2> DEFINE x == ev("not-admitted", MissingFor(manifest, e.unit), "none", <<>>)
  <2>1. MissingFor(manifest, e.unit) \in {MissingFor(m, u) : m \in Manifests, u \in Units} \cup {{}}
    BY <1>1, <1>2
  <2>2. ConsequenceOf("not-admitted") = "halt"
    BY DEF ConsequenceOf
  <2>3. <<>> \in CellResultLists
    BY DEF CellResultLists
  <2>4. x \in Events
    BY <1>2, <2>1, <2>2, <2>3 DEF Events, Verdicts
  <2>5. /\ stream' = Append(stream, x) /\ emitted' = emitted + 1 /\ seq' = seq + 1
        /\ MissingFor(manifest, e.unit) # {}
        /\ prioritySet' = Tail(prioritySet) /\ priorityView' = priorityView - 1
        /\ UNCHANGED <<mode, heterogeneityView, utilization, manifest>>
    BY <1>1, <1>3 DEF DrainNotAdmitted, Emit
  <2>6. Final(x) /\ x.ticket = e.ticket
    BY DEF Final
  <2>. QED BY <1>1, <2>4, <2>5, <2>6
<1>4. ASSUME NEW pass \in SUBSET DOMAIN e.unit.cells, DrainRun(pass)
      PROVE  \E x \in Events :
        /\ stream' = Append(stream, x)
        /\ x.ticket = e.ticket
        /\ e.ladder = 0 \/ x.tierRan = "heavy"
        /\ \/ /\ Final(x)
              /\ prioritySet' = Tail(prioritySet)
              /\ priorityView' = priorityView - 1
           \/ /\ x.verdict = "escalate" /\ x.tierRan = "light"
              /\ MissingFor(manifest, e.unit) = {}
              /\ prioritySet' = Append(Tail(prioritySet), OneBindingUp(e))
              /\ priorityView' = priorityView
        /\ emitted' = emitted + 1 /\ seq' = seq + 1
        /\ UNCHANGED <<mode, heterogeneityView, utilization, manifest>>
  <2> DEFINE r == WalkCells(e.unit.cells, pass)
             v == ReduceVerdict(r)
             x == ev(v, {}, TierRan(e), r)
             again == v # "accepted" /\ HasHeadroom(e)
  <2>1. r \in CellResultLists
    <3> DEFINE lists(u) == {WalkCells(u.cells, p) : p \in SUBSET DOMAIN u.cells}
    <3>1. r \in lists(e.unit)
      OBVIOUS
    <3>2. CellResultLists = {<<>>} \cup UNION {lists(u) : u \in Units}
      BY DEF CellResultLists
    <3> HIDE DEF r, lists
    <3>. QED BY <1>2, <3>1, <3>2
  <2>2. v \in {"accepted", "escalate"}
    BY ReductionRange
  <2>3. ConsequenceOf(v) \in {"advance", "halt", "escalate"}
    BY <2>2 DEF ConsequenceOf
  <2>4. TierRan(e) \in {"light", "heavy"} /\ (TierRan(e) = "light" <=> e.ladder = 0)
    BY DEF TierRan
  <2>5. HasHeadroom(e) <=> e.ladder = 0
    BY <1>2 DEF HasHeadroom, MAX_LADDER
  <2>6. x \in Events
    <3> HIDE DEF r, v
    <3>. QED BY <1>2, <2>1, <2>2, <2>3, <2>4 DEF Events, Verdicts, Tiers
  <2>7. /\ stream' = Append(stream, x) /\ emitted' = emitted + 1 /\ seq' = seq + 1
        /\ MissingFor(manifest, e.unit) = {}
        /\ prioritySet' = IF again THEN Escalated(e, Tail(prioritySet)) ELSE Tail(prioritySet)
        /\ priorityView' = IF again THEN (priorityView - 1) + 1 ELSE priorityView - 1
        /\ UNCHANGED <<mode, heterogeneityView, utilization, manifest>>
    BY <1>1, <1>4 DEF DrainRun, Emit
  <2>8. x.verdict = v /\ x.tierRan = TierRan(e) /\ x.ticket = e.ticket
    OBVIOUS
  <2> HIDE DEF x, v, r, ev
  <2>9. CASE again
    BY <1>1, <2>4, <2>5, <2>2, <2>6, <2>7, <2>8, <2>9 DEF Escalated
  <2>10. CASE ~ again
    <3>1. Final(x)
      BY <2>2, <2>4, <2>5, <2>8, <2>10 DEF Final
    <3>. QED BY <1>1, <2>4, <2>6, <2>7, <2>8, <2>10, <3>1
  <2>. QED BY <2>9, <2>10
<1>. QED
  <2>1. CASE \E pass \in SUBSET DOMAIN Head(prioritySet).unit.cells : DrainRun(pass)
    <3>1. PICK pass \in SUBSET DOMAIN e.unit.cells : DrainRun(pass)
      BY <1>1, <2>1
    <3>. QED BY <1>1, <1>4, <3>1
  <2>. QED BY <1>3, <2>1 DEF Drain

\* Type correctness, at the start.
LEMMA TypeInit == Init => TypeOK
BY DEF Init, TypeOK, Modes

\* Type correctness, at every step.
LEMMA TypeStep == TypeOK /\ [Next]_vars => TypeOK'
<1> SUFFICES ASSUME TypeOK, [Next]_vars PROVE TypeOK'
  OBVIOUS
<1> USE EngineAssumption
<1>1. ASSUME NEW m \in Modes, ThrowSwitch(m) PROVE TypeOK'
  BY <1>1 DEF ThrowSwitch, TypeOK
<1>2. ASSUME NEW u \in Units, Admit(u) PROVE TypeOK'
  <2>1. AdmitEntry(u) \in Entries
    BY DEF EngineAssumption, AdmitEntry, Entries, TypeOK
  <2>2. heterogeneityView.admitted + 1 \in Nat
    BY DEF TypeOK
  <2>3. heterogeneityView' \in [admitted : Nat, rejected : Nat]
    BY <1>2, <2>2 DEF Admit, TypeOK
  <2>4. prioritySet' \in Seq(Entries) /\ priorityView' \in Int
    BY <1>2, <2>1 DEF Admit, TypeOK
  <2>. QED BY <1>2, <2>3, <2>4 DEF Admit, TypeOK
<1>3. ASSUME NEW u \in Units, Reject(u) PROVE TypeOK'
  BY <1>3 DEF Reject, TypeOK
<1>4. ASSUME NEW u \in Units, Reprioritize(u.ref) PROVE TypeOK'
  <2>1. PICK i \in DOMAIN prioritySet : prioritySet' = MoveToFront(prioritySet, i)
    BY <1>4 DEF Reprioritize
  <2>2. prioritySet' \in Seq(Entries)
    BY <2>1, MoveToFrontShape DEF TypeOK
  <2>. QED BY <1>4, <2>2 DEF Reprioritize, TypeOK
<1>5. CASE Drain
  <2>1. PICK ev \in Events :
          /\ prioritySet # <<>>
          /\ stream' = Append(stream, ev)
          /\ \/ prioritySet' = Tail(prioritySet) /\ priorityView' = priorityView - 1
             \/ /\ prioritySet' = Append(Tail(prioritySet), OneBindingUp(prioritySet[1]))
                /\ priorityView' = priorityView
          /\ emitted' = emitted + 1 /\ seq' = seq + 1
          /\ UNCHANGED <<mode, heterogeneityView, utilization, manifest>>
    BY <1>5, DrainShape
  <2>2. prioritySet[1] \in Entries /\ Tail(prioritySet) \in Seq(Entries)
    BY <2>1 DEF TypeOK
  <2>3. OneBindingUp(prioritySet[1]) \in Entries
    BY <2>2 DEF Entries, Tiers, OneBindingUp
  <2>4. prioritySet' \in Seq(Entries)
    <3> DEFINE rest == Tail(prioritySet)
               up   == OneBindingUp(prioritySet[1])
    <3>1. rest \in Seq(Entries) /\ up \in Entries /\ (prioritySet' = rest \/ prioritySet' = Append(rest, up))
      BY <2>1, <2>2, <2>3
    <3> HIDE DEF rest, up
    <3>. QED BY <3>1
  <2>. QED BY <2>1, <2>4 DEF TypeOK
<1>6. CASE StartExploration
  BY <1>6 DEF StartExploration, TypeOK
<1>7. CASE ProduceDiscoveryRecord
  <2> DEFINE R == [mode : Modes, inFlight : Int, exploring : BOOLEAN, discoveries : Nat]
             idle == [utilization EXCEPT !.exploring = FALSE]
  <2>1. utilization \in R /\ utilization.discoveries + 1 \in Nat
    BY DEF TypeOK
  <2>2. idle \in R
    BY <2>1
  <2>3. [idle EXCEPT !.discoveries = utilization.discoveries + 1] \in R
    BY <2>1, <2>2
  <2>4. utilization' = [idle EXCEPT !.discoveries = utilization.discoveries + 1]
    BY <1>7 DEF ProduceDiscoveryRecord
  <2>. QED BY <1>7, <2>3, <2>4 DEF ProduceDiscoveryRecord, TypeOK
<1>8. CASE UNCHANGED vars
  BY <1>8 DEF vars, TypeOK
<1>. QED BY <1>1, <1>2, <1>3, <1>4, <1>5, <1>6, <1>7, <1>8 DEF Next

\* Every reachable engine is well-typed, for any units, manifest and bounds.
THEOREM TypeCorrect == Spec => []TypeOK
BY TypeInit, TypeStep, PTL DEF Spec

-----------------------------------------------------------------------------
(***************************************************************************)
(* The views.                                                              *)
(***************************************************************************)

\* Every method keeps the views in step with what they count.
LEMMA ViewsStep == TypeOK /\ ViewsAgree /\ [Next]_vars => ViewsAgree'
<1> SUFFICES ASSUME TypeOK, ViewsAgree, [Next]_vars PROVE ViewsAgree'
  OBVIOUS
<1>1. ASSUME NEW m \in Modes, ThrowSwitch(m) PROVE ViewsAgree'
  BY <1>1 DEF ThrowSwitch, TypeOK, ViewsAgree
<1>2. ASSUME NEW u \in Units, Admit(u) PROVE ViewsAgree'
  BY <1>2 DEF Admit, TypeOK, ViewsAgree
<1>3. ASSUME NEW u \in Units, Reject(u) PROVE ViewsAgree'
  BY <1>3 DEF Reject, TypeOK, ViewsAgree
<1>4. ASSUME NEW u \in Units, Reprioritize(u.ref) PROVE ViewsAgree'
  <2>1. PICK i \in DOMAIN prioritySet : prioritySet' = MoveToFront(prioritySet, i)
    BY <1>4 DEF Reprioritize
  <2>2. Len(prioritySet') = Len(prioritySet)
    BY <2>1, MoveToFrontShape DEF TypeOK
  <2>. QED BY <1>4, <2>2 DEF Reprioritize, ViewsAgree
<1>5. CASE Drain
  <2>1. PICK ev \in Events :
          /\ prioritySet # <<>>
          /\ stream' = Append(stream, ev)
          /\ \/ prioritySet' = Tail(prioritySet) /\ priorityView' = priorityView - 1
             \/ /\ prioritySet' = Append(Tail(prioritySet), OneBindingUp(prioritySet[1]))
                /\ priorityView' = priorityView
          /\ emitted' = emitted + 1 /\ seq' = seq + 1
          /\ UNCHANGED <<mode, heterogeneityView, utilization, manifest>>
    BY <1>5, DrainShape
  <2>2. Len(stream') = Len(stream) + 1
    BY <2>1 DEF TypeOK
  <2>3. priorityView' = Len(prioritySet')
    <3>1. CASE prioritySet' = Tail(prioritySet) /\ priorityView' = priorityView - 1
      BY <2>1, <3>1 DEF TypeOK, ViewsAgree
    <3>2. CASE /\ prioritySet' = Append(Tail(prioritySet), OneBindingUp(prioritySet[1]))
               /\ priorityView' = priorityView
      BY <2>1, <3>2 DEF TypeOK, ViewsAgree
    <3>. QED BY <2>1, <3>1, <3>2
  <2>. QED BY <2>1, <2>2, <2>3 DEF ViewsAgree
<1>6. CASE StartExploration
  BY <1>6 DEF StartExploration, TypeOK, ViewsAgree
<1>7. CASE ProduceDiscoveryRecord
  <2>1. utilization'.inFlight = utilization.inFlight /\ utilization'.mode = utilization.mode
    BY <1>7 DEF ProduceDiscoveryRecord, TypeOK
  <2>. QED BY <1>7, <2>1 DEF ProduceDiscoveryRecord, ViewsAgree
<1>8. CASE UNCHANGED vars
  BY <1>8 DEF vars, ViewsAgree
<1>. QED BY <1>1, <1>2, <1>3, <1>4, <1>5, <1>6, <1>7, <1>8 DEF Next

\* The projected views agree with the state they project in every reachable
\* engine, so `kiln status` never reports a queue or a stream of another size.
THEOREM ViewsCorrect == Spec => []ViewsAgree
<1>1. Init => ViewsAgree
  BY DEF Init, ViewsAgree
<1>. QED BY <1>1, TypeCorrect, ViewsStep, PTL DEF Spec

-----------------------------------------------------------------------------
(***************************************************************************)
(* The fate of every admission.  FateInv is inductive: OneFate alone is    *)
(* not, since it says nothing of which units were answered before.         *)
(***************************************************************************)

\* The fate of units, at the start.
LEMMA FateInit == Init => FateInv
BY DEF Init, FateInv, TicketsIssued, QueuedOnce, QueuedIsOpen, QueuedOrAnswered, VerdictsClimb

\* Nothing FateInv reads changes.
LEMMA FateUnchanged ==
  FateInv /\ UNCHANGED <<prioritySet, stream, heterogeneityView.admitted, manifest>> => FateInv'
BY DEF FateInv, TicketsIssued, QueuedOnce, QueuedIsOpen, QueuedOrAnswered, VerdictsClimb, Final

\* FateInv is Fate of the engine's set and stream, before a step and after it.
LEMMA FateIs ==
  /\ FateInv <=> Fate(prioritySet, stream, heterogeneityView.admitted, manifest)
  /\ FateInv' <=> Fate(prioritySet', stream', heterogeneityView'.admitted, manifest')
BY DEF FateInv, TicketsIssued, QueuedOnce, QueuedIsOpen, QueuedOrAnswered, VerdictsClimb,
       Fate, Issued, Distinct, AllOpen, OpenStill, Accounted, Climbs, Final

\* An admission takes a ticket no queued unit and no event has.
LEMMA FateAdmit ==
  ASSUME TypeOK, FateInv, NEW u \in Units, Admit(u)
  PROVE  FateInv'
<1>1. /\ AdmitEntry(u) \in Entries
      /\ AdmitEntry(u).ticket = heterogeneityView.admitted + 1
      /\ prioritySet \in Seq(Entries) /\ heterogeneityView.admitted \in Nat
  BY EngineAssumption DEF EngineAssumption, AdmitEntry, Entries, TypeOK
<1>2. /\ prioritySet' = Append(prioritySet, AdmitEntry(u))
      /\ stream' = stream /\ manifest' = manifest
      /\ heterogeneityView'.admitted = heterogeneityView.admitted + 1
  BY DEF Admit, TypeOK
<1>. QED BY <1>1, <1>2, FateIs, FateQueued

\* Reprioritizing permutes the set and touches nothing else.
LEMMA FateReprioritize ==
  ASSUME TypeOK, FateInv, NEW ref, Reprioritize(ref)
  PROVE  FateInv'
<1>1. PICK n \in DOMAIN prioritySet : prioritySet' = MoveToFront(prioritySet, n)
  BY DEF Reprioritize
<1> DEFINE D == DOMAIN prioritySet
           p(k) == Source(n, k)
<1>2. prioritySet \in Seq(Entries)
  BY DEF TypeOK
<1>3. /\ DOMAIN MoveToFront(prioritySet, n) = D
      /\ \A k \in D : p(k) \in D /\ MoveToFront(prioritySet, n)[k] = prioritySet[p(k)]
      /\ \A k, l \in D : p(k) = p(l) => k = l
      /\ \A k \in D : \E j \in D : MoveToFront(prioritySet, n)[j] = prioritySet[k]
  <2> HIDE DEF MoveToFront, Source
  <2>. QED BY <1>2, MoveToFrontShape
<1> HIDE DEF p
<1>4. /\ DOMAIN prioritySet' = D
      /\ \A k \in D : p(k) \in D /\ prioritySet'[k] = prioritySet[p(k)]
      /\ \A k \in D : \E j \in D : prioritySet'[j] = prioritySet[k]
  BY <1>1, <1>3
<1>5. stream' = stream /\ heterogeneityView' = heterogeneityView
  BY DEF Reprioritize
<1>6. TicketsIssued'
  BY <1>4, <1>5 DEF FateInv, TicketsIssued
<1>7. QueuedOnce'
  <2>. SUFFICES ASSUME NEW k \in D, NEW l \in D,
                       prioritySet'[k].ticket = prioritySet'[l].ticket
               PROVE  k = l
    BY <1>4 DEF QueuedOnce
  <2>1. prioritySet[p(k)].ticket = prioritySet[p(l)].ticket /\ p(k) \in D /\ p(l) \in D
    BY <1>4
  <2>2. p(k) = p(l)
    BY <2>1 DEF FateInv, QueuedOnce
  <2>. QED BY <1>3, <2>2
<1>8. QueuedIsOpen'
  <2>. SUFFICES ASSUME NEW k \in D, NEW j \in DOMAIN stream,
                       prioritySet'[k].ticket = stream[j].ticket
               PROVE  /\ stream[j].verdict = "escalate" /\ stream[j].tierRan = "light"
                      /\ prioritySet'[k].ladder >= 1
                      /\ MissingFor(manifest, prioritySet'[k].unit) = {}
    <3>1. DOMAIN prioritySet' = DOMAIN prioritySet /\ stream' = stream /\ manifest' = manifest
      BY <1>4, <1>5 DEF Reprioritize
    <3>. QED BY <3>1 DEF QueuedIsOpen
  <2>1. prioritySet'[k] = prioritySet[p(k)] /\ p(k) \in DOMAIN prioritySet
    BY <1>4
  <2>. QED BY <2>1 DEF FateInv, QueuedIsOpen
<1>9. QueuedOrAnswered'
  BY <1>4, <1>5 DEF FateInv, QueuedOrAnswered, Final
<1>10. VerdictsClimb'
  BY <1>5 DEF FateInv, VerdictsClimb
<1>. QED BY <1>6, <1>7, <1>8, <1>9, <1>10 DEF FateInv

\* A drain answers the front unit, which is queued again or gone for good.
LEMMA FateDrain ==
  ASSUME TypeOK, FateInv, Drain
  PROVE  FateInv'
<1>1. PICK ev \in Events :
    /\ prioritySet # <<>>
    /\ stream' = Append(stream, ev)
    /\ ev.ticket = prioritySet[1].ticket
    /\ \/ MissingFor(manifest, prioritySet[1].unit) # {}
       \/ prioritySet[1].ladder = 0
       \/ ev.tierRan = "heavy"
    /\ \/ Final(ev) /\ prioritySet' = Tail(prioritySet)
       \/ /\ ev.verdict = "escalate" /\ ev.tierRan = "light"
          /\ MissingFor(manifest, prioritySet[1].unit) = {}
          /\ prioritySet' = Append(Tail(prioritySet), OneBindingUp(prioritySet[1]))
    /\ UNCHANGED <<heterogeneityView, manifest>>
  BY DrainShape
<1>2. PICK again \in BOOLEAN :
    /\ prioritySet' = Requeued(prioritySet, again)
    /\ ~ again => Final(ev)
    /\ again => /\ ev.verdict = "escalate" /\ ev.tierRan = "light"
                /\ MissingFor(manifest, prioritySet[1].unit) = {}
  BY <1>1 DEF Requeued
<1>3. /\ prioritySet \in Seq(Entries) /\ stream \in Seq(Events)
      /\ heterogeneityView.admitted \in Nat
      /\ prioritySet[1].ladder \in Nat
  <2>1. prioritySet \in Seq(Entries) /\ stream \in Seq(Events) /\ heterogeneityView.admitted \in Nat
    BY DEF TypeOK
  <2>2. prioritySet[1] \in Entries
    BY <1>1, <2>1
  <2>. QED BY <2>1, <2>2 DEF Entries
<1>. QED BY <1>1, <1>2, <1>3, FateIs, FateDrained

\* The fate of units, at every step.
LEMMA FateStep == TypeOK /\ FateInv /\ [Next]_vars => FateInv'
<1> SUFFICES ASSUME TypeOK, FateInv, [Next]_vars PROVE FateInv'
  OBVIOUS
<1>1. ASSUME NEW m \in Modes, ThrowSwitch(m) PROVE FateInv'
  BY <1>1, FateUnchanged DEF ThrowSwitch
<1>2. ASSUME NEW u \in Units, Admit(u) PROVE FateInv'
  BY <1>2, FateAdmit
<1>3. ASSUME NEW u \in Units, Reject(u) PROVE FateInv'
  <2>1. heterogeneityView'.admitted = heterogeneityView.admitted
    BY <1>3 DEF Reject, TypeOK
  <2>. QED BY <1>3, <2>1, FateUnchanged DEF Reject
<1>4. ASSUME NEW u \in Units, Reprioritize(u.ref) PROVE FateInv'
  BY <1>4, FateReprioritize
<1>5. CASE Drain
  BY <1>5, FateDrain
<1>6. CASE StartExploration
  BY <1>6, FateUnchanged DEF StartExploration
<1>7. CASE ProduceDiscoveryRecord
  BY <1>7, FateUnchanged DEF ProduceDiscoveryRecord
<1>8. CASE UNCHANGED vars
  BY <1>8, FateUnchanged DEF vars
<1>. QED BY <1>1, <1>2, <1>3, <1>4, <1>5, <1>6, <1>7, <1>8 DEF Next

\* OneFate is what FateInv makes of the set and the stream together.
LEMMA FateImplies == TypeOK /\ FateInv => OneFate
<1>. SUFFICES ASSUME TypeOK, FateInv PROVE OneFate
  OBVIOUS
<1>1. ExactlyOne(prioritySet, stream, heterogeneityView.admitted)
  BY FateIs, FateIsOne DEF TypeOK
<1>. QED BY <1>1 DEF OneFate, ExactlyOne, Distinct

\* Every admission has exactly one fate, whatever order admissions, moves to
\* the front, flips and drains come in: it is queued once and open, or gone
\* and answered by one final verdict.
THEOREM FateCorrect == Spec => []OneFate
<1>1. TypeOK /\ FateInv /\ [Next]_vars => FateInv'
  BY FateStep
<1>. QED BY <1>1, FateInit, FateImplies, TypeCorrect, PTL DEF Spec

\* The verdicts of one admission climb the ladder one rung at a time.
THEOREM ClimbCorrect == Spec => []VerdictsClimb
<1>1. FateInv => VerdictsClimb
  BY DEF FateInv
<1>. QED BY <1>1, FateInit, FateStep, TypeCorrect, PTL DEF Spec

-----------------------------------------------------------------------------
(***************************************************************************)
(* The order of the set, an action property: what OrderKept says of a step.*)
(***************************************************************************)
KeepsOrder ==
  \A i1, i2 \in DOMAIN prioritySet : \A j1, j2 \in DOMAIN prioritySet' :
    (/\ i1 < i2
     /\ prioritySet[i1].ticket = prioritySet'[j1].ticket
     /\ prioritySet[i2].ticket = prioritySet'[j2].ticket)
    => j1 < j2 \/ j2 = 1 \/ prioritySet'[j1].ladder > prioritySet[i1].ladder

\* No step takes a unit past another, unless it climbed or was put in front.
LEMMA OrderStep == TypeOK /\ FateInv /\ [Next]_vars => KeepsOrder
<1>. SUFFICES ASSUME TypeOK, FateInv, [Next]_vars,
                     NEW i1 \in DOMAIN prioritySet, NEW i2 \in DOMAIN prioritySet,
                     NEW j1 \in DOMAIN prioritySet', NEW j2 \in DOMAIN prioritySet',
                     i1 < i2, j2 # 1,
                     prioritySet[i1].ticket = prioritySet'[j1].ticket,
                     prioritySet[i2].ticket = prioritySet'[j2].ticket
              PROVE  j1 < j2 \/ prioritySet'[j1].ladder > prioritySet[i1].ladder
  BY DEF KeepsOrder
<1> DEFINE s == prioritySet
<1>1. /\ s \in Seq(Entries) /\ DOMAIN s = 1 .. Len(s) /\ Len(s) \in Nat
      /\ \A i \in DOMAIN s : s[i] \in Entries /\ s[i].ticket \in 1 .. heterogeneityView.admitted
      /\ \A i, j \in DOMAIN s : s[i].ticket = s[j].ticket => i = j
      /\ heterogeneityView.admitted \in Nat
  BY DEF TypeOK, FateInv, TicketsIssued, QueuedOnce
<1>2. CASE UNCHANGED prioritySet
  BY <1>1, <1>2
<1>3. ASSUME NEW u \in Units, Admit(u) PROVE j1 < j2
  <2>1. /\ prioritySet' = Append(s, AdmitEntry(u))
        /\ AdmitEntry(u).ticket \notin 1 .. heterogeneityView.admitted
    BY <1>1, <1>3 DEF Admit, AdmitEntry
  <2> HIDE DEF s
  <2>2. \A j \in DOMAIN prioritySet' :
          \/ j \in DOMAIN s /\ prioritySet'[j] = s[j]
          \/ prioritySet'[j] = AdmitEntry(u)
    BY <1>1, <2>1
  <2>3. j1 = i1 /\ j2 = i2
    BY <1>1, <2>1, <2>2 DEF s
  <2>. QED BY <2>3
<1>4. ASSUME NEW u \in Units, Reprioritize(u.ref) PROVE j1 < j2
  <2>1. PICK i \in DOMAIN s : prioritySet' = MoveToFront(s, i)
    BY <1>4 DEF Reprioritize
  <2>2. /\ j1 \in DOMAIN s /\ j2 \in DOMAIN s
        /\ Source(i, j1) \in DOMAIN s /\ prioritySet'[j1] = s[Source(i, j1)]
        /\ Source(i, j2) \in DOMAIN s /\ prioritySet'[j2] = s[Source(i, j2)]
    BY <1>1, <2>1, MoveToFrontShape
  <2>3. Source(i, j1) = i1 /\ Source(i, j2) = i2
    BY <1>1, <2>2
  <2>. QED BY <1>1, <2>2, <2>3 DEF Source
<1>5. CASE Drain
  <2>1. /\ s # <<>>
        /\ \/ prioritySet' = Tail(s)
           \/ prioritySet' = Append(Tail(s), OneBindingUp(s[1]))
    BY <1>5, DrainShape
  <2>2. /\ OneBindingUp(s[1]).ticket = s[1].ticket /\ s[1].ladder \in Nat
        /\ OneBindingUp(s[1]).ladder = s[1].ladder + 1
    <3>1. s[1] \in Entries
      BY <1>1, <2>1
    <3>. QED BY <3>1 DEF OneBindingUp, Entries
  <2> HIDE DEF s
  <2>3. /\ Tail(s) \in Seq(Entries) /\ DOMAIN Tail(s) = 1 .. Len(s) - 1 /\ Len(s) > 0 /\ 1 \in DOMAIN s
        /\ \A j \in DOMAIN Tail(s) : j + 1 \in DOMAIN s /\ Tail(s)[j] = s[j + 1]
    BY <1>1, <2>1
  <2>4. ASSUME NEW j \in DOMAIN prioritySet', NEW i \in DOMAIN s, s[i].ticket = prioritySet'[j].ticket
        PROVE  i = j + 1 \/ (i = 1 /\ prioritySet'[j] = OneBindingUp(s[1]))
    <3>1. \/ j \in DOMAIN Tail(s) /\ prioritySet'[j] = Tail(s)[j]
          \/ prioritySet'[j] = OneBindingUp(s[1])
      BY <2>1, <2>3
    <3>. QED BY <1>1, <2>2, <2>3, <2>4, <3>1
  <2>5. i1 = j1 + 1 \/ (i1 = 1 /\ prioritySet'[j1] = OneBindingUp(s[1]))
    BY <2>4 DEF s
  <2>6. i2 = j2 + 1
    BY <1>1, <2>4 DEF s
  <2>7. j1 \in Int /\ j2 \in Int
    BY <1>1, <2>1, <2>3
  <2>. QED BY <1>1, <2>2, <2>5, <2>6, <2>7 DEF s
<1>6. ASSUME NEW u \in Units, Reject(u) PROVE UNCHANGED prioritySet
  BY <1>6 DEF Reject
<1>7. (\E m \in Modes : ThrowSwitch(m)) \/ StartExploration \/ ProduceDiscoveryRecord \/ UNCHANGED vars
        => UNCHANGED prioritySet
  BY DEF ThrowSwitch, StartExploration, ProduceDiscoveryRecord, vars
<1>. QED BY <1>2, <1>3, <1>4, <1>5, <1>6, <1>7 DEF Next

\* Queued units keep their relative order over every step: only a unit moved
\* to the front overtakes, and only a unit that escalated falls behind.
THEOREM OrderCorrect == Spec => OrderKept
<1>1. TypeOK /\ FateInv /\ [Next]_vars => [KeepsOrder]_vars
  BY OrderStep
<1>2. [](TypeOK /\ FateInv) /\ [][Next]_vars => [][KeepsOrder]_vars
  BY <1>1, PTL
<1>3. Spec => [](TypeOK /\ FateInv)
  BY FateInit, FateStep, TypeCorrect, PTL DEF Spec
<1>. QED BY <1>2, <1>3, PTL DEF Spec, OrderKept, KeepsOrder
=============================================================================
