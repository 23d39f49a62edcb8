--------------------------- MODULE StateFileProofs ---------------------------
(***************************************************************************)
(* Proofs about StateFile for any processes, units, builds, bounds and     *)
(* faults.  Every engine a command holds or the file keeps is sound: the   *)
(* methods of Engine, as functions of a saved record, keep it so, whether  *)
(* the copy they work on is still what the file says or not.               *)
(***************************************************************************)
EXTENDS StateFile, FateProofs, FiniteSetTheorems

Modes == {"off", "queue", "explorer"}

Hashes == {u.hash : u \in Units}

Entries == [unit : Units, ladder : Nat, tier : Tiers, ticket : Nat]

\* What kiln run's walk and kiln serve's worker make of the cells of a unit.
ResultsFor(u) ==
  {WalkCells(u.cells, pass) : pass \in SUBSET DOMAIN u.cells}
  \cup {Results(u.cells, CellIds(u.cells), oracle) : oracle \in BOOLEAN}

Events ==
  [id : {u.ref : u \in Units} \X Nat, hash : Hashes,
   verdict : {"accepted", "escalate", "not-admitted"},
   missing : {MissingFor(m, u) : m \in Manifests, u \in Units} \cup {{}},
   tierRan : Tiers \cup {"none"}, results : {<<>>} \cup UNION {ResultsFor(u) : u \in Units},
   next : {"advance", "halt", "escalate"}, ticket : Nat]

Engines ==
  [torn : {FALSE}, mode : Modes, prioritySet : Seq(Entries), stream : Seq(Events),
   priorityView : Nat, heterogeneityView : [admitted : Nat, rejected : Nat], emitted : Nat,
   utilization : [mode : Modes, inFlight : {0}, exploring : BOOLEAN, discoveries : Nat],
   seq : Nat, manifest : Manifests]

\* The views tell the set and the stream, and each admission has one fate.
Sound(e) ==
  /\ e \in Engines
  /\ e.priorityView = Len(e.prioritySet)
  /\ e.emitted = Len(e.stream) /\ e.seq = Len(e.stream)
  /\ e.utilization.mode = e.mode
  /\ Fate(e.prioritySet, e.stream, e.heterogeneityView.admitted, e.manifest)

\* What load cannot parse, and takes for the default engine.
Unparsed == {NoState, Garbled}

\* Both are told by the flag, and from each other.
LEMMA UnparsedFiles == (\A f \in Unparsed : f.torn) /\ NoState # Garbled
<1>1. DOMAIN NoState = {"torn"} /\ DOMAIN Garbled = {"torn", "bytes"}
  BY DEF NoState, Garbled
<1>. QED BY <1>1 DEF Unparsed, NoState, Garbled

-----------------------------------------------------------------------------
(***************************************************************************)
(* What the methods do to a sound engine.                                  *)
(***************************************************************************)

\* The fields of an engine, and their types.
LEMMA EngineFields ==
  ASSUME NEW e, Sound(e)
  PROVE  /\ e \notin Unparsed /\ ~ e.torn
         /\ e.mode \in Modes /\ e.manifest \in Manifests
         /\ e.prioritySet \in Seq(Entries) /\ e.stream \in Seq(Events)
         /\ e.priorityView \in Nat /\ e.emitted \in Nat /\ e.seq \in Nat
         /\ e.heterogeneityView \in [admitted : Nat, rejected : Nat]
         /\ e.utilization \in [mode : Modes, inFlight : {0}, exploring : BOOLEAN, discoveries : Nat]
         /\ DOMAIN e = DOMAIN Fresh(build)
<1>1. e \in Engines
  BY DEF Sound
<1>2. ~ e.torn /\ e \notin Unparsed
  BY <1>1, UnparsedFiles DEF Engines
<1> DEFINE SE == Seq(Entries)
           SV == Seq(Events)
<1>3. Engines =
        [torn : {FALSE}, mode : Modes, prioritySet : SE, stream : SV,
         priorityView : Nat, heterogeneityView : [admitted : Nat, rejected : Nat], emitted : Nat,
         utilization : [mode : Modes, inFlight : {0}, exploring : BOOLEAN, discoveries : Nat],
         seq : Nat, manifest : Manifests]
  BY DEF Engines
<1> HIDE DEF SE, SV
<1>4. DOMAIN e = DOMAIN Fresh(build)
  BY <1>1, <1>3 DEF Fresh
<1>. QED BY <1>1, <1>2, <1>3, <1>4 DEF SE, SV

\* A fresh engine is sound.
LEMMA FreshSound ==
  ASSUME NEW m \in Manifests
  PROVE  /\ Sound(Fresh(m)) /\ ~ Fresh(m).utilization.exploring
         /\ Fresh(m).mode = "off" /\ Fresh(m).stream = <<>> /\ Fresh(m).manifest = m
         /\ Fresh(m).heterogeneityView = [admitted |-> 0, rejected |-> 0]
         /\ Fresh(m).utilization.discoveries = 0
<1>1. <<>> \in Seq(Entries) /\ <<>> \in Seq(Events)
  OBVIOUS
<1> DEFINE SE == Seq(Entries)
           SV == Seq(Events)
<1>2. Fresh(m) \in Engines
  <2>1. Engines =
        [torn : {FALSE}, mode : Modes, prioritySet : SE, stream : SV,
         priorityView : Nat, heterogeneityView : [admitted : Nat, rejected : Nat], emitted : Nat,
         utilization : [mode : Modes, inFlight : {0}, exploring : BOOLEAN, discoveries : Nat],
         seq : Nat, manifest : Manifests]
    BY DEF Engines
  <2> HIDE DEF SE, SV
  <2>2. <<>> \in SE /\ <<>> \in SV
    BY <1>1 DEF SE, SV
  <2>. QED BY <2>1, <2>2 DEF Fresh, Modes
<1>3. Fate(<<>>, <<>>, 0, m)
  BY DEF Fate, Issued, Distinct, AllOpen, Accounted, Climbs
<1>. QED BY <1>2, <1>3 DEF Fresh, Sound

\* An engine with other fields: how each method's record is typed.
LEMMA EngineEdits ==
  ASSUME NEW e, e \in Engines
  PROVE  /\ \A u \in [mode : Modes, inFlight : {0}, exploring : BOOLEAN, discoveries : Nat] :
              [e EXCEPT !.utilization = u] \in Engines
         /\ \A m \in Modes : [e EXCEPT !.mode = m] \in Engines
         /\ \A h \in [admitted : Nat, rejected : Nat] : [e EXCEPT !.heterogeneityView = h] \in Engines
         /\ \A q \in Seq(Entries), n \in Nat :
              [e EXCEPT !.prioritySet = q, !.priorityView = n] \in Engines
         /\ \A t \in Seq(Events), k, n \in Nat :
              [e EXCEPT !.seq = k, !.emitted = n, !.stream = t] \in Engines
<1> DEFINE SE == Seq(Entries)
           SV == Seq(Events)
           U  == [mode : Modes, inFlight : {0}, exploring : BOOLEAN, discoveries : Nat]
           H  == [admitted : Nat, rejected : Nat]
<1>1. Engines = [torn : {FALSE}, mode : Modes, prioritySet : SE, stream : SV, priorityView : Nat,
                 heterogeneityView : H, emitted : Nat, utilization : U, seq : Nat,
                 manifest : Manifests]
  BY DEF Engines
<1> HIDE DEF SE, SV, U, H
<1>2. \A u \in U : [e EXCEPT !.utilization = u] \in Engines
  BY <1>1
<1>3. \A m \in Modes : [e EXCEPT !.mode = m] \in Engines
  BY <1>1
<1>4. \A h \in H : [e EXCEPT !.heterogeneityView = h] \in Engines
  BY <1>1
<1>5. \A q \in SE, n \in Nat : [e EXCEPT !.prioritySet = q, !.priorityView = n] \in Engines
  BY <1>1
<1>6. \A t \in SV, k, n \in Nat : [e EXCEPT !.seq = k, !.emitted = n, !.stream = t] \in Engines
  BY <1>1
<1>. QED BY <1>2, <1>3, <1>4, <1>5, <1>6 DEF SE, SV, U, H

\* Nothing Sound reads changes, or mode and its copy change together.
LEMMA SoundSame ==
  ASSUME NEW e, Sound(e), NEW f \in Engines,
         f.prioritySet = e.prioritySet, f.stream = e.stream, f.priorityView = e.priorityView,
         f.emitted = e.emitted, f.seq = e.seq, f.manifest = e.manifest,
         f.heterogeneityView.admitted = e.heterogeneityView.admitted,
         f.utilization.mode = f.mode
  PROVE  Sound(f)
BY DEF Sound

\* A thrown switch keeps an engine sound.
LEMMA FlippedSound ==
  ASSUME NEW e, Sound(e), NEW m \in Modes
  PROVE  LET f == Flipped(e, m)
         IN  /\ Sound(f)
             /\ f.mode = m /\ f.utilization = [e.utilization EXCEPT !.mode = m]
             /\ f.prioritySet = e.prioritySet /\ f.stream = e.stream
             /\ f.priorityView = e.priorityView /\ f.heterogeneityView = e.heterogeneityView
             /\ f.emitted = e.emitted /\ f.seq = e.seq /\ f.manifest = e.manifest
<1> DEFINE g == [e EXCEPT !.mode = m]
           u == [e.utilization EXCEPT !.mode = m]
           f == [g EXCEPT !.utilization = u]
<1>1. e \in Engines /\ u \in [mode : Modes, inFlight : {0}, exploring : BOOLEAN, discoveries : Nat]
  BY EngineFields DEF Sound
<1>2. g \in Engines
  BY <1>1, EngineEdits
<1>3. f \in Engines
  BY <1>1, <1>2, EngineEdits
<1>4. Flipped(e, m) = f
  BY <1>1 DEF Flipped, Engines
<1>5. u.mode = m
  BY EngineFields
<1> HIDE DEF u
<1>6. /\ f.mode = m /\ f.utilization = u
      /\ f.prioritySet = e.prioritySet /\ f.stream = e.stream
      /\ f.priorityView = e.priorityView /\ f.heterogeneityView = e.heterogeneityView
      /\ f.emitted = e.emitted /\ f.seq = e.seq /\ f.manifest = e.manifest
  BY <1>1 DEF Engines
<1> HIDE DEF f
<1>7. Sound(f)
  BY <1>3, <1>5, <1>6, SoundSame
<1>. QED BY <1>4, <1>6, <1>7 DEF u

\* Sessions start and end; only cmd_explore's copy is touched.
LEMMA SessionSound ==
  ASSUME NEW e, Sound(e), NEW u, u \in [mode : Modes, inFlight : {0}, exploring : BOOLEAN, discoveries : Nat],
         u.mode = e.utilization.mode
  PROVE  LET f == [e EXCEPT !.utilization = u]
         IN  /\ Sound(f)
             /\ f.utilization = u /\ f.mode = e.mode
             /\ f.prioritySet = e.prioritySet /\ f.stream = e.stream
             /\ f.priorityView = e.priorityView /\ f.heterogeneityView = e.heterogeneityView
             /\ f.emitted = e.emitted /\ f.seq = e.seq /\ f.manifest = e.manifest
<1> DEFINE f == [e EXCEPT !.utilization = u]
<1>1. e \in Engines /\ e.utilization.mode = e.mode
  BY DEF Sound
<1>2. f \in Engines
  BY <1>1, EngineEdits
<1>3. /\ f.utilization = u /\ f.mode = e.mode
      /\ f.prioritySet = e.prioritySet /\ f.stream = e.stream
      /\ f.priorityView = e.priorityView /\ f.heterogeneityView = e.heterogeneityView
      /\ f.emitted = e.emitted /\ f.seq = e.seq /\ f.manifest = e.manifest
  BY <1>1 DEF Engines
<1> HIDE DEF f
<1>4. Sound(f)
  BY <1>1, <1>2, <1>3, SoundSame
<1>. QED BY <1>3, <1>4 DEF f

\* A refused unit keeps an engine sound.
LEMMA RefusedSound ==
  ASSUME NEW e, Sound(e)
  PROVE  LET f == Refused(e)
         IN  /\ Sound(f)
             /\ f.heterogeneityView = [e.heterogeneityView EXCEPT !.rejected = @ + 1]
             /\ f.mode = e.mode /\ f.utilization = e.utilization
             /\ f.prioritySet = e.prioritySet /\ f.stream = e.stream
             /\ f.priorityView = e.priorityView
             /\ f.emitted = e.emitted /\ f.seq = e.seq /\ f.manifest = e.manifest
<1> DEFINE h == [e.heterogeneityView EXCEPT !.rejected = @ + 1]
           f == [e EXCEPT !.heterogeneityView = h]
<1>1. e \in Engines /\ h \in [admitted : Nat, rejected : Nat]
  BY EngineFields DEF Sound
<1>2. h.admitted = e.heterogeneityView.admitted
  BY EngineFields
<1>3. Refused(e) = f
  BY <1>1 DEF Refused, Engines
<1> HIDE DEF h
<1>4. f \in Engines
  BY <1>1, EngineEdits
<1>5. /\ f.heterogeneityView = h
      /\ f.mode = e.mode /\ f.utilization = e.utilization
      /\ f.prioritySet = e.prioritySet /\ f.stream = e.stream
      /\ f.priorityView = e.priorityView
      /\ f.emitted = e.emitted /\ f.seq = e.seq /\ f.manifest = e.manifest
  BY <1>1 DEF Engines
<1> HIDE DEF f
<1>6. Sound(f)
  BY <1>2, <1>4, <1>5, SoundSame DEF Sound
<1>. QED BY <1>3, <1>5, <1>6 DEF h

\* The queue entry of an admission.
EntryOf(e, u) ==
  [unit |-> u, ladder |-> u.ladder, tier |-> u.tier, ticket |-> e.heterogeneityView.admitted + 1]

\* An enqueued unit keeps an engine sound.
LEMMA EnqueuedSound ==
  ASSUME NEW e, Sound(e), NEW u \in Units
  PROVE  LET f == Enqueued(e, u)
         IN  /\ Sound(f)
             /\ f.prioritySet = Append(e.prioritySet, EntryOf(e, u))
             /\ f.priorityView = e.priorityView + 1
             /\ f.heterogeneityView = [e.heterogeneityView EXCEPT !.admitted = @ + 1]
             /\ f.heterogeneityView.admitted = e.heterogeneityView.admitted + 1
             /\ f.heterogeneityView.rejected = e.heterogeneityView.rejected
             /\ f.mode = e.mode /\ f.utilization = e.utilization /\ f.stream = e.stream
             /\ f.emitted = e.emitted /\ f.seq = e.seq /\ f.manifest = e.manifest
<1> DEFINE h == [e.heterogeneityView EXCEPT !.admitted = @ + 1]
           x == EntryOf(e, u)
           q == Append(e.prioritySet, x)
           g == [e EXCEPT !.prioritySet = q, !.priorityView = e.priorityView + 1]
           f == [g EXCEPT !.heterogeneityView = h]
<1>1. /\ e \in Engines /\ h \in [admitted : Nat, rejected : Nat] /\ e.priorityView \in Nat
      /\ h.admitted = e.heterogeneityView.admitted + 1 /\ e.heterogeneityView.admitted \in Nat
      /\ h.rejected = e.heterogeneityView.rejected
      /\ e.prioritySet \in Seq(Entries)
      /\ Fate(e.prioritySet, e.stream, e.heterogeneityView.admitted, e.manifest)
      /\ e.priorityView = Len(e.prioritySet)
  BY EngineFields DEF Sound
<1>2. x \in Entries /\ x.ticket = e.heterogeneityView.admitted + 1
  BY <1>1, StateFileAssumption DEF StateFileAssumption, EntryOf, Entries
<1>3. Enqueued(e, u) = f
  BY <1>1 DEF Enqueued, EntryOf, Engines
<1> HIDE DEF h, x
<1>4. q \in Seq(Entries) /\ Len(q) = e.priorityView + 1
  BY <1>1, <1>2
<1>5. Fate(q, e.stream, h.admitted, e.manifest)
  BY <1>1, <1>2, FateQueued
<1> HIDE DEF q
<1>6. g \in Engines
  <2>1. e.priorityView + 1 \in Nat
    BY <1>1
  <2>2. \A r \in Seq(Entries), n \in Nat : [e EXCEPT !.prioritySet = r, !.priorityView = n] \in Engines
    BY <1>1, EngineEdits
  <2>. QED BY <1>4, <2>1, <2>2
<1>7. f \in Engines
  BY <1>1, <1>6, EngineEdits
<1>8. /\ f.prioritySet = q /\ f.priorityView = e.priorityView + 1 /\ f.heterogeneityView = h
      /\ f.mode = e.mode /\ f.utilization = e.utilization /\ f.stream = e.stream
      /\ f.emitted = e.emitted /\ f.seq = e.seq /\ f.manifest = e.manifest
  BY <1>1 DEF Engines
<1> HIDE DEF f
<1>9. Sound(f)
  BY <1>4, <1>5, <1>7, <1>8 DEF Sound
<1>. QED BY <1>1, <1>3, <1>8, <1>9 DEF q, h, x
-----------------------------------------------------------------------------
(***************************************************************************)
(* One drain.                                                              *)
(***************************************************************************)

\* The engines one turn of the loop may leave, as in Drain.
Outcomes(e, cmd) ==
  LET x == Head(e.prioritySet)
  IN  IF MissingFor(e.manifest, x.unit) # {} THEN {AnsweredNotAdmitted(e)}
      ELSE IF cmd = "run" THEN {Ran(e, WalkCells(x.unit.cells, DOMAIN x.unit.cells))}
      ELSE {Ran(e, Results(x.unit.cells, CellIds(x.unit.cells), oracle)) : oracle \in BOOLEAN}

\* The event a drain of x pushes on the stream of e.
EventOf(e, x, verdict, missing, tierRan, results) ==
  [id |-> <<x.unit.ref, e.seq + 1>>, hash |-> x.unit.hash, verdict |-> verdict,
   missing |-> missing, tierRan |-> tierRan, results |-> results,
   next |-> ConsequenceOf(verdict), ticket |-> x.ticket]

\* after is e with its front entry drained: answered by ev, and queued again or not.
Drained(e, after, ev, again) ==
  /\ after.prioritySet = Requeued(e.prioritySet, again)
  /\ after.priorityView = IF again THEN e.priorityView ELSE e.priorityView - 1
  /\ after.stream = Append(e.stream, ev)
  /\ after.emitted = e.emitted + 1 /\ after.seq = e.seq + 1
  /\ after.mode = e.mode /\ after.utilization = e.utilization
  /\ after.heterogeneityView = e.heterogeneityView /\ after.manifest = e.manifest
  /\ ev \in Events
  /\ ev.hash = Head(e.prioritySet).unit.hash
  /\ ev.missing = MissingFor(e.manifest, Head(e.prioritySet).unit)

\* An engine whose front entry x is answered by a well-typed event that tells
\* whether x is queued again.
LEMMA AnsweredSound ==
  ASSUME NEW e, Sound(e), e.prioritySet # <<>>, NEW again \in BOOLEAN, NEW ev \in Events,
         ev.ticket = Head(e.prioritySet).ticket,
         \/ MissingFor(e.manifest, Head(e.prioritySet).unit) # {}
         \/ Head(e.prioritySet).ladder = 0
         \/ ev.tierRan = "heavy",
         ~ again => Final(ev),
         again => /\ ev.verdict = "escalate" /\ ev.tierRan = "light"
                  /\ MissingFor(e.manifest, Head(e.prioritySet).unit) = {},
         ev.hash = Head(e.prioritySet).unit.hash,
         ev.missing = MissingFor(e.manifest, Head(e.prioritySet).unit),
         NEW after,
         after = [[e EXCEPT !.seq = e.seq + 1, !.emitted = e.emitted + 1,
                            !.stream = Append(e.stream, ev)]
                    EXCEPT !.prioritySet = Requeued(e.prioritySet, again),
                           !.priorityView = IF again THEN e.priorityView ELSE e.priorityView - 1]
  PROVE  Sound(after) /\ Drained(e, after, ev, again)
<1> DEFINE s == e.prioritySet
           t == Append(e.stream, ev)
           r == Requeued(s, again)
           n == IF again THEN e.priorityView ELSE e.priorityView - 1
           g == [e EXCEPT !.seq = e.seq + 1, !.emitted = e.emitted + 1, !.stream = t]
           f == [g EXCEPT !.prioritySet = r, !.priorityView = n]
<1>1. /\ e \in Engines /\ s \in Seq(Entries) /\ e.stream \in Seq(Events)
      /\ e.priorityView = Len(s) /\ e.seq = Len(e.stream) /\ e.emitted = Len(e.stream)
      /\ e.seq \in Nat /\ e.emitted \in Nat
      /\ e.heterogeneityView.admitted \in Nat
      /\ Fate(s, e.stream, e.heterogeneityView.admitted, e.manifest)
      /\ e.utilization.mode = e.mode
  BY EngineFields DEF Sound
<1>2. Head(s) = s[1] /\ s[1] \in Entries /\ s[1].ladder \in Nat
  <2>1. Head(s) = s[1] /\ s[1] \in Entries
    BY <1>1
  <2>. QED BY <2>1 DEF Entries
<1>3. Fate(r, t, e.heterogeneityView.admitted, e.manifest)
  BY <1>1, <1>2, FateDrained
<1>4. r \in Seq(Entries) /\ n = Len(r) /\ n \in Nat
  <2> DEFINE rest == Tail(s)
             up   == OneBindingUp(s[1])
  <2>1. rest \in Seq(Entries) /\ Len(rest) = Len(s) - 1 /\ Len(s) \in Nat
    BY <1>1
  <2>2. up \in Entries
    BY <1>2 DEF Entries, Tiers, OneBindingUp
  <2>3. r = IF again THEN Append(rest, up) ELSE rest
    BY DEF Requeued
  <2> HIDE DEF rest, up, r
  <2>. QED BY <1>1, <2>1, <2>2, <2>3
<1>5. t \in Seq(Events) /\ Len(t) = Len(e.stream) + 1 /\ e.seq + 1 \in Nat /\ e.emitted + 1 \in Nat
  BY <1>1
<1> HIDE DEF t, r, n
<1>6. g \in Engines
  <2>1. \A x \in Seq(Events), k, l \in Nat : [e EXCEPT !.seq = k, !.emitted = l, !.stream = x] \in Engines
    BY <1>1, EngineEdits
  <2>. QED BY <1>5, <2>1
<1>7. f \in Engines
  <2> HIDE DEF g
  <2>1. \A x \in Seq(Entries), k \in Nat : [g EXCEPT !.prioritySet = x, !.priorityView = k] \in Engines
    BY <1>6, EngineEdits
  <2>. QED BY <1>4, <2>1
<1>8. /\ f.prioritySet = r /\ f.priorityView = n /\ f.stream = t
      /\ f.emitted = e.emitted + 1 /\ f.seq = e.seq + 1
      /\ f.mode = e.mode /\ f.utilization = e.utilization
      /\ f.heterogeneityView = e.heterogeneityView /\ f.manifest = e.manifest
  BY <1>1 DEF Engines
<1>9. after = f
  BY DEF t, r, n
<1> HIDE DEF f, g
<1>10. Sound(f)
  BY <1>1, <1>3, <1>4, <1>5, <1>7, <1>8 DEF Sound
<1>11. Drained(e, f, ev, again)
  BY <1>8 DEF Drained, r, n, t
<1>. QED BY <1>9, <1>10, <1>11

\* A drained unit keeps an engine sound.
LEMMA DrainSound ==
  ASSUME NEW e, Sound(e), e.prioritySet # <<>>, NEW cmd, NEW after \in Outcomes(e, cmd)
  PROVE  \E ev \in Events, again \in BOOLEAN : Sound(after) /\ Drained(e, after, ev, again)
<1> DEFINE x == Head(e.prioritySet)
           missing == MissingFor(e.manifest, x.unit)
<1>1. /\ e \in Engines /\ e.prioritySet \in Seq(Entries) /\ e.seq \in Nat /\ e.manifest \in Manifests
      /\ e.priorityView \in Nat
  BY EngineFields DEF Sound
<1>2. x \in Entries
  BY <1>1
<1>3. /\ x.unit \in Units /\ x.ladder \in Nat /\ x.ticket \in Nat
      /\ <<x.unit.ref, e.seq + 1>> \in {u.ref : u \in Units} \X Nat
      /\ x.unit.hash \in Hashes
      /\ missing \in {MissingFor(m, u) : m \in Manifests, u \in Units} \cup {{}}
  BY <1>1, <1>2 DEF Entries, Hashes
<1>4. x = e.prioritySet[1]
  BY <1>1
<1>5. CASE missing # {}
  <2> DEFINE ev == EventOf(e, x, "not-admitted", missing, "none", <<>>)
  <2>1. ev \in Events
    <3>1. ConsequenceOf("not-admitted") = "halt"
      BY DEF ConsequenceOf
    <3> HIDE DEF missing, x
    <3>. QED BY <1>3, <3>1 DEF EventOf, Events
  <2>2. ev.ticket = x.ticket /\ ev.hash = x.unit.hash /\ ev.missing = missing /\ Final(ev)
    BY DEF EventOf, Final
  <2>3. after = [[e EXCEPT !.seq = e.seq + 1, !.emitted = e.emitted + 1,
                           !.stream = Append(e.stream, ev)]
                    EXCEPT !.prioritySet = Requeued(e.prioritySet, FALSE),
                           !.priorityView = IF FALSE THEN e.priorityView ELSE e.priorityView - 1]
    BY <1>1, <1>5 DEF Outcomes, AnsweredNotAdmitted, Emitted, EventOf, Requeued, Engines
  <2> HIDE DEF ev
  <2>. QED BY <1>5, <2>1, <2>2, <2>3, AnsweredSound
<1>6. ASSUME missing = {}, NEW results \in ResultsFor(x.unit), after = Ran(e, results)
      PROVE  \E ev \in Events, again \in BOOLEAN : Sound(after) /\ Drained(e, after, ev, again)
  <2> DEFINE v     == ReduceVerdict(results)
             ev    == EventOf(e, x, v, {}, TierRan(x), results)
             again == v # "accepted" /\ HasHeadroom(x)
  <2>1. v \in {"accepted", "escalate"} /\ ConsequenceOf(v) \in {"advance", "halt", "escalate"}
    BY DEF ReduceVerdict, ConsequenceOf
  <2>2. /\ TierRan(x) \in {"light", "heavy"} /\ (TierRan(x) = "light" <=> x.ladder = 0)
        /\ HasHeadroom(x) <=> x.ladder = 0
    BY <1>3 DEF TierRan, HasHeadroom, MAX_LADDER
  <2>3. again \in BOOLEAN
    OBVIOUS
  <2>4. ev \in Events
    <3>1. results \in UNION {ResultsFor(u) : u \in Units}
      BY <1>3, <1>6
    <3> HIDE DEF v, x
    <3>. QED BY <1>3, <2>1, <2>2, <3>1 DEF EventOf, Events, Tiers
  <2>5. /\ ev.ticket = x.ticket /\ ev.hash = x.unit.hash /\ ev.missing = {}
        /\ ev.verdict = v /\ ev.tierRan = TierRan(x)
    BY DEF EventOf
  <2>6. after = [[e EXCEPT !.seq = e.seq + 1, !.emitted = e.emitted + 1,
                           !.stream = Append(e.stream, ev)]
                    EXCEPT !.prioritySet = Requeued(e.prioritySet, again),
                           !.priorityView = IF again THEN e.priorityView ELSE e.priorityView - 1]
    BY <1>1, <1>4, <1>6 DEF Ran, Emitted, EventOf, Requeued, Engines
  <2>7. ~ again => Final(ev)
    BY <2>1, <2>2, <2>5 DEF Final
  <2>8. again => ev.verdict = "escalate" /\ ev.tierRan = "light" /\ missing = {}
    BY <1>6, <2>1, <2>2, <2>5
  <2>9. x.ladder = 0 \/ ev.tierRan = "heavy"
    BY <2>2, <2>5
  <2> HIDE DEF ev, again, v
  <2>. QED BY <1>6, <2>3, <2>4, <2>5, <2>6, <2>7, <2>8, <2>9, AnsweredSound
<1>7. CASE missing = {} /\ cmd = "run"
  <2>1. after = Ran(e, WalkCells(x.unit.cells, DOMAIN x.unit.cells))
    BY <1>7 DEF Outcomes
  <2>2. WalkCells(x.unit.cells, DOMAIN x.unit.cells) \in ResultsFor(x.unit)
    BY DEF ResultsFor
  <2>. QED BY <1>6, <1>7, <2>1, <2>2
<1>8. CASE missing = {} /\ cmd # "run"
  <2>1. PICK oracle \in BOOLEAN :
          after = Ran(e, Results(x.unit.cells, CellIds(x.unit.cells), oracle))
    BY <1>8 DEF Outcomes
  <2>2. Results(x.unit.cells, CellIds(x.unit.cells), oracle) \in ResultsFor(x.unit)
    BY DEF ResultsFor
  <2>. QED BY <1>6, <1>8, <2>1, <2>2
<1>. QED BY <1>5, <1>7, <1>8
-----------------------------------------------------------------------------
(***************************************************************************)
(* Type correctness: every copy at work, and the file, are sound.          *)
(***************************************************************************)

Rows ==
  [cmd : {"none", "mode", "admit", "reject", "explore", "run", "serve"},
   pc : {"idle", "explore", "drain", "save", "write"}, engine : {NoState} \cup Engines,
   drained : Nat, seen : SUBSET Hashes, id : Nat]

\* A process at work on a sound copy; c commands were started.
AtWork(r, c) ==
  /\ r.pc \in {"explore", "drain", "save", "write"}
  /\ r.id \in 1 .. c
  /\ Sound(r.engine)
  /\ r.engine.utilization.exploring <=> r.pc = "explore"
  /\ r.pc = "explore" => r.cmd = "explore"
  /\ r.pc = "drain" => r.cmd \in {"run", "serve"} /\ r.engine.mode = "queue"

Held ==
  /\ proc \in [Processes -> Rows]
  /\ \A p \in Processes : proc[p] = Idle \/ AtWork(proc[p], commands)
  /\ file \in Unparsed \/ (Sound(file) /\ ~ file.utilization.exploring)
  /\ build \in Manifests /\ commands \in 0 .. MaxCommands

Recorded ==
  /\ IsFiniteSet(log)
  /\ \A l \in log : l.by \in 1 .. commands /\ l.at \in 1 .. Cardinality(log) /\ l.hash \in Hashes
  /\ done \in [admits : Nat, flip : Modes]
  /\ faults \subseteq Faults

\* A process takes row r, and no other process moves.
Moves(p, r) == r \in Rows /\ proc' = [proc EXCEPT ![p] = r]

\* A step moves one process.
LEMMA OnlyOneMoves ==
  ASSUME NEW p \in Processes, NEW r, Moves(p, r), proc \in [Processes -> Rows]
  PROVE  /\ proc' \in [Processes -> Rows] /\ proc'[p] = r
         /\ \A q \in Processes : q # p => proc'[q] = proc[q]
BY DEF Moves

\* An idle process, typed.
LEMMA IdleRow == Idle \in Rows /\ Idle.pc = "idle"
BY DEF Idle, Rows

\* What a command loads is sound.
LEMMA LoadSound ==
  ASSUME Held
  PROVE  Sound(Load) /\ ~ Load.utilization.exploring
<1>1. CASE file \in Unparsed
  BY <1>1, FreshSound, UnparsedFiles DEF Held, Load
<1>2. CASE Sound(file) /\ ~ file.utilization.exploring
  BY <1>2, EngineFields DEF Load
<1>. QED BY <1>1, <1>2 DEF Held

\* What a command that starts makes of the engine e it loads.
Began(r, e) ==
  \/ /\ r.cmd = "mode" /\ r.pc = "save"
     /\ \E m \in {"queue", "explorer"} : e.mode # m /\ r.engine = Flipped(e, m)
  \/ /\ r.cmd = "admit" /\ r.pc = "save"
     /\ \E u \in Units : Validate(u) = "ok" /\ r.engine = Enqueued(e, u)
  \/ /\ r.cmd = "reject" /\ r.pc = "save" /\ r.engine = Refused(e)
     /\ \E u \in Units : Validate(u) # "ok"
  \/ /\ r.cmd = "explore" /\ r.pc = "explore" /\ e.mode = "explorer"
     /\ r.engine = [e EXCEPT !.utilization = [e.utilization EXCEPT !.exploring = TRUE]]
  \/ r.cmd \in {"run", "serve"} /\ r.pc = "drain" /\ e.mode = "queue" /\ r.engine = e

\* What a step that starts a command on row r does.
Starts(p, r) ==
  /\ commands < MaxCommands /\ commands' = commands + 1
  /\ proc[p].pc = "idle"
  /\ \/ \A q \in Processes : proc[q].pc = "idle" /\ UNCHANGED faults
     \/ /\ \E q \in Processes : proc[q].pc # "idle"
        /\ faults' = faults \cup {"overlap"} /\ "overlap" \in Faults
  /\ Moves(p, r) /\ Began(r, Load)
  /\ r.id = commands + 1 /\ r.drained = 0
  /\ r.seen = IF r.cmd = "serve" THEN {l.hash : l \in log} ELSE {}
  /\ UNCHANGED <<file, build, log, done>>

Starting(p) ==
  \/ \E m \in {"queue", "explorer"} : ModeSet(p, m)
  \/ \E u \in Units : Admit(p, u)
  \/ Explore(p) \/ Run(p) \/ Serve(p)

\* The row of a process whose command begins.
LEMMA BeginShape ==
  ASSUME Held, Recorded, NEW p \in Processes, NEW cmd, NEW e, NEW pc, NEW seen,
         Begin(p, cmd, e, pc, seen), Sound(e)
  PROVE  LET r == [cmd |-> cmd, pc |-> pc, engine |-> e, drained |-> 0, seen |-> seen,
                   id |-> commands + 1]
         IN  /\ commands < MaxCommands /\ commands' = commands + 1
             /\ proc[p].pc = "idle"
             /\ \/ \A q \in Processes : proc[q].pc = "idle" /\ UNCHANGED faults
                \/ /\ \E q \in Processes : proc[q].pc # "idle"
                   /\ faults' = faults \cup {"overlap"} /\ "overlap" \in Faults
             /\ proc' = [proc EXCEPT ![p] = r]
             /\ UNCHANGED <<file, build, log, done>>
BY DEF Begin

\* Every command starts with a copy of what it loaded.
LEMMA StartShape ==
  ASSUME Held, Recorded, NEW p \in Processes, Starting(p)
  PROVE  \E r \in Rows : Starts(p, r) /\ AtWork(r, commands')
<1> DEFINE e == Load
           row(cmd, pc, f, seen) == [cmd |-> cmd, pc |-> pc, engine |-> f, drained |-> 0,
                                     seen |-> seen, id |-> commands + 1]
<1>1. Sound(e) /\ ~ e.utilization.exploring /\ commands \in Nat
  BY LoadSound DEF Held
<1>2. ASSUME NEW cmd \in {"mode", "admit", "reject", "explore", "run", "serve"},
             NEW pc \in {"explore", "drain", "save"}, NEW f, NEW seen,
             Begin(p, cmd, f, pc, seen), Sound(f), Began(row(cmd, pc, f, seen), e),
             f.utilization.exploring <=> pc = "explore",
             seen = IF cmd = "serve" THEN {l.hash : l \in log} ELSE {}
      PROVE  \E r \in Rows : Starts(p, r) /\ AtWork(r, commands')
  <2> DEFINE r == row(cmd, pc, f, seen)
  <2>1. f \in Engines /\ seen \in SUBSET Hashes
    BY <1>2 DEF Sound, Recorded
  <2>2. r \in Rows
    BY <1>1, <2>1 DEF Rows
  <2>3. /\ r.cmd = cmd /\ r.pc = pc /\ r.engine = f /\ r.drained = 0 /\ r.seen = seen
        /\ r.id = commands + 1
    OBVIOUS
  <2>4. Began(r, e)
    BY <1>2
  <2>5. pc = "drain" => cmd \in {"run", "serve"} /\ f.mode = "queue"
    BY <2>3, <2>4 DEF Began
  <2>6. pc = "explore" => cmd = "explore"
    BY <2>3, <2>4 DEF Began
  <2>7. /\ commands < MaxCommands /\ commands' = commands + 1 /\ proc[p].pc = "idle"
        /\ \/ \A q \in Processes : proc[q].pc = "idle" /\ UNCHANGED faults
           \/ /\ \E q \in Processes : proc[q].pc # "idle"
              /\ faults' = faults \cup {"overlap"} /\ "overlap" \in Faults
        /\ proc' = [proc EXCEPT ![p] = r]
        /\ UNCHANGED <<file, build, log, done>>
    BY <1>2, BeginShape
  <2> HIDE DEF r
  <2>8. Starts(p, r)
    BY <1>2, <2>2, <2>3, <2>4, <2>7 DEF Starts, Moves
  <2>9. AtWork(r, commands')
    BY <1>1, <1>2, <2>3, <2>5, <2>6, <2>7 DEF AtWork
  <2>. QED BY <2>2, <2>8, <2>9
<1>3. ASSUME NEW m \in {"queue", "explorer"}, ModeSet(p, m)
      PROVE  \E r \in Rows : Starts(p, r) /\ AtWork(r, commands')
  <2> DEFINE f == Flipped(e, m)
  <2>1. m \in Modes
    BY DEF Modes
  <2>2. Sound(f) /\ f.utilization = [e.utilization EXCEPT !.mode = m]
    BY <1>1, <2>1, FlippedSound
  <2>3. f.utilization.exploring = e.utilization.exploring
    BY <1>1, <2>2, EngineFields
  <2>4. Begin(p, "mode", f, "save", {}) /\ e.mode # m
    BY <1>3 DEF ModeSet
  <2> HIDE DEF f
  <2>5. Began(row("mode", "save", f, {}), e)
    BY <2>4 DEF Began, f
  <2>. QED BY <1>1, <1>2, <2>2, <2>3, <2>4, <2>5
<1>4. ASSUME NEW u \in Units, Admit(p, u), Validate(u) = "ok"
      PROVE  \E r \in Rows : Starts(p, r) /\ AtWork(r, commands')
  <2> DEFINE f == Enqueued(e, u)
  <2>1. Sound(f) /\ f.utilization = e.utilization
    BY <1>1, EnqueuedSound
  <2>2. Begin(p, "admit", f, "save", {})
    BY <1>4 DEF Admit
  <2> HIDE DEF f
  <2>3. Began(row("admit", "save", f, {}), e)
    BY <1>4 DEF Began, f
  <2>. QED BY <1>1, <1>2, <2>1, <2>2, <2>3
<1>5. ASSUME NEW u \in Units, Admit(p, u), Validate(u) # "ok"
      PROVE  \E r \in Rows : Starts(p, r) /\ AtWork(r, commands')
  <2> DEFINE f == Refused(e)
  <2>1. Sound(f) /\ f.utilization = e.utilization
    BY <1>1, RefusedSound
  <2>2. Begin(p, "reject", f, "save", {})
    BY <1>5 DEF Admit
  <2> HIDE DEF f
  <2>3. Began(row("reject", "save", f, {}), e)
    BY <1>5 DEF Began, f
  <2>. QED BY <1>1, <1>2, <2>1, <2>2, <2>3
<1>6. CASE Explore(p)
  <2> DEFINE u == [e.utilization EXCEPT !.exploring = TRUE]
             f == [e EXCEPT !.utilization = u]
  <2>1. /\ u \in [mode : Modes, inFlight : {0}, exploring : BOOLEAN, discoveries : Nat]
        /\ u.mode = e.utilization.mode /\ u.exploring
    BY <1>1, EngineFields
  <2> HIDE DEF u
  <2>2. Sound(f) /\ f.utilization = u
    BY <1>1, <2>1, SessionSound
  <2>3. Begin(p, "explore", f, "explore", {}) /\ e.mode = "explorer"
    BY <1>6 DEF Explore, u
  <2> HIDE DEF f
  <2>4. Began(row("explore", "explore", f, {}), e)
    BY <2>3 DEF Began, f, u
  <2>. QED BY <1>2, <2>1, <2>2, <2>3, <2>4
<1>7. CASE Run(p)
  <2>1. Begin(p, "run", e, "drain", {}) /\ Began(row("run", "drain", e, {}), e)
    BY <1>7 DEF Run, Began
  <2> HIDE DEF e
  <2>. QED BY <1>1, <1>2, <2>1
<1>8. CASE Serve(p)
  <2> DEFINE seen == {l.hash : l \in log}
  <2>1. Begin(p, "serve", e, "drain", seen) /\ Began(row("serve", "drain", e, seen), e)
    BY <1>8 DEF Serve, Began
  <2> HIDE DEF e, seen
  <2>. QED BY <1>1, <1>2, <2>1 DEF seen
<1>. QED BY <1>3, <1>4, <1>5, <1>6, <1>7, <1>8 DEF Starting
\* r is the row of p with another engine, and the same command.
SameCommand(p, r) == r.cmd = proc[p].cmd /\ r.id = proc[p].id

\* A command at work, typed.
LEMMA AtWorkRow ==
  ASSUME Held, NEW p \in Processes, proc[p].pc # "idle"
  PROVE  AtWork(proc[p], commands) /\ proc[p] \in Rows
BY IdleRow DEF Held

\* What producing leaves alone.
LEMMA ProduceShape ==
  ASSUME Held, NEW p \in Processes, Produce(p)
  PROVE  \E r \in Rows :
           LET e == proc[p].engine
           IN  /\ Moves(p, r) /\ SameCommand(p, r) /\ r.pc = "save" /\ r.seen = proc[p].seen
               /\ e.utilization.exploring
               /\ r.engine = [e EXCEPT !.utilization =
                                 [e.utilization EXCEPT !.exploring = FALSE, !.discoveries = @ + 1]]
               /\ AtWork(r, commands)
               /\ UNCHANGED <<file, build, log, commands, done, faults>>
<1> DEFINE e == proc[p].engine
           w == [e.utilization EXCEPT !.exploring = FALSE]
           u == [w EXCEPT !.discoveries = e.utilization.discoveries + 1]
           f == [e EXCEPT !.utilization = u]
           r == [[proc[p] EXCEPT !.pc = "save"] EXCEPT !.engine = f]
<1>1. proc[p].pc = "explore" /\ AtWork(proc[p], commands) /\ proc[p] \in Rows /\ Sound(e)
  BY AtWorkRow DEF Produce, AtWork
<1>2. /\ u \in [mode : Modes, inFlight : {0}, exploring : BOOLEAN, discoveries : Nat]
      /\ u.mode = e.utilization.mode /\ ~ u.exploring
  <2> DEFINE U == [mode : Modes, inFlight : {0}, exploring : BOOLEAN, discoveries : Nat]
  <2>1. e.utilization \in U /\ e.utilization.discoveries + 1 \in Nat
    BY <1>1, EngineFields
  <2>2. w \in U /\ w.mode = e.utilization.mode /\ ~ w.exploring
    BY <2>1
  <2> HIDE DEF w
  <2>. QED BY <2>1, <2>2
<1>3. u = [e.utilization EXCEPT !.exploring = FALSE, !.discoveries = @ + 1]
  <2>1. e.utilization \in [mode : Modes, inFlight : {0}, exploring : BOOLEAN, discoveries : Nat]
    BY <1>1, EngineFields
  <2>. QED BY <2>1
<1>4. proc' = [proc EXCEPT ![p] = r]
  BY <1>1 DEF Produce, Sound, Engines, Rows, Held
<1> HIDE DEF u
<1>5. Sound(f) /\ f.utilization = u
  BY <1>1, <1>2, SessionSound
<1>6. f \in Engines
  BY <1>5 DEF Sound
<1> HIDE DEF f
<1>7. r \in Rows /\ r.cmd = proc[p].cmd /\ r.id = proc[p].id /\ r.seen = proc[p].seen
      /\ r.pc = "save" /\ r.engine = f
  BY <1>1, <1>6 DEF Rows
<1> HIDE DEF r
<1>8. AtWork(r, commands)
  BY <1>1, <1>2, <1>5, <1>7 DEF AtWork
<1>9. e.utilization.exploring /\ UNCHANGED <<file, build, log, commands, done, faults>>
  BY <1>1 DEF Produce, AtWork
<1>. QED BY <1>4, <1>7, <1>8, <1>9, <1>3 DEF Moves, SameCommand, f

\* What draining leaves alone.
LEMMA DrainShape ==
  ASSUME Held, NEW p \in Processes, Drain(p)
  PROVE  /\ proc[p].pc = "drain" /\ proc[p].engine.prioritySet # <<>>
         /\ \E r \in Rows, ev \in Events, again \in BOOLEAN :
              /\ Moves(p, r) /\ SameCommand(p, r) /\ r.pc \in {"drain", "save"}
              /\ r.engine \in Outcomes(proc[p].engine, proc[p].cmd)
              /\ Drained(proc[p].engine, r.engine, ev, again)
              /\ r.seen = SeenAfter(p, ev) /\ log' = LogAfter(p, ev)
              /\ AtWork(r, commands)
              /\ UNCHANGED <<file, build, commands, done, faults>>
<1> DEFINE e == proc[p].engine
<1>1. /\ proc[p].pc = "drain" /\ AtWork(proc[p], commands) /\ proc[p] \in Rows /\ Sound(e)
      /\ e.prioritySet # <<>> /\ e.mode = "queue" /\ ~ e.utilization.exploring
      /\ proc[p].cmd \in {"run", "serve"}
  BY AtWorkRow DEF Drain, AtWork
<1>2. PICK after \in Outcomes(e, proc[p].cmd) :
        /\ proc' = [proc EXCEPT
               ![p].engine  = after,
               ![p].seen    = SeenAfter(p, Last(after.stream)),
               ![p].drained = @ + 1,
               ![p].pc      = IF proc[p].drained >= Backstop THEN "save" ELSE "drain"]
        /\ log' = LogAfter(p, Last(after.stream))
  BY DEF Drain, Outcomes
<1>3. PICK ev \in Events, again \in BOOLEAN : Sound(after) /\ Drained(e, after, ev, again)
  BY <1>1, DrainSound
<1>4. Last(after.stream) = ev
  <2>1. e.stream \in Seq(Events) /\ after.stream = Append(e.stream, ev)
    BY <1>1, <1>3, EngineFields DEF Drained
  <2>. QED BY <2>1 DEF Last
<1> DEFINE seen == SeenAfter(p, ev)
           pc   == IF proc[p].drained >= Backstop THEN "save" ELSE "drain"
           r    == [[[[proc[p] EXCEPT !.engine = after] EXCEPT !.seen = seen]
                       EXCEPT !.drained = proc[p].drained + 1] EXCEPT !.pc = pc]
<1>5. proc' = [proc EXCEPT ![p] = r]
  BY <1>1, <1>2, <1>4 DEF Rows, Held
<1>6. seen \in SUBSET Hashes /\ after \in Engines /\ pc \in {"drain", "save"}
  BY <1>1, <1>3 DEF SeenAfter, Events, Sound, Rows
<1> HIDE DEF seen, pc
<1>7. /\ r \in Rows /\ r.cmd = proc[p].cmd /\ r.id = proc[p].id /\ r.seen = seen
      /\ r.pc = pc /\ r.engine = after
  <2> DEFINE r1 == [proc[p] EXCEPT !.engine = after]
             r2 == [r1 EXCEPT !.seen = seen]
             r3 == [r2 EXCEPT !.drained = proc[p].drained + 1]
  <2>1. proc[p].drained + 1 \in Nat /\ r1 \in Rows
    BY <1>1, <1>6 DEF Rows
  <2>2. r2 \in Rows /\ r2.engine = after
    BY <1>6, <2>1 DEF Rows
  <2>3. r3 \in Rows
    BY <2>1, <2>2 DEF Rows
  <2>4. r \in Rows
    BY <1>6, <2>3 DEF Rows
  <2>. QED BY <1>1, <2>4 DEF Rows
<1> HIDE DEF r
<1>8. AtWork(r, commands)
  <2>1. after.utilization = e.utilization /\ after.mode = e.mode
    BY <1>3 DEF Drained
  <2>. QED BY <1>1, <1>3, <1>6, <1>7, <2>1 DEF AtWork
<1>9. UNCHANGED <<file, build, commands, done, faults>>
  BY DEF Drain
<1>. QED BY <1>1, <1>2, <1>3, <1>4, <1>5, <1>6, <1>7, <1>8, <1>9 DEF Moves, SameCommand, seen

\* The steps that only move a command on to its save.
LEMMA MoveOnShape ==
  ASSUME Held, NEW p \in Processes, DrainIdle(p) \/ SaveTruncate(p)
  PROVE  /\ proc[p].pc # "idle" /\ proc[p].pc # "explore"
         /\ \E r \in Rows :
              /\ Moves(p, r) /\ SameCommand(p, r) /\ r.pc \in {"save", "write"}
              /\ r.seen = proc[p].seen /\ r.engine = proc[p].engine
              /\ AtWork(r, commands)
              /\ file' = file \/ file' = NoState
              /\ UNCHANGED <<build, log, commands, done, faults>>
<1>1. /\ proc[p].pc \in {"drain", "save"} /\ AtWork(proc[p], commands) /\ proc[p] \in Rows
  BY AtWorkRow DEF DrainIdle, SaveTruncate
<1>2. PICK pc \in {"save", "write"} : proc' = [proc EXCEPT ![p].pc = pc]
  BY DEF DrainIdle, SaveTruncate
<1> DEFINE r == [proc[p] EXCEPT !.pc = pc]
<1>3. /\ proc' = [proc EXCEPT ![p] = r] /\ r \in Rows
      /\ r.cmd = proc[p].cmd /\ r.id = proc[p].id /\ r.seen = proc[p].seen
      /\ r.pc = pc /\ r.engine = proc[p].engine
  BY <1>1, <1>2 DEF Rows, Held
<1> HIDE DEF r
<1>4. AtWork(r, commands)
  BY <1>1, <1>3 DEF AtWork
<1>5. (file' = file \/ file' = NoState) /\ UNCHANGED <<build, log, commands, done, faults>>
  BY DEF DrainIdle, SaveTruncate
<1>. QED BY <1>1, <1>3, <1>4, <1>5 DEF Moves, SameCommand

\* A command ends: its copy is in the file, or what was there with it garbled,
\* or its save failed.
LEMMA FinishShape ==
  ASSUME Held, Recorded, NEW p \in Processes, SaveWrite(p) \/ SaveFails(p)
  PROVE  /\ proc[p].pc \in {"save", "write"} /\ AtWork(proc[p], commands)
         /\ Moves(p, Idle)
         /\ \/ /\ UNCHANGED faults /\ proc[p].pc = "write"
               /\ file' = proc[p].engine \/ (file' = Garbled /\ file # NoState)
            \/ /\ faults' = faults \cup {"diskfull"} /\ "diskfull" \in Faults
               /\ file' = file \/ file' = Garbled
         /\ done'.admits = IF proc[p].cmd = "admit" THEN done.admits + 1 ELSE done.admits
         /\ done'.flip = IF proc[p].cmd = "mode" THEN proc[p].engine.mode ELSE done.flip
         /\ done' \in [admits : Nat, flip : Modes]
         /\ UNCHANGED <<build, log, commands>>
<1>1. proc[p].pc \in {"save", "write"} /\ AtWork(proc[p], commands)
  BY AtWorkRow DEF SaveWrite, SaveFails
<1>2. proc[p].engine.mode \in Modes
  BY <1>1, EngineFields DEF AtWork
<1>3. Finish(p)
  BY DEF SaveWrite, SaveFails
<1>4. Moves(p, Idle)
  BY <1>3, IdleRow DEF Finish, Moves
<1>5. /\ done'.admits = IF proc[p].cmd = "admit" THEN done.admits + 1 ELSE done.admits
      /\ done'.flip = IF proc[p].cmd = "mode" THEN proc[p].engine.mode ELSE done.flip
      /\ done' \in [admits : Nat, flip : Modes]
  BY <1>2, <1>3 DEF Finish, Recorded
<1>6. CASE SaveWrite(p)
  <2>1. file' \in {proc[p].engine, Garbled} /\ (file = NoState => file' = proc[p].engine)
    BY <1>6 DEF SaveWrite, Overwritten
  <2>. QED BY <1>1, <1>4, <1>5, <1>6, <2>1 DEF SaveWrite
<1>7. CASE SaveFails(p)
  BY <1>1, <1>4, <1>5, <1>7 DEF SaveFails
<1>. QED BY <1>6, <1>7

\* The actions of a step, by what they need.
LEMMA NextCases ==
  ASSUME Next
  PROVE  \/ \E p \in Processes :
              \/ Starting(p) \/ Produce(p) \/ Drain(p)
              \/ DrainIdle(p) \/ SaveTruncate(p) \/ SaveWrite(p) \/ SaveFails(p)
         \/ \E m \in Manifests : Install(m)
BY DEF Next, Starting

\* A moved process that holds a sound engine keeps all held.
LEMMA HeldMoves ==
  ASSUME Held, NEW p \in Processes, NEW r, Moves(p, r),
         r = Idle \/ AtWork(r, commands'),
         commands' \in {commands, commands + 1}, commands' \in 0 .. MaxCommands,
         file' \in Unparsed \/ (Sound(file') /\ ~ file'.utilization.exploring),
         UNCHANGED build
  PROVE  Held'
<1>1. /\ proc' \in [Processes -> Rows] /\ proc'[p] = r
      /\ \A q \in Processes : q # p => proc'[q] = proc[q]
  BY OnlyOneMoves DEF Held
<1>2. \A x : AtWork(x, commands) => AtWork(x, commands')
  BY DEF AtWork, Held
<1>. QED BY <1>1, <1>2 DEF Held

\* Sound engines, at every step.
LEMMA HeldStep == Held /\ Recorded /\ [Next]_vars => Held'
<1>. SUFFICES ASSUME Held, Recorded, [Next]_vars PROVE Held'
  OBVIOUS
<1>0. commands \in 0 .. MaxCommands /\ MaxCommands \in Nat
  BY StateFileAssumption DEF Held, StateFileAssumption
<1>1. ASSUME NEW p \in Processes, Starting(p) PROVE Held'
  <2>1. PICK r \in Rows : Starts(p, r) /\ AtWork(r, commands')
    BY <1>1, StartShape
  <2>2. /\ Moves(p, r) /\ commands' = commands + 1 /\ commands < MaxCommands
        /\ UNCHANGED <<file, build>>
    BY <2>1 DEF Starts
  <2>3. file' \in Unparsed \/ (Sound(file') /\ ~ file'.utilization.exploring)
    BY <2>2 DEF Held
  <2>. QED BY <1>0, <2>1, <2>2, <2>3, HeldMoves
<1>2. ASSUME NEW p \in Processes, Produce(p) PROVE Held'
  <2>1. PICK r \in Rows : Moves(p, r) /\ AtWork(r, commands) /\ UNCHANGED <<file, build, commands>>
    BY <1>2, ProduceShape
  <2>2. file' \in Unparsed \/ (Sound(file') /\ ~ file'.utilization.exploring)
    BY <2>1 DEF Held
  <2>. QED BY <1>0, <2>1, <2>2, HeldMoves
<1>3. ASSUME NEW p \in Processes, Drain(p) PROVE Held'
  <2>1. PICK r \in Rows : Moves(p, r) /\ AtWork(r, commands) /\ UNCHANGED <<file, build, commands>>
    BY <1>3, DrainShape
  <2>2. file' \in Unparsed \/ (Sound(file') /\ ~ file'.utilization.exploring)
    BY <2>1 DEF Held
  <2>. QED BY <1>0, <2>1, <2>2, HeldMoves
<1>4. ASSUME NEW p \in Processes, DrainIdle(p) \/ SaveTruncate(p) PROVE Held'
  <2>1. PICK r \in Rows : /\ Moves(p, r) /\ AtWork(r, commands) /\ UNCHANGED <<build, commands>>
                          /\ file' = file \/ file' = NoState
    BY <1>4, MoveOnShape
  <2>2. file' \in Unparsed \/ (Sound(file') /\ ~ file'.utilization.exploring)
    BY <2>1 DEF Held, Unparsed
  <2>. QED BY <1>0, <2>1, <2>2, HeldMoves
<1>5. ASSUME NEW p \in Processes, SaveWrite(p) \/ SaveFails(p) PROVE Held'
  <2>1. /\ Moves(p, Idle) /\ UNCHANGED <<build, commands>>
        /\ AtWork(proc[p], commands) /\ proc[p].pc # "explore"
        /\ file' \in {file, proc[p].engine, Garbled}
    BY <1>5, FinishShape
  <2>2. file' \in Unparsed \/ (Sound(file') /\ ~ file'.utilization.exploring)
    BY <2>1 DEF Held, AtWork, Unparsed
  <2>. QED BY <1>0, <2>1, <2>2, HeldMoves
<1>6. ASSUME NEW m \in Manifests, Install(m) PROVE Held'
  BY <1>6 DEF Install, Held
<1>7. CASE UNCHANGED vars
  BY <1>7 DEF vars, Held
<1>. QED BY <1>1, <1>2, <1>3, <1>4, <1>5, <1>6, <1>7, NextCases

\* Appending to the durable log adds one record at the end, or none.
LEMMA LogAfterShape ==
  ASSUME Recorded, NEW p, NEW ev
  PROVE  LET l == [hash |-> ev.hash, by |-> proc[p].id, at |-> Cardinality(log) + 1]
         IN  \/ /\ LogAfter(p, ev) = log
                /\ proc[p].cmd = "serve" => ev.hash \in proc[p].seen
             \/ /\ LogAfter(p, ev) = log \cup {l}
                /\ proc[p].cmd = "serve" /\ ev.hash \notin proc[p].seen
                /\ l \notin log /\ IsFiniteSet(log \cup {l})
                /\ Cardinality(log \cup {l}) = Cardinality(log) + 1
                /\ Cardinality(log) \in Nat
<1> DEFINE l == [hash |-> ev.hash, by |-> proc[p].id, at |-> Cardinality(log) + 1]
<1>1. IsFiniteSet(log) /\ Cardinality(log) \in Nat
  BY FS_CardinalityType DEF Recorded
<1>2. l.at = Cardinality(log) + 1
  OBVIOUS
<1>3. l \notin log
  BY <1>1, <1>2 DEF Recorded
<1>4. IsFiniteSet(log \cup {l}) /\ Cardinality(log \cup {l}) = Cardinality(log) + 1
  BY <1>1, <1>3, FS_AddElement
<1>. QED BY <1>1, <1>3, <1>4 DEF LogAfter

\* The records, at every step.
LEMMA RecordedStep == Held /\ Recorded /\ [Next]_vars => Recorded'
<1>. SUFFICES ASSUME Held, Recorded, [Next]_vars PROVE Recorded'
  OBVIOUS
<1>0. commands \in Nat
  BY DEF Held
<1>1. ASSUME NEW p \in Processes, Starting(p) PROVE Recorded'
  <2>1. PICK r \in Rows : Starts(p, r)
    BY <1>1, StartShape
  <2>2. commands' = commands + 1 /\ UNCHANGED <<log, done>> /\ faults' \subseteq Faults
    BY <2>1 DEF Starts, Recorded
  <2>. QED BY <1>0, <2>2 DEF Recorded
<1>2. ASSUME NEW p \in Processes, Drain(p) PROVE Recorded'
  <2>1. PICK ev \in Events : log' = LogAfter(p, ev) /\ UNCHANGED <<commands, done, faults>>
    BY <1>2, DrainShape
  <2>2. CASE log' = log
    BY <2>1, <2>2 DEF Recorded
  <2>3. CASE log' # log
    <3> DEFINE l == [hash |-> ev.hash, by |-> proc[p].id, at |-> Cardinality(log) + 1]
    <3>1. /\ log' = log \cup {l} /\ IsFiniteSet(log') /\ Cardinality(log') = Cardinality(log) + 1
          /\ Cardinality(log) \in Nat
      BY <2>1, <2>3, LogAfterShape
    <3>2. proc[p].id \in 1 .. commands
      BY <1>2, AtWorkRow DEF Drain, AtWork
    <3>3. l.hash \in Hashes /\ l.by \in 1 .. commands /\ l.at \in 1 .. Cardinality(log')
      BY <3>1, <3>2 DEF Events
    <3> HIDE DEF l
    <3>4. ASSUME NEW k \in log
          PROVE  k.by \in 1 .. commands /\ k.at \in 1 .. Cardinality(log') /\ k.hash \in Hashes
      BY <3>1 DEF Recorded
    <3>. QED BY <2>1, <3>1, <3>3, <3>4 DEF Recorded
  <2>. QED BY <2>2, <2>3
<1>3. ASSUME NEW p \in Processes, Produce(p) PROVE Recorded'
  BY <1>3 DEF Produce, Recorded
<1>4. ASSUME NEW p \in Processes, DrainIdle(p) \/ SaveTruncate(p) PROVE Recorded'
  BY <1>4 DEF DrainIdle, SaveTruncate, Recorded
<1>5. ASSUME NEW p \in Processes, SaveWrite(p) \/ SaveFails(p) PROVE Recorded'
  <2>1. /\ done' \in [admits : Nat, flip : Modes] /\ UNCHANGED <<log, commands>>
        /\ faults' \subseteq Faults
    BY <1>5, FinishShape DEF Recorded
  <2>. QED BY <2>1 DEF Recorded
<1>6. ASSUME NEW m \in Manifests, Install(m) PROVE Recorded'
  BY <1>6 DEF Install, Recorded
<1>7. CASE UNCHANGED vars
  BY <1>7 DEF vars, Recorded
<1>. QED BY <1>1, <1>2, <1>3, <1>4, <1>5, <1>6, <1>7, NextCases

\* Sound engines and records, at the start.
LEMMA HeldInit == Init => Held /\ Recorded
<1>. SUFFICES ASSUME Init PROVE Held /\ Recorded
  OBVIOUS
<1>1. Held
  BY IdleRow, StateFileAssumption DEF Init, Held, StateFileAssumption, Unparsed
<1>2. Recorded
  BY FS_EmptySet DEF Init, Recorded, Modes
<1>. QED BY <1>1, <1>2

\* Sound engines and records, always.
LEMMA AllHeld == Spec => [](Held /\ Recorded)
<1>1. Held /\ Recorded /\ [Next]_vars => (Held /\ Recorded)'
  BY HeldStep, RecordedStep
<1>. QED BY <1>1, HeldInit, PTL DEF Spec

\* What is sound is typed.
LEMMA HeldImplies == Held /\ Recorded => TypeOK
<1>. SUFFICES ASSUME Held, Recorded PROVE TypeOK
  OBVIOUS
<1>1. ASSUME NEW e \in ({file} \cup {proc[p].engine : p \in Processes}) \ Unparsed
      PROVE  Sound(e)
  BY <1>1 DEF Held, AtWork, Idle, Unparsed
<1>2. ASSUME NEW e \in ({file} \cup {proc[p].engine : p \in Processes}) \ Unparsed
      PROVE  /\ DOMAIN e = DOMAIN Fresh(build) /\ e.manifest \in Manifests
             /\ e.mode \in {"off", "queue", "explorer"}
             /\ e.emitted \in Nat /\ e.priorityView \in Nat
  BY <1>1, EngineFields DEF Modes
<1>3. \A p \in Processes : proc[p].pc \in {"idle", "explore", "drain", "save", "write"}
  BY DEF Held, Rows
<1>. QED BY <1>2, <1>3 DEF TypeOK, Held, Recorded, Unparsed

\* Every copy of the engine is well-typed and so is the file, whatever
\* commands overlap, saves fail and builds change.
THEOREM StateTyped == Spec => []TypeOK
BY AllHeld, HeldImplies, PTL
-----------------------------------------------------------------------------
(***************************************************************************)
(* The durable log under overlapping commands.  OncePerWriter is not       *)
(* inductive: it needs that what a serving process wrote is among the      *)
(* hashes it remembers, that no two processes write under one id, and that *)
(* as long as no commands overlapped one process is at work and it         *)
(* remembers the whole log.                                                *)
(***************************************************************************)
Active(p) == proc[p].pc # "idle"

OwnIds == \A p, q \in Processes : Active(p) /\ Active(q) /\ proc[p].id = proc[q].id => p = q

Alone == "overlap" \notin faults => \A p, q \in Processes : Active(p) /\ Active(q) => p = q

Remembers ==
  \A p \in Processes : Active(p) /\ proc[p].cmd = "serve" =>
    \A l \in log : (l.by = proc[p].id \/ "overlap" \notin faults) => l.hash \in proc[p].seen

Writers == OwnIds /\ Alone /\ Remembers /\ OncePerWriter

\* A process goes on with its command, or ends it, and the log is not written.
LEMMA WritersGoOn ==
  ASSUME Held, Writers, NEW p \in Processes, NEW r, Moves(p, r), Active(p),
         r.pc = "idle" \/ (SameCommand(p, r) /\ r.seen = proc[p].seen),
         UNCHANGED log, faults \subseteq faults', "overlap" \in faults' => "overlap" \in faults
  PROVE  Writers'
<1>1. /\ proc'[p] = r /\ \A q \in Processes : q # p => proc'[q] = proc[q]
  BY OnlyOneMoves DEF Held
<1>2. \A q \in Processes : Active(q)' =>
        /\ Active(q) /\ proc'[q].id = proc[q].id /\ proc'[q].cmd = proc[q].cmd
        /\ proc'[q].seen = proc[q].seen
  BY <1>1 DEF Active, SameCommand
<1>3. OwnIds'
  BY <1>2 DEF Writers, OwnIds
<1>4. Alone'
  BY <1>2 DEF Writers, Alone
<1>5. Remembers'
  BY <1>2 DEF Writers, Remembers
<1>6. OncePerWriter'
  BY DEF Writers, OncePerWriter
<1>. QED BY <1>3, <1>4, <1>5, <1>6 DEF Writers

\* One writer for each event, at every step.
LEMMA WritersStep == Held /\ Recorded /\ Writers /\ [Next]_vars => Writers'
<1>. SUFFICES ASSUME Held, Recorded, Writers, [Next]_vars PROVE Writers'
  OBVIOUS
<1>1. ASSUME NEW p \in Processes, Starting(p) PROVE Writers'
  <2>1. PICK r \in Rows : Starts(p, r)
    BY <1>1, StartShape
  <2>2. /\ proc'[p] = r /\ \A q \in Processes : q # p => proc'[q] = proc[q]
        /\ r.id = commands + 1 /\ UNCHANGED log /\ ~ Active(p)
        /\ r.seen = IF r.cmd = "serve" THEN {l.hash : l \in log} ELSE {}
        /\ \/ \A q \in Processes : ~ Active(q) /\ UNCHANGED faults
           \/ "overlap" \in faults'
        /\ faults \subseteq faults'
    BY <2>1, OnlyOneMoves DEF Starts, Held, Active
  <2>3. \A q \in Processes : Active(q) => proc[q].id # commands + 1
    BY AtWorkRow DEF Active, AtWork, Held
  <2>4. OwnIds'
    BY <2>2, <2>3 DEF Writers, OwnIds, Active
  <2>5. Alone'
    BY <2>2 DEF Writers, Alone, Active
  <2>6. Remembers'
    <3>. SUFFICES ASSUME NEW q \in Processes, Active(q)', proc'[q].cmd = "serve", NEW l \in log,
                         l.by = proc'[q].id \/ "overlap" \notin faults'
                  PROVE  l.hash \in proc'[q].seen
      BY <2>2 DEF Remembers
    <3>1. CASE q = p
      BY <2>2, <3>1
    <3>2. CASE q # p
      BY <2>2, <3>2 DEF Writers, Remembers, Active
    <3>. QED BY <3>1, <3>2
  <2>7. OncePerWriter'
    BY <2>2 DEF Writers, OncePerWriter
  <2>. QED BY <2>4, <2>5, <2>6, <2>7 DEF Writers
<1>2. ASSUME NEW p \in Processes, Drain(p) PROVE Writers'
  <2>1. PICK r \in Rows, ev \in Events :
          /\ Moves(p, r) /\ SameCommand(p, r) /\ r.pc \in {"drain", "save"}
          /\ r.seen = SeenAfter(p, ev) /\ log' = LogAfter(p, ev) /\ UNCHANGED faults
    BY <1>2, DrainShape
  <2>2. /\ proc'[p] = r /\ \A q \in Processes : q # p => proc'[q] = proc[q]
        /\ Active(p) /\ Active(p)'
    BY <1>2, <2>1, OnlyOneMoves DEF Held, Active, Drain
  <2>3. \A q \in Processes : Active(q)' =>
          Active(q) /\ proc'[q].id = proc[q].id /\ proc'[q].cmd = proc[q].cmd
    BY <2>1, <2>2 DEF Active, SameCommand
  <2>4. OwnIds'
    BY <2>3 DEF Writers, OwnIds
  <2>5. Alone'
    BY <2>1, <2>3 DEF Writers, Alone
  <2>6. proc[p].cmd = "serve" => proc'[p].seen = proc[p].seen \cup {ev.hash}
    BY <2>1, <2>2 DEF SeenAfter
  <2> DEFINE new == [hash |-> ev.hash, by |-> proc[p].id, at |-> Cardinality(log) + 1]
  <2>7. \/ log' = log
        \/ log' = log \cup {new} /\ proc[p].cmd = "serve" /\ ev.hash \notin proc[p].seen
    BY <2>1, LogAfterShape
  <2>8. new.hash = ev.hash /\ new.by = proc[p].id
    OBVIOUS
  <2> HIDE DEF new
  <2>9. Remembers'
    <3>. SUFFICES ASSUME NEW q \in Processes, Active(q)', proc'[q].cmd = "serve", NEW l \in log',
                         l.by = proc'[q].id \/ "overlap" \notin faults
                  PROVE  l.hash \in proc'[q].seen
      BY <2>1 DEF Remembers
    <3>1. CASE l \in log
      <4>1. l.hash \in proc[q].seen
        BY <2>3, <3>1 DEF Writers, Remembers
      <4>. QED BY <2>2, <2>3, <2>6, <4>1
    <3>2. CASE l = new /\ proc[p].cmd = "serve"
      <4>1. q = p
        BY <2>2, <2>3, <2>8, <3>2 DEF Writers, OwnIds, Alone
      <4>. QED BY <2>6, <2>8, <3>2, <4>1
    <3>. QED BY <2>7, <3>1, <3>2
  <2>10. OncePerWriter'
    <3>. SUFFICES ASSUME NEW k \in log', NEW l \in log', k.hash = l.hash,
                         k.by = l.by \/ "overlap" \notin faults
                  PROVE  k = l
      BY <2>1 DEF OncePerWriter
    <3>1. CASE k \in log /\ l \in log
      BY <3>1 DEF Writers, OncePerWriter
    <3>2. ASSUME NEW x \in log, x.hash = new.hash, x.by = new.by \/ "overlap" \notin faults,
                 proc[p].cmd = "serve", ev.hash \notin proc[p].seen
          PROVE  FALSE
      BY <2>2, <2>8, <3>2 DEF Writers, Remembers
    <3>. QED BY <2>7, <3>1, <3>2
  <2>. QED BY <2>4, <2>5, <2>9, <2>10 DEF Writers
<1>3. ASSUME NEW p \in Processes, Produce(p) PROVE Writers'
  <2>1. PICK r \in Rows : /\ Moves(p, r) /\ SameCommand(p, r) /\ r.seen = proc[p].seen
                          /\ UNCHANGED <<log, faults>>
    BY <1>3, ProduceShape
  <2>. QED BY <1>3, <2>1, WritersGoOn DEF Produce, Active
<1>4. ASSUME NEW p \in Processes, DrainIdle(p) \/ SaveTruncate(p) PROVE Writers'
  <2>1. PICK r \in Rows : /\ Moves(p, r) /\ SameCommand(p, r) /\ r.seen = proc[p].seen
                          /\ UNCHANGED <<log, faults>> /\ proc[p].pc # "idle"
    BY <1>4, MoveOnShape
  <2>. QED BY <2>1, WritersGoOn DEF Active
<1>5. ASSUME NEW p \in Processes, SaveWrite(p) \/ SaveFails(p) PROVE Writers'
  <2>1. /\ Moves(p, Idle) /\ Active(p) /\ UNCHANGED log
        /\ faults' = faults \/ faults' = faults \cup {"diskfull"}
    BY <1>5, FinishShape DEF Active
  <2>2. faults \subseteq faults' /\ ("overlap" \in faults' => "overlap" \in faults)
    BY <2>1
  <2>. QED BY <2>1, <2>2, IdleRow, WritersGoOn
<1>6. ASSUME NEW m \in Manifests, Install(m) PROVE Writers'
  BY <1>6 DEF Install, Writers, OwnIds, Alone, Remembers, OncePerWriter, Active
<1>7. CASE UNCHANGED vars
  BY <1>7 DEF vars, Writers, OwnIds, Alone, Remembers, OncePerWriter, Active
<1>. QED BY <1>1, <1>2, <1>3, <1>4, <1>5, <1>6, <1>7, NextCases

\* A verdict reaches the durable log once per serving process, and once at all
\* while no commands overlap: the hashes a process read at open and appended
\* since are enough, although it never looks at the file again.
THEOREM AppendedOnce == Spec => []OncePerWriter
<1>1. Init => Writers
  BY DEF Init, Writers, OwnIds, Alone, Remembers, OncePerWriter, Active, Idle
<1>2. Writers => OncePerWriter
  BY DEF Writers
<1>. QED BY <1>1, <1>2, AllHeld, WritersStep, PTL DEF Spec
-----------------------------------------------------------------------------
(***************************************************************************)
(* The file.                                                               *)
(***************************************************************************)

\* The instance of Engine measures the distance as StateFile does.
LEMMA SameDistance ==
  \A m, u : Saved!MissingFor(m, u) = MissingFor(m, u)
BY DEF Saved!MissingFor, Saved!Requirements, Saved!CapabilityIds, Saved!BindingCapability,
       Saved!DeliveryRequirements, MissingFor, Requirements, CapabilityIds, BindingCapability,
       DeliveryRequirements

\* A sound file that parses is an engine by itself consistent.
LEMMA HeldIsSound == Held /\ ~ file.torn => SavedIsSound
<1>. SUFFICES ASSUME Held, ~ file.torn
              PROVE  /\ Saved!ViewsAgree /\ Saved!OneFate /\ Saved!FateInv
                     /\ ~ file.utilization.exploring
  BY DEF SavedIsSound
<1>1. Sound(file) /\ ~ file.utilization.exploring
  BY UnparsedFiles DEF Held
<1> DEFINE s == file.prioritySet
           t == file.stream
           n == file.heterogeneityView.admitted
<1>2. Fate(s, t, n, file.manifest) /\ t \in Seq(Events)
  BY <1>1, EngineFields DEF Sound
<1>3. Saved!FateInv
  <2>1. Saved!TicketsIssued /\ Saved!QueuedOnce /\ Saved!VerdictsClimb
    BY <1>2 DEF Saved!TicketsIssued, Saved!QueuedOnce, Saved!VerdictsClimb,
                Fate, Issued, Distinct, Climbs
  <2>2. Saved!QueuedIsOpen
    BY <1>2, SameDistance DEF Saved!QueuedIsOpen, Fate, AllOpen, OpenStill
  <2>3. Saved!QueuedOrAnswered
    BY <1>2 DEF Saved!QueuedOrAnswered, Saved!Final, Fate, Accounted, Final
  <2>. QED BY <2>1, <2>2, <2>3 DEF Saved!FateInv
<1>4. ExactlyOne(s, t, n)
  BY <1>2, FateIsOne
<1>5. Saved!OneFate
  BY <1>4 DEF Saved!OneFate, Saved!Final, ExactlyOne, Distinct, Final
<1>6. file.utilization.inFlight = 0
  BY <1>1, EngineFields
<1>7. Saved!ViewsAgree
  BY <1>1, <1>6 DEF Saved!ViewsAgree, Sound
<1>. QED BY <1>1, <1>3, <1>5, <1>7

\* Without a fault one command is between its truncation and its write at a
\* time, and the file is empty then; otherwise it is what the last one saved.
Settled ==
  faults = {} =>
    /\ file # Garbled
    /\ file.torn => commands = 0 \/ \E p \in Processes : Active(p)
    /\ \A p \in Processes : proc[p].pc = "write" => file = NoState

\* What the file is without a fault, at every step.
LEMMA SettledStep == Held /\ Recorded /\ Writers /\ Settled /\ [Next]_vars => Settled'
<1>. SUFFICES ASSUME Held, Recorded, Writers, Settled, [Next]_vars, faults' = {} PROVE Settled'
  BY DEF Settled
<1>0. commands \in Nat
  BY DEF Held
<1>1. ASSUME NEW p \in Processes, Starting(p) PROVE Settled'
  <2>1. PICK r \in Rows : Starts(p, r)
    BY <1>1, StartShape
  <2>2. /\ proc'[p] = r /\ \A q \in Processes : q # p => proc'[q] = proc[q]
        /\ Quiet /\ faults = {} /\ UNCHANGED file /\ r.pc \notin {"idle", "write"}
    BY <2>1, OnlyOneMoves DEF Starts, Began, Held, Quiet
  <2>3. \A q \in Processes : proc'[q].pc # "write"
    BY <2>2 DEF Quiet
  <2>. QED BY <2>2, <2>3 DEF Settled, Active
<1>2. ASSUME NEW p \in Processes, Produce(p) \/ Drain(p) \/ DrainIdle(p) PROVE Settled'
  <2>1. PICK r \in Rows : Moves(p, r) /\ r.pc \in {"drain", "save"}
    <3>1. CASE Produce(p)
      BY <3>1, ProduceShape
    <3>2. CASE Drain(p)
      BY <3>2, DrainShape
    <3>3. CASE DrainIdle(p)
      <4>1. proc' = [proc EXCEPT ![p].pc = "save"] /\ proc[p] \in Rows
        BY <3>3 DEF DrainIdle, Held
      <4>2. proc'[p].pc = "save"
        BY <4>1 DEF Held, Rows
      <4>. QED BY <3>3, <4>2, MoveOnShape, OnlyOneMoves DEF Held
    <3>. QED BY <1>2, <3>1, <3>2, <3>3
  <2>2. /\ proc'[p] = r /\ \A q \in Processes : q # p => proc'[q] = proc[q]
        /\ UNCHANGED <<file, commands, faults>>
    BY <1>2, <2>1, OnlyOneMoves DEF Produce, Drain, DrainIdle, Held
  <2>. QED BY <2>1, <2>2 DEF Settled, Active
<1>3. ASSUME NEW p \in Processes, SaveTruncate(p) PROVE Settled'
  <2>1. PICK r \in Rows : Moves(p, r) /\ r.pc \in {"save", "write"}
    BY <1>3, MoveOnShape
  <2>2. proc'[p] = r /\ file' = NoState
    BY <1>3, <2>1, OnlyOneMoves DEF SaveTruncate, Held
  <2>. QED BY <2>1, <2>2, UnparsedFiles DEF Settled, Active
<1>4. ASSUME NEW p \in Processes, SaveWrite(p) \/ SaveFails(p) PROVE Settled'
  <2>1. /\ AtWork(proc[p], commands) /\ Moves(p, Idle) /\ faults = {} /\ proc[p].pc = "write"
        /\ file' = proc[p].engine \/ (file' = Garbled /\ file # NoState)
    BY <1>4, FinishShape
  <2>2. file' = proc[p].engine /\ Sound(file')
    BY <2>1 DEF Settled, AtWork
  <2>3. /\ proc'[p] = Idle /\ \A q \in Processes : q # p => proc'[q] = proc[q]
    BY <2>1, OnlyOneMoves DEF Held
  <2>4. \A q \in Processes : ~ Active(q)'
    BY <2>1, <2>3, IdleRow DEF Writers, Alone, Active
  <2>5. file' # Garbled /\ ~ file'.torn
    BY <2>2, EngineFields DEF Unparsed
  <2>. QED BY <2>4, <2>5 DEF Settled, Active
<1>5. ASSUME NEW m \in Manifests, Install(m) PROVE Settled'
  BY <1>5 DEF Install, Settled, Active
<1>6. CASE UNCHANGED vars
  BY <1>6 DEF vars, Settled, Active
<1>. QED BY <1>1, <1>2, <1>3, <1>4, <1>5, <1>6, NextCases

\* What the file is without a fault, always.
LEMMA AllSettled == Spec => [](Held /\ Recorded /\ Writers /\ Settled)
<1>1. Init => Writers /\ Settled
  <2>. SUFFICES ASSUME Init PROVE Writers /\ Settled
    OBVIOUS
  <2>1. Writers
    BY DEF Init, Writers, OwnIds, Alone, Remembers, OncePerWriter, Active, Idle
  <2>. QED BY <2>1, UnparsedFiles DEF Init, Settled, Idle
<1>. QED BY <1>1, AllHeld, WritersStep, SettledStep, PTL DEF Spec

\* Overlapping commands lose each other's work, at worst all of it, but what of
\* the file parses is an engine by itself consistent, with no session left open.
\* That the file does not parse while no command runs, or that bytes of two
\* saves stand in it, takes an overlap or a failed save.
THEOREM FileStaysWhole == Spec => []FileIsWhole
<1>1. Held /\ Settled => FileIsWhole
  BY HeldIsSound DEF FileIsWhole, Settled, Quiet, Active
<1>. QED BY <1>1, AllSettled, PTL
-----------------------------------------------------------------------------
(***************************************************************************)
(* What commands printed as done.  Without faults one command is at work   *)
(* at a time, and what was acknowledged before it started is in its copy;  *)
(* between commands it is in the file.  That an admission the engine       *)
(* counts is queued or answered is the engine's own fate invariant.        *)
(***************************************************************************)

\* Each verdict of the log is among the events of e.
Streamed(e) == \A l \in log : \E i \in DOMAIN e.stream : e.stream[i].hash = l.hash

Accounts(e, admits, flip) ==
  admits <= e.heterogeneityView.admitted /\ e.mode = flip /\ Streamed(e)

Acknowledged ==
  faults = {} =>
    /\ Quiet => Accounts(Load, done.admits, done.flip)
    /\ \A p \in Processes : Active(p) =>
         Accounts(proc[p].engine,
                  IF proc[p].cmd = "admit" THEN done.admits + 1 ELSE done.admits,
                  IF proc[p].cmd = "mode" THEN proc[p].engine.mode ELSE done.flip)

\* What a command starts with accounts for what the file accounted for, and
\* for what it will print itself.
LEMMA BeganAccounts ==
  ASSUME NEW e, Sound(e), NEW r, Began(r, e), NEW a \in Nat, NEW f, Accounts(e, a, f)
  PROVE  Accounts(r.engine, IF r.cmd = "admit" THEN a + 1 ELSE a,
                            IF r.cmd = "mode" THEN r.engine.mode ELSE f)
<1>1. e.heterogeneityView \in [admitted : Nat, rejected : Nat]
  BY EngineFields
<1>2. CASE r.cmd = "mode"
  <2>1. PICK m \in {"queue", "explorer"} : r.engine = Flipped(e, m)
    BY <1>2 DEF Began
  <2> DEFINE g == Flipped(e, m)
  <2>2. m \in Modes
    BY DEF Modes
  <2>3. g.heterogeneityView = e.heterogeneityView /\ g.stream = e.stream
    BY <2>2, FlippedSound
  <2> HIDE DEF g
  <2>4. r.engine = g
    BY <2>1 DEF g
  <2>. QED BY <1>2, <2>3, <2>4 DEF Accounts, Streamed
<1>3. CASE r.cmd = "admit"
  <2>1. PICK u \in Units : r.engine = Enqueued(e, u)
    BY <1>3 DEF Began
  <2> DEFINE g == Enqueued(e, u)
  <2>2. /\ g.heterogeneityView.admitted = e.heterogeneityView.admitted + 1
        /\ g.mode = e.mode /\ g.stream = e.stream
    BY EnqueuedSound
  <2> HIDE DEF g
  <2>3. r.engine = g
    BY <2>1 DEF g
  <2>. QED BY <1>1, <1>3, <2>2, <2>3 DEF Accounts, Streamed
<1>4. CASE r.cmd = "reject"
  <2>1. /\ r.engine.heterogeneityView = [e.heterogeneityView EXCEPT !.rejected = @ + 1]
        /\ r.engine.mode = e.mode /\ r.engine.stream = e.stream
    BY <1>4, RefusedSound DEF Began
  <2>2. r.engine.heterogeneityView.admitted = e.heterogeneityView.admitted
    BY <1>1, <2>1
  <2>. QED BY <1>4, <2>1, <2>2 DEF Accounts, Streamed
<1>5. CASE r.cmd = "explore"
  <2> DEFINE u == [e.utilization EXCEPT !.exploring = TRUE]
  <2>1. r.engine = [e EXCEPT !.utilization = u]
    BY <1>5 DEF Began
  <2>2. /\ u \in [mode : Modes, inFlight : {0}, exploring : BOOLEAN, discoveries : Nat]
        /\ u.mode = e.utilization.mode
    BY EngineFields
  <2> HIDE DEF u
  <2>3. /\ r.engine.heterogeneityView = e.heterogeneityView
        /\ r.engine.mode = e.mode /\ r.engine.stream = e.stream
    BY <2>1, <2>2, SessionSound
  <2>. QED BY <1>5, <2>3 DEF Accounts, Streamed
<1>6. CASE r.cmd \in {"run", "serve"}
  BY <1>6 DEF Began, Accounts
<1>. QED BY <1>2, <1>3, <1>4, <1>5, <1>6 DEF Began

\* A command goes on with the set of admissions, the mode and the stream it had.
LEMMA AcknowledgedGoesOn ==
  ASSUME Held, Writers, Acknowledged, NEW p \in Processes, NEW r, Moves(p, r), Active(p),
         SameCommand(p, r), r.pc # "idle",
         r.engine.heterogeneityView = proc[p].engine.heterogeneityView,
         r.engine.mode = proc[p].engine.mode,
         Streamed(proc[p].engine) => Streamed(r.engine)',
         UNCHANGED <<done, faults>>
  PROVE  Acknowledged'
<1>. SUFFICES ASSUME faults = {}
              PROVE  /\ Quiet' => Accounts(Load, done.admits, done.flip)'
                     /\ \A q \in Processes : Active(q)' =>
                          Accounts(proc[q].engine,
                                   IF proc[q].cmd = "admit" THEN done.admits + 1 ELSE done.admits,
                                   IF proc[q].cmd = "mode" THEN proc[q].engine.mode ELSE done.flip)'
  BY DEF Acknowledged
<1>1. /\ proc'[p] = r /\ \A q \in Processes : q # p => proc'[q] = proc[q]
  BY OnlyOneMoves DEF Held
<1>2. \A q \in Processes : Active(q)' => q = p
  BY <1>1 DEF Writers, Alone, Active
<1>3. ~ Quiet'
  BY <1>1 DEF Quiet
<1>4. Accounts(proc[p].engine,
               IF proc[p].cmd = "admit" THEN done.admits + 1 ELSE done.admits,
               IF proc[p].cmd = "mode" THEN proc[p].engine.mode ELSE done.flip)
  BY DEF Acknowledged
<1>5. Streamed(r.engine)'
  BY <1>4 DEF Accounts
<1>6. Accounts(proc[p].engine,
               IF proc[p].cmd = "admit" THEN done.admits + 1 ELSE done.admits,
               IF proc[p].cmd = "mode" THEN proc[p].engine.mode ELSE done.flip)'
  BY <1>1, <1>4, <1>5 DEF Accounts, SameCommand, Streamed
<1>. QED BY <1>2, <1>3, <1>6

\* The acknowledgements, at every step.
LEMMA AcknowledgedStep ==
  Held /\ Recorded /\ Writers /\ Settled /\ Acknowledged /\ [Next]_vars => Acknowledged'
<1>. SUFFICES ASSUME Held, Recorded, Writers, Settled, Acknowledged, [Next]_vars PROVE Acknowledged'
  OBVIOUS
<1>1. ASSUME NEW p \in Processes, Starting(p) PROVE Acknowledged'
  <2>1. PICK r \in Rows : Starts(p, r) /\ AtWork(r, commands')
    BY <1>1, StartShape
  <2>. SUFFICES ASSUME faults' = {}
                PROVE  /\ ~ Quiet'
                       /\ \A q \in Processes : Active(q)' =>
                            Accounts(proc[q].engine,
                                     IF proc[q].cmd = "admit" THEN done.admits + 1 ELSE done.admits,
                                     IF proc[q].cmd = "mode" THEN proc[q].engine.mode ELSE done.flip)'
    BY DEF Acknowledged
  <2>2. /\ Quiet /\ faults = {} /\ UNCHANGED <<log, done>> /\ Began(r, Load)
        /\ proc'[p] = r /\ \A q \in Processes : q # p => proc'[q] = proc[q]
    BY <2>1, OnlyOneMoves DEF Starts, Quiet, Held
  <2>3. Accounts(Load, done.admits, done.flip) /\ done.admits \in Nat
    BY <2>2 DEF Acknowledged, Recorded
  <2>4. Accounts(r.engine, IF r.cmd = "admit" THEN done.admits + 1 ELSE done.admits,
                           IF r.cmd = "mode" THEN r.engine.mode ELSE done.flip)
    BY <2>2, <2>3, LoadSound, BeganAccounts
  <2>5. r.pc # "idle"
    BY <2>1 DEF AtWork
  <2>6. \A q \in Processes : Active(q)' => q = p
    BY <2>2 DEF Active, Quiet
  <2>. QED BY <2>2, <2>4, <2>5, <2>6 DEF Accounts, Streamed, Quiet
<1>2. ASSUME NEW p \in Processes, Drain(p) PROVE Acknowledged'
  <2>1. PICK r \in Rows, ev \in Events, again \in BOOLEAN :
          /\ Moves(p, r) /\ SameCommand(p, r) /\ r.pc \in {"drain", "save"}
          /\ Drained(proc[p].engine, r.engine, ev, again)
          /\ log' = LogAfter(p, ev) /\ UNCHANGED <<done, faults>>
    BY <1>2, DrainShape
  <2>2. /\ r.engine.heterogeneityView = proc[p].engine.heterogeneityView
        /\ r.engine.mode = proc[p].engine.mode
        /\ r.engine.stream = Append(proc[p].engine.stream, ev)
    BY <2>1 DEF Drained
  <2>3. Active(p) /\ proc[p].engine.stream \in Seq(Events)
    BY <1>2, AtWorkRow, EngineFields DEF Drain, Active, AtWork
  <2>4. ASSUME Streamed(proc[p].engine) PROVE Streamed(r.engine)'
    <3> DEFINE t == proc[p].engine.stream
               n == Len(t) + 1
    <3>1. /\ DOMAIN t \subseteq DOMAIN r.engine.stream /\ n \in DOMAIN r.engine.stream
          /\ \A i \in DOMAIN t : r.engine.stream[i] = t[i]
          /\ r.engine.stream[n] = ev
      <4> DEFINE u == Append(t, ev)
      <4>1. t \in Seq(Events) /\ r.engine.stream = u
        BY <2>2, <2>3
      <4> HIDE DEF t
      <4>2. DOMAIN t \subseteq DOMAIN u /\ n \in DOMAIN u /\ u[n] = ev /\ \A i \in DOMAIN t : u[i] = t[i]
        BY <4>1
      <4>. QED BY <4>1, <4>2
    <3>2. \A l \in log' : l \in log \/ l.hash = ev.hash
      BY <2>1 DEF LogAfter
    <3> HIDE DEF t, n
    <3>. SUFFICES ASSUME NEW l \in log'
                  PROVE  \E i \in DOMAIN r.engine.stream : r.engine.stream[i].hash = l.hash
      BY DEF Streamed
    <3>3. CASE l \in log
      BY <2>4, <3>1, <3>3 DEF Streamed, t
    <3>4. CASE l.hash = ev.hash
      BY <3>1, <3>4
    <3>. QED BY <3>2, <3>3, <3>4
  <2>. QED BY <2>1, <2>2, <2>3, <2>4, AcknowledgedGoesOn
<1>3. ASSUME NEW p \in Processes, Produce(p) PROVE Acknowledged'
  <2> DEFINE e == proc[p].engine
             w == [e.utilization EXCEPT !.exploring = FALSE]
             u == [e.utilization EXCEPT !.exploring = FALSE, !.discoveries = @ + 1]
  <2>1. PICK r \in Rows : /\ Moves(p, r) /\ SameCommand(p, r) /\ r.pc = "save"
                          /\ r.engine = [e EXCEPT !.utilization = u]
                          /\ UNCHANGED <<log, done, faults>>
    BY <1>3, ProduceShape
  <2>2. Active(p) /\ Sound(e)
    BY <1>3, AtWorkRow DEF Produce, Active, AtWork
  <2>3. /\ r.engine.heterogeneityView = e.heterogeneityView /\ r.engine.mode = e.mode
        /\ r.engine.stream = e.stream
    <3> HIDE DEF u
    <3>. QED BY <2>1, <2>2 DEF Sound, Engines
  <2>4. Streamed(e) => Streamed(r.engine)'
    BY <2>1, <2>3 DEF Streamed
  <2>. QED BY <2>1, <2>2, <2>3, <2>4, AcknowledgedGoesOn
<1>4. ASSUME NEW p \in Processes, DrainIdle(p) \/ SaveTruncate(p) PROVE Acknowledged'
  <2>1. PICK r \in Rows : /\ Moves(p, r) /\ SameCommand(p, r) /\ r.pc \in {"save", "write"}
                          /\ r.engine = proc[p].engine
                          /\ UNCHANGED <<log, done, faults>> /\ proc[p].pc # "idle"
    BY <1>4, MoveOnShape
  <2>2. Streamed(proc[p].engine) => Streamed(r.engine)'
    BY <2>1 DEF Streamed
  <2>. QED BY <2>1, <2>2, AcknowledgedGoesOn DEF Active
<1>5. ASSUME NEW p \in Processes, SaveWrite(p) \/ SaveFails(p) PROVE Acknowledged'
  <2>. SUFFICES ASSUME faults' = {}
                PROVE  /\ Accounts(Load, done.admits, done.flip)'
                       /\ \A q \in Processes : ~ Active(q)'
    BY DEF Acknowledged
  <2>1. /\ AtWork(proc[p], commands) /\ Moves(p, Idle) /\ faults = {}
        /\ file' = proc[p].engine /\ UNCHANGED log /\ Active(p)
        /\ done'.admits = IF proc[p].cmd = "admit" THEN done.admits + 1 ELSE done.admits
        /\ done'.flip = IF proc[p].cmd = "mode" THEN proc[p].engine.mode ELSE done.flip
    <3>1. proc[p].pc = "write" /\ faults = {}
      BY <1>5, FinishShape
    <3>2. file = NoState
      BY <3>1 DEF Settled
    <3>. QED BY <1>5, <3>1, <3>2, FinishShape DEF Active
  <2>2. /\ proc'[p] = Idle /\ \A q \in Processes : q # p => proc'[q] = proc[q]
    BY <2>1, OnlyOneMoves DEF Held
  <2>3. \A q \in Processes : ~ Active(q)'
    BY <2>1, <2>2, IdleRow DEF Writers, Alone, Active
  <2>4. Load' = proc[p].engine
    BY <2>1, EngineFields DEF AtWork, Load
  <2>5. Accounts(proc[p].engine, done'.admits, done'.flip)
    BY <2>1 DEF Acknowledged
  <2>. QED BY <2>1, <2>3, <2>4, <2>5 DEF Accounts, Streamed
<1>6. ASSUME NEW m \in Manifests, Install(m) PROVE Acknowledged'
  <2>1. UNCHANGED <<file, proc, log, done, faults>> /\ build \in Manifests /\ build' \in Manifests
    BY <1>6 DEF Install, Held
  <2>2. /\ Load'.heterogeneityView = Load.heterogeneityView /\ Load'.mode = Load.mode
        /\ Load'.stream = Load.stream
    BY <2>1, FreshSound DEF Load
  <2>. QED BY <2>1, <2>2 DEF Acknowledged, Accounts, Streamed, Quiet, Active
<1>7. CASE UNCHANGED vars
  BY <1>7 DEF vars, Acknowledged, Accounts, Streamed, Quiet, Active, Load
<1>. QED BY <1>1, <1>2, <1>3, <1>4, <1>5, <1>6, <1>7, NextCases

\* What is acknowledged sticks.
LEMMA AcknowledgedImplies == Held /\ Recorded /\ Acknowledged => AcknowledgedSticks
<1>. SUFFICES ASSUME Held, Recorded, Acknowledged, Quiet, faults = {}
              PROVE  /\ \A t \in 1 .. done.admits : t \in Tickets(Load.prioritySet) \cup
                            {Load.stream[i].ticket : i \in {j \in DOMAIN Load.stream : Final(Load.stream[j])}}
                     /\ Load.mode = done.flip
                     /\ \A l \in log : \E i \in DOMAIN Load.stream : Load.stream[i].hash = l.hash
  BY DEF AcknowledgedSticks, AdmissionsKept
<1>1. Accounts(Load, done.admits, done.flip)
  BY DEF Acknowledged
<1>2. /\ Accounted(Load.prioritySet, Load.stream, Load.heterogeneityView.admitted)
      /\ Load.heterogeneityView.admitted \in Nat /\ done.admits \in Nat
  BY LoadSound, EngineFields DEF Sound, Fate, Recorded
<1>3. ASSUME NEW t \in 1 .. done.admits
      PROVE  t \in Tickets(Load.prioritySet) \cup
               {Load.stream[i].ticket : i \in {j \in DOMAIN Load.stream : Final(Load.stream[j])}}
  <2>1. t \in 1 .. Load.heterogeneityView.admitted
    BY <1>1, <1>2 DEF Accounts
  <2>. QED BY <1>2, <2>1 DEF Accounted, Tickets
<1>. QED BY <1>1, <1>3 DEF Accounts, Streamed

\* As long as no command overlapped another and no save failed, what a command
\* printed as done is in the file: each admission, the last flip, each verdict
\* of the durable log, also when builds changed or a drain ended at the backstop.
THEOREM DoneSticks == Spec => []AcknowledgedSticks
<1>1. Init => Acknowledged
  <2>. SUFFICES ASSUME Init PROVE Acknowledged
    OBVIOUS
  <2>1. Load = Fresh(build) /\ build \in Manifests
    BY DEF Init, Load, NoState
  <2>2. Accounts(Load, done.admits, done.flip)
    BY <2>1, FreshSound DEF Init, Accounts, Streamed
  <2>. QED BY <2>2 DEF Init, Acknowledged, Active, Idle
<1>. QED BY <1>1, AllSettled, AcknowledgedStep, AcknowledgedImplies, PTL DEF Spec
-----------------------------------------------------------------------------
(***************************************************************************)
(* The distance an event names.  A unit is found back in the stream by its *)
(* bundle hash, so this is about units whose hash is their identity.       *)
(***************************************************************************)

\* interface/src/lib.rs: bundle_hash is the unit's identity.  kiln takes the
\* hash from the wire and does not compute it.
HashIsIdentity == \A u, v \in Units : u.hash = v.hash => u = v

Published(e) ==
  \A i \in DOMAIN e.stream : \A u \in Units :
    u.hash = e.stream[i].hash => e.stream[i].missing = MissingFor(e.manifest, u)

AllPublished ==
  /\ ~ file.torn => Published(file)
  /\ \A p \in Processes : Active(p) => Published(proc[p].engine)

\* A command that starts leaves the stream and the manifest alone.
LEMMA BeganPublished ==
  ASSUME NEW e, Sound(e), NEW r, Began(r, e)
  PROVE  r.engine.stream = e.stream /\ r.engine.manifest = e.manifest
<1>1. CASE r.cmd = "mode"
  <2>1. PICK m \in {"queue", "explorer"} : r.engine = Flipped(e, m)
    BY <1>1 DEF Began
  <2> DEFINE g == Flipped(e, m)
  <2>2. m \in Modes
    BY DEF Modes
  <2>3. g.stream = e.stream /\ g.manifest = e.manifest
    BY <2>2, FlippedSound
  <2>. QED BY <2>1, <2>3
<1>2. CASE r.cmd = "admit"
  <2>1. PICK u \in Units : r.engine = Enqueued(e, u)
    BY <1>2 DEF Began
  <2> DEFINE g == Enqueued(e, u)
  <2>2. g.stream = e.stream /\ g.manifest = e.manifest
    BY EnqueuedSound
  <2>. QED BY <2>1, <2>2
<1>3. CASE r.cmd = "reject"
  BY <1>3, RefusedSound DEF Began
<1>4. CASE r.cmd = "explore"
  <2> DEFINE u == [e.utilization EXCEPT !.exploring = TRUE]
  <2>1. /\ u \in [mode : Modes, inFlight : {0}, exploring : BOOLEAN, discoveries : Nat]
        /\ u.mode = e.utilization.mode
    BY EngineFields
  <2>2. r.engine = [e EXCEPT !.utilization = u]
    BY <1>4 DEF Began
  <2> HIDE DEF u
  <2>. QED BY <2>1, <2>2, SessionSound
<1>5. CASE r.cmd \in {"run", "serve"}
  BY <1>5 DEF Began
<1>. QED BY <1>1, <1>2, <1>3, <1>4, <1>5 DEF Began

\* A row moves on, and the file is another's or as it was.
LEMMA PublishedMoves ==
  ASSUME Held, AllPublished, NEW p \in Processes, NEW r, Moves(p, r),
         r.pc = "idle" \/ Published(r.engine),
         ~ file'.torn => Published(file')
  PROVE  AllPublished'
<1>1. /\ proc'[p] = r /\ \A q \in Processes : q # p => proc'[q] = proc[q]
  BY OnlyOneMoves DEF Held
<1>2. \A q \in Processes : Active(q)' => Published(proc'[q].engine)
  BY <1>1 DEF AllPublished, Active
<1>. QED BY <1>2 DEF AllPublished, Published

\* The answers and the manifests, at every step.
LEMMA PublishedStep ==
  ASSUME HashIsIdentity
  PROVE  Held /\ Recorded /\ AllPublished /\ [Next]_vars => AllPublished'
<1>. SUFFICES ASSUME Held, Recorded, AllPublished, [Next]_vars PROVE AllPublished'
  OBVIOUS
<1>1. ASSUME NEW p \in Processes, Starting(p) PROVE AllPublished'
  <2>1. PICK r \in Rows : Starts(p, r)
    BY <1>1, StartShape
  <2>2. Published(Load)
    <3>1. CASE file.torn
      <4>1. Fresh(build).stream = <<>>
        BY DEF Fresh
      <4>. QED BY <3>1, <4>1 DEF Load, Published
    <3>2. CASE ~ file.torn
      BY <3>2 DEF AllPublished, Load
    <3>. QED BY <3>1, <3>2
  <2>3. Published(r.engine)
    BY <2>1, <2>2, LoadSound, BeganPublished DEF Starts, Published
  <2>4. Moves(p, r) /\ (~ file'.torn => Published(file'))
    BY <2>1 DEF Starts, AllPublished
  <2>. QED BY <2>3, <2>4, PublishedMoves
<1>2. ASSUME NEW p \in Processes, Drain(p) PROVE AllPublished'
  <2>1. PICK r \in Rows, ev \in Events, again \in BOOLEAN :
          Moves(p, r) /\ Drained(proc[p].engine, r.engine, ev, again) /\ UNCHANGED file
    BY <1>2, DrainShape
  <2> DEFINE e == proc[p].engine
             x == Head(e.prioritySet)
             u == Append(e.stream, ev)
  <2>2. /\ Published(e) /\ e.stream \in Seq(Events) /\ x.unit \in Units
    <3>1. Active(p) /\ Sound(e) /\ e.prioritySet # <<>>
      BY <1>2, AtWorkRow DEF Drain, Active, AtWork
    <3>2. e.prioritySet \in Seq(Entries) /\ e.stream \in Seq(Events)
      BY <3>1, EngineFields
    <3>3. x \in Entries
      BY <3>1, <3>2
    <3>. QED BY <3>1, <3>2, <3>3 DEF AllPublished, Entries
  <2>3. /\ r.engine.stream = u /\ r.engine.manifest = e.manifest
        /\ ev.hash = x.unit.hash /\ ev.missing = MissingFor(e.manifest, x.unit)
    BY <2>1 DEF Drained
  <2>4. \A i \in DOMAIN u : (i \in DOMAIN e.stream /\ u[i] = e.stream[i]) \/ u[i] = ev
    BY <2>2
  <2> HIDE DEF u, x, e
  <2>5. Published(r.engine)
    <3>. SUFFICES ASSUME NEW i \in DOMAIN u, NEW v \in Units, v.hash = u[i].hash
                  PROVE  u[i].missing = MissingFor(e.manifest, v)
      BY <2>3 DEF Published
    <3>1. CASE i \in DOMAIN e.stream /\ u[i] = e.stream[i]
      BY <2>2, <3>1 DEF Published
    <3>2. CASE u[i] = ev
      BY <2>2, <2>3, <3>2 DEF HashIsIdentity
    <3>. QED BY <2>4, <3>1, <3>2
  <2>. QED BY <2>1, <2>5, PublishedMoves DEF AllPublished
<1>3. ASSUME NEW p \in Processes, Produce(p) PROVE AllPublished'
  <2> DEFINE e == proc[p].engine
             u == [e.utilization EXCEPT !.exploring = FALSE, !.discoveries = @ + 1]
  <2>1. PICK r \in Rows : Moves(p, r) /\ r.engine = [e EXCEPT !.utilization = u] /\ UNCHANGED file
    BY <1>3, ProduceShape
  <2>2. Sound(e) /\ Published(e)
    BY <1>3, AtWorkRow DEF Produce, AtWork, AllPublished, Active
  <2> HIDE DEF u
  <2>3. r.engine.stream = e.stream /\ r.engine.manifest = e.manifest
    BY <2>1, <2>2 DEF Sound, Engines
  <2>4. Published(r.engine)
    BY <2>2, <2>3 DEF Published
  <2>. QED BY <2>1, <2>4, PublishedMoves DEF AllPublished
<1>4. ASSUME NEW p \in Processes, DrainIdle(p) \/ SaveTruncate(p) PROVE AllPublished'
  <2>1. PICK r \in Rows : /\ Moves(p, r) /\ r.engine = proc[p].engine /\ Active(p)
                          /\ file' = file \/ file' = NoState
    BY <1>4, MoveOnShape DEF Active
  <2>2. Published(r.engine) /\ (~ file'.torn => Published(file'))
    BY <2>1 DEF AllPublished, NoState
  <2>. QED BY <2>1, <2>2, PublishedMoves
<1>5. ASSUME NEW p \in Processes, SaveWrite(p) \/ SaveFails(p) PROVE AllPublished'
  <2>1. Moves(p, Idle) /\ Active(p) /\ file' \in {file, proc[p].engine, Garbled}
    BY <1>5, FinishShape DEF Active
  <2>2. ~ file'.torn => Published(file')
    BY <2>1 DEF AllPublished, Garbled
  <2>. QED BY <2>1, <2>2, IdleRow, PublishedMoves
<1>6. ASSUME NEW m \in Manifests, Install(m) PROVE AllPublished'
  BY <1>6 DEF Install, AllPublished, Published, Active
<1>7. CASE UNCHANGED vars
  BY <1>7 DEF vars, AllPublished, Published, Active
<1>. QED BY <1>1, <1>2, <1>3, <1>4, <1>5, <1>6, <1>7, NextCases

\* An event of the saved stream names exactly what the published manifest does
\* not cover, whichever builds drained and saved in between.
THEOREM AnsweredByManifest ==
  ASSUME HashIsIdentity PROVE Spec => []AnsweredAsPublished
<1>1. Init => AllPublished
  BY DEF Init, AllPublished, NoState, Active, Idle
<1>2. AllPublished => AnsweredAsPublished
  BY DEF AllPublished, Published, AnsweredAsPublished
<1>. QED BY <1>1, <1>2, AllHeld, PublishedStep, PTL DEF Spec
-----------------------------------------------------------------------------
(***************************************************************************)
(* Every command but kiln serve drives its copy of the engine as a client  *)
(* of Engine: each step on the copy is a step of Engine's next-state       *)
(* relation, under the instance Working, for any processes and units.      *)
(***************************************************************************)

(***************************************************************************)
(* Engine's operators, instantiated, are the ones StateFile uses.          *)
(***************************************************************************)

\* Ascending under the instance.
LEMMA SameAscending == \A S : Working!Ascending(S) = Ascending(S)
BY Zenon DEF Working!Ascending, Ascending, Working!ToSet, ToSet, Working!Cardinality, Cardinality

\* ToSet under the instance.
LEMMA SameToSet == \A s : Working!ToSet(s) = ToSet(s)
BY DEF Working!ToSet, ToSet

\* Min under the instance.
LEMMA SameMin == \A S : Working!Min(S) = Min(S)
BY DEF Working!Min, Min

\* Prerequisites under the instance.
LEMMA SamePrerequisites == \A c : Working!Prerequisites(c) = Prerequisites(c)
BY SameToSet DEF Working!Prerequisites, Prerequisites

\* The walk under the instance.
LEMMA SameWalk == \A cells, pass : Working!WalkCells(cells, pass) = WalkCells(cells, pass)
<1>1. \A cells, w : Working!ReadyCells(cells, w) = ReadyCells(cells, w)
  BY SamePrerequisites DEF Working!ReadyCells, ReadyCells
<1>2. \A cells, w : Working!SkipRest(cells, w) = SkipRest(cells, w)
  BY SameAscending DEF Working!SkipRest, SkipRest
<1>3. \A cells, w, i, v : Working!Settle(cells, w, i, v) = Settle(cells, w, i, v)
  BY DEF Working!Settle, Settle
<1>4. \A cells, pass, w : Working!WalkStep(cells, pass, w) = WalkStep(cells, pass, w)
  BY <1>1, <1>2, <1>3, SamePrerequisites, SameMin DEF Working!WalkStep, WalkStep
<1>5. \A cells : Working!WalkStart(cells) = WalkStart(cells)
  BY DEF Working!WalkStart, WalkStart
<1>. QED BY <1>4, <1>5 DEF Working!WalkCells, WalkCells

\* The verdict under the instance.
LEMMA SameVerdict ==
  /\ \A r : Working!ReduceVerdict(r) = ReduceVerdict(r)
  /\ \A v : Working!ConsequenceOf(v) = ConsequenceOf(v)
<1>1. \A r : Working!ReduceVerdict(r) = ReduceVerdict(r)
  BY DEF Working!ReduceVerdict, ReduceVerdict
<1>2. \A v : Working!ConsequenceOf(v) = ConsequenceOf(v)
  BY DEF Working!ConsequenceOf, ConsequenceOf
<1>. QED BY <1>1, <1>2

\* Validation under the instance.
LEMMA SameValidate == \A u : Working!Validate(u) = Validate(u)
BY SameToSet, SameMin
   DEF Working!Validate, Validate, Working!Homogeneous, Homogeneous, Working!CellDefect, CellDefect,
       Working!BindingKey, BindingKey, Working!CellIds, CellIds

\* Missing capabilities under the instance.
LEMMA SameMissing == \A m, u : Working!MissingFor(m, u) = MissingFor(m, u)
BY DEF Working!MissingFor, Working!Requirements, Working!CapabilityIds, Working!BindingCapability,
       Working!DeliveryRequirements, MissingFor, Requirements, CapabilityIds, BindingCapability,
       DeliveryRequirements

\* The ladder under the instance.
LEMMA SameLadder ==
  \A x : /\ Working!TierRan(x) = TierRan(x) /\ Working!HasHeadroom(x) = HasHeadroom(x)
         /\ Working!OneBindingUp(x) = OneBindingUp(x)
BY DEF Working!TierRan, TierRan, Working!HasHeadroom, HasHeadroom, Working!MAX_LADDER, MAX_LADDER,
       Working!OneBindingUp, OneBindingUp
-----------------------------------------------------------------------------
(***************************************************************************)
(* No copy counts more than the commands started: Engine's bounds hold.    *)
(***************************************************************************)

Within(e, n) ==
  /\ e.heterogeneityView.admitted <= n /\ e.heterogeneityView.rejected <= n
  /\ e.utilization.discoveries <= n

\* An exploring command is yet to count its discovery.
CountedRow(r, n) ==
  /\ Within(r.engine, n)
  /\ r.pc = "explore" => r.engine.utilization.discoveries < n

Counted ==
  /\ ~ file.torn => Within(file, commands)
  /\ \A p \in Processes : Active(p) => CountedRow(proc[p], commands)

\* Bounds that hold keep holding as they grow.
LEMMA WithinMore ==
  ASSUME NEW e, Sound(e), NEW k \in Nat, NEW n \in Nat, k <= n, Within(e, k)
  PROVE  Within(e, n)
BY EngineFields DEF Within

\* What a command loads is within the bounds.
LEMMA LoadWithin ==
  ASSUME Held, Counted
  PROVE  Within(Load, commands)
<1>1. CASE file.torn
  <2> DEFINE e == Fresh(build)
  <2>1. /\ e.heterogeneityView = [admitted |-> 0, rejected |-> 0]
        /\ e.utilization.discoveries = 0
    BY FreshSound DEF Held
  <2> HIDE DEF e
  <2>2. Within(e, commands)
    BY <2>1 DEF Within, Held
  <2>. QED BY <1>1, <2>2 DEF Load, e
<1>2. CASE ~ file.torn
  BY <1>2 DEF Load, Counted
<1>. QED BY <1>1, <1>2

\* What a command begins with is within the bounds of one command more.
LEMMA BeganWithin ==
  ASSUME NEW e, Sound(e), NEW r, Began(r, e), NEW n \in Nat, Within(e, n)
  PROVE  CountedRow(r, n + 1)
<1>1. /\ e.heterogeneityView.admitted \in Nat /\ e.heterogeneityView.rejected \in Nat
      /\ e.utilization.discoveries \in Nat
      /\ e.heterogeneityView \in [admitted : Nat, rejected : Nat]
      /\ e.utilization \in [mode : Modes, inFlight : {0}, exploring : BOOLEAN, discoveries : Nat]
  BY EngineFields
<1>2. CASE r.cmd = "mode"
  <2>1. PICK m \in {"queue", "explorer"} : r.engine = Flipped(e, m) /\ r.pc = "save"
    BY <1>2 DEF Began
  <2> DEFINE g == Flipped(e, m)
  <2>2. m \in Modes
    BY DEF Modes
  <2>3. g.utilization = [e.utilization EXCEPT !.mode = m] /\ g.heterogeneityView = e.heterogeneityView
    BY <2>2, FlippedSound
  <2> HIDE DEF g
  <2>4. g.utilization.discoveries = e.utilization.discoveries
    BY <1>1, <2>3
  <2>. QED BY <1>1, <2>1, <2>3, <2>4 DEF CountedRow, Within, g
<1>3. CASE r.cmd = "admit"
  <2>1. PICK u \in Units : r.engine = Enqueued(e, u) /\ r.pc = "save"
    BY <1>3 DEF Began
  <2> DEFINE g == Enqueued(e, u)
  <2>2. /\ g.heterogeneityView.admitted = e.heterogeneityView.admitted + 1
        /\ g.heterogeneityView.rejected = e.heterogeneityView.rejected
        /\ g.utilization = e.utilization
    BY EnqueuedSound
  <2> HIDE DEF g
  <2>. QED BY <1>1, <2>1, <2>2 DEF CountedRow, Within, g
<1>4. CASE r.cmd = "reject"
  <2>1. r.engine = Refused(e) /\ r.pc = "save"
    BY <1>4 DEF Began
  <2> DEFINE g == Refused(e)
  <2>2. /\ g.heterogeneityView = [e.heterogeneityView EXCEPT !.rejected = @ + 1]
        /\ g.utilization = e.utilization
    BY RefusedSound
  <2> HIDE DEF g
  <2>3. /\ g.heterogeneityView.admitted = e.heterogeneityView.admitted
        /\ g.heterogeneityView.rejected = e.heterogeneityView.rejected + 1
    BY <1>1, <2>2
  <2>. QED BY <1>1, <2>1, <2>2, <2>3 DEF CountedRow, Within, g
<1>5. CASE r.cmd = "explore"
  <2> DEFINE u == [e.utilization EXCEPT !.exploring = TRUE]
             f == [e EXCEPT !.utilization = u]
  <2>1. /\ u \in [mode : Modes, inFlight : {0}, exploring : BOOLEAN, discoveries : Nat]
        /\ u.mode = e.utilization.mode /\ u.discoveries = e.utilization.discoveries
    BY <1>1
  <2>2. r.engine = f
    BY <1>5 DEF Began
  <2> HIDE DEF u
  <2>3. f.utilization = u /\ f.heterogeneityView = e.heterogeneityView
    BY <2>1, SessionSound
  <2> HIDE DEF f
  <2>. QED BY <1>1, <2>1, <2>2, <2>3 DEF CountedRow, Within
<1>6. CASE r.cmd \in {"run", "serve"}
  <2>1. r.engine = e /\ r.pc = "drain"
    BY <1>6 DEF Began
  <2>. QED BY <1>1, <2>1 DEF CountedRow, Within
<1>. QED BY <1>2, <1>3, <1>4, <1>5, <1>6 DEF Began

\* A process that moves within its bounds keeps all counted.
LEMMA CountedMoves ==
  ASSUME Held, Counted, NEW p \in Processes, NEW r, Moves(p, r),
         commands' \in {commands, commands + 1},
         r.pc = "idle" \/ CountedRow(r, commands'),
         file' \in Unparsed \/ file' = file \/ (Sound(file') /\ Within(file', commands))
  PROVE  Counted'
<1>1. /\ proc'[p] = r /\ \A q \in Processes : q # p => proc'[q] = proc[q]
  BY OnlyOneMoves DEF Held
<1>2. commands \in Nat /\ commands' \in Nat /\ commands <= commands'
  BY DEF Held
<1>3. ASSUME NEW e, Sound(e), Within(e, commands) PROVE Within(e, commands')
  BY <1>2, <1>3, WithinMore
<1>4. ASSUME NEW q \in Processes, Active(q), q # p PROVE CountedRow(proc[q], commands')
  <2>1. AtWork(proc[q], commands) /\ CountedRow(proc[q], commands)
    BY <1>4, AtWorkRow DEF Active, Counted
  <2>2. Sound(proc[q].engine) /\ Within(proc[q].engine, commands)
    BY <2>1 DEF AtWork, CountedRow
  <2>3. Within(proc[q].engine, commands')
    BY <1>3, <2>2
  <2>4. proc[q].engine.utilization.discoveries \in Nat
    BY <2>2, EngineFields
  <2>. QED BY <1>2, <2>1, <2>3, <2>4 DEF CountedRow
<1>5. ASSUME NEW q \in Processes, Active(q)' PROVE CountedRow(proc'[q], commands')
  BY <1>1, <1>4, <1>5 DEF Active
<1>6. ~ file'.torn => Within(file', commands')
  <2>1. CASE file' = file
    <3>1. file \in Unparsed \/ Sound(file)
      BY DEF Held
    <3>. QED BY <1>3, <2>1, <3>1, UnparsedFiles DEF Counted
  <2>2. CASE file' \in Unparsed
    BY <2>2, UnparsedFiles
  <2>3. CASE Sound(file') /\ Within(file', commands)
    BY <1>3, <2>3
  <2>. QED BY <2>1, <2>2, <2>3
<1>. QED BY <1>5, <1>6 DEF Counted, CountedRow, Within

\* The counts, at every step.
LEMMA CountedStep == Held /\ Recorded /\ Counted /\ [Next]_vars => Counted'
<1>. SUFFICES ASSUME Held, Recorded, Counted, [Next]_vars PROVE Counted'
  OBVIOUS
<1>0. commands \in Nat
  BY DEF Held
<1>1. ASSUME NEW p \in Processes, Starting(p) PROVE Counted'
  <2>1. PICK r \in Rows : Starts(p, r)
    BY <1>1, StartShape
  <2>2. Moves(p, r) /\ Began(r, Load) /\ commands' = commands + 1 /\ UNCHANGED file
    BY <2>1 DEF Starts
  <2>3. CountedRow(r, commands')
    BY <1>0, <2>2, LoadSound, LoadWithin, BeganWithin
  <2>. QED BY <2>2, <2>3, CountedMoves
<1>2. ASSUME NEW p \in Processes, Produce(p) PROVE Counted'
  <2> DEFINE e == proc[p].engine
             w == [e.utilization EXCEPT !.exploring = FALSE]
             u == [w EXCEPT !.discoveries = e.utilization.discoveries + 1]
             f == [e EXCEPT !.utilization = u]
  <2>1. Sound(e) /\ Active(p) /\ proc[p].pc = "explore"
    BY <1>2, AtWorkRow DEF Produce, AtWork, Active
  <2>2. /\ e.utilization \in [mode : Modes, inFlight : {0}, exploring : BOOLEAN, discoveries : Nat]
        /\ e.utilization.discoveries \in Nat
    BY <2>1, EngineFields
  <2>3. u = [e.utilization EXCEPT !.exploring = FALSE, !.discoveries = @ + 1]
    BY <2>2
  <2>4. PICK r \in Rows : /\ Moves(p, r) /\ r.pc = "save" /\ r.engine = f
                          /\ UNCHANGED <<file, commands>>
    BY <1>2, <2>3, ProduceShape
  <2>5. /\ w \in [mode : Modes, inFlight : {0}, exploring : BOOLEAN, discoveries : Nat]
        /\ w.mode = e.utilization.mode
    BY <2>2
  <2> HIDE DEF w
  <2>6. /\ u \in [mode : Modes, inFlight : {0}, exploring : BOOLEAN, discoveries : Nat]
        /\ u.mode = e.utilization.mode /\ u.discoveries = e.utilization.discoveries + 1
    BY <2>2, <2>5
  <2> HIDE DEF u
  <2>7. f.utilization = u /\ f.heterogeneityView = e.heterogeneityView
    BY <2>1, <2>6, SessionSound
  <2> HIDE DEF f
  <2>8. Within(e, commands) /\ e.utilization.discoveries < commands
    BY <2>1 DEF Counted, CountedRow
  <2>9. CountedRow(r, commands')
    BY <1>0, <2>2, <2>4, <2>6, <2>7, <2>8 DEF CountedRow, Within
  <2>. QED BY <2>4, <2>9, CountedMoves
<1>3. ASSUME NEW p \in Processes, Drain(p) PROVE Counted'
  <2>1. Active(p)
    BY <1>3 DEF Drain, Active
  <2>2. PICK r \in Rows, ev \in Events, again \in BOOLEAN :
          /\ Moves(p, r) /\ r.pc \in {"drain", "save"}
          /\ Drained(proc[p].engine, r.engine, ev, again) /\ UNCHANGED <<file, commands>>
    BY <1>3, DrainShape
  <2>3. CountedRow(r, commands')
    BY <2>1, <2>2 DEF Drained, Counted, CountedRow, Within
  <2>. QED BY <2>2, <2>3, CountedMoves
<1>4. ASSUME NEW p \in Processes, DrainIdle(p) \/ SaveTruncate(p) PROVE Counted'
  <2>1. PICK r \in Rows : /\ Moves(p, r) /\ r.engine = proc[p].engine /\ Active(p)
                          /\ r.pc \in {"save", "write"}
                          /\ file' = file \/ file' = NoState
                          /\ UNCHANGED commands
    BY <1>4, MoveOnShape DEF Active
  <2>2. CountedRow(r, commands')
    BY <2>1 DEF Counted, CountedRow
  <2>. QED BY <2>1, <2>2, CountedMoves DEF Unparsed
<1>5. ASSUME NEW p \in Processes, SaveWrite(p) \/ SaveFails(p) PROVE Counted'
  <2>1. /\ Moves(p, Idle) /\ Active(p) /\ file' \in {file, proc[p].engine, Garbled}
        /\ AtWork(proc[p], commands) /\ UNCHANGED commands
    BY <1>5, FinishShape DEF Active
  <2>2. Sound(proc[p].engine) /\ Within(proc[p].engine, commands)
    BY <2>1 DEF AtWork, Counted, CountedRow
  <2>. QED BY <2>1, <2>2, IdleRow, CountedMoves DEF Unparsed
<1>6. ASSUME NEW m \in Manifests, Install(m) PROVE Counted'
  BY <1>6 DEF Install, Counted, CountedRow, Within, Active
<1>7. CASE UNCHANGED vars
  BY <1>7 DEF vars, Counted, CountedRow, Within, Active
<1>. QED BY <1>1, <1>2, <1>3, <1>4, <1>5, <1>6, <1>7, NextCases
-----------------------------------------------------------------------------
(***************************************************************************)
(* The steps.  c is the watched copy before, d after.                      *)
(***************************************************************************)

\* A command starts: it throws the switch, admits, is refused, or explores.
LEMMA BeganIsEngine ==
  ASSUME NEW r, Sound(Load), Began(r, Load), Within(Load, commands), commands \in Nat,
         commands < MaxCommands,
         Copy(Watched) = Load, Copy(Watched)' = r.engine
  PROVE  Copy(Watched)' = Copy(Watched) \/ Working!Next
<1> DEFINE c == Copy(Watched)
<1>1. /\ Sound(c) /\ Began(r, c) /\ Within(c, commands)
      /\ c.heterogeneityView \in [admitted : Nat, rejected : Nat]
      /\ c.utilization \in [mode : Modes, inFlight : {0}, exploring : BOOLEAN, discoveries : Nat]
      /\ MaxCommands \in Nat
  BY EngineFields, StateFileAssumption DEF StateFileAssumption
<1>2. CASE r.cmd = "mode"
  <2>1. PICK m \in {"queue", "explorer"} : c.mode # m /\ r.engine = Flipped(c, m)
    BY <1>1, <1>2 DEF Began
  <2> DEFINE g == Flipped(c, m)
  <2>2. m \in Modes /\ m \in Working!Modes
    BY DEF Modes, Working!Modes
  <2>3. /\ g.mode = m /\ g.utilization = [c.utilization EXCEPT !.mode = m]
        /\ g.prioritySet = c.prioritySet /\ g.stream = c.stream
        /\ g.priorityView = c.priorityView /\ g.heterogeneityView = c.heterogeneityView
        /\ g.emitted = c.emitted /\ g.seq = c.seq /\ g.manifest = c.manifest
    BY <1>1, <2>2, FlippedSound
  <2>4. c' = g
    BY <2>1
  <2> HIDE DEF g
  <2>5. Working!ThrowSwitch(m)
    BY <2>1, <2>3, <2>4 DEF Working!ThrowSwitch
  <2>. QED BY <2>2, <2>5 DEF Working!Next
<1>3. CASE r.cmd = "admit"
  <2>1. PICK u \in Units : Validate(u) = "ok" /\ r.engine = Enqueued(c, u)
    BY <1>1, <1>3 DEF Began
  <2> DEFINE g == Enqueued(c, u)
  <2>2. /\ g.prioritySet = Append(c.prioritySet, EntryOf(c, u))
        /\ g.priorityView = c.priorityView + 1
        /\ g.heterogeneityView = [c.heterogeneityView EXCEPT !.admitted = @ + 1]
        /\ g.mode = c.mode /\ g.utilization = c.utilization /\ g.stream = c.stream
        /\ g.emitted = c.emitted /\ g.seq = c.seq /\ g.manifest = c.manifest
    BY <1>1, EnqueuedSound
  <2>3. c' = g
    BY <2>1
  <2> HIDE DEF g
  <2>4. Working!AdmitEntry(u) = EntryOf(c, u)
    BY DEF Working!AdmitEntry, EntryOf
  <2>5. c.heterogeneityView.admitted < MaxCommands
    BY <1>1 DEF Within
  <2>6. Working!Admit(u)
    BY <2>1, <2>2, <2>3, <2>4, <2>5, SameValidate DEF Working!Admit
  <2>. QED BY <2>6 DEF Working!Next
<1>4. CASE r.cmd = "reject"
  <2>1. PICK u \in Units : Validate(u) # "ok" /\ r.engine = Refused(c)
    BY <1>1, <1>4 DEF Began
  <2> DEFINE g == Refused(c)
  <2>2. /\ g.heterogeneityView = [c.heterogeneityView EXCEPT !.rejected = @ + 1]
        /\ g.mode = c.mode /\ g.utilization = c.utilization
        /\ g.prioritySet = c.prioritySet /\ g.stream = c.stream
        /\ g.priorityView = c.priorityView
        /\ g.emitted = c.emitted /\ g.seq = c.seq /\ g.manifest = c.manifest
    BY <1>1, RefusedSound
  <2>3. c' = g
    BY <2>1
  <2> HIDE DEF g
  <2>4. c.heterogeneityView.rejected < MaxCommands
    BY <1>1 DEF Within
  <2>5. Working!Reject(u)
    BY <2>1, <2>2, <2>3, <2>4, SameValidate DEF Working!Reject
  <2>. QED BY <2>5 DEF Working!Next
<1>5. CASE r.cmd = "explore"
  <2> DEFINE u == [c.utilization EXCEPT !.exploring = TRUE]
             f == [c EXCEPT !.utilization = u]
  <2>1. /\ u \in [mode : Modes, inFlight : {0}, exploring : BOOLEAN, discoveries : Nat]
        /\ u.mode = c.utilization.mode
    BY <1>1
  <2>2. r.engine = f /\ c.mode = "explorer"
    BY <1>1, <1>5 DEF Began
  <2> HIDE DEF u
  <2>3. /\ f.utilization = u /\ f.mode = c.mode
        /\ f.prioritySet = c.prioritySet /\ f.stream = c.stream
        /\ f.priorityView = c.priorityView /\ f.heterogeneityView = c.heterogeneityView
        /\ f.emitted = c.emitted /\ f.seq = c.seq /\ f.manifest = c.manifest
    BY <1>1, <2>1, SessionSound
  <2>4. c' = f
    BY <2>2
  <2> HIDE DEF f
  <2>5. Working!StartExploration
    BY <2>2, <2>3, <2>4 DEF Working!StartExploration, u
  <2>. QED BY <2>5 DEF Working!Next
<1>6. CASE r.cmd \in {"run", "serve"}
  BY <1>6, <1>1 DEF Began
<1>. QED BY <1>1, <1>2, <1>3, <1>4, <1>5, <1>6 DEF Began

\* Producing a discovery record is a step of the engine.
LEMMA ProducedIsEngine ==
  ASSUME Sound(Copy(Watched)), Copy(Watched).utilization.exploring,
         Copy(Watched).utilization.discoveries < commands, commands \in 0 .. MaxCommands,
         Copy(Watched)' = [Copy(Watched) EXCEPT !.utilization =
            [Copy(Watched).utilization EXCEPT !.exploring = FALSE, !.discoveries = @ + 1]]
  PROVE  Working!Next
<1> DEFINE c == Copy(Watched)
           U == [mode : Modes, inFlight : {0}, exploring : BOOLEAN, discoveries : Nat]
           w == [c.utilization EXCEPT !.exploring = FALSE]
           u == [w EXCEPT !.discoveries = c.utilization.discoveries + 1]
           f == [c EXCEPT !.utilization = u]
<1>1. c.utilization \in U /\ c.utilization.discoveries \in Nat
  BY EngineFields
<1>2. w \in U /\ w.mode = c.utilization.mode
  BY <1>1
<1>3. u = [c.utilization EXCEPT !.exploring = FALSE, !.discoveries = @ + 1]
  BY <1>1
<1> HIDE DEF w
<1>4. u \in U /\ u.mode = c.utilization.mode
  BY <1>1, <1>2
<1>5. c' = f
  BY <1>3
<1> HIDE DEF u
<1>6. /\ f.utilization = u /\ f.mode = c.mode
      /\ f.prioritySet = c.prioritySet /\ f.stream = c.stream
      /\ f.priorityView = c.priorityView /\ f.heterogeneityView = c.heterogeneityView
      /\ f.emitted = c.emitted /\ f.seq = c.seq /\ f.manifest = c.manifest
  BY <1>4, SessionSound
<1> HIDE DEF f
<1>7. c.utilization.discoveries < MaxCommands
  BY <1>1, StateFileAssumption DEF StateFileAssumption
<1>8. Working!ProduceDiscoveryRecord
  BY <1>3, <1>5, <1>6, <1>7 DEF Working!ProduceDiscoveryRecord
<1>. QED BY <1>8 DEF Working!Next

\* One turn of kiln run: the oracle passes every cell it is asked about.
LEMMA DrainedIsEngine ==
  ASSUME Sound(Copy(Watched)), Copy(Watched).prioritySet # <<>>, Copy(Watched).mode = "queue",
         Copy(Watched)' \in Outcomes(Copy(Watched), "run")
  PROVE  Working!Next
<1> DEFINE c == Copy(Watched)
           x == Head(c.prioritySet)
           after == c'
<1>1. c \in Engines
  BY DEF Sound
<1>2. CASE MissingFor(c.manifest, x.unit) # {}
  <2> DEFINE ev == EventOf(c, x, "not-admitted", MissingFor(c.manifest, x.unit), "none", <<>>)
  <2>1. after = AnsweredNotAdmitted(c)
    BY <1>2 DEF Outcomes
  <2>2. /\ after.seq = c.seq + 1 /\ after.emitted = c.emitted + 1
        /\ after.stream = Append(c.stream, ev)
        /\ after.prioritySet = Tail(c.prioritySet) /\ after.priorityView = c.priorityView - 1
        /\ after.mode = c.mode /\ after.heterogeneityView = c.heterogeneityView
        /\ after.utilization = c.utilization /\ after.manifest = c.manifest
    BY <1>1, <2>1 DEF AnsweredNotAdmitted, Emitted, EventOf, Engines
  <2>3. Working!DrainNotAdmitted
    BY <1>2, <2>2, SameMissing, SameVerdict DEF Working!DrainNotAdmitted, Working!Emit, EventOf
  <2>. QED BY <2>3 DEF Working!Next, Working!Drain
<1>3. CASE MissingFor(c.manifest, x.unit) = {}
  <2> DEFINE pass    == DOMAIN x.unit.cells
             results == WalkCells(x.unit.cells, pass)
             v       == ReduceVerdict(results)
             again   == v # "accepted" /\ HasHeadroom(x)
             ev      == EventOf(c, x, v, {}, TierRan(x), results)
  <2>1. after = Ran(c, results)
    BY <1>3 DEF Outcomes
  <2>2. /\ after.seq = c.seq + 1 /\ after.emitted = c.emitted + 1
        /\ after.stream = Append(c.stream, ev)
        /\ after.prioritySet = IF again THEN Append(Tail(c.prioritySet), OneBindingUp(x))
                               ELSE Tail(c.prioritySet)
        /\ after.priorityView = IF again THEN c.priorityView ELSE c.priorityView - 1
        /\ after.mode = c.mode /\ after.heterogeneityView = c.heterogeneityView
        /\ after.utilization = c.utilization /\ after.manifest = c.manifest
    <3> HIDE DEF results
    <3>. QED BY <1>1, <2>1 DEF Ran, Emitted, EventOf, Engines
  <2>3. c.priorityView \in Nat
    BY EngineFields
  <2>4. Working!DrainRun(pass)
    <3>1. Working!WalkCells(x.unit.cells, pass) = results
      BY SameWalk
    <3> HIDE DEF results
    <3>2. /\ Working!ReduceVerdict(results) = v /\ Working!HasHeadroom(x) = HasHeadroom(x)
          /\ Working!TierRan(x) = TierRan(x) /\ Working!OneBindingUp(x) = OneBindingUp(x)
          /\ Working!ConsequenceOf(v) = ConsequenceOf(v)
          /\ Working!MissingFor(c.manifest, x.unit) = {}
      BY <1>3, SameVerdict, SameLadder, SameMissing
    <3> HIDE DEF v
    <3>3. Working!Emit(x, v, {}, TierRan(x), results)
      BY <2>2, <3>2 DEF Working!Emit, EventOf
    <3>4. after.prioritySet = IF again THEN Working!Escalated(x, Tail(c.prioritySet))
                              ELSE Tail(c.prioritySet)
      BY <2>2, <3>2 DEF Working!Escalated
    <3>5. after.priorityView = IF again THEN (c.priorityView - 1) + 1 ELSE c.priorityView - 1
      BY <2>2, <2>3
    <3>. QED BY <2>2, <3>1, <3>2, <3>3, <3>4, <3>5 DEF Working!DrainRun
  <2>. QED BY <2>4 DEF Working!Next, Working!Drain
<1>. QED BY <1>2, <1>3

\* A step on the watched process's copy is a step of the engine, or none.
LEMMA WatchedStep ==
  ASSUME Held, Recorded, Counted, Next, proc'[Watched].pc # "idle", proc'[Watched].cmd # "serve"
  PROVE  Copy(Watched)' = Copy(Watched) \/ Working!Next
<1>0. Watched \in Processes /\ commands \in Nat /\ commands \in 0 .. MaxCommands
  BY StateFileAssumption DEF StateFileAssumption, Held
<1>1. Copy(Watched)' = proc'[Watched].engine
  BY DEF Copy
<1>2. ASSUME NEW p \in Processes, NEW r, Moves(p, r), p # Watched
      PROVE  Copy(Watched)' = Copy(Watched)
  <2>1. proc'[Watched] = proc[Watched]
    BY <1>0, <1>2, OnlyOneMoves DEF Held
  <2>. QED BY <1>1, <2>1 DEF Copy
<1>3. ASSUME NEW r, Moves(Watched, r)
      PROVE  proc'[Watched] = r /\ r.pc # "idle" /\ r.cmd # "serve" /\ Copy(Watched)' = r.engine
  BY <1>0, <1>1, <1>3, OnlyOneMoves DEF Held
<1>4. ASSUME proc[Watched].pc # "idle"
      PROVE  Copy(Watched) = proc[Watched].engine /\ Sound(Copy(Watched))
  BY <1>0, <1>4, AtWorkRow DEF Copy, AtWork
<1>5. ASSUME NEW p \in Processes, Starting(p) PROVE Copy(Watched)' = Copy(Watched) \/ Working!Next
  <2>1. PICK r \in Rows : Starts(p, r)
    BY <1>5, StartShape
  <2>2. CASE p = Watched
    <3>1. Copy(Watched) = Load /\ Began(r, Load) /\ Copy(Watched)' = r.engine
          /\ commands < MaxCommands
      BY <1>3, <2>1, <2>2 DEF Starts, Copy
    <3>. QED BY <1>0, <3>1, LoadSound, LoadWithin, BeganIsEngine
  <2>. QED BY <1>2, <2>1, <2>2 DEF Starts
<1>6. ASSUME NEW p \in Processes, Produce(p) PROVE Copy(Watched)' = Copy(Watched) \/ Working!Next
  <2>1. PICK r \in Rows :
          /\ Moves(p, r) /\ proc[p].engine.utilization.exploring
          /\ r.engine = [proc[p].engine EXCEPT !.utilization =
               [proc[p].engine.utilization EXCEPT !.exploring = FALSE, !.discoveries = @ + 1]]
    BY <1>6, ProduceShape
  <2>2. CASE p = Watched
    <3>1. proc[Watched].pc = "explore" /\ Active(Watched)
      BY <1>6, <2>2 DEF Produce, Active
    <3>2. Copy(Watched).utilization.discoveries < commands
      BY <1>0, <1>4, <3>1 DEF Counted, CountedRow
    <3>3. Copy(Watched) = proc[Watched].engine /\ Sound(Copy(Watched)) /\ Copy(Watched)' = r.engine
      BY <1>3, <1>4, <2>1, <2>2, <3>1
    <3>. QED BY <1>0, <2>1, <2>2, <3>2, <3>3, ProducedIsEngine
  <2>. QED BY <1>2, <2>1, <2>2
<1>7. ASSUME NEW p \in Processes, Drain(p) PROVE Copy(Watched)' = Copy(Watched) \/ Working!Next
  <2>1. PICK r \in Rows :
          /\ Moves(p, r) /\ SameCommand(p, r) /\ proc[p].engine.prioritySet # <<>>
          /\ r.engine \in Outcomes(proc[p].engine, proc[p].cmd)
    BY <1>7, DrainShape
  <2>2. CASE p = Watched
    <3>1. /\ proc[Watched].pc = "drain" /\ AtWork(proc[Watched], commands)
      BY <1>0, <1>7, <2>2, AtWorkRow DEF Drain
    <3>2. proc[Watched].cmd = "run" /\ proc[Watched].engine.mode = "queue"
      BY <1>3, <2>1, <2>2, <3>1 DEF AtWork, SameCommand
    <3>3. Copy(Watched) = proc[Watched].engine /\ Sound(Copy(Watched)) /\ Copy(Watched)' = r.engine
      BY <1>3, <1>4, <2>1, <2>2, <3>1
    <3>. QED BY <2>1, <2>2, <3>2, <3>3, DrainedIsEngine
  <2>. QED BY <1>2, <2>1, <2>2
<1>8. ASSUME NEW p \in Processes, DrainIdle(p) \/ SaveTruncate(p)
      PROVE  Copy(Watched)' = Copy(Watched)
  <2>1. PICK r \in Rows : Moves(p, r) /\ r.engine = proc[p].engine /\ proc[p].pc # "idle"
    BY <1>8, MoveOnShape
  <2>. QED BY <1>2, <1>3, <1>4, <2>1
<1>9. ASSUME NEW p \in Processes, SaveWrite(p) \/ SaveFails(p)
      PROVE  Copy(Watched)' = Copy(Watched)
  <2>1. Moves(p, Idle)
    BY <1>9, FinishShape
  <2>. QED BY <1>2, <1>3, <2>1, IdleRow
<1>10. ASSUME NEW m \in Manifests, Install(m) PROVE Copy(Watched)' = Copy(Watched)
  BY <1>1, <1>10 DEF Install, Copy
<1>. QED BY <1>5, <1>6, <1>7, <1>8, <1>9, <1>10, NextCases

\* Whatever other commands do meanwhile, each step a command takes on its copy,
\* from the file it loads to what it saves, is a step of Engine: cmd_mode_set,
\* cmd_admit, cmd_explore and cmd_run change state through Engine's methods only.
THEOREM CommandsAreClients == Spec => CommandsUseEngine
<1>1. Init => Counted
  BY DEF Init, Counted, NoState, Active, Idle
<1>2. /\ Held /\ Recorded /\ Counted
      /\ [Next]_vars
      => [proc'[Watched].pc # "idle" /\ proc'[Watched].cmd # "serve" =>
            Copy(Watched)' = Copy(Watched) \/ Working!Next]_vars
  BY WatchedStep
<1>. QED BY <1>1, <1>2, AllHeld, CountedStep, PTL DEF Spec, CommandsUseEngine
=============================================================================
