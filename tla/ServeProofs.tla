---------------------------- MODULE ServeProofs ----------------------------
(***************************************************************************)
(* Proofs about Serve, for any units, any number of admissions and any     *)
(* combination of faults: its type invariant, and the safety properties,   *)
(* each from an inductive invariant of its own over the type invariant.    *)
(***************************************************************************)
EXTENDS Serve, FiniteSetTheorems, TLAPS

(***************************************************************************)
(* What some theorems suppose of the producers' units.                     *)
(***************************************************************************)
\* interface/src/lib.rs: the bundle hash is the unit's identity.  kiln takes it
\* as given, and the log and the tree name a unit by nothing else.
HashIsIdentity == \A u, v \in Units : u.hash = v.hash => u = v

(***************************************************************************)
(* Types.                                                                  *)
(***************************************************************************)
Modes == {"off", "queue", "explorer"}

Entries == [unit : Units, ladder : Nat, tier : Tiers, ticket : Nat]

Deliveries == [commit : Nat, pr : BOOLEAN]

Verdicts == {"accepted", "escalate", "not-admitted"}

Events ==
  [hash : Hashes, ticket : Nat, verdict : Verdicts, tierRan : {"light", "heavy", "none"},
   verified : BOOLEAN, tree : SUBSET Hashes, delivery : Deliveries]

Records ==
  [hash : Hashes, verdict : Verdicts, verified : BOOLEAN, tree : SUBSET Hashes, delivery : Deliveries]

Engines ==
  [torn : {FALSE}, mode : Modes, queue : Seq(Entries), stream : Seq(Events), inFlight : Nat]

Runs ==
  [entry : Entries, verdict : {"none", "accepted", "escalate"}, verified : BOOLEAN,
   tree : SUBSET Hashes, delivery : Deliveries]

Directories == [exists : BOOLEAN, holds : SUBSET Hashes]

\* The steps of a drain, in their order, and those from the judgement on.
Before == {"taken", "provisioned", "fetched", "leased"}
After == {"judged", "delivered", "emitted", "patched", "revoked"}
InDrain == pc \in Before \cup After

\* The type invariant, with the types of the locals of a drain.
Typed ==
  /\ file \in Engines \cup {Torn} /\ engine \in Engines
  /\ pc \in {"down", "top", "failed", "saving"} \cup Before \cup After
  /\ InDrain => run \in Runs /\ engine.inFlight > 0
  /\ pc \in After => run.verdict # "none"
  /\ log \subseteq Records
  /\ workspaces \in [Dirs -> Directories] /\ patches \in [Dirs -> SUBSET Hashes]
  /\ commits \in Nat /\ branches \in [Branches -> SUBSET (1 .. commits)]
  /\ leases \subseteq Refs
  /\ admitted \in 0 .. MaxAdmissions /\ faults \subseteq Faults

(***************************************************************************)
(* Judgement: what is accepted was verified.                               *)
(***************************************************************************)
Judged ==
  /\ pc \in After /\ run.verdict = "accepted" /\ run.entry.unit.cells # <<>> => run.verified
  /\ AcceptedIsVerified

(***************************************************************************)
(* Order: no drain is cut short, so nothing of one stands in the next.     *)
(***************************************************************************)
Uncut == faults \subseteq {"torn", "push", "overlap"}

Orderly ==
  Uncut =>
    /\ pc # "failed"
    /\ ~ InDrain => leases = {} /\ \A d \in Dirs : workspaces[d] = NoDirectory
    /\ InDrain => \A d \in Dirs \ {Dir} : workspaces[d] = NoDirectory
    /\ pc \in Before => workspaces[Dir].holds = {}
    /\ InDrain => leases \subseteq (IF Entry.unit.grant THEN {Ref} ELSE {})
    /\ pc = "revoked" => leases = {}
    /\ engine.inFlight = IF InDrain THEN 1 ELSE 0
    /\ file.torn \/ file.inFlight = 0

\* A tree holds what its unit produced, in a clone and wherever nothing was cut.
OwnTree ==
  /\ pc \in After /\ (~ Inline \/ Uncut) => run.tree \subseteq {Entry.unit.hash}
  /\ pc \in {"fetched", "leased"} /\ ~ Inline => workspaces[Dir].holds = {}
  /\ \A l \in log : \A u \in Units :
        l.hash = u.hash /\ (u.delivery.mode = "repository" \/ Uncut) => l.tree \subseteq {l.hash}
  /\ Uncut => \A d \in Dirs : \E h \in Hashes : patches[d] \subseteq {h}

(***************************************************************************)
(* Recovery: the state file lacks nothing until it is written.             *)
(***************************************************************************)
KillsOnly == faults \subseteq {"crash", "push"}

\* Engine e knows of admission t: it is queued, or answered for good and in the log.
Kept(t, e, verdicts) ==
  \/ \E x \in ToSet(e.queue) : x.ticket = t
  \/ \E v \in ToSet(e.stream) : v.ticket = t /\ Final(v) /\ \E l \in verdicts : l.hash = v.hash

\* The entries a running process has in its hands.
Held == ToSet(engine.queue) \cup (IF InDrain THEN {run.entry} ELSE {})

Recovery ==
  KillsOnly =>
    /\ pc # "failed" /\ (pc = "saving" <=> file.torn)
    /\ pc # "saving" => \A t \in 1 .. admitted : Kept(t, file, log)
    /\ pc # "down" => \A t \in 1 .. admitted : Kept(t, engine, log) \/ (InDrain /\ Entry.ticket = t)
    /\ pc \in {"emitted", "patched", "revoked"} =>
         Kept(Entry.ticket, engine, log) \/ (run.verdict # "accepted" /\ HasHeadroom(Entry))
    /\ pc \notin {"down", "saving"} =>
         \A x \in Held : \E y \in ToSet(file.queue) : y.unit = x.unit

\* A directory that stands is the name of a unit still to be drained.  The box
\* covers that unit: one it does not cover leaves without a teardown.
Stands(d, entries) ==
  \E x \in entries : SafeName[x.unit.ref] = d /\ MissingFor(Manifest, x.unit) = {}

Remains ==
  /\ InDrain => MissingFor(Manifest, Entry.unit) = {}
  /\ KillsOnly => \A d \in Dirs : workspaces[d].exists =>
       /\ pc # "saving" => Stands(d, ToSet(file.queue))
       /\ pc # "down" => Stands(d, Held)

(***************************************************************************)
(* Delivery of inline units.                                               *)
(***************************************************************************)
\* What is under a name was produced by units of that name.
Named ==
  /\ \A d \in Dirs : \A h \in workspaces[d].holds \cup patches[d] :
        \E v \in Units : v.hash = h /\ SafeName[v.ref] = d
  /\ pc \in After => \A h \in run.tree : \E v \in Units : v.hash = h /\ SafeName[v.ref] = Dir

\* The log accepts inline unit u with a changed tree, and there is no patch.
Unpatched(u) ==
  /\ u.delivery.mode = "inline" /\ patches[SafeName[u.ref]] = {}
  /\ \E l \in log : l.hash = u.hash /\ l.verdict = "accepted" /\ l.tree # {}

\* The drain in hand is u's, and has a patch to write.
ToBePatched(u) ==
  /\ InDrain /\ Entry.unit = u /\ pc \notin {"patched", "revoked"}
  /\ pc = "emitted" => run.verdict = "accepted" /\ run.tree # {}

\* Engine e has u queued, or answered it with nothing to patch.
PatchWaits(u, e) ==
  \/ \E x \in ToSet(e.queue) : x.unit = u
  \/ \E v \in ToSet(e.stream) : v.hash = u.hash /\ NothingToPatch(v)

Patched ==
  \A u \in Units : Unpatched(u) =>
    /\ Uncut => pc = "emitted" /\ ToBePatched(u)
    /\ KillsOnly /\ pc # "saving" => PatchWaits(u, file)
    /\ KillsOnly /\ pc # "down" => PatchWaits(u, engine) \/ ToBePatched(u)

(***************************************************************************)
(* Delivery to repositories.                                               *)
(***************************************************************************)
Untouched == faults \subseteq {"torn", "overlap"}

InLog(h) == \E l \in log : l.hash = h

\* A derived URL names a commit of the unit's branch.
UrlsResolve ==
  /\ pc \in Before \cup {"judged"} => run.delivery = NoDelivery
  /\ InDrain /\ run.delivery.pr => ~ Inline /\ run.delivery.commit \in branches[BranchOf(Entry.unit)]
  /\ \A l \in log : \A u \in Units :
       l.hash = u.hash /\ l.delivery.pr =>
         u.delivery.mode = "repository" /\ l.delivery.commit \in branches[BranchOf(u)]

\* The commit told of a judged unit: on its branch, and told only if there is one.
Landed(u, verdict, tree, commit) ==
  IF verdict = "accepted" /\ tree # {} THEN commit \in branches[BranchOf(u)] ELSE commit = 0

\* A repository unit whose pushes are all fast-forwards.
Owner(u) == u.delivery.mode = "repository" /\ OwnBranch(u)

\* Such a unit finds its branch empty or starts from it, until the log has its verdict.
Pushed ==
  Untouched =>
    /\ pc # "failed"
    /\ \A l \in log : \A u \in Units :
         l.hash = u.hash /\ Owner(u) => Landed(u, l.verdict, l.tree, l.delivery.commit)
    /\ pc = "delivered" /\ Owner(Entry.unit) =>
         \/ Landed(Entry.unit, run.verdict, run.tree, run.delivery.commit)
         \/ InLog(Entry.unit.hash)
    /\ \A u \in Units : Owner(u) /\ u.delivery.base # BranchOf(u) =>
         branches[BranchOf(u)] = {} \/ InLog(u.hash) \/ (pc = "delivered" /\ Entry.unit = u)

-----------------------------------------------------------------------------
\* What an engine queues and has answered, when one more is added or the first taken.
LEMMA QueueOps ==
  ASSUME NEW E, NEW s \in Seq(E)
  PROVE  /\ s # <<>> => /\ Head(s) \in E /\ Tail(s) \in Seq(E)
                        /\ ToSet(s) = {Head(s)} \cup ToSet(Tail(s))
         /\ \A x \in E : Append(s, x) \in Seq(E) /\ ToSet(Append(s, x)) = ToSet(s) \cup {x}
         /\ ToSet(s) \subseteq E /\ ToSet(<<>>) = {}
<1>1. ASSUME s # <<>>
      PROVE  Head(s) \in E /\ Tail(s) \in Seq(E) /\ ToSet(s) = {Head(s)} \cup ToSet(Tail(s))
  <2>1. /\ Len(s) \in Nat /\ Len(s) > 0 /\ Head(s) = s[1] /\ Len(Tail(s)) = Len(s) - 1
        /\ DOMAIN s = 1 .. Len(s) /\ DOMAIN Tail(s) = 1 .. Len(Tail(s))
        /\ Head(s) \in E /\ Tail(s) \in Seq(E)
    BY <1>1
  <2>2. \A i \in DOMAIN Tail(s) : Tail(s)[i] = s[i + 1]
    BY <1>1, <2>1
  <2>3. ToSet(Tail(s)) \subseteq ToSet(s)
    BY <2>1, <2>2 DEF ToSet
  <2>4. ToSet(s) \subseteq {Head(s)} \cup ToSet(Tail(s))
    <3>. SUFFICES ASSUME NEW i \in DOMAIN s, i # 1 PROVE s[i] \in ToSet(Tail(s))
      BY <2>1 DEF ToSet
    <3>1. i - 1 \in DOMAIN Tail(s) /\ (i - 1) + 1 = i
      BY <2>1
    <3>2. Tail(s)[i - 1] = s[i]
      BY <2>2, <3>1
    <3>. QED BY <3>1, <3>2 DEF ToSet
  <2>5. Head(s) \in ToSet(s)
    BY <2>1 DEF ToSet
  <2>. QED BY <2>1, <2>3, <2>4, <2>5
<1>2. ASSUME NEW x \in E
      PROVE  Append(s, x) \in Seq(E) /\ ToSet(Append(s, x)) = ToSet(s) \cup {x}
  <2>1. /\ DOMAIN Append(s, x) = 1 .. Len(s) + 1 /\ DOMAIN s = 1 .. Len(s) /\ Len(s) \in Nat
        /\ Append(s, x) \in Seq(E)
        /\ Append(s, x)[Len(s) + 1] = x /\ \A i \in DOMAIN s : Append(s, x)[i] = s[i]
    BY SMT
  <2>. QED BY <2>1 DEF ToSet
<1>3. ToSet(s) \subseteq E /\ ToSet(<<>>) = {}
  BY DEF ToSet
<1>. QED BY <1>1, <1>2, <1>3

\* What a start loads is an engine.
LEMMA LoadTyped == ASSUME Typed PROVE Load \in Engines /\ FreshEngine \in Engines
<1>1. FreshEngine \in Engines
  BY DEF Engines, Modes, FreshEngine
<1>2. Torn.torn
  BY DEF Torn
<1>. QED BY <1>1, <1>2 DEF Typed, Load

\* What the fields of a unit name.
LEMMA UnitNames ==
  ASSUME NEW u \in Units
  PROVE  /\ u.ref \in Refs /\ u.hash \in Hashes /\ SafeName[u.ref] \in Dirs
         /\ u.ladder \in Nat /\ u.tier \in Tiers
         /\ u.delivery.mode \in {"inline", "repository"}
         /\ u.delivery.mode = "repository" => BranchOf(u) \in Branches
BY ServeAssumption DEF Refs, Hashes, Dirs, Branches

\* Type correctness, at the start.
LEMMA TypedInit == Init => Typed
BY ServeAssumption DEF Init, Typed, Engines, Modes, FreshEngine, InDrain, Before, After, NoDirectory,
   Directories

\* The engine after one more is queued, or answered.
LEMMA EngineOps ==
  ASSUME NEW e \in Engines
  PROVE  /\ \A m \in Modes : [e EXCEPT !.mode = m] \in Engines
         /\ \A x \in Entries : [e EXCEPT !.queue = Append(@, x)] \in Engines
         /\ \A v \in Events : [e EXCEPT !.stream = Append(@, v)] \in Engines
         /\ \A n \in Nat, q \in Seq(Entries) : [e EXCEPT !.queue = q, !.inFlight = n] \in Engines
         /\ \A v \in Events, q \in Seq(Entries) :
              [e EXCEPT !.queue = q, !.stream = Append(@, v)] \in Engines
<1>1. e.queue \in Seq(Entries) /\ e.stream \in Seq(Events) /\ e.inFlight \in Nat
  BY DEF Engines
<1>2. \A x \in Entries : Append(e.queue, x) \in Seq(Entries)
  BY <1>1, QueueOps
<1>3. \A v \in Events : Append(e.stream, v) \in Seq(Events)
  BY <1>1, QueueOps
<1> DEFINE SE == Seq(Entries)
           SV == Seq(Events)
<1>4. Engines = [torn : {FALSE}, mode : Modes, queue : SE, stream : SV, inFlight : Nat]
  BY DEF Engines
<1>5. \A x \in Entries : Append(e.queue, x) \in SE
  BY <1>2
<1>6. \A v \in Events : Append(e.stream, v) \in SV
  BY <1>3
<1> HIDE DEF SE, SV
<1>7. \A m \in Modes : [e EXCEPT !.mode = m] \in Engines
  BY <1>4
<1>8. \A x \in Entries : [e EXCEPT !.queue = Append(@, x)] \in Engines
  BY <1>4, <1>5
<1>9. \A v \in Events : [e EXCEPT !.stream = Append(@, v)] \in Engines
  BY <1>4, <1>6
<1>10. \A n \in Nat, q \in SE : [e EXCEPT !.queue = q, !.inFlight = n] \in Engines
  BY <1>4
<1>11. \A v \in Events, q \in SE : [e EXCEPT !.queue = q, !.stream = Append(@, v)] \in Engines
  BY <1>4, <1>6
<1>. QED BY <1>7, <1>8, <1>9, <1>10, <1>11 DEF SE

\* A drain's step that leaves the locals and the engine alone.
LEMMA PlainTyped ==
  ASSUME Typed, UNCHANGED <<file, engine, run, log, branches, patches, commits, admitted>>,
         \/ pc \in Before /\ pc' \in Before
         \/ pc \in After /\ pc' \in After
         \/ InDrain /\ pc' \in {"failed", "saving", "top", "down"},
         workspaces' \in [Dirs -> Directories], leases' \subseteq Refs, faults' \subseteq Faults
  PROVE  Typed'
<1>1. pc' \in After => pc \in After
  BY DEF Before, After
<1>. QED BY <1>1 DEF Typed, InDrain

\* A fault is one of the faults.
LEMMA FaultTyped == ASSUME Typed, NEW kind, Fault(kind) PROVE faults' \subseteq Faults
BY DEF Typed, Fault

\* The names of the run's unit.
LEMMA InHand ==
  ASSUME Typed, InDrain
  PROVE  /\ run \in Runs /\ Entry \in Entries /\ Entry.unit \in Units /\ Ref \in Refs /\ Dir \in Dirs
         /\ Entry.unit.hash \in Hashes /\ engine.inFlight \in Nat /\ engine.inFlight > 0
BY UnitNames DEF Typed, Runs, Entries, Entry, Ref, Dir, Engines

\* The event of a drain, typed.
LEMMA EventTyped ==
  ASSUME Typed, InDrain, NEW v \in {"accepted", "escalate"}, NEW t \in {"light", "heavy"}
  PROVE  Event(v, t) \in Events
BY InHand DEF Event, Events, Runs, Entries, Entry, Verdicts

\* What writing an event does to the verdict log.
LEMMA LoggedTyped ==
  ASSUME Typed, NEW v \in Events
  PROVE  /\ Logged(v) \subseteq Records /\ log \subseteq Logged(v)
         /\ \E l \in Logged(v) : l.hash = v.hash
         /\ \A l \in Logged(v) : l \in log \/ (l = Recorded(v) /\ ~ InLog(v.hash))
<1>1. Recorded(v) \in Records /\ Recorded(v).hash = v.hash
  BY DEF Recorded, Records, Events
<1>2. Logged(v) = IF InLog(v.hash) THEN log ELSE log \cup {Recorded(v)}
  BY DEF Logged, InLog
<1>3. log \subseteq Records
  BY DEF Typed
<1>4. CASE InLog(v.hash)
  <2>1. Logged(v) = log
    BY <1>2, <1>4
  <2>2. \E l \in log : l.hash = v.hash
    BY <1>4 DEF InLog
  <2>. QED BY <2>1, <2>2, <1>3
<1>5. CASE ~ InLog(v.hash)
  BY <1>1, <1>2, <1>3, <1>5
<1>. QED BY <1>4, <1>5

\* A verdict is one of the two.
LEMMA JudgedTyped ==
  ASSUME NEW results PROVE ReduceVerdict(results) \in {"accepted", "escalate"}
BY DEF ReduceVerdict

\* What the worker and the oracle make of the tree and the locals.
JudgedAs(answered, oracle, tree) ==
  /\ tree \subseteq workspaces[Dir].holds \cup {Entry.unit.hash}
  /\ workspaces' = [workspaces EXCEPT ![Dir].holds = tree]
  /\ run' = [run EXCEPT
       !.verdict  = ReduceVerdict(Results(Entry.unit.cells, {Entry.unit.cells[i].id : i \in answered}, oracle)),
       !.verified = oracle /\ answered = DOMAIN Entry.unit.cells,
       !.tree     = tree]

\* What judging a unit leaves alone, and what it makes.
LEMMA JudgeTells ==
  ASSUME Typed, Judge
  PROVE  /\ pc = "leased" /\ pc' = "judged" /\ InDrain
         /\ UNCHANGED <<file, engine, log, leases, branches, patches, commits, admitted, faults>>
         /\ \E answered \in SUBSET DOMAIN Entry.unit.cells, oracle \in BOOLEAN, tree \in SUBSET Hashes :
              JudgedAs(answered, oracle, tree)
<1>1. pc = "leased" /\ InDrain
  BY DEF Judge, InDrain, Before
<1>2. PICK answered \in SUBSET DOMAIN Entry.unit.cells, changes \in BOOLEAN, oracle \in BOOLEAN :
        LET tree == workspaces[Dir].holds
                      \cup (IF changes /\ answered # {} THEN {Entry.unit.hash} ELSE {})
        IN  /\ workspaces' = [workspaces EXCEPT ![Dir].holds = tree]
            /\ run' = [run EXCEPT !.verdict = ReduceVerdict(Results(Entry.unit.cells,
                              {Entry.unit.cells[i].id : i \in answered}, oracle)),
                            !.verified = oracle /\ answered = DOMAIN Entry.unit.cells,
                            !.tree = tree]
  BY DEF Judge
<1> DEFINE tree == workspaces[Dir].holds
                     \cup (IF changes /\ answered # {} THEN {Entry.unit.hash} ELSE {})
<1>3. tree \in SUBSET Hashes
  BY <1>1, InHand DEF Typed, Directories
<1>4. JudgedAs(answered, oracle, tree)
  BY <1>2 DEF JudgedAs
<1>. QED BY <1>1, <1>3, <1>4 DEF Judge

\* Type correctness, at every step.
LEMMA TypedKept ==
  ASSUME Typed, Next PROVE Typed'
<1> USE DEF InDrain
<1>1. ASSUME NEW m \in {"queue", "explorer"}, ModeSet(m) PROVE Typed'
  <2>1. file' \in Engines
    BY <1>1, LoadTyped, EngineOps DEF ModeSet, Modes
  <2>2. faults' \subseteq Faults
    BY <1>1, FaultTyped DEF ModeSet, Command, Typed
  <2>. QED BY <1>1, <2>1, <2>2 DEF ModeSet, Typed
<1>2. ASSUME NEW u \in Units, Admit(u) PROVE Typed'
  <2> DEFINE x == [unit |-> u, ladder |-> u.ladder, tier |-> u.tier, ticket |-> admitted + 1]
  <2>1. x \in Entries
    BY UnitNames, ServeAssumption DEF Entries, Typed
  <2> HIDE DEF x
  <2>2. file' = [Load EXCEPT !.queue = Append(@, x)]
    BY <1>2 DEF Admit, x
  <2>3. file' \in Engines
    BY <2>1, <2>2, LoadTyped, EngineOps
  <2>4. faults' \subseteq Faults
    BY <1>2, FaultTyped DEF Admit, Command, Typed
  <2>5. admitted' \in 0 .. MaxAdmissions
    BY <1>2, ServeAssumption DEF Admit, Typed
  <2>. QED BY <1>2, <2>3, <2>4, <2>5 DEF Admit, Typed
<1>3. CASE Start
  BY <1>3, LoadTyped DEF Start, Typed, Before, After
<1>4. CASE TakeNotAdmitted
  <2>1. engine.queue \in Seq(Entries) /\ engine.queue # <<>>
    BY <1>4 DEF TakeNotAdmitted, Typed, Engines
  <2>2. Head(engine.queue) \in Entries /\ Tail(engine.queue) \in Seq(Entries)
    BY <2>1, QueueOps
  <2> DEFINE e == Head(engine.queue)
             ev == [hash |-> e.unit.hash, ticket |-> e.ticket, verdict |-> "not-admitted",
                    tierRan |-> "none", verified |-> FALSE, tree |-> {}, delivery |-> NoDelivery]
  <2>3. ev \in Events
    BY <2>2, UnitNames DEF Entries, Events, Verdicts, Deliveries, NoDelivery
  <2> HIDE DEF ev
  <2>4. /\ pc = "top"
        /\ engine' = [engine EXCEPT !.queue = Tail(@), !.stream = Append(@, ev)]
        /\ \/ log' = Logged(ev) /\ UNCHANGED <<pc, faults>>
           \/ pc' = "failed" /\ Fault("io") /\ UNCHANGED log
        /\ UNCHANGED <<file, run, workspaces, leases, branches, patches, commits, admitted>>
    BY <1>4 DEF TakeNotAdmitted, ev
  <2>5. engine' \in Engines
    BY <2>2, <2>3, <2>4, EngineOps DEF Typed
  <2>6. log' \subseteq Records /\ faults' \subseteq Faults
    BY <2>3, <2>4, LoggedTyped, FaultTyped DEF Typed
  <2>. QED BY <2>4, <2>5, <2>6 DEF Typed, Before, After
<1>5. CASE Take
  <2>1. engine.queue \in Seq(Entries) /\ engine.queue # <<>> /\ engine.inFlight + 1 \in Nat
        /\ engine.inFlight + 1 > 0
    BY <1>5 DEF Take, Typed, Engines
  <2>2. Head(engine.queue) \in Entries /\ Tail(engine.queue) \in Seq(Entries)
    BY <2>1, QueueOps
  <2>3. engine' = [engine EXCEPT !.queue = Tail(engine.queue), !.inFlight = engine.inFlight + 1]
    BY <1>5 DEF Take
  <2>4. engine' \in Engines
    BY <2>1, <2>2, <2>3, EngineOps DEF Typed
  <2>5. engine'.inFlight > 0
    BY <2>1, <2>3 DEF Typed, Engines
  <2>6. run' \in Runs
    BY <1>5, <2>2 DEF Take, Runs, NoRun, NoDelivery, Deliveries
  <2>. QED BY <1>5, <2>4, <2>5, <2>6 DEF Take, Typed, Before, After
<1>6. CASE Provision
  <2>1. workspaces' \in [Dirs -> Directories]
    BY <1>6 DEF Provision, Typed, Directories
  <2>2. faults' \subseteq Faults
    BY <1>6, FaultTyped DEF Provision, IoError, Typed
  <2>. QED BY <1>6, <2>1, <2>2, PlainTyped DEF Provision, IoError, Before, After, Typed
<1>7. CASE Fetch
  <2>1. workspaces' \in [Dirs -> Directories]
    BY <1>7 DEF Fetch, Typed, Directories
  <2>2. faults' \subseteq Faults
    BY <1>7, FaultTyped DEF Fetch, IoError, Typed
  <2>. QED BY <1>7, <2>1, <2>2, PlainTyped DEF Fetch, IoError, Before, After, Typed
<1>8. CASE Exchange
  <2>1. leases' \subseteq Refs
    BY <1>8, InHand DEF Exchange, Typed, Before
  <2>. QED BY <1>8, <2>1, PlainTyped DEF Exchange, Before, After, Typed
<1>9. CASE Judge
  <2>1. pc = "leased" /\ InDrain
    BY <1>9 DEF Judge, Before
  <2>2. PICK answered \in SUBSET DOMAIN Entry.unit.cells, oracle \in BOOLEAN, tree \in SUBSET Hashes :
               JudgedAs(answered, oracle, tree)
    BY <1>9, JudgeTells
  <2>4. workspaces' \in [Dirs -> Directories]
    BY <2>2 DEF JudgedAs, Typed, Directories
  <2>5. run' \in Runs /\ run'.verdict # "none"
    BY <2>1, <2>2, InHand, JudgedTyped DEF JudgedAs, Runs
  <2>. QED BY <1>9, <2>4, <2>5, <2>1 DEF Judge, Typed, Before, After
<1>10. CASE Deliver
  <2>1. pc = "judged" /\ InDrain /\ pc' = "delivered"
        /\ UNCHANGED <<file, engine, log, workspaces, leases, patches, admitted>>
    BY <1>10 DEF Deliver, After
  <2>2. CASE UNCHANGED <<run, branches, commits, faults>>
    BY <2>1, <2>2 DEF Typed, Before, After
  <2>3. ASSUME Lands, commits' = commits + 1, NEW pushed \in BOOLEAN,
               IF pushed
               THEN /\ FastForward
                    /\ branches' = [branches EXCEPT ![BranchOf(Entry.unit)] = BaseCommits \cup {commits + 1}]
                    /\ UNCHANGED faults
               ELSE /\ UNCHANGED branches
                    /\ IF FastForward THEN Fault("push") ELSE UNCHANGED faults,
               run' = [run EXCEPT !.delivery = [commit |-> commits + 1, pr |-> PrUrl(pushed)]]
        PROVE  Typed'
    <3>1. commits' \in Nat /\ SUBSET (1 .. commits) \subseteq SUBSET (1 .. commits')
          /\ commits + 1 \in 1 .. commits'
      BY <2>3 DEF Typed
    <3>2. BaseCommits \subseteq 1 .. commits
      BY DEF BaseCommits, Typed
    <3>3. branches' \in [Branches -> SUBSET (1 .. commits')]
      BY <2>3, <3>1, <3>2 DEF Typed
    <3>4. faults' \subseteq Faults
      BY <2>3, FaultTyped DEF Typed
    <3>5. PrUrl(pushed) \in BOOLEAN
      BY DEF PrUrl
    <3>6. run' \in Runs /\ run'.verdict = run.verdict
      BY <2>1, <2>3, <3>1, <3>5, InHand DEF Runs, Deliveries
    <3>. QED BY <2>1, <3>1, <3>3, <3>4, <3>6 DEF Typed, Before, After
  <2>. QED BY <1>10, <2>2, <2>3 DEF Deliver
<1>11. CASE Emit
  <2> DEFINE ev == Event(run.verdict, TierRan(Entry))
  <2>1. pc = "delivered" /\ InDrain
    BY <1>11 DEF Emit, After
  <2>2. ev \in Events
    BY <2>1, EventTyped, InHand DEF Typed, Runs, TierRan, After
  <2> HIDE DEF ev
  <2>3. /\ \/ log' = Logged(ev) /\ engine' = [engine EXCEPT !.stream = Append(@, ev)]
              /\ pc' = "emitted" /\ UNCHANGED faults
           \/ IoError /\ UNCHANGED <<log, engine>>
        /\ UNCHANGED <<file, run, workspaces, leases, branches, patches, commits, admitted>>
    BY <1>11 DEF Emit, ev
  <2>4. engine' \in Engines /\ engine'.inFlight = engine.inFlight
    BY <2>2, <2>3, EngineOps DEF Typed, Engines
  <2>5. log' \subseteq Records /\ faults' \subseteq Faults
    BY <2>2, <2>3, LoggedTyped, FaultTyped DEF Typed, IoError
  <2>. QED BY <2>1, <2>3, <2>4, <2>5 DEF Typed, Before, After, IoError
<1>12. CASE Patch
  <2>1. patches' \in [Dirs -> SUBSET Hashes] /\ faults' \subseteq Faults
    BY <1>12, InHand, FaultTyped DEF Patch, Typed, Runs, After
  <2>. QED BY <1>12, <2>1 DEF Patch, Typed, Before, After
<1>13. CASE Revoke
  <2>1. leases' \subseteq Refs
    BY <1>13 DEF Revoke, Typed
  <2>. QED BY <1>13, <2>1, PlainTyped DEF Revoke, Before, After, Typed
<1>14. CASE Teardown
  <2>1. pc = "revoked" /\ InDrain /\ UNCHANGED <<file, log, leases, branches, patches, commits, admitted>>
    BY <1>14 DEF Teardown, After
  <2>2. CASE IoError /\ UNCHANGED <<workspaces, engine>>
    BY <2>1, <2>2, FaultTyped DEF IoError, Typed, Before, After
  <2>3. CASE /\ workspaces' = [workspaces EXCEPT ![Dir] = NoDirectory]
             /\ engine' = [engine EXCEPT !.inFlight = @ - 1,
                  !.queue = IF run.verdict # "accepted" /\ HasHeadroom(Entry)
                            THEN Append(@, OneBindingUp(Entry)) ELSE @]
             /\ pc' = "top" /\ UNCHANGED faults
    <3>1. OneBindingUp(Entry) \in Entries
      BY <2>1, InHand DEF OneBindingUp, Entries, Tiers
    <3> DEFINE q == IF run.verdict # "accepted" /\ HasHeadroom(Entry)
                    THEN Append(engine.queue, OneBindingUp(Entry)) ELSE engine.queue
    <3>2. q \in Seq(Entries)
      BY <3>1, QueueOps DEF Typed, Engines
    <3>3. engine.inFlight - 1 \in Nat
      BY <2>1, InHand
    <3>4. engine' = [engine EXCEPT !.queue = q, !.inFlight = engine.inFlight - 1]
      BY <2>3
    <3> HIDE DEF q
    <3>5. engine' \in Engines
      BY <3>2, <3>3, <3>4, EngineOps DEF Typed
    <3>6. workspaces' \in [Dirs -> Directories]
      BY <2>3 DEF Typed, Directories, NoDirectory
    <3>. QED BY <2>1, <2>3, <3>5, <3>6 DEF Typed, Before, After
  <2>. QED BY <1>14, <2>2, <2>3 DEF Teardown
<1>15. CASE SaveTruncate
  BY <1>15 DEF SaveTruncate, Typed, Before, After
<1>16. CASE SaveWrite
  BY <1>16, LoadTyped DEF SaveWrite, Typed, Before, After
<1>17. CASE Crash
  BY <1>17, LoadTyped, FaultTyped DEF Crash, Typed, Before, After
<1>. QED BY <1>1, <1>2, <1>3, <1>4, <1>5, <1>6, <1>7, <1>8, <1>9, <1>10, <1>11, <1>12, <1>13,
            <1>14, <1>15, <1>16, <1>17 DEF Next, ServeStep

\* Type correctness, when nothing changes.
LEMMA TypedStays == Typed /\ UNCHANGED vars => Typed'
BY DEF Typed, vars, InDrain

\* Type correctness, always.
LEMMA TypedAlways == Spec => []Typed
BY TypedInit, TypedKept, TypedStays, PTL DEF Spec

\* The state of the process and of everything that outlives it has its type.
THEOREM ServeTyped == Spec => []TypeOK
<1>1. Typed => TypeOK
  <2>. SUFFICES ASSUME Typed PROVE TypeOK
    OBVIOUS
  <2>1. \A e \in {engine} \cup ({file} \ {Torn}) : e \in Engines
    BY DEF Typed
  <2>2. ASSUME NEW e \in Engines
        PROVE  /\ e.mode \in {"off", "queue", "explorer"} /\ e.inFlight \in Nat
               /\ \A i \in DOMAIN e.queue : e.queue[i].unit \in Units /\ e.queue[i].ladder \in Nat
               /\ \A i \in DOMAIN e.stream : e.stream[i].verdict \in {"accepted", "escalate", "not-admitted"}
    <3>1. e.queue \in Seq(Entries) /\ e.stream \in Seq(Events) /\ e.mode \in Modes /\ e.inFlight \in Nat
      BY DEF Engines
    <3>2. \A i \in DOMAIN e.queue : e.queue[i] \in Entries
      BY <3>1
    <3>3. \A i \in DOMAIN e.stream : e.stream[i] \in Events
      BY <3>1
    <3>. QED BY <3>1, <3>2, <3>3 DEF Modes, Entries, Events, Verdicts
  <2>3. \A l \in log : l.verdict \in {"accepted", "escalate", "not-admitted"} /\ l.delivery.commit \in Nat
    BY DEF Typed, Records, Verdicts, Deliveries
  <2>. QED BY <2>1, <2>2, <2>3 DEF TypeOK, Typed, Directories
<1>. QED BY <1>1, TypedAlways, PTL

-----------------------------------------------------------------------------
\* After the judgement a drain changes of its locals the delivery alone, once.
LEMMA RunKept ==
  ASSUME Typed, Next, pc' \in After, ~ Judge
  PROVE  /\ pc \in After /\ InDrain /\ InDrain' /\ run' \in Runs
         /\ run'.entry = run.entry /\ run'.verdict = run.verdict
         /\ run'.verified = run.verified /\ run'.tree = run.tree
         /\ run'.delivery = run.delivery \/ Deliver
<1>1. CASE Deliver
  <2>1. pc = "judged" /\ InDrain
    BY <1>1 DEF Deliver, InDrain, After
  <2>2. run' \in Runs
    BY TypedKept DEF Typed, InDrain
  <2>3. run' = run \/ \E d : run' = [run EXCEPT !.delivery = d]
    BY <1>1 DEF Deliver
  <2>. QED BY <1>1, <2>1, <2>2, <2>3, InHand DEF Runs, InDrain, After
<1>2. CASE ~ Deliver
  <2>1. pc \in After /\ run' = run
    BY <1>2 DEF Next, ServeStep, ModeSet, Admit, Command, Start, TakeNotAdmitted, Take, Provision, Fetch,
       Exchange, Emit, Patch, Revoke, Teardown, SaveTruncate, SaveWrite, Crash, IoError, Before, After
  <2>. QED BY <2>1, InHand DEF InDrain
<1>. QED BY <1>1, <1>2

\* What a verdict in the log says: the first of its hash, from one of two places.
LEMMA LogGrows ==
  ASSUME Typed, Next
  PROVE  /\ log \subseteq log'
         /\ \A l \in log' \ log :
              /\ ~ InLog(l.hash)
              /\ \/ l.verdict = "not-admitted" /\ l.tree = {} /\ l.delivery = NoDelivery
                 \/ /\ pc = "delivered" /\ pc' = "emitted" /\ Emit /\ UNCHANGED <<run, faults, workspaces>>
                    /\ l.hash = Entry.unit.hash /\ l.verdict = run.verdict
                    /\ l.verified = run.verified /\ l.tree = run.tree /\ l.delivery = run.delivery
<1>1. CASE Emit
  <2> DEFINE ev == Event(run.verdict, TierRan(Entry))
  <2>1. pc = "delivered" /\ InDrain
    BY <1>1 DEF Emit, InDrain, After
  <2>2. ev \in Events
    BY <2>1, EventTyped, InHand DEF Typed, Runs, TierRan, After
  <2>3. log' = log \/ (log' = Logged(ev) /\ pc' = "emitted" /\ UNCHANGED <<run, faults, workspaces>>)
    BY <1>1 DEF Emit
  <2>4. /\ Recorded(ev).hash = Entry.unit.hash /\ Recorded(ev).verdict = run.verdict
        /\ Recorded(ev).verified = run.verified /\ Recorded(ev).tree = run.tree
        /\ Recorded(ev).delivery = run.delivery /\ ev.hash = Entry.unit.hash
    BY DEF Recorded, Event
  <2> HIDE DEF ev
  <2>. QED BY <1>1, <2>1, <2>2, <2>3, <2>4, LoggedTyped
<1>2. CASE TakeNotAdmitted
  <2> DEFINE e == Head(engine.queue)
             ev == [hash |-> e.unit.hash, ticket |-> e.ticket, verdict |-> "not-admitted",
                    tierRan |-> "none", verified |-> FALSE, tree |-> {}, delivery |-> NoDelivery]
  <2>1. e \in Entries
    BY <1>2, QueueOps DEF TakeNotAdmitted, Typed, Engines
  <2>2. ev \in Events
    BY <2>1, UnitNames DEF Entries, Events, Verdicts, Deliveries, NoDelivery
  <2>3. log' = log \/ log' = Logged(ev)
    BY <1>2 DEF TakeNotAdmitted
  <2>4. /\ Recorded(ev).verdict = "not-admitted" /\ Recorded(ev).tree = {}
        /\ Recorded(ev).delivery = NoDelivery /\ Recorded(ev).hash = ev.hash
    BY DEF Recorded
  <2> HIDE DEF ev
  <2>. QED BY <2>2, <2>3, <2>4, LoggedTyped
<1>3. CASE ~ Emit /\ ~ TakeNotAdmitted
  <2>1. log' = log
    BY <1>3 DEF Next, ServeStep, ModeSet, Admit, Start, Take, Provision, Fetch,
       Exchange, Judge, Deliver, Patch, Revoke, Teardown, SaveTruncate, SaveWrite, Crash
  <2>. QED BY <2>1
<1>. QED BY <1>1, <1>2, <1>3

-----------------------------------------------------------------------------
\* A verdict of accepted on cells that exist: each was answered and the oracle
\* passes.  As many ids with content as there are cells can only be all cells.
LEMMA AcceptedAnswersAll ==
  ASSUME NEW u \in Units, u.cells # <<>>, NEW answered \in SUBSET DOMAIN u.cells, NEW oracle \in BOOLEAN,
         ReduceVerdict(Results(u.cells, {u.cells[i].id : i \in answered}, oracle)) = "accepted"
  PROVE  oracle /\ answered = DOMAIN u.cells
<1> DEFINE cells == u.cells
           produced == {cells[i].id : i \in answered}
           f == [i \in answered |-> cells[i].id]
<1>1. cells \in Seq({cells[i] : i \in DOMAIN cells})
  BY ServeAssumption
<1>2. Len(cells) \in Nat /\ Len(cells) > 0 /\ DOMAIN cells = 1 .. Len(cells)
  <2> HIDE DEF cells
  <2>1. cells # <<>>
    BY DEF cells
  <2>. QED BY <1>1, <2>1
<1>3. DOMAIN Results(cells, produced, oracle) = DOMAIN cells
  BY DEF Results
<1>4. Results(cells, produced, oracle)[1].verdict = "accepted"
  BY <1>2, <1>3 DEF ReduceVerdict
<1>5. Passed(cells, produced, oracle)
  BY <1>2, <1>4 DEF Results
<1>6. oracle /\ Cardinality(produced) = Len(cells)
  BY <1>5 DEF Passed
<1>7. IsFiniteSet(DOMAIN cells) /\ Cardinality(DOMAIN cells) = Len(cells)
  BY <1>2, FS_Interval
<1>8. IsFiniteSet(answered) /\ Cardinality(answered) <= Len(cells)
      /\ (Cardinality(answered) = Len(cells) => answered = DOMAIN cells)
  BY <1>7, FS_Subset
<1>9. f \in Surjection(answered, produced)
  BY DEF Surjection
<1>10. Cardinality(produced) <= Cardinality(answered)
  BY <1>8, <1>9, FS_Surjection
<1>11. Cardinality(answered) \in Nat
  BY <1>8, FS_CardinalityType
<1>. QED BY <1>2, <1>6, <1>8, <1>10, <1>11

\* What is accepted was verified, at every step.
LEMMA JudgedKept ==
  ASSUME HashIsIdentity, Typed, Judged, Next PROVE Judged'
<1>1. ASSUME pc' \in After, run'.verdict = "accepted", run'.entry.unit.cells # <<>>
      PROVE  run'.verified
  <2>1. CASE Judge
    <3>1. PICK answered \in SUBSET DOMAIN Entry.unit.cells, oracle \in BOOLEAN, tree \in SUBSET Hashes :
                 JudgedAs(answered, oracle, tree)
      BY <2>1, JudgeTells
    <3>2. run \in Runs /\ Entry.unit \in Units
      BY <2>1, JudgeTells, InHand
    <3>3. /\ run'.entry = Entry
          /\ run'.verdict = ReduceVerdict(Results(Entry.unit.cells,
                              {Entry.unit.cells[i].id : i \in answered}, oracle))
          /\ run'.verified = (oracle /\ answered = DOMAIN Entry.unit.cells)
      BY <3>1, <3>2 DEF JudgedAs, Runs, Entry
    <3>. QED BY <1>1, <3>2, <3>3, AcceptedAnswersAll
  <2>2. CASE ~ Judge
    BY <1>1, <2>2, RunKept DEF Judged
  <2>. QED BY <2>1, <2>2
<1>2. ASSUME NEW l \in log', NEW u \in Units, l.hash = u.hash, u.cells # <<>>, l.verdict = "accepted"
      PROVE  l.verified
  <2>1. CASE l \in log
    BY <1>2, <2>1 DEF Judged, AcceptedIsVerified
  <2>2. CASE l \notin log
    <3>1. /\ pc = "delivered" /\ l.hash = Entry.unit.hash /\ l.verdict = run.verdict
          /\ l.verified = run.verified
      BY <1>2, <2>2, LogGrows
    <3>2. Entry.unit \in Units
      BY <3>1, InHand DEF InDrain, After
    <3>3. u = Entry.unit
      BY <1>2, <3>1, <3>2 DEF HashIsIdentity
    <3>. QED BY <1>2, <3>1, <3>3 DEF Judged, After, Entry
  <2>. QED BY <2>1, <2>2
<1>. QED BY <1>1, <1>2 DEF Judged, AcceptedIsVerified

\* A unit with cells is accepted only if every cell was answered and the
\* oracle's command passed on the tree.
THEOREM AcceptedWasVerified == ASSUME HashIsIdentity PROVE Spec => []AcceptedIsVerified
<1>1. Init => Judged
  BY DEF Init, Judged, AcceptedIsVerified, After
<1>2. Judged /\ UNCHANGED vars => Judged'
  BY DEF Judged, AcceptedIsVerified, vars
<1>3. Judged /\ Typed /\ [Next]_vars => Judged'
  BY <1>2, JudgedKept
<1>4. Judged => AcceptedIsVerified
  BY DEF Judged
<1>. QED BY <1>1, <1>3, <1>4, TypedAlways, PTL DEF Spec

-----------------------------------------------------------------------------
\* No step takes a fault back, and each fault leaves its mark.
LEMMA FaultsGrow ==
  ASSUME Next
  PROVE  /\ faults \subseteq faults'
         /\ IoError => "io" \in faults'
         /\ Crash => "crash" \in faults' \/ (pc = "saving" /\ "torn" \in faults')
         /\ pc' = "failed" => pc = "failed" \/ "io" \in faults'
         /\ (\E m \in {"queue", "explorer"} : ModeSet(m)) \/ (\E u \in Units : Admit(u)) =>
              pc = "down" \/ "overlap" \in faults'
BY DEF Next, ServeStep, ModeSet, Admit, Command, Start, TakeNotAdmitted, Take, Provision, Fetch, Exchange,
       Judge, Deliver, Emit, Patch, Revoke, Teardown, SaveTruncate, SaveWrite, Crash, IoError, Fault

\* The order of the drain's steps, at every step.
LEMMA OrderlyKept ==
  ASSUME Typed, Orderly, Next PROVE Orderly'
<1>. SUFFICES ASSUME Uncut' PROVE Orderly'
  BY DEF Orderly
<1>1. /\ Uncut /\ "io" \notin faults' /\ "crash" \notin faults' /\ ~ IoError
      /\ (Crash => pc = "saving") /\ pc # "failed" /\ pc' # "failed"
  BY FaultsGrow DEF Uncut, Orderly
<1>2. /\ pc # "failed"
      /\ ~ InDrain => leases = {} /\ \A d \in Dirs : workspaces[d] = NoDirectory
      /\ InDrain => \A d \in Dirs \ {Dir} : workspaces[d] = NoDirectory
      /\ pc \in Before => workspaces[Dir].holds = {}
      /\ InDrain => leases \subseteq (IF Entry.unit.grant THEN {Ref} ELSE {})
      /\ pc = "revoked" => leases = {}
      /\ engine.inFlight = IF InDrain THEN 1 ELSE 0
      /\ file.torn \/ file.inFlight = 0
  BY <1>1 DEF Orderly
<1>3. /\ engine \in Engines /\ file \in Engines \cup {Torn} /\ workspaces \in [Dirs -> Directories]
      /\ Load \in Engines /\ Load.inFlight = 0 /\ FreshEngine.inFlight = 0 /\ Torn.torn
  BY <1>2, LoadTyped DEF Typed, Load, FreshEngine, Torn
<1> USE DEF InDrain, Before, After
<1>4. ASSUME NEW m \in {"queue", "explorer"}, ModeSet(m) PROVE Orderly'
  <2>1. file'.inFlight = 0
    BY <1>3, <1>4 DEF ModeSet, Engines
  <2>. QED BY <1>2, <1>4, <2>1 DEF ModeSet, Orderly, Dir, Ref, Entry
<1>5. ASSUME NEW u \in Units, Admit(u) PROVE Orderly'
  <2>1. file'.inFlight = 0
    BY <1>3, <1>5 DEF Admit, Engines
  <2>. QED BY <1>2, <1>5, <2>1 DEF Admit, Orderly, Dir, Ref, Entry
<1>6. CASE Start
  BY <1>2, <1>3, <1>6 DEF Start, Orderly
<1>7. CASE TakeNotAdmitted
  <2>1. engine'.inFlight = engine.inFlight /\ pc = "top" /\ pc' = "top"
        /\ UNCHANGED <<file, run, workspaces, leases>>
    BY <1>1, <1>3, <1>7 DEF TakeNotAdmitted, Engines
  <2>. QED BY <1>2, <2>1 DEF Orderly
<1>8. CASE Take
  <2>1. engine'.inFlight = engine.inFlight + 1 /\ pc = "top" /\ pc' = "taken"
        /\ UNCHANGED <<file, workspaces, leases>>
    BY <1>3, <1>8 DEF Take, Engines
  <2>2. Dir' \in Dirs
    BY <2>1, TypedKept, InHand DEF Typed, Runs, Entries, Dir, Ref, Entry, Dirs, Refs
  <2>. QED BY <1>2, <2>1, <2>2 DEF Orderly, NoDirectory
<1>9. CASE Provision
  <2>1. /\ pc = "taken" /\ workspaces' = [workspaces EXCEPT ![Dir].exists = TRUE] /\ pc' = "provisioned"
        /\ UNCHANGED <<file, engine, run, leases>> /\ Dir \in Dirs
    BY <1>1, <1>9, InHand DEF Provision
  <2>2. workspaces'[Dir].holds = {} /\ \A d \in Dirs \ {Dir} : workspaces'[d] = NoDirectory
    BY <1>2, <1>3, <2>1 DEF Directories
  <2>. QED BY <1>2, <2>1, <2>2 DEF Orderly, Dir, Ref, Entry
<1>10. CASE Fetch
  <2>1. /\ pc = "provisioned" /\ pc' = "fetched"
        /\ workspaces' = [workspaces EXCEPT ![Dir].holds = IF Inline THEN @ ELSE {}]
        /\ UNCHANGED <<file, engine, run, leases>> /\ Dir \in Dirs
    BY <1>1, <1>10, InHand DEF Fetch
  <2>2. workspaces'[Dir].holds = {} /\ \A d \in Dirs \ {Dir} : workspaces'[d] = NoDirectory
    BY <1>2, <1>3, <2>1 DEF Directories
  <2>. QED BY <1>2, <2>1, <2>2 DEF Orderly, Dir, Ref, Entry
<1>11. CASE Exchange
  BY <1>2, <1>11 DEF Exchange, Orderly, Dir, Ref, Entry
<1>12. CASE Judge
  <2>1. PICK answered \in SUBSET DOMAIN Entry.unit.cells, oracle \in BOOLEAN, tree \in SUBSET Hashes :
               JudgedAs(answered, oracle, tree)
    BY <1>12, JudgeTells
  <2>2. /\ pc = "leased" /\ pc' = "judged" /\ Dir \in Dirs /\ UNCHANGED <<file, engine, leases>>
        /\ run \in Runs
    BY <1>12, JudgeTells, InHand
  <2>3. run'.entry = run.entry
    BY <2>1, <2>2 DEF JudgedAs, Runs
  <2>4. \A d \in Dirs \ {Dir} : workspaces'[d] = NoDirectory
    BY <1>2, <1>3, <2>1, <2>2 DEF JudgedAs
  <2>. QED BY <1>2, <2>2, <2>3, <2>4 DEF Orderly, Dir, Ref, Entry
<1>13. CASE Deliver
  <2>1. pc = "judged" /\ pc' = "delivered" /\ UNCHANGED <<file, engine, workspaces, leases>>
    BY <1>13 DEF Deliver
  <2>2. run'.entry = run.entry
    BY <2>1, RunKept DEF Judge
  <2>. QED BY <1>2, <2>1, <2>2 DEF Orderly, Dir, Ref, Entry
<1>14. CASE Emit
  <2>1. /\ pc = "delivered" /\ pc' = "emitted" /\ UNCHANGED <<file, run, workspaces, leases>>
        /\ engine'.inFlight = engine.inFlight
    BY <1>1, <1>3, <1>14 DEF Emit, Engines
  <2>. QED BY <1>2, <2>1 DEF Orderly, Dir, Ref, Entry
<1>15. CASE Patch
  BY <1>2, <1>15 DEF Patch, Orderly, Dir, Ref, Entry
<1>16. CASE Revoke
  <2>1. leases' = {}
    BY <1>2, <1>16 DEF Revoke
  <2>. QED BY <1>2, <1>16, <2>1 DEF Revoke, Orderly, Dir, Ref, Entry
<1>17. CASE Teardown
  <2>1. /\ pc = "revoked" /\ pc' = "top" /\ UNCHANGED <<file, leases>> /\ Dir \in Dirs
        /\ workspaces' = [workspaces EXCEPT ![Dir] = NoDirectory]
        /\ engine' = [engine EXCEPT !.inFlight = @ - 1,
             !.queue = IF run.verdict # "accepted" /\ HasHeadroom(Entry)
                       THEN Append(@, OneBindingUp(Entry)) ELSE @]
    BY <1>1, <1>17, InHand DEF Teardown
  <2>2. \A d \in Dirs : workspaces'[d] = NoDirectory
    BY <1>2, <1>3, <2>1
  <2>3. engine'.inFlight = 0
    BY <1>2, <1>3, <2>1 DEF Engines
  <2>. QED BY <1>2, <2>1, <2>2, <2>3 DEF Orderly
<1>18. CASE SaveTruncate
  BY <1>2, <1>3, <1>18 DEF SaveTruncate, Orderly
<1>19. CASE SaveWrite
  BY <1>2, <1>3, <1>19 DEF SaveWrite, Orderly
<1>20. CASE Crash
  BY <1>1, <1>2, <1>3, <1>20 DEF Crash, Orderly
<1>. QED BY <1>4, <1>5, <1>6, <1>7, <1>8, <1>9, <1>10, <1>11, <1>12, <1>13, <1>14, <1>15, <1>16,
            <1>17, <1>18, <1>19, <1>20 DEF Next, ServeStep

\* The order of the drain's steps, always.
LEMMA OrderlyAlways == Spec => [](Typed /\ Orderly)
<1>1. Init => Orderly
  BY DEF Init, Orderly, InDrain, Before, After, FreshEngine
<1>2. Orderly /\ UNCHANGED vars => Orderly'
  BY DEF Orderly, vars, Uncut, InDrain, Dir, Ref, Entry
<1>3. Orderly /\ Typed /\ [Next]_vars => Orderly'
  BY <1>2, OrderlyKept
<1>. QED BY <1>1, <1>3, TypedAlways, PTL DEF Spec

\* The tree is the unit's own, at every step.
LEMMA OwnTreeKept ==
  ASSUME HashIsIdentity, Typed, Orderly, OwnTree, Next PROVE OwnTree'
<1>1. Uncut' => Uncut
  BY FaultsGrow DEF Uncut
<1>2. ASSUME pc' \in After, ~ Inline' \/ Uncut' PROVE run'.tree \subseteq {run'.entry.unit.hash}
  <2>1. CASE Judge
    <3>1. PICK answered \in SUBSET DOMAIN Entry.unit.cells, oracle \in BOOLEAN, tree \in SUBSET Hashes :
                 JudgedAs(answered, oracle, tree)
      BY <2>1, JudgeTells
    <3>2. pc = "leased" /\ run \in Runs
      BY <2>1, JudgeTells, InHand
    <3>3. run'.entry = run.entry /\ run'.tree = tree
      BY <3>1, <3>2 DEF JudgedAs, Runs
    <3>4. workspaces[Dir].holds = {}
      BY <1>1, <1>2, <3>2, <3>3 DEF OwnTree, Orderly, Inline, Before
    <3>. QED BY <3>1, <3>3, <3>4 DEF JudgedAs, Entry
  <2>2. CASE ~ Judge
    <3>1. pc \in After /\ run'.entry = run.entry /\ run'.tree = run.tree
      BY <1>2, <2>2, RunKept
    <3>. QED BY <1>1, <1>2, <3>1 DEF OwnTree, Inline, Entry
  <2>. QED BY <2>1, <2>2
<1>3. ASSUME pc' \in {"fetched", "leased"}, ~ Inline' PROVE workspaces'[Dir'].holds = {}
  <2>1. CASE Fetch
    <3>1. Dir \in Dirs /\ run' = run /\ workspaces' = [workspaces EXCEPT ![Dir].holds = {}]
      BY <1>3, <2>1, InHand DEF Fetch, Inline, IoError, Entry, InDrain, Before
    <3>. QED BY <3>1 DEF Typed, Directories, Dir, Ref, Entry
  <2>2. CASE ~ Fetch
    <3>1. pc \in {"fetched", "leased"} /\ UNCHANGED <<run, workspaces>>
      BY <1>3, <2>2 DEF Next, ServeStep, ModeSet, Admit, Command, Start, TakeNotAdmitted, Take, Provision,
         Exchange, Judge, Deliver, Emit, Patch, Revoke, Teardown, SaveTruncate, SaveWrite, Crash, IoError
    <3>. QED BY <1>3, <3>1 DEF OwnTree, Dir, Ref, Entry, Inline
  <2>. QED BY <2>1, <2>2
<1>4. ASSUME NEW l \in log', NEW u \in Units, l.hash = u.hash, u.delivery.mode = "repository" \/ Uncut'
      PROVE  l.tree \subseteq {l.hash}
  <2>1. CASE l \in log
    BY <1>1, <1>4, <2>1 DEF OwnTree
  <2>2. CASE l \notin log /\ l.tree # {}
    <3>1. pc = "delivered" /\ l.hash = Entry.unit.hash /\ l.tree = run.tree
      BY <2>2, LogGrows
    <3>2. Entry.unit \in Units
      BY <3>1, InHand DEF InDrain, After
    <3>3. u = Entry.unit
      BY <1>4, <3>1, <3>2 DEF HashIsIdentity
    <3>. QED BY <1>1, <1>4, <3>1, <3>3 DEF OwnTree, After, Inline, Entry
  <2>. QED BY <2>1, <2>2
<1>5. ASSUME Uncut', NEW d \in Dirs PROVE \E h \in Hashes : patches'[d] \subseteq {h}
  <2>1. PICK h \in Hashes : patches[d] \subseteq {h}
    BY <1>1, <1>5 DEF OwnTree
  <2>2. CASE Patch
    <3>1. pc \in After /\ Entry.unit.hash \in Hashes
      BY <2>2, InHand DEF Patch, InDrain, After
    <3>2. run.tree \subseteq {Entry.unit.hash}
      BY <1>1, <1>5, <3>1 DEF OwnTree
    <3>3. patches'[d] = patches[d] \/ patches'[d] = run.tree
      BY <2>2 DEF Patch, Typed
    <3>. QED BY <2>1, <3>1, <3>2, <3>3
  <2>3. CASE ~ Patch
    <3>1. patches' = patches
      BY <2>3 DEF Next, ServeStep, ModeSet, Admit, Start, TakeNotAdmitted, Take, Provision, Fetch,
         Exchange, Judge, Deliver, Emit, Revoke, Teardown, SaveTruncate, SaveWrite, Crash
    <3>. QED BY <2>1, <3>1
  <2>. QED BY <2>2, <2>3
<1>. QED BY <1>2, <1>3, <1>4, <1>5 DEF OwnTree, Entry

\* A diff holds exactly what its unit produced: in a clone always, elsewhere
\* unless a drain was cut short and left its directory to a unit of the name.
THEOREM TreesAreOwn == ASSUME HashIsIdentity PROVE Spec => []TreeIsOwn
<1>1. Init => OwnTree
  <2>. SUFFICES ASSUME Init PROVE OwnTree
    OBVIOUS
  <2>1. \A d \in Dirs : \E h \in Hashes : patches[d] \subseteq {h}
    BY DEF Init, Dirs, Refs, Hashes
  <2>. QED BY <2>1 DEF Init, OwnTree, After
<1>2. OwnTree /\ UNCHANGED vars => OwnTree'
  BY DEF OwnTree, vars, Uncut, Dir, Ref, Entry, Inline
<1>3. OwnTree /\ Typed /\ Orderly /\ [Next]_vars => OwnTree'
  BY <1>2, OwnTreeKept
<1>4. OwnTree => TreeIsOwn
  <2>. SUFFICES ASSUME OwnTree PROVE TreeIsOwn
    OBVIOUS
  <2>1. ASSUME Uncut, NEW d \in Dirs PROVE Cardinality(patches[d]) <= 1
    <3>1. PICK h \in Hashes : patches[d] \subseteq {h}
      BY <2>1 DEF OwnTree
    <3>2. patches[d] = {} \/ patches[d] = {h}
      BY <3>1
    <3>. QED BY <3>2, FS_EmptySet, FS_Singleton
  <2>. QED BY <2>1 DEF OwnTree, TreeIsOwn, Uncut
<1>. QED BY <1>1, <1>3, <1>4, OrderlyAlways, PTL DEF Spec

-----------------------------------------------------------------------------
\* What queues, answers and logs no less keeps no less.
LEMMA KeptMore ==
  ASSUME NEW t, NEW e, NEW f, NEW L, NEW M, Kept(t, e, L), L \subseteq M,
         ToSet(e.queue) \subseteq ToSet(f.queue), ToSet(e.stream) \subseteq ToSet(f.stream)
  PROVE  Kept(t, f, M)
BY DEF Kept

\* While nothing but kills and refused pushes happened, no command interferes
\* and no call fails.
LEMMA Undisturbed ==
  ASSUME Recovery, Next, KillsOnly'
  PROVE  /\ KillsOnly /\ ~ IoError /\ pc # "failed" /\ pc' # "failed" /\ (Crash => pc # "saving")
         /\ \A m \in {"queue", "explorer"} : ModeSet(m) => pc = "down"
         /\ \A u \in Units : Admit(u) => pc = "down"
<1>1. KillsOnly /\ {"io", "torn", "overlap"} \cap faults' = {}
  BY FaultsGrow DEF KillsOnly
<1>2. pc # "failed"
  BY <1>1 DEF Recovery
<1>3. Crash => pc # "saving"
  BY <1>1 DEF Crash, Fault
<1>. QED BY <1>1, <1>2, <1>3, FaultsGrow

\* What a drain has in its hands after its step.
LEMMA HeldAfter ==
  ASSUME Typed, Next
  PROVE  /\ Start => Held' = ToSet(file.queue)
         /\ TakeNotAdmitted => /\ Held' = ToSet(Tail(engine.queue))
                               /\ Held = {Head(engine.queue)} \cup ToSet(Tail(engine.queue))
         /\ Take => Held' = Held
         /\ InDrain /\ InDrain' /\ run'.entry = run.entry /\ engine'.queue = engine.queue => Held' = Held
<1>1. ASSUME Start PROVE Held' = ToSet(file.queue)
  <2>1. engine' = file /\ pc' = "top"
    BY <1>1 DEF Start, Load, FreshEngine
  <2>. QED BY <2>1 DEF Held, InDrain, Before, After
<1>2. ASSUME TakeNotAdmitted
      PROVE  /\ Held' = ToSet(Tail(engine.queue))
             /\ Held = {Head(engine.queue)} \cup ToSet(Tail(engine.queue))
  <2>1. /\ engine.queue \in Seq(Entries) /\ engine.queue # <<>> /\ pc = "top" /\ pc' \in {"top", "failed"}
        /\ engine'.queue = Tail(engine.queue)
    BY <1>2 DEF TakeNotAdmitted, Typed, Engines
  <2>. QED BY <2>1, QueueOps DEF Held, InDrain, Before, After
<1>3. ASSUME Take PROVE Held' = Held
  <2>1. /\ engine.queue \in Seq(Entries) /\ engine.queue # <<>> /\ pc = "top" /\ pc' = "taken"
        /\ engine'.queue = Tail(engine.queue) /\ run'.entry = Head(engine.queue)
    BY <1>3 DEF Take, Typed, Engines, NoRun
  <2>2. ToSet(engine.queue) = {Head(engine.queue)} \cup ToSet(Tail(engine.queue))
    BY <2>1, QueueOps
  <2>. QED BY <2>1, <2>2 DEF Held, InDrain, Before, After
<1>4. InDrain /\ InDrain' /\ run'.entry = run.entry /\ engine'.queue = engine.queue => Held' = Held
  BY DEF Held
<1>. QED BY <1>1, <1>2, <1>3, <1>4

\* The steps of a drain that change neither engine, file nor log.
LEMMA InnerSteps ==
  ASSUME Typed, Next, ~ IoError,
         Provision \/ Fetch \/ Exchange \/ Judge \/ Deliver \/ Patch \/ Revoke
  PROVE  /\ InDrain /\ InDrain' /\ UNCHANGED <<file, engine, log, admitted>> /\ run'.entry = run.entry
         /\ pc' \in {"patched", "revoked"} => pc \in {"emitted", "patched"} /\ run' = run
         /\ pc' # "emitted"
<1> USE DEF InDrain, Before, After
<1>1. CASE Judge
  <2>1. PICK answered \in SUBSET DOMAIN Entry.unit.cells, oracle \in BOOLEAN, tree \in SUBSET Hashes :
               JudgedAs(answered, oracle, tree)
    BY <1>1, JudgeTells
  <2>2. run \in Runs
    BY <1>1, JudgeTells, InHand
  <2>. QED BY <1>1, <2>1, <2>2, JudgeTells DEF JudgedAs, Runs
<1>2. CASE Deliver
  BY <1>2, RunKept DEF Deliver, Judge
<1>3. CASE Provision \/ Fetch \/ Exchange \/ Patch \/ Revoke
  BY <1>3 DEF Provision, Fetch, Exchange, Patch, Revoke
<1>. QED BY <1>1, <1>2, <1>3

\* The verdict event of a drain is for good, or the unit has headroom.
LEMMA EventOrAgain ==
  ASSUME Typed, pc \in After, NEW ev, ev = Event(run.verdict, TierRan(Entry)), ~ Final(ev)
  PROVE  run.verdict # "accepted" /\ HasHeadroom(Entry)
<1>1. run.verdict \in {"accepted", "escalate"} /\ Entry.ladder \in Nat
  BY InHand DEF Typed, Runs, Entries, InDrain
<1>2. ev.verdict = run.verdict /\ ev.tierRan = TierRan(Entry)
  BY DEF Event
<1>3. run.verdict = "escalate" /\ TierRan(Entry) # "heavy"
  BY <1>1, <1>2 DEF Final
<1>4. Entry.ladder = 0
  BY <1>3 DEF TierRan
<1>. QED BY <1>3, <1>4 DEF HasHeadroom, MAX_LADDER

\* What a restart recovers, at every step.
LEMMA RecoveryKept ==
  ASSUME Typed, Recovery, Next PROVE Recovery'
<1>. SUFFICES ASSUME KillsOnly' PROVE Recovery'
  BY DEF Recovery
<1>1. /\ ~ IoError /\ pc # "failed" /\ pc' # "failed" /\ (Crash => pc # "saving")
      /\ \A m \in {"queue", "explorer"} : ModeSet(m) => pc = "down"
      /\ \A u \in Units : Admit(u) => pc = "down"
  BY Undisturbed
<1>2. /\ pc = "saving" <=> file.torn
      /\ pc # "saving" => \A t \in 1 .. admitted : Kept(t, file, log)
      /\ pc # "down" => \A t \in 1 .. admitted : Kept(t, engine, log) \/ (InDrain /\ Entry.ticket = t)
      /\ pc \in {"emitted", "patched", "revoked"} =>
           Kept(Entry.ticket, engine, log) \/ (run.verdict # "accepted" /\ HasHeadroom(Entry))
      /\ pc \notin {"down", "saving"} =>
           \A x \in Held : \E y \in ToSet(file.queue) : y.unit = x.unit
  BY Undisturbed DEF Recovery
<1>3. /\ engine \in Engines /\ file \in Engines \cup {Torn} /\ Torn.torn /\ Load \in Engines
      /\ engine.queue \in Seq(Entries) /\ engine.stream \in Seq(Events) /\ ~ engine.torn
      /\ log \subseteq log' /\ admitted \in Nat
  <2>1. /\ engine \in Engines /\ file \in Engines \cup {Torn} /\ Torn.torn /\ Load \in Engines
    BY LoadTyped DEF Typed, Torn
  <2>2. engine.queue \in Seq(Entries) /\ engine.stream \in Seq(Events) /\ ~ engine.torn
    BY <2>1 DEF Engines
  <2>3. log \subseteq log' /\ admitted \in Nat
    BY LogGrows, ServeAssumption DEF Typed
  <2>. QED BY <2>1, <2>2, <2>3
<1> USE DEF InDrain, Before, After
<1>4. ASSUME NEW m \in {"queue", "explorer"}, ModeSet(m) PROVE Recovery'
  <2>1. /\ pc = "down" /\ file' = [file EXCEPT !.mode = m] /\ file \in Engines
        /\ UNCHANGED <<pc, log, admitted>>
    BY <1>1, <1>2, <1>3, <1>4 DEF ModeSet, Load
  <2>2. file'.queue = file.queue /\ file'.stream = file.stream /\ ~ file'.torn
    BY <2>1 DEF Engines
  <2>. QED BY <1>2, <2>1, <2>2, KeptMore DEF Recovery
<1>5. ASSUME NEW u \in Units, Admit(u) PROVE Recovery'
  <2> DEFINE x == [unit |-> u, ladder |-> u.ladder, tier |-> u.tier, ticket |-> admitted + 1]
  <2>1. /\ pc = "down" /\ file' = [file EXCEPT !.queue = Append(@, x)] /\ file \in Engines
        /\ UNCHANGED <<pc, log>> /\ admitted' = admitted + 1 /\ x.ticket = admitted'
    BY <1>1, <1>2, <1>3, <1>5 DEF Admit, Load
  <2>0. x \in Entries
    BY <1>3, UnitNames DEF Entries
  <2> HIDE DEF x
  <2>2. /\ file'.queue = Append(file.queue, x) /\ file'.stream = file.stream /\ ~ file'.torn
        /\ file.queue \in Seq(Entries)
    BY <2>1 DEF Engines
  <2>3. ToSet(file'.queue) = ToSet(file.queue) \cup {x}
    BY <2>0, <2>2, QueueOps
  <2>4. \A t \in 1 .. admitted : Kept(t, file', log')
    BY <1>2, <2>1, <2>2, <2>3, KeptMore
  <2>5. Kept(admitted', file', log')
    BY <2>1, <2>3 DEF Kept
  <2>6. \A t \in 1 .. admitted' : t \in 1 .. admitted \/ t = admitted'
    BY <1>3, <2>1
  <2>. QED BY <2>1, <2>2, <2>4, <2>5, <2>6 DEF Recovery
<1>6. CASE Start
  <2>1. /\ pc = "down" /\ pc' = "top" /\ engine' = file /\ UNCHANGED <<file, log, admitted>>
        /\ Held' = ToSet(file.queue)
    BY <1>2, <1>6, HeldAfter DEF Start, Load
  <2>. QED BY <1>2, <2>1 DEF Recovery
<1>7. CASE TakeNotAdmitted
  <2> DEFINE x == Head(engine.queue)
             ev == [hash |-> x.unit.hash, ticket |-> x.ticket, verdict |-> "not-admitted",
                    tierRan |-> "none", verified |-> FALSE, tree |-> {}, delivery |-> NoDelivery]
  <2>1. /\ pc = "top" /\ pc' = "top" /\ engine.queue # <<>> /\ UNCHANGED <<file, admitted>>
        /\ engine'.queue = Tail(engine.queue) /\ engine'.stream = Append(engine.stream, ev)
        /\ log' = Logged(ev)
    BY <1>1, <1>3, <1>7 DEF TakeNotAdmitted, Engines, IoError
  <2>2. /\ x \in Entries /\ ToSet(engine.queue) = {x} \cup ToSet(engine'.queue)
    BY <1>3, <2>1, QueueOps
  <2>3. ev \in Events /\ ev.ticket = x.ticket /\ Final(ev)
    BY <2>2, UnitNames DEF Entries, Events, Verdicts, Deliveries, NoDelivery, Final
  <2> HIDE DEF ev
  <2>4. /\ ToSet(engine'.stream) = ToSet(engine.stream) \cup {ev}
        /\ \E l \in log' : l.hash = ev.hash
    BY <1>3, <2>1, <2>3, QueueOps, LoggedTyped
  <2>5. ASSUME NEW t \in 1 .. admitted PROVE Kept(t, engine', log')
    <3>1. Kept(t, engine, log)
      BY <1>2, <2>1
    <3>2. Kept(x.ticket, engine', log')
      BY <2>3, <2>4 DEF Kept
    <3>3. CASE \E y \in ToSet(engine'.queue) : y.ticket = t
      BY <3>3 DEF Kept
    <3>4. CASE \E v \in ToSet(engine.stream) : v.ticket = t /\ Final(v) /\ \E l \in log : l.hash = v.hash
      BY <1>3, <2>4, <3>4 DEF Kept
    <3>. QED BY <2>2, <3>1, <3>2, <3>3, <3>4 DEF Kept
  <2>6. Held' \subseteq Held
    BY <1>7, HeldAfter
  <2>. QED BY <1>2, <1>3, <2>1, <2>5, <2>6, KeptMore DEF Recovery
<1>8. CASE Take
  <2> DEFINE x == Head(engine.queue)
  <2>1. /\ pc = "top" /\ pc' = "taken" /\ engine.queue # <<>> /\ UNCHANGED <<file, admitted, log>>
        /\ engine'.queue = Tail(engine.queue) /\ engine'.stream = engine.stream
        /\ run'.entry = x
    BY <1>3, <1>8 DEF Take, Engines, NoRun
  <2>2. ToSet(engine.queue) = {x} \cup ToSet(engine'.queue)
    BY <1>3, <2>1, QueueOps
  <2>3. \A t \in 1 .. admitted : Kept(t, engine', log) \/ x.ticket = t
    BY <1>2, <2>1, <2>2 DEF Kept
  <2>4. Held' = Held
    BY <1>8, HeldAfter
  <2>. QED BY <1>2, <2>1, <2>3, <2>4 DEF Recovery, Entry
<1>9. CASE Provision \/ Fetch \/ Exchange \/ Judge \/ Deliver \/ Patch \/ Revoke
  <2>1. /\ InDrain /\ InDrain' /\ UNCHANGED <<file, engine, log, admitted>> /\ run'.entry = run.entry
        /\ pc' \in {"patched", "revoked"} => pc \in {"emitted", "patched"} /\ run' = run
        /\ pc' # "emitted"
    BY <1>1, <1>9, InnerSteps
  <2>2. Held' = Held
    BY <2>1, HeldAfter
  <2>. QED BY <1>2, <2>1, <2>2 DEF Recovery, Entry
<1>10. CASE Emit
  <2> DEFINE ev == Event(run.verdict, TierRan(Entry))
  <2>1. /\ pc = "delivered" /\ pc' = "emitted" /\ UNCHANGED <<file, run, admitted>>
        /\ engine'.queue = engine.queue /\ engine'.stream = Append(engine.stream, ev)
        /\ log' = Logged(ev)
    BY <1>1, <1>3, <1>10 DEF Emit, Engines
  <2>2. ev \in Events /\ ev.ticket = Entry.ticket
    BY <2>1, EventTyped, InHand DEF Typed, Runs, TierRan, Event
  <2>3. Final(ev) \/ (run.verdict # "accepted" /\ HasHeadroom(Entry))
    BY <2>1, EventOrAgain
  <2> HIDE DEF ev
  <2>4. /\ ToSet(engine'.stream) = ToSet(engine.stream) \cup {ev}
        /\ \E l \in log' : l.hash = ev.hash
    BY <1>3, <2>1, <2>2, QueueOps, LoggedTyped
  <2>5. \A t : Kept(t, engine, log) => Kept(t, engine', log')
    BY <1>3, <2>1, <2>4, KeptMore
  <2>6. Kept(Entry.ticket, engine', log') \/ (run.verdict # "accepted" /\ HasHeadroom(Entry))
    BY <2>2, <2>3, <2>4 DEF Kept
  <2>7. Held' = Held
    BY <2>1, HeldAfter
  <2>. QED BY <1>2, <1>3, <2>1, <2>5, <2>6, <2>7, KeptMore DEF Recovery, Entry
<1>11. CASE Teardown
  <2> DEFINE again == run.verdict # "accepted" /\ HasHeadroom(Entry)
             x == OneBindingUp(Entry)
  <2>1. /\ pc = "revoked" /\ pc' = "top" /\ UNCHANGED <<file, admitted, log>>
        /\ engine'.queue = IF again THEN Append(engine.queue, x) ELSE engine.queue
        /\ engine'.stream = engine.stream
    BY <1>1, <1>3, <1>11 DEF Teardown, Engines
  <2>2. x \in Entries /\ x.ticket = Entry.ticket /\ x.unit = Entry.unit
    BY <2>1, InHand DEF OneBindingUp, Entries, Tiers
  <2> HIDE DEF x
  <2>3. ToSet(engine'.queue) = ToSet(engine.queue) \cup (IF again THEN {x} ELSE {})
    BY <1>3, <2>1, <2>2, QueueOps
  <2>4. \A t : Kept(t, engine, log) => Kept(t, engine', log')
    BY <2>1, <2>3, KeptMore
  <2>5. Kept(Entry.ticket, engine', log')
    <3>1. CASE again
      BY <2>2, <2>3, <3>1 DEF Kept
    <3>2. CASE ~ again
      BY <1>2, <2>1, <2>4, <3>2
    <3>. QED BY <3>1, <3>2
  <2>6. Held = ToSet(engine.queue) \cup {Entry} /\ Held' = ToSet(engine'.queue)
    BY <2>1 DEF Held, Entry
  <2>7. \A y \in Held' : \E z \in Held : y.unit = z.unit
    BY <2>2, <2>3, <2>6
  <2>8. \A y \in Held' : \E z \in ToSet(file'.queue) : z.unit = y.unit
    BY <1>2, <2>1, <2>7
  <2>. QED BY <1>2, <2>1, <2>4, <2>5, <2>8 DEF Recovery
<1>12. CASE SaveTruncate
  <2>1. pc = "top" /\ pc' = "saving" /\ file'.torn /\ UNCHANGED <<engine, log, admitted>>
    BY <1>1, <1>3, <1>12 DEF SaveTruncate
  <2>. QED BY <1>2, <2>1 DEF Recovery
<1>13. CASE SaveWrite
  <2>1. pc = "saving" /\ pc' = "down" /\ file' = engine /\ UNCHANGED <<log, admitted>>
    BY <1>2, <1>13 DEF SaveWrite
  <2>. QED BY <1>2, <1>3, <2>1 DEF Recovery
<1>14. CASE Crash
  <2>1. pc # "saving" /\ pc' = "down" /\ UNCHANGED <<file, log, admitted>>
    BY <1>1, <1>14 DEF Crash
  <2>. QED BY <1>2, <2>1 DEF Recovery
<1>. QED BY <1>4, <1>5, <1>6, <1>7, <1>8, <1>9, <1>10, <1>11, <1>12, <1>13, <1>14 DEF Next, ServeStep

\* What a restart recovers, always.
LEMMA RecoveryAlways == Spec => [](Typed /\ Recovery)
<1>1. Init => Recovery
  BY DEF Init, Recovery, InDrain, Before, After, FreshEngine
<1>2. Recovery /\ UNCHANGED vars => Recovery'
  BY DEF Recovery, vars, KillsOnly, InDrain, Entry, Held
<1>3. Recovery /\ Typed /\ [Next]_vars => Recovery'
  BY <1>2, RecoveryKept
<1>. QED BY <1>1, <1>3, TypedAlways, PTL DEF Spec

\* A kill loses no admission, at whatever step of a drain it comes: each is
\* queued in the state file, or has its final event there and a verdict in the log.
THEOREM CrashLosesNothingProved == Spec => []CrashLosesNothing
<1>1. Typed /\ Recovery => CrashLosesNothing
  <2>. SUFFICES ASSUME Typed, Recovery, KillsOnly PROVE NothingLost
    BY DEF CrashLosesNothing, KillsOnly
  <2>. SUFFICES ASSUME NEW t \in 1 .. admitted
                PROVE  \/ t \in TicketsIn(Recoverable.queue)
                       \/ \E i \in DOMAIN Recoverable.stream :
                             LET ev == Recoverable.stream[i]
                             IN  ev.ticket = t /\ Final(ev) /\ \E l \in log : l.hash = ev.hash
    BY DEF NothingLost
  <2>1. Kept(t, Recoverable, log)
    BY DEF Recovery, Recoverable, Load, InDrain, Before, After
  <2>. QED BY <2>1 DEF Kept, TicketsIn, ToSet
<1>. QED BY <1>1, RecoveryAlways, PTL

-----------------------------------------------------------------------------
\* A directory that stands does so for any entries of the same units.
LEMMA StandsMore ==
  ASSUME NEW d, NEW S, NEW T, Stands(d, S), \A x \in S : \E y \in T : y.unit = x.unit
  PROVE  Stands(d, T)
BY DEF Stands

\* The unit of a drain was covered when it was taken.
LEMMA CoveredKept ==
  ASSUME Typed, Remains, Next, InDrain' PROVE MissingFor(Manifest, Entry'.unit) = {}
<1> USE DEF InDrain, Before, After
<1>1. CASE Take
  BY <1>1 DEF Take, Entry, NoRun
<1>2. CASE ~ Take
  <2>1. InDrain /\ run'.entry = run.entry
    <3>1. CASE Judge
      <4>1. PICK answered \in SUBSET DOMAIN Entry.unit.cells, oracle \in BOOLEAN, tree \in SUBSET Hashes :
                   JudgedAs(answered, oracle, tree)
        BY <3>1, JudgeTells
      <4>2. run \in Runs
        BY <3>1, JudgeTells, InHand
      <4>. QED BY <3>1, <4>1, <4>2, JudgeTells DEF JudgedAs, Runs
    <3>2. CASE ~ Judge /\ pc' \in After
      BY <3>2, RunKept
    <3>3. CASE ~ Judge /\ pc' \notin After
      BY <1>2, <3>3 DEF Next, ServeStep, ModeSet, Admit, Command, Start, TakeNotAdmitted, Provision, Fetch,
         Exchange, Deliver, Emit, Patch, Revoke, Teardown, SaveTruncate, SaveWrite, Crash, IoError
    <3>. QED BY <3>1, <3>2, <3>3
  <2>. QED BY <2>1 DEF Remains, Entry
<1>. QED BY <1>1, <1>2

\* What is left of a unit, at every step.
LEMMA RemainsKept ==
  ASSUME Typed, Recovery, Remains, Next PROVE Remains'
<1>. SUFFICES ASSUME KillsOnly', NEW d \in Dirs, workspaces'[d].exists
              PROVE  /\ pc' # "saving" => Stands(d, ToSet(file'.queue))
                     /\ pc' # "down" => Stands(d, Held')
  BY CoveredKept DEF Remains
<1> DEFINE Goal == /\ pc' # "saving" => Stands(d, ToSet(file'.queue))
                   /\ pc' # "down" => Stands(d, Held')
<1>1. /\ ~ IoError /\ pc # "failed" /\ pc' # "failed" /\ (Crash => pc # "saving") /\ KillsOnly
      /\ \A m \in {"queue", "explorer"} : ModeSet(m) => pc = "down"
      /\ \A u \in Units : Admit(u) => pc = "down"
  BY Undisturbed
<1>2. /\ workspaces[d].exists /\ pc # "saving" => Stands(d, ToSet(file.queue))
      /\ workspaces[d].exists /\ pc # "down" => Stands(d, Held)
      /\ InDrain => MissingFor(Manifest, Entry.unit) = {}
  BY <1>1 DEF Remains
<1>3. /\ engine \in Engines /\ file \in Engines \cup {Torn} /\ engine.queue \in Seq(Entries)
      /\ pc = "saving" <=> file.torn
      /\ pc \notin {"down", "saving"} =>
           \A x \in Held : \E y \in ToSet(file.queue) : y.unit = x.unit
  BY <1>1 DEF Typed, Engines, Recovery
<1>4. /\ workspaces \in [Dirs -> Directories] /\ Torn.torn
  BY DEF Typed, Torn
<1> USE DEF InDrain, Before, After
<1>5. ASSUME NEW m \in {"queue", "explorer"}, ModeSet(m) PROVE Goal
  <2>1. /\ pc = "down" /\ pc' = pc /\ file' = [file EXCEPT !.mode = m] /\ file \in Engines
        /\ workspaces' = workspaces
    BY <1>1, <1>3, <1>4, <1>5 DEF ModeSet, Load
  <2>2. file'.queue = file.queue
    BY <2>1 DEF Engines
  <2>. QED BY <1>2, <2>1, <2>2
<1>6. ASSUME NEW u \in Units, Admit(u) PROVE Goal
  <2> DEFINE x == [unit |-> u, ladder |-> u.ladder, tier |-> u.tier, ticket |-> admitted + 1]
  <2>1. /\ pc = "down" /\ pc' = pc /\ file' = [file EXCEPT !.queue = Append(@, x)] /\ file \in Engines
        /\ workspaces' = workspaces
    BY <1>1, <1>3, <1>4, <1>6 DEF Admit, Load
  <2>2. x \in Entries
    BY UnitNames, ServeAssumption DEF Entries, Typed
  <2> HIDE DEF x
  <2>3. file'.queue = Append(file.queue, x) /\ file.queue \in Seq(Entries)
    BY <2>1 DEF Engines
  <2>4. ToSet(file.queue) \subseteq ToSet(file'.queue)
    BY <2>2, <2>3, QueueOps
  <2>. QED BY <1>2, <2>1, <2>4, StandsMore
<1>7. CASE Start
  <2>1. pc = "down" /\ pc' = "top" /\ UNCHANGED <<file, workspaces>> /\ Held' = ToSet(file.queue)
    BY <1>7, HeldAfter DEF Start
  <2>. QED BY <1>2, <2>1
<1>8. CASE TakeNotAdmitted
  <2>1. /\ pc = "top" /\ pc' = "top" /\ UNCHANGED <<file, workspaces>>
        /\ MissingFor(Manifest, Head(engine.queue).unit) # {}
    BY <1>1, <1>8 DEF TakeNotAdmitted
  <2>2. Held = {Head(engine.queue)} \cup Held'
    BY <1>8, HeldAfter
  <2>3. Stands(d, Held) => Stands(d, Held')
    BY <2>1, <2>2 DEF Stands
  <2>. QED BY <1>2, <2>1, <2>3
<1>9. CASE Take
  <2>1. pc = "top" /\ pc' = "taken" /\ UNCHANGED <<file, workspaces>> /\ Held' = Held
    BY <1>9, HeldAfter DEF Take
  <2>. QED BY <1>2, <2>1
<1>10. CASE Provision \/ Fetch \/ Exchange \/ Judge \/ Deliver \/ Patch \/ Revoke
  <2>1. /\ InDrain /\ InDrain' /\ UNCHANGED <<file, engine>> /\ run'.entry = run.entry
    BY <1>1, <1>10, InnerSteps
  <2>2. Held' = Held
    BY <2>1, HeldAfter
  <2>3. Stands(Dir, Held)
    BY <1>2, <2>1 DEF Held, Stands, Dir, Ref, Entry
  <2>4. Stands(Dir, ToSet(file.queue))
    BY <1>3, <2>1, <2>3, StandsMore
  <2>5. d = Dir \/ workspaces'[d] = workspaces[d]
    <3>1. CASE Judge
      <4>1. PICK answered \in SUBSET DOMAIN Entry.unit.cells, oracle \in BOOLEAN, tree \in SUBSET Hashes :
                   JudgedAs(answered, oracle, tree)
        BY <3>1, JudgeTells
      <4>. QED BY <1>4, <4>1 DEF JudgedAs
    <3>2. CASE ~ Judge
      BY <1>1, <1>4, <1>10, <3>2 DEF Provision, Fetch, Exchange, Deliver, Patch, Revoke
    <3>. QED BY <3>1, <3>2
  <2>. QED BY <1>2, <2>1, <2>2, <2>3, <2>4, <2>5
<1>11. CASE Emit
  <2>1. /\ pc = "delivered" /\ pc' = "emitted" /\ UNCHANGED <<file, run, workspaces>>
        /\ engine'.queue = engine.queue
    BY <1>1, <1>3, <1>11 DEF Emit, Engines
  <2>2. Held' = Held
    BY <2>1, HeldAfter
  <2>. QED BY <1>2, <2>1, <2>2
<1>12. CASE Teardown
  <2>1. /\ pc = "revoked" /\ pc' = "top" /\ file' = file
        /\ workspaces' = [workspaces EXCEPT ![Dir] = NoDirectory]
        /\ engine'.queue = IF run.verdict # "accepted" /\ HasHeadroom(Entry)
                           THEN Append(engine.queue, OneBindingUp(Entry)) ELSE engine.queue
    BY <1>1, <1>3, <1>12 DEF Teardown, Engines
  <2>2. d # Dir /\ workspaces'[d] = workspaces[d]
    BY <1>4, <2>1 DEF NoDirectory
  <2>3. OneBindingUp(Entry) \in Entries
    BY <2>1, InHand DEF OneBindingUp, Entries, Tiers
  <2>4. ToSet(engine.queue) \subseteq ToSet(engine'.queue)
    BY <1>3, <2>1, <2>3, QueueOps
  <2>5. Held = ToSet(engine.queue) \cup {Entry} /\ Held' = ToSet(engine'.queue)
    BY <2>1 DEF Held, Entry
  <2>6. Stands(d, Held) => Stands(d, Held')
    BY <2>2, <2>4, <2>5 DEF Stands, Dir, Ref, Entry
  <2>. QED BY <1>2, <2>1, <2>2, <2>6
<1>13. CASE SaveTruncate
  <2>1. pc = "top" /\ pc' = "saving" /\ UNCHANGED <<engine, workspaces>>
    BY <1>1, <1>13 DEF SaveTruncate
  <2>2. Held' = Held
    BY <2>1 DEF Held
  <2>. QED BY <1>2, <2>1, <2>2
<1>14. CASE SaveWrite
  <2>1. pc = "saving" /\ pc' = "down" /\ file' = engine /\ workspaces' = workspaces
    BY <1>3, <1>14 DEF SaveWrite
  <2>2. Held = ToSet(file'.queue)
    BY <2>1 DEF Held
  <2>. QED BY <1>2, <2>1, <2>2
<1>15. CASE Crash
  BY <1>1, <1>2, <1>15 DEF Crash
<1>. QED BY <1>5, <1>6, <1>7, <1>8, <1>9, <1>10, <1>11, <1>12, <1>13, <1>14, <1>15 DEF Next, ServeStep

\* The unit's last step tears down what it used.  Without a fault that cuts a
\* drain short nothing stands and nothing is in flight between two drains; and
\* a directory a kill left behind belongs to a unit that is drained again.
THEOREM NothingLeftBehindProved == Spec => []NothingLeftBehind
<1>1. Init => Remains
  BY DEF Init, Remains, InDrain, Before, After, NoDirectory
<1>2. Remains /\ UNCHANGED vars => Remains'
  BY DEF Remains, vars, KillsOnly, InDrain, Entry, Held
<1>3. Remains /\ Typed /\ Recovery /\ [Next]_vars => Remains'
  BY <1>2, RemainsKept
<1>4. Typed /\ Orderly /\ Recovery /\ Remains => NothingLeftBehind
  <2>. SUFFICES ASSUME Typed, Orderly, Recovery, Remains PROVE NothingLeftBehind
    OBVIOUS
  <2>1. ASSUME pc = "top", faults \subseteq {"push", "overlap"}
        PROVE  leases = {} /\ (\A d \in Dirs : ~ workspaces[d].exists) /\ engine.inFlight = 0
    BY <2>1 DEF Orderly, Uncut, InDrain, Before, After, NoDirectory
  <2>2. ASSUME Between, KillsOnly, NEW d \in Dirs, workspaces[d].exists
        PROVE  LET q == IF pc = "top" THEN engine.queue ELSE Recoverable.queue
               IN  \E i \in DOMAIN q : SafeName[q[i].unit.ref] = d
    <3> DEFINE q == IF pc = "top" THEN engine.queue ELSE Recoverable.queue
    <3>1. Stands(d, ToSet(q))
      BY <2>2 DEF Between, Remains, Recovery, Recoverable, Load, Held, InDrain, Before, After
    <3> HIDE DEF q
    <3>2. \E i \in DOMAIN q : SafeName[q[i].unit.ref] = d
      BY <3>1 DEF Stands, ToSet
    <3>. QED BY <3>2 DEF q
  <2>. QED BY <2>1, <2>2 DEF NothingLeftBehind, KillsOnly
<1>. QED BY <1>1, <1>3, <1>4, OrderlyAlways, RecoveryAlways, PTL DEF Spec

-----------------------------------------------------------------------------
\* What is under a name was made for units of that name, at every step.
LEMMA NamedKept ==
  ASSUME Typed, Named, Next PROVE Named'
<1> USE DEF InDrain, Before, After
<1>1. CASE Judge
  <2>1. PICK answered \in SUBSET DOMAIN Entry.unit.cells, oracle \in BOOLEAN, tree \in SUBSET Hashes :
               JudgedAs(answered, oracle, tree)
    BY <1>1, JudgeTells
  <2>2. run \in Runs /\ Dir \in Dirs /\ Entry.unit \in Units /\ UNCHANGED patches
    BY <1>1, JudgeTells, InHand
  <2>3. run'.entry = run.entry /\ run'.tree = tree
    BY <2>1, <2>2 DEF JudgedAs, Runs
  <2>4. \A h \in tree : \E v \in Units : v.hash = h /\ SafeName[v.ref] = Dir
    BY <2>1, <2>2 DEF JudgedAs, Named, Dir, Ref, Entry
  <2>5. \A d \in Dirs : workspaces'[d].holds = IF d = Dir THEN tree ELSE workspaces[d].holds
    BY <2>1, <2>2 DEF JudgedAs, Typed, Directories
  <2>. QED BY <2>2, <2>3, <2>4, <2>5 DEF Named, Dir, Ref, Entry
<1>2. CASE ~ Judge
  <2>1. \A d \in Dirs : workspaces'[d].holds \subseteq workspaces[d].holds
    <3>1. CASE Provision \/ Fetch \/ Teardown
      <4>1. Dir \in Dirs
        BY <3>1, InHand DEF Provision, Fetch, Teardown
      <4>. QED BY <3>1, <4>1 DEF Provision, Fetch, Teardown, Typed, Directories, NoDirectory
    <3>2. CASE ~ (Provision \/ Fetch \/ Teardown)
      <4>1. workspaces' = workspaces
        BY <1>2, <3>2 DEF Next, ServeStep, ModeSet, Admit, Start, TakeNotAdmitted, Take, Exchange,
           Deliver, Emit, Patch, Revoke, SaveTruncate, SaveWrite, Crash
      <4>. QED BY <4>1
    <3>. QED BY <3>1, <3>2
  <2>2. \A d \in Dirs : patches'[d] = patches[d] \/ (patches'[d] = run.tree /\ d = Dir /\ pc \in After)
    <3>1. CASE Patch
      BY <3>1 DEF Patch, Typed
    <3>2. CASE ~ Patch
      BY <1>2, <3>2 DEF Next, ServeStep, ModeSet, Admit, Start, TakeNotAdmitted, Take, Provision, Fetch,
         Exchange, Deliver, Emit, Revoke, Teardown, SaveTruncate, SaveWrite, Crash
    <3>. QED BY <3>1, <3>2
  <2>3. ASSUME pc' \in After PROVE pc \in After /\ run'.tree = run.tree /\ Dir' = Dir
    BY <1>2, <2>3, RunKept DEF Dir, Ref, Entry
  <2>. QED BY <2>1, <2>2, <2>3 DEF Named
<1>. QED BY <1>1, <1>2

\* A patch that waits does so as the queue and the stream grow.
LEMMA PatchWaitsMore ==
  ASSUME NEW u, NEW e, NEW f, PatchWaits(u, e),
         ToSet(e.queue) \subseteq ToSet(f.queue), ToSet(e.stream) \subseteq ToSet(f.stream)
  PROVE  PatchWaits(u, f)
BY DEF PatchWaits

\* What a unit without a patch was before the step that leaves it without one.
LEMMA UnpatchedBefore ==
  ASSUME HashIsIdentity, Typed, Next, NEW u \in Units, Unpatched(u)'
  PROVE  /\ u.delivery.mode = "inline" /\ patches[SafeName[u.ref]] = {}
         /\ \/ Unpatched(u)
            \/ Emit /\ pc = "delivered" /\ pc' = "emitted" /\ Entry.unit = u /\ ToBePatched(u)'
<1>1. SafeName[u.ref] \in Dirs /\ u.delivery.mode = "inline"
  BY UnitNames DEF Unpatched
<1>2. patches[SafeName[u.ref]] = {}
  <2>1. CASE Patch
    BY <1>1, <2>1 DEF Patch, Typed, Unpatched
  <2>2. CASE ~ Patch
    BY <2>2 DEF Unpatched, Next, ServeStep, ModeSet, Admit, Start, TakeNotAdmitted, Take, Provision, Fetch,
       Exchange, Judge, Deliver, Emit, Revoke, Teardown, SaveTruncate, SaveWrite, Crash
  <2>. QED BY <2>1, <2>2
<1>3. PICK l \in log' : l.hash = u.hash /\ l.verdict = "accepted" /\ l.tree # {}
  BY DEF Unpatched
<1>4. CASE l \in log
  BY <1>1, <1>2, <1>3, <1>4 DEF Unpatched
<1>5. CASE l \notin log
  <2>1. /\ pc = "delivered" /\ pc' = "emitted" /\ Emit /\ run' = run
        /\ l.hash = Entry.unit.hash /\ l.verdict = run.verdict /\ l.tree = run.tree
    BY <1>3, <1>5, LogGrows
  <2>2. Entry.unit \in Units
    BY <2>1, InHand DEF InDrain, After
  <2>3. Entry.unit = u
    BY <1>3, <2>1, <2>2 DEF HashIsIdentity
  <2>. QED BY <1>1, <1>2, <1>3, <2>1, <2>3 DEF ToBePatched, InDrain, After, Entry
<1>. QED BY <1>1, <1>2, <1>4, <1>5

\* The patches in the outbox, at every step.
LEMMA PatchedKept ==
  ASSUME HashIsIdentity, Typed, Recovery, Orderly, Patched, Next PROVE Patched'
<1>. SUFFICES ASSUME NEW u \in Units, Unpatched(u)'
              PROVE  /\ Uncut' => pc' = "emitted" /\ ToBePatched(u)'
                     /\ KillsOnly' /\ pc' # "saving" => PatchWaits(u, file')
                     /\ KillsOnly' /\ pc' # "down" => PatchWaits(u, engine') \/ ToBePatched(u)'
  BY DEF Patched
<1>1. /\ u.delivery.mode = "inline" /\ patches[SafeName[u.ref]] = {} /\ SafeName[u.ref] \in Dirs
      /\ patches'[SafeName[u.ref]] = {}
      /\ \/ Unpatched(u)
         \/ Emit /\ pc = "delivered" /\ pc' = "emitted" /\ Entry.unit = u /\ ToBePatched(u)'
  BY UnpatchedBefore, UnitNames DEF Unpatched
<1>2. ASSUME ToBePatched(u), pc = "emitted", Patch, "io" \notin faults' PROVE FALSE
  <2>1. patches' = [patches EXCEPT ![SafeName[u.ref]] = run.tree]
    BY <1>1, <1>2 DEF Patch, ToBePatched, Inline, Dir, Ref, Entry, Fault
  <2>2. patches'[SafeName[u.ref]] = run.tree
    BY <1>1, <2>1 DEF Typed
  <2>. QED BY <1>1, <1>2, <2>2 DEF ToBePatched
<1> USE DEF InDrain, Before, After
<1>3. ASSUME Uncut' PROVE pc' = "emitted" /\ ToBePatched(u)'
  <2>1. /\ Uncut /\ ~ IoError /\ (Crash => pc = "saving") /\ "io" \notin faults'
    BY <1>3, FaultsGrow DEF Uncut
  <2>2. CASE Unpatched(u)
    <3>1. pc = "emitted" /\ ToBePatched(u)
      BY <2>1, <2>2 DEF Patched
    <3>2. pc' = "emitted" /\ UNCHANGED run
      BY <1>2, <2>1, <3>1 DEF Next, ServeStep, ModeSet, Admit, Start, TakeNotAdmitted, Take, Provision,
         Fetch, Exchange, Judge, Deliver, Emit, Revoke, Teardown, SaveTruncate, SaveWrite, Crash
    <3>. QED BY <3>1, <3>2 DEF ToBePatched, Entry
  <2>. QED BY <1>1, <2>2
<1>4. ASSUME KillsOnly'
      PROVE  /\ pc' # "saving" => PatchWaits(u, file')
             /\ pc' # "down" => PatchWaits(u, engine') \/ ToBePatched(u)'
  <2> DEFINE Goal == /\ pc' # "saving" => PatchWaits(u, file')
                     /\ pc' # "down" => PatchWaits(u, engine') \/ ToBePatched(u)'
  <2>1. /\ ~ IoError /\ pc # "failed" /\ pc' # "failed" /\ (Crash => pc # "saving") /\ KillsOnly
        /\ \A m \in {"queue", "explorer"} : ModeSet(m) => pc = "down"
        /\ \A v \in Units : Admit(v) => pc = "down"
        /\ "io" \notin faults'
    BY <1>4, Undisturbed DEF KillsOnly
  <2>2. /\ engine \in Engines /\ file \in Engines \cup {Torn} /\ Torn.torn
        /\ engine.queue \in Seq(Entries) /\ engine.stream \in Seq(Events)
        /\ pc = "saving" <=> file.torn
        /\ pc \notin {"down", "saving"} =>
             \A x \in Held : \E y \in ToSet(file.queue) : y.unit = x.unit
    BY <2>1 DEF Typed, Engines, Recovery, Torn
  <2>3. Unpatched(u) => /\ pc # "saving" => PatchWaits(u, file)
                        /\ pc # "down" => PatchWaits(u, engine) \/ ToBePatched(u)
    BY <2>1 DEF Patched
  <2>4. ASSUME NEW m \in {"queue", "explorer"}, ModeSet(m) PROVE Goal
    <3>1. /\ pc = "down" /\ pc' = pc /\ file' = [file EXCEPT !.mode = m] /\ file \in Engines
      BY <2>1, <2>2, <2>4 DEF ModeSet, Load
    <3>2. file'.queue = file.queue /\ file'.stream = file.stream
      BY <3>1 DEF Engines
    <3>. QED BY <1>1, <2>3, <3>1, <3>2, PatchWaitsMore
  <2>5. ASSUME NEW v \in Units, Admit(v) PROVE Goal
    <3> DEFINE x == [unit |-> v, ladder |-> v.ladder, tier |-> v.tier, ticket |-> admitted + 1]
    <3>1. /\ pc = "down" /\ pc' = pc /\ file' = [file EXCEPT !.queue = Append(@, x)] /\ file \in Engines
      BY <2>1, <2>2, <2>5 DEF Admit, Load
    <3>2. x \in Entries
      BY UnitNames, ServeAssumption DEF Entries, Typed
    <3> HIDE DEF x
    <3>3. file'.queue = Append(file.queue, x) /\ file.queue \in Seq(Entries) /\ file'.stream = file.stream
      BY <3>1 DEF Engines
    <3>4. ToSet(file.queue) \subseteq ToSet(file'.queue)
      BY <3>2, <3>3, QueueOps
    <3>. QED BY <1>1, <2>3, <3>1, <3>3, <3>4, PatchWaitsMore
  <2>6. CASE Start
    <3>1. pc = "down" /\ pc' = "top" /\ file' = file /\ engine' = file
      BY <2>2, <2>6 DEF Start, Load
    <3>. QED BY <1>1, <2>3, <3>1
  <2>7. CASE TakeNotAdmitted
    <3> DEFINE x == Head(engine.queue)
               ev == [hash |-> x.unit.hash, ticket |-> x.ticket, verdict |-> "not-admitted",
                      tierRan |-> "none", verified |-> FALSE, tree |-> {}, delivery |-> NoDelivery]
    <3>1. /\ pc = "top" /\ pc' = "top" /\ engine.queue # <<>> /\ file' = file
          /\ engine'.queue = Tail(engine.queue) /\ engine'.stream = Append(engine.stream, ev)
      BY <2>1, <2>2, <2>7 DEF TakeNotAdmitted, Engines
    <3>2. x \in Entries /\ ToSet(engine.queue) = {x} \cup ToSet(engine'.queue)
      BY <2>2, <3>1, QueueOps
    <3>3. ev \in Events /\ ev.hash = x.unit.hash /\ NothingToPatch(ev)
      BY <3>2, UnitNames DEF Entries, Events, Verdicts, Deliveries, NoDelivery, NothingToPatch
    <3> HIDE DEF ev
    <3>4. ToSet(engine'.stream) = ToSet(engine.stream) \cup {ev}
      BY <2>2, <3>1, <3>3, QueueOps
    <3>5. PatchWaits(u, engine) => PatchWaits(u, engine')
      BY <3>2, <3>3, <3>4 DEF PatchWaits
    <3>. QED BY <1>1, <2>3, <3>1, <3>5 DEF ToBePatched
  <2>8. CASE Take
    <3> DEFINE x == Head(engine.queue)
    <3>1. /\ pc = "top" /\ pc' = "taken" /\ engine.queue # <<>> /\ file' = file
          /\ engine'.queue = Tail(engine.queue) /\ engine'.stream = engine.stream
          /\ run'.entry = x
      BY <2>2, <2>8 DEF Take, Engines, NoRun
    <3>2. ToSet(engine.queue) = {x} \cup ToSet(engine'.queue)
      BY <2>2, <3>1, QueueOps
    <3>3. PatchWaits(u, engine) => PatchWaits(u, engine') \/ x.unit = u
      BY <3>1, <3>2 DEF PatchWaits
    <3>. QED BY <1>1, <2>3, <3>1, <3>3 DEF ToBePatched, Entry
  <2>9. CASE Provision \/ Fetch \/ Exchange \/ Judge \/ Deliver \/ Patch \/ Revoke
    <3>1. /\ InDrain /\ InDrain' /\ UNCHANGED <<file, engine>> /\ run'.entry = run.entry
          /\ pc' \in {"patched", "revoked"} => pc \in {"emitted", "patched"} /\ run' = run
          /\ pc' # "emitted"
      BY <2>1, <2>9, InnerSteps
    <3>2. Unpatched(u) /\ pc # "saving" /\ pc # "down"
      BY <1>1, <2>9, <3>1
    <3>3. ASSUME ToBePatched(u) PROVE ToBePatched(u)'
      <4>1. pc # "patched"
        BY <3>3 DEF ToBePatched
      <4>2. pc # "emitted"
        BY <1>2, <2>1, <2>9, <3>3 DEF Provision, Fetch, Exchange, Judge, Deliver, Revoke
      <4>3. pc' \notin {"patched", "revoked"}
        BY <3>1, <4>1, <4>2
      <4>. QED BY <3>1, <3>3, <4>3 DEF ToBePatched, Entry
    <3>. QED BY <2>3, <3>1, <3>2, <3>3
  <2>10. CASE Emit
    <3> DEFINE ev == Event(run.verdict, TierRan(Entry))
    <3>1. /\ pc = "delivered" /\ pc' = "emitted" /\ UNCHANGED <<file, run>>
          /\ engine'.queue = engine.queue /\ engine'.stream = Append(engine.stream, ev)
      BY <2>1, <2>2, <2>10 DEF Emit, Engines
    <3>2. ev \in Events /\ ev.hash = Entry.unit.hash /\ ev.verdict = run.verdict /\ ev.tree = run.tree
      BY <3>1, EventTyped, InHand DEF Typed, Runs, TierRan, Event
    <3> HIDE DEF ev
    <3>3. ToSet(engine'.stream) = ToSet(engine.stream) \cup {ev}
      BY <2>2, <3>1, <3>2, QueueOps
    <3>4. PatchWaits(u, engine) => PatchWaits(u, engine')
      BY <3>1, <3>3, PatchWaitsMore
    <3>5. Entry.unit = u => PatchWaits(u, engine') \/ ToBePatched(u)'
      BY <3>1, <3>2, <3>3 DEF PatchWaits, ToBePatched, NothingToPatch, Entry
    <3>6. Entry.unit = u => PatchWaits(u, file)
      BY <2>2, <3>1 DEF PatchWaits, Held, Entry
    <3>. QED BY <1>1, <2>3, <3>1, <3>4, <3>5, <3>6 DEF ToBePatched
  <2>11. CASE Teardown
    <3>1. /\ pc = "revoked" /\ pc' = "top" /\ file' = file
          /\ engine'.queue = IF run.verdict # "accepted" /\ HasHeadroom(Entry)
                             THEN Append(engine.queue, OneBindingUp(Entry)) ELSE engine.queue
          /\ engine'.stream = engine.stream
      BY <2>1, <2>2, <2>11 DEF Teardown, Engines
    <3>2. OneBindingUp(Entry) \in Entries
      BY <3>1, InHand DEF OneBindingUp, Entries, Tiers
    <3>3. ToSet(engine.queue) \subseteq ToSet(engine'.queue)
      BY <2>2, <3>1, <3>2, QueueOps
    <3>. QED BY <1>1, <2>3, <3>1, <3>3, PatchWaitsMore DEF ToBePatched
  <2>12. CASE SaveTruncate
    BY <1>1, <2>1, <2>3, <2>12 DEF SaveTruncate, ToBePatched
  <2>13. CASE SaveWrite
    <3>1. pc = "saving" /\ file' = engine /\ pc' = "down"
      BY <2>2, <2>13 DEF SaveWrite
    <3>. QED BY <1>1, <2>3, <3>1 DEF ToBePatched
  <2>14. CASE Crash
    BY <1>1, <2>1, <2>3, <2>14 DEF Crash
  <2>. QED BY <2>4, <2>5, <2>6, <2>7, <2>8, <2>9, <2>10, <2>11, <2>12, <2>13, <2>14 DEF Next, ServeStep
<1>. QED BY <1>3, <1>4

\* Step 5b: the patch is how an inline unit's code leaves the box.  Where only
\* killed drains, or none, were cut short, a unit the log accepts with changes has
\* a patch under its name once the drain is over; a kill can leave it without one
\* until its drain is repeated, or for good if that had nothing to patch.
THEOREM AcceptedLeavesTheBox == ASSUME HashIsIdentity PROVE Spec => []AcceptedIsDelivered
<1>1. Init => Named /\ Patched
  <2>. SUFFICES ASSUME Init PROVE Named /\ Patched
    OBVIOUS
  <2>1. \A d \in Dirs : workspaces[d].holds = {} /\ patches[d] = {}
    BY DEF Init, NoDirectory
  <2>. QED BY <2>1 DEF Init, Named, Patched, Unpatched, After
<1>2. (Named /\ UNCHANGED vars => Named') /\ (Patched /\ UNCHANGED vars => Patched')
  BY DEF Named, Patched, Unpatched, ToBePatched, vars, KillsOnly, Uncut, InDrain, Entry, Dir, Ref
<1>3. Named /\ Patched /\ Typed /\ Orderly /\ Recovery /\ [Next]_vars => Named' /\ Patched'
  BY <1>2, NamedKept, PatchedKept
<1>4. Named /\ Patched /\ Typed /\ Recovery => AcceptedIsDelivered
  <2>. SUFFICES ASSUME Named, Patched, Typed, Recovery, Between, KillsOnly \/ Uncut,
                       NEW l \in log, NEW u \in Units, l.hash = u.hash, u.delivery.mode = "inline",
                       l.verdict = "accepted", l.tree # {}
                PROVE  LET e == IF pc = "top" THEN engine ELSE Recoverable
                       IN  \/ \E v \in Units : SafeName[v.ref] = SafeName[u.ref]
                                                 /\ v.hash \in patches[SafeName[u.ref]]
                           \/ /\ "crash" \in faults
                              /\ \/ \E i \in DOMAIN e.queue : e.queue[i].unit = u
                                 \/ \E i \in DOMAIN e.stream :
                                      e.stream[i].hash = u.hash /\ NothingToPatch(e.stream[i])
    BY DEF AcceptedIsDelivered, KillsOnly, Uncut
  <2>1. CASE patches[SafeName[u.ref]] # {}
    <3>1. SafeName[u.ref] \in Dirs
      BY UnitNames
    <3>. QED BY <2>1, <3>1 DEF Named
  <2>2. CASE patches[SafeName[u.ref]] = {}
    <3> DEFINE e == IF pc = "top" THEN engine ELSE Recoverable
    <3>1. Unpatched(u)
      BY <2>2 DEF Unpatched
    <3>2. ~ Uncut
      BY <3>1 DEF Patched, Between
    <3>3. "crash" \in faults /\ KillsOnly
      BY <3>2 DEF KillsOnly, Uncut
    <3>4. PatchWaits(u, e)
      BY <3>1, <3>3 DEF Patched, Between, Recovery, Recoverable, Load, ToBePatched, InDrain, Before, After
    <3> HIDE DEF e
    <3>5. \/ \E i \in DOMAIN e.queue : e.queue[i].unit = u
          \/ \E i \in DOMAIN e.stream : e.stream[i].hash = u.hash /\ NothingToPatch(e.stream[i])
      BY <3>4 DEF PatchWaits, ToSet
    <3>. QED BY <3>3, <3>5 DEF e
  <2>. QED BY <2>1, <2>2
<1>. QED BY <1>1, <1>3, <1>4, OrderlyAlways, RecoveryAlways, PTL DEF Spec

-----------------------------------------------------------------------------
\* No commit ever leaves a branch: a push that is not a fast-forward is refused.
LEMMA BranchesGrow ==
  ASSUME Typed, Next
  PROVE  /\ \A b \in Branches : branches[b] \subseteq branches'[b]
         /\ \A h : InLog(h) => InLog(h)'
<1>1. ASSUME NEW b \in Branches PROVE branches[b] \subseteq branches'[b]
  <2>1. CASE Deliver
    <3>1. \/ branches' = branches
          \/ /\ FastForward
             /\ branches' = [branches EXCEPT ![BranchOf(Entry.unit)] = BaseCommits \cup {commits + 1}]
      BY <2>1 DEF Deliver
    <3>. QED BY <3>1 DEF FastForward, Typed
  <2>2. CASE ~ Deliver
    BY <2>2 DEF Next, ServeStep, ModeSet, Admit, Start, TakeNotAdmitted, Take, Provision, Fetch,
       Exchange, Judge, Emit, Patch, Revoke, Teardown, SaveTruncate, SaveWrite, Crash
  <2>. QED BY <2>1, <2>2
<1>2. \A h : InLog(h) => InLog(h)'
  BY LogGrows DEF InLog
<1>. QED BY <1>1, <1>2

\* A delivery: nothing landed, it was pushed to the unit's branch, or refused.
LEMMA DeliverTells ==
  ASSUME Typed, Deliver
  PROVE  /\ pc = "judged" /\ pc' = "delivered" /\ InDrain /\ InDrain' /\ log' = log
         /\ run'.entry = run.entry /\ BranchOf(Entry.unit) = BranchOf(Entry'.unit)
         /\ run'.verdict = run.verdict /\ run'.tree = run.tree
         /\ \/ ~ Lands /\ run' = run /\ branches' = branches
            \/ /\ Entry.unit.delivery.mode = "repository" /\ FastForward /\ Lands
               /\ run'.delivery.commit \in branches'[BranchOf(Entry.unit)]
               /\ \A b \in Branches \ {BranchOf(Entry.unit)} : branches'[b] = branches[b]
            \/ /\ Entry.unit.delivery.mode = "repository" /\ Lands
               /\ branches' = branches /\ ~ run'.delivery.pr /\ (FastForward => "push" \in faults')
<1>1. /\ pc = "judged" /\ pc' = "delivered" /\ InDrain /\ InDrain' /\ log' = log
  BY DEF Deliver, InDrain, After
<1>2. run \in Runs /\ Entry.unit \in Units
  BY <1>1, InHand
<1>3. CASE ~ Lands
  BY <1>1, <1>3 DEF Deliver, Entry
<1>4. ASSUME Lands, NEW pushed \in BOOLEAN,
             IF pushed
             THEN /\ FastForward
                  /\ branches' = [branches EXCEPT ![BranchOf(Entry.unit)] = BaseCommits \cup {commits + 1}]
                  /\ UNCHANGED faults
             ELSE /\ UNCHANGED branches
                  /\ IF FastForward THEN Fault("push") ELSE UNCHANGED faults,
             run' = [run EXCEPT !.delivery = [commit |-> commits + 1, pr |-> PrUrl(pushed)]]
      PROVE  /\ run'.entry = run.entry /\ run'.verdict = run.verdict /\ run'.tree = run.tree
             /\ \/ /\ Entry.unit.delivery.mode = "repository" /\ FastForward
                   /\ run'.delivery.commit \in branches'[BranchOf(Entry.unit)]
                   /\ \A b \in Branches \ {BranchOf(Entry.unit)} : branches'[b] = branches[b]
                \/ /\ Entry.unit.delivery.mode = "repository"
                   /\ branches' = branches /\ ~ run'.delivery.pr /\ (FastForward => "push" \in faults')
  <2>1. /\ run'.entry = run.entry /\ run'.delivery.commit = commits + 1
        /\ run'.verdict = run.verdict /\ run'.tree = run.tree
        /\ run'.delivery.pr = PrUrl(pushed)
    BY <1>2, <1>4 DEF Runs
  <2>2. Entry.unit.delivery.mode = "repository" /\ BranchOf(Entry.unit) \in Branches
    BY <1>2, <1>4, UnitNames DEF Lands, Inline, Entry
  <2>3. CASE pushed
    BY <1>4, <2>1, <2>2, <2>3 DEF Typed
  <2>4. CASE ~ pushed
    BY <1>4, <2>1, <2>2, <2>4 DEF PrUrl, Fault
  <2>. QED BY <2>1, <2>3, <2>4
<1>5. CASE Lands
  <2>1. PICK pushed \in BOOLEAN :
          /\ IF pushed
             THEN /\ FastForward
                  /\ branches' = [branches EXCEPT ![BranchOf(Entry.unit)] = BaseCommits \cup {commits + 1}]
                  /\ UNCHANGED faults
             ELSE /\ UNCHANGED branches
                  /\ IF FastForward THEN Fault("push") ELSE UNCHANGED faults
          /\ run' = [run EXCEPT !.delivery = [commit |-> commits + 1, pr |-> PrUrl(pushed)]]
    BY <1>5 DEF Deliver
  <2>. QED BY <1>1, <1>4, <1>5, <2>1 DEF Entry
<1>. QED BY <1>3, <1>5

\* The delivery of any other step's locals is that of before, or none.
LEMMA DeliveryKept ==
  ASSUME Typed, Next, ~ Deliver, InDrain'
  PROVE  /\ branches' = branches
         /\ \/ Take /\ run'.delivery = NoDelivery /\ pc' = "taken"
            \/ /\ InDrain /\ run'.entry = run.entry /\ run'.delivery = run.delivery
               /\ pc' \in Before \cup {"judged"} => pc \in Before \cup {"judged"}
               /\ pc' = "delivered" => pc = "delivered"
               /\ pc = "delivered" => pc' = "delivered" \/ Emit
<1> USE DEF InDrain, Before, After
<1>1. branches' = branches
  BY DEF Next, ServeStep, ModeSet, Admit, Start, TakeNotAdmitted, Take, Provision, Fetch,
     Exchange, Judge, Emit, Patch, Revoke, Teardown, SaveTruncate, SaveWrite, Crash
<1>2. CASE Take
  BY <1>1, <1>2 DEF Take, NoRun
<1>3. CASE Judge
  <2>1. PICK answered \in SUBSET DOMAIN Entry.unit.cells, oracle \in BOOLEAN, tree \in SUBSET Hashes :
               JudgedAs(answered, oracle, tree)
    BY <1>3, JudgeTells
  <2>2. run \in Runs
    BY <1>3, JudgeTells, InHand
  <2>3. run'.entry = run.entry /\ run'.delivery = run.delivery
    BY <2>1, <2>2 DEF JudgedAs, Runs
  <2>. QED BY <1>1, <1>3, <2>3, JudgeTells
<1>4. CASE ~ Take /\ ~ Judge
  <2>1. run' = run /\ InDrain
        /\ (pc' \in Before \cup {"judged"} => pc \in Before \cup {"judged"})
        /\ (pc' = "delivered" => pc = "delivered")
        /\ (pc = "delivered" => pc' = "delivered" \/ Emit)
    BY <1>4 DEF Next, ServeStep, ModeSet, Admit, Command, Start, TakeNotAdmitted, Provision, Fetch,
       Exchange, Emit, Patch, Revoke, Teardown, SaveTruncate, SaveWrite, Crash, IoError
  <2>. QED BY <1>1, <2>1
<1>. QED BY <1>2, <1>3, <1>4

\* A reference in hand or logged is on its branch, at every step.
LEMMA UrlsKept ==
  ASSUME HashIsIdentity, Typed, UrlsResolve, Next PROVE UrlsResolve'
<1>1. ASSUME pc' \in Before \cup {"judged"} PROVE run'.delivery = NoDelivery
  <2>1. ~ Deliver /\ InDrain'
    BY <1>1 DEF Deliver, Before, InDrain, After
  <2>. QED BY <1>1, <2>1, DeliveryKept DEF UrlsResolve
<1>2. ASSUME InDrain', run'.delivery.pr
      PROVE  ~ Inline' /\ run'.delivery.commit \in branches'[BranchOf(Entry'.unit)]
  <2>1. CASE Deliver
    <3>1. UrlsResolve /\ pc = "judged" => ~ run.delivery.pr
      BY DEF UrlsResolve, NoDelivery
    <3>. QED BY <1>2, <2>1, <3>1, DeliverTells DEF Inline, Entry
  <2>2. CASE ~ Deliver
    <3>1. InDrain /\ run'.entry = run.entry /\ run'.delivery = run.delivery /\ branches' = branches
      BY <1>2, <2>2, DeliveryKept DEF NoDelivery
    <3>. QED BY <1>2, <3>1 DEF UrlsResolve, Inline, Entry
  <2>. QED BY <2>1, <2>2
<1>3. ASSUME NEW l \in log', NEW u \in Units, l.hash = u.hash, l.delivery.pr
      PROVE  u.delivery.mode = "repository" /\ l.delivery.commit \in branches'[BranchOf(u)]
  <2>1. CASE l \in log
    <3>1. u.delivery.mode = "repository" /\ l.delivery.commit \in branches[BranchOf(u)]
      BY <1>3, <2>1 DEF UrlsResolve
    <3>. QED BY <3>1, BranchesGrow, UnitNames
  <2>2. CASE l \notin log
    <3>1. pc = "delivered" /\ Emit /\ l.hash = Entry.unit.hash /\ l.delivery = run.delivery
      BY <1>3, <2>2, LogGrows DEF NoDelivery
    <3>2. Entry.unit \in Units /\ InDrain
      BY <3>1, InHand DEF InDrain, After
    <3>3. u = Entry.unit
      BY <1>3, <3>1, <3>2 DEF HashIsIdentity
    <3>4. ~ Inline /\ l.delivery.commit \in branches[BranchOf(u)]
      BY <1>3, <3>1, <3>2, <3>3 DEF UrlsResolve
    <3>5. u.delivery.mode = "repository"
      BY <3>3, <3>4, UnitNames DEF Inline, Entry
    <3>. QED BY <3>4, <3>5, BranchesGrow, UnitNames
  <2>. QED BY <2>1, <2>2
<1>. QED BY <1>1, <1>2, <1>3 DEF UrlsResolve

\* What is told of a commit stays true: no commit ever leaves a branch.
LEMMA LandedStays ==
  ASSUME Typed, Next, NEW u \in Units, Owner(u), NEW verdict, NEW tree, NEW commit,
         Landed(u, verdict, tree, commit)
  PROVE  Landed(u, verdict, tree, commit)'
BY BranchesGrow, UnitNames DEF Landed, Owner

\* An owner's delivery tells the truth, unless the log has its verdict or the push is refused.
LEMMA DeliveredLanded ==
  ASSUME Typed, UrlsResolve, Pushed, Deliver, Untouched, "push" \notin faults', Owner(Entry.unit)
  PROVE  \/ Landed(Entry.unit, run.verdict, run.tree, run.delivery.commit)'
         \/ InLog(Entry.unit.hash)
<1>1. /\ Entry.unit \in Units /\ BranchOf(Entry.unit) \in Branches /\ pc = "judged"
      /\ Entry'.unit = Entry.unit
  BY DeliverTells, InHand, UnitNames DEF Owner, Entry
<1>2. CASE ~ Lands
  <2>1. run' = run /\ run.delivery = NoDelivery
    BY <1>1, <1>2, DeliverTells DEF UrlsResolve
  <2>2. run.verdict # "accepted" \/ run.tree = {}
    BY <1>1, <1>2, UnitNames DEF Lands, Inline, Entry, Owner
  <2>. QED BY <2>1, <2>2 DEF Landed, NoDelivery
<1>3. CASE Lands /\ FastForward
  <2>1. run'.delivery.commit \in branches'[BranchOf(Entry.unit)]
    BY <1>3, DeliverTells
  <2>2. run'.verdict = "accepted" /\ run'.tree # {}
    BY <1>3, DeliverTells DEF Lands
  <2>. QED BY <1>1, <2>1, <2>2 DEF Landed
<1>4. CASE ~ FastForward
  <2>1. Entry.unit.delivery.base # BranchOf(Entry.unit)
    BY <1>1, <1>4 DEF FastForward, BaseCommits
  <2>2. branches[BranchOf(Entry.unit)] # {}
    BY <1>4 DEF FastForward
  <2>. QED BY <1>1, <2>1, <2>2 DEF Pushed
<1>. QED BY <1>2, <1>3, <1>4

\* What the log and the drain in hand tell of an owner's commit is true, at every step.
LEMMA PushedKept ==
  ASSUME HashIsIdentity, Typed, UrlsResolve, Pushed, Next PROVE Pushed'
<1>. SUFFICES ASSUME Untouched' PROVE Pushed'
  BY DEF Pushed
<1>1. /\ Untouched /\ ~ IoError /\ (Crash => pc = "saving") /\ pc' # "failed" /\ "push" \notin faults'
      /\ pc # "failed"
  BY FaultsGrow DEF Untouched, Pushed
<1>2. /\ \A l \in log : \A u \in Units :
           l.hash = u.hash /\ Owner(u) => Landed(u, l.verdict, l.tree, l.delivery.commit)
      /\ pc = "delivered" /\ Owner(Entry.unit) =>
           \/ Landed(Entry.unit, run.verdict, run.tree, run.delivery.commit)
           \/ InLog(Entry.unit.hash)
  BY <1>1 DEF Pushed
<1>3. ASSUME NEW l \in log', NEW u \in Units, l.hash = u.hash, Owner(u)
      PROVE  Landed(u, l.verdict, l.tree, l.delivery.commit)'
  <2>1. CASE l \in log
    BY <1>2, <1>3, <2>1, LandedStays
  <2>2. CASE l \notin log
    <3>1. /\ ~ InLog(l.hash)
          /\ \/ l.verdict = "not-admitted" /\ l.delivery = NoDelivery
             \/ /\ pc = "delivered" /\ l.hash = Entry.unit.hash
                /\ l.verdict = run.verdict /\ l.tree = run.tree /\ l.delivery = run.delivery
      BY <2>2, LogGrows
    <3>2. CASE l.verdict = "not-admitted" /\ l.delivery = NoDelivery
      BY <3>2 DEF Landed, NoDelivery
    <3>3. CASE /\ pc = "delivered" /\ l.hash = Entry.unit.hash
               /\ l.verdict = run.verdict /\ l.tree = run.tree /\ l.delivery = run.delivery
      <4>1. Entry.unit \in Units
        BY <3>3, InHand DEF InDrain, After
      <4>2. u = Entry.unit
        BY <1>3, <3>3, <4>1 DEF HashIsIdentity
      <4>3. Landed(u, l.verdict, l.tree, l.delivery.commit)
        BY <1>2, <1>3, <3>1, <3>3, <4>2
      <4>. QED BY <1>3, <4>3, LandedStays
    <3>. QED BY <3>1, <3>2, <3>3
  <2>. QED BY <2>1, <2>2
<1>4. ASSUME pc' = "delivered", Owner(Entry'.unit)
      PROVE  \/ Landed(Entry.unit, run.verdict, run.tree, run.delivery.commit)'
             \/ InLog(Entry.unit.hash)'
  <2>1. CASE Deliver
    <3>1. Entry'.unit = Entry.unit
      BY <2>1, DeliverTells DEF Entry
    <3>. QED BY <1>1, <1>4, <2>1, <3>1, DeliveredLanded, BranchesGrow
  <2>2. CASE ~ Deliver
    <3>1. pc = "delivered" /\ run' = run
      BY <1>1, <1>4, <2>2 DEF Next, ServeStep, ModeSet, Admit, Start, TakeNotAdmitted, Take, Provision,
         Fetch, Exchange, Judge, Emit, Patch, Revoke, Teardown, SaveTruncate, SaveWrite, Crash
    <3>2. Entry' = Entry /\ Entry.unit \in Units
      BY <3>1, InHand DEF Entry, InDrain, After
    <3>3. CASE InLog(Entry.unit.hash)
      BY <3>2, <3>3, BranchesGrow
    <3>4. CASE Landed(Entry.unit, run.verdict, run.tree, run.delivery.commit)
      <4> DEFINE u == Entry.unit
      <4>1. Landed(u, run.verdict, run.tree, run.delivery.commit)'
        BY <1>4, <3>1, <3>2, <3>4, BranchesGrow, UnitNames DEF Landed, Owner
      <4>. QED BY <4>1
    <3>. QED BY <1>2, <1>4, <3>1, <3>2, <3>3, <3>4
  <2>. QED BY <2>1, <2>2
<1>5. ASSUME NEW u \in Units, Owner(u), u.delivery.base # BranchOf(u)
      PROVE  \/ branches'[BranchOf(u)] = {} \/ InLog(u.hash)'
             \/ pc' = "delivered" /\ Entry'.unit = u
  <2>1. BranchOf(u) \in Branches
    BY <1>5, UnitNames DEF Owner
  <2>2. CASE InLog(u.hash)
    BY <2>2, BranchesGrow
  <2>3. CASE pc = "delivered" /\ Entry.unit = u
    <3>1. CASE Emit
      <4>1. log' = Logged(Event(run.verdict, TierRan(Entry)))
        BY <1>1, <3>1 DEF Emit
      <4>2. Event(run.verdict, TierRan(Entry)) \in Events
        BY <2>3, EventTyped, InHand DEF Typed, Runs, TierRan, After, InDrain
      <4>3. Event(run.verdict, TierRan(Entry)).hash = u.hash
        BY <2>3 DEF Event
      <4>. QED BY <4>1, <4>2, <4>3, LoggedTyped DEF InLog
    <3>2. CASE ~ Emit
      <4>1. pc' = "delivered" /\ run' = run
        BY <1>1, <2>3, <3>2 DEF Next, ServeStep, ModeSet, Admit, Start, TakeNotAdmitted, Take, Provision,
           Fetch, Exchange, Judge, Deliver, Patch, Revoke, Teardown, SaveTruncate, SaveWrite, Crash
      <4>. QED BY <2>3, <4>1 DEF Entry
    <3>. QED BY <3>1, <3>2
  <2>4. CASE branches[BranchOf(u)] = {} /\ branches'[BranchOf(u)] # {}
    <3>1. Deliver
      BY <2>4 DEF Next, ServeStep, ModeSet, Admit, Start, TakeNotAdmitted, Take, Provision, Fetch,
         Exchange, Judge, Emit, Patch, Revoke, Teardown, SaveTruncate, SaveWrite, Crash
    <3>2. /\ pc' = "delivered" /\ run'.entry = run.entry
          /\ Entry.unit.delivery.mode = "repository" /\ BranchOf(u) = BranchOf(Entry.unit)
          /\ Entry.unit \in Units
      BY <2>1, <2>4, <3>1, DeliverTells, InHand
    <3>3. u = Entry.unit
      BY <1>5, <3>2 DEF Owner, OwnBranch
    <3>. QED BY <3>2, <3>3 DEF Entry
  <2>5. branches[BranchOf(u)] = {} \/ InLog(u.hash) \/ (pc = "delivered" /\ Entry.unit = u)
    BY <1>1, <1>5 DEF Pushed
  <2>. QED BY <2>2, <2>3, <2>4, <2>5
<1>. QED BY <1>1, <1>3, <1>4, <1>5 DEF Pushed

\* The commit is the anchor a producer reconciles against.  A commit with a URL
\* is on its unit's branch ever after, whatever failed.  Unless a push was refused
\* by the forge or a drain cut short, the log names for a repository unit a commit
\* on the unit's branch if it accepts changes of the unit, and none otherwise;
\* this of the units that start from the branch they land on, or land there alone.
THEOREM RefsResolveProved == ASSUME HashIsIdentity PROVE Spec => []RefsResolve
<1>1. Init => UrlsResolve /\ Pushed
  <2>. SUFFICES ASSUME Init PROVE UrlsResolve /\ Pushed
    OBVIOUS
  <2>1. \A u \in Units : u.delivery.mode = "repository" => branches[BranchOf(u)] = {}
    BY UnitNames DEF Init
  <2>. QED BY <2>1 DEF Init, UrlsResolve, Pushed, Owner, InDrain, Before, After
<1>2. (UrlsResolve /\ UNCHANGED vars => UrlsResolve') /\ (Pushed /\ UNCHANGED vars => Pushed')
  <2>1. UrlsResolve /\ UNCHANGED vars => UrlsResolve'
    BY DEF UrlsResolve, vars, InDrain, Entry, Inline
  <2>2. Pushed /\ UNCHANGED vars => Pushed'
    BY DEF Pushed, vars, Untouched, Landed, InLog, Entry
  <2>. QED BY <2>1, <2>2
<1>3. UrlsResolve /\ Pushed /\ Typed /\ [Next]_vars => UrlsResolve' /\ Pushed'
  BY <1>2, UrlsKept, PushedKept
<1>4. UrlsResolve /\ Pushed => RefsResolve
  BY DEF UrlsResolve, Pushed, RefsResolve, Owner, Landed, Untouched
<1>. QED BY <1>1, <1>3, <1>4, TypedAlways, PTL DEF Spec
=============================================================================
