-------------------------------- MODULE Serve --------------------------------
(***************************************************************************)
(* kiln serve: a process that loads the engine from .kiln/state.json,      *)
(* drains one unit after the other in a sandbox of its own, and saves the  *)
(* engine when it ends.  drain_one_isolated is split at every effect that  *)
(* outlives the process (workspace, lease, branch, verdict log, patch,     *)
(* state file), because that is where a crash or an io error leaves half   *)
(* of it done.  The verdict log is VerdictLog's: no write is cut here.     *)
(***************************************************************************)
EXTENDS FiniteSets, WorkUnit, Production, Ladder

CONSTANTS
  Units,          \* the frozen units, valid at admission
  Manifest,       \* the capabilities this box publishes
  SafeName,       \* per unit ref: the ref with all but letters, digits and - replaced by _
  SafeBranch,     \* per unit ref: kiln/ and the ref with all but letters, digits, - and / replaced
  MaxAdmissions,  \* bound: units enqueued
  MaxFaults,      \* bound: faults in one behaviour
  Faults          \* the faults that may happen, each at most once

(***************************************************************************)
(* crash: the process is killed.  torn: it is killed inside save, between  *)
(* the truncation and the write.  io: a call whose error drain propagates  *)
(* fails.  push: the forge refuses a push.  overlap: a kiln command runs   *)
(* while kiln serve is running.                                            *)
(***************************************************************************)
FaultKinds == {"crash", "torn", "io", "push", "overlap"}

ASSUME ServeAssumption ==
  /\ Faults \subseteq FaultKinds
  /\ MaxAdmissions \in Nat /\ MaxFaults \in Nat
  /\ DOMAIN SafeName = {u.ref : u \in Units} /\ DOMAIN SafeBranch = DOMAIN SafeName
  /\ \A u \in Units :
        /\ Validate(u) = "ok" /\ u.ladder \in Nat /\ u.tier \in Tiers
        /\ u.delivery.mode \in {"inline", "repository"}
        /\ u.cells \in Seq({u.cells[i] : i \in DOMAIN u.cells})

VARIABLES
  file,        \* .kiln/state.json: a saved engine, or torn (empty, or bytes that do not parse)
  engine,      \* the serve process's Engine
  pc,          \* where the process is: down, top, or in a drain
  run,         \* the locals of drain_one_isolated
  log,         \* the durable log: the first verdict of each hash
  workspaces,  \* per safe name: whether the directory is there, and whose artifacts it holds
  leases,      \* the unit refs with a lease that was not revoked
  branches,    \* per branch of the declared repository: the commits it holds
  patches,     \* per safe name: whose artifacts the patch under .kiln/deliveries changes
  commits,     \* commits made so far
  admitted,    \* admissions acknowledged by kiln admit (history)
  faults       \* the faults that happened (history)

vars == <<file, engine, pc, run, log, workspaces, leases, branches, patches, commits, admitted, faults>>

Refs == {u.ref : u \in Units}
Hashes == {u.hash : u \in Units}
Dirs == {SafeName[r] : r \in Refs}

\* deliver_to_repository's branch: the one the unit names, otherwise one made of
\* its ref, which two refs may share.
BranchOf(u) == IF u.delivery.branch = "" THEN SafeBranch[u.ref] ELSE u.delivery.branch

Branches == {BranchOf(u) : u \in {v \in Units : v.delivery.mode = "repository"}}

NoDirectory == [exists |-> FALSE, holds |-> {}]

Torn == [torn |-> TRUE]

\* Engine::default, which load falls back on: a box that is off, nothing queued.
FreshEngine == [torn |-> FALSE, mode |-> "off", queue |-> <<>>, stream |-> <<>>, inFlight |-> 0]

NoDelivery == [commit |-> 0, pr |-> FALSE]

NoRun ==
  [entry |-> [ticket |-> 0], verdict |-> "none", verified |-> FALSE, tree |-> {}, delivery |-> NoDelivery]

Load == IF file.torn THEN FreshEngine ELSE file

Init ==
  /\ file = FreshEngine /\ engine = FreshEngine
  /\ pc = "down" /\ run = NoRun
  /\ log = {} /\ workspaces = [d \in Dirs |-> NoDirectory] /\ leases = {}
  /\ branches = [b \in Branches |-> {}] /\ patches = [d \in Dirs |-> {}] /\ commits = 0
  /\ admitted = 0 /\ faults = {}

Fault(kind) ==
  /\ Cardinality(faults) < MaxFaults
  /\ kind \in Faults \ faults
  /\ faults' = faults \cup {kind}

-----------------------------------------------------------------------------
\* The other kiln commands load the file, change it and save it.  While kiln
\* serve is down nothing interferes; otherwise they overlap with it.
Command ==
  \/ pc = "down" /\ UNCHANGED faults
  \/ pc # "down" /\ Fault("overlap")

\* cmd_mode_set, without a box configured.
ModeSet(m) ==
  /\ Command
  /\ Load.mode # m
  /\ file' = [Load EXCEPT !.mode = m]
  /\ UNCHANGED <<engine, pc, run, log, workspaces, leases, branches, patches, commits, admitted>>

\* cmd_admit, of a unit that validates.
Admit(u) ==
  /\ Command
  /\ admitted < MaxAdmissions
  /\ admitted' = admitted + 1
  /\ file' = [Load EXCEPT !.queue = Append(@,
                [unit |-> u, ladder |-> u.ladder, tier |-> u.tier, ticket |-> admitted + 1])]
  /\ UNCHANGED <<engine, pc, run, log, workspaces, leases, branches, patches, commits>>

\* cmd_serve up to its loop: refused unless the box is in QUEUE.
Start ==
  /\ pc = "down"
  /\ Load.mode = "queue"
  /\ engine' = Load
  /\ pc' = "top"
  /\ UNCHANGED <<file, run, log, workspaces, leases, branches, patches, commits, admitted, faults>>

-----------------------------------------------------------------------------
Entry == run.entry
Ref == run.entry.unit.ref
Dir == SafeName[Ref]
Inline == run.entry.unit.delivery.mode = "inline"

\* The verdict event of this drain.
Event(verdict, tierRan) ==
  [hash |-> Entry.unit.hash, ticket |-> Entry.ticket, verdict |-> verdict, tierRan |-> tierRan,
   verified |-> run.verified, tree |-> run.tree, delivery |-> run.delivery]

Recorded(event) ==
  [hash |-> event.hash, verdict |-> event.verdict, verified |-> event.verified, tree |-> event.tree,
   delivery |-> event.delivery]

\* Seeded bug: only verdicts that advance the producer are recorded.
LoggedAccepted(event) ==
  IF event.verdict # "accepted" \/ \E l \in log : l.hash = event.hash THEN log
  ELSE log \cup {Recorded(event)}

\* DurableLog::append: the first verdict of a hash is recorded, later ones not.
Logged(event) ==
  IF \E l \in log : l.hash = event.hash THEN log
  ELSE log \cup {Recorded(event)}

\* The front unit leaves the set; a unit the box cannot cover is answered.
TakeNotAdmitted ==
  LET e  == Head(engine.queue)
      ev == [hash |-> e.unit.hash, ticket |-> e.ticket, verdict |-> "not-admitted",
             tierRan |-> "none", verified |-> FALSE, tree |-> {}, delivery |-> NoDelivery]
  IN /\ pc = "top" /\ engine.mode = "queue" /\ engine.queue # <<>>
     /\ MissingFor(Manifest, e.unit) # {}
     /\ engine' = [engine EXCEPT !.queue = Tail(@), !.stream = Append(@, ev)]
     /\ \/ log' = Logged(ev) /\ UNCHANGED <<pc, faults>>
        \/ pc' = "failed" /\ Fault("io") /\ UNCHANGED log
     /\ UNCHANGED <<file, run, workspaces, leases, branches, patches, commits, admitted>>

\* Seeded bug: in_flight is not raised.
TakeUncounted ==
  /\ pc = "top" /\ engine.mode = "queue" /\ engine.queue # <<>>
  /\ MissingFor(Manifest, Head(engine.queue).unit) = {}
  /\ engine' = [engine EXCEPT !.queue = Tail(@)]
  /\ run' = [NoRun EXCEPT !.entry = Head(engine.queue)]
  /\ pc' = "taken"
  /\ UNCHANGED <<file, log, workspaces, leases, branches, patches, commits, admitted, faults>>

Take ==
  /\ pc = "top" /\ engine.mode = "queue" /\ engine.queue # <<>>
  /\ MissingFor(Manifest, Head(engine.queue).unit) = {}
  /\ engine' = [engine EXCEPT !.queue = Tail(@), !.inFlight = @ + 1]
  /\ run' = [NoRun EXCEPT !.entry = Head(engine.queue)]
  /\ pc' = "taken"
  /\ UNCHANGED <<file, log, workspaces, leases, branches, patches, commits, admitted, faults>>

\* An io error at the present step: drain_one_isolated returns it, with
\* nothing undone, and cmd_serve goes to save.
IoError ==
  /\ Fault("io")
  /\ pc' = "failed"

\* 1. Environment: the directory is created unless it is there already.
Provision ==
  /\ pc = "taken"
  /\ \/ /\ workspaces' = [workspaces EXCEPT ![Dir].exists = TRUE]
        /\ pc' = "provisioned"
        /\ UNCHANGED faults
     \/ IoError /\ UNCHANGED workspaces
  /\ UNCHANGED <<file, engine, run, log, leases, branches, patches, commits, admitted>>

\* Seeded bug: the workspace is not cleared before the clone.
FetchOver ==
  /\ pc = "provisioned"
  /\ pc' = "fetched"
  /\ UNCHANGED <<file, engine, run, log, workspaces, leases, branches, patches, commits, admitted, faults>>

\* The clone replaces what is there; a seed and a baseline are laid over it.
\* A clone that fails leaves nothing or a part.
Fetch ==
  /\ pc = "provisioned"
  /\ \/ /\ workspaces' = [workspaces EXCEPT ![Dir].holds = IF Inline THEN @ ELSE {}]
        /\ pc' = "fetched"
        /\ UNCHANGED faults
     \/ /\ IoError
        /\ \/ Inline /\ UNCHANGED workspaces
           \/ /\ ~ Inline
              /\ \E there \in BOOLEAN :
                   workspaces' = [workspaces EXCEPT ![Dir] = [exists |-> there, holds |-> {}]]
  /\ UNCHANGED <<file, engine, run, log, leases, branches, patches, commits, admitted>>

\* 2. Credentials: the lease is exchanged if the unit names a grant.
Exchange ==
  /\ pc = "fetched"
  /\ leases' = IF Entry.unit.grant THEN leases \cup {Ref} ELSE leases
  /\ pc' = "leased"
  /\ UNCHANGED <<file, engine, run, log, workspaces, branches, patches, commits, admitted, faults>>

\* 3 and 4. Serving and verification: the worker answers some of the cells,
\* what it answers changes the tree or not, and the oracle's command, run on
\* the tree, passes or not.
Judge ==
  /\ pc = "leased"
  /\ LET cells == Entry.unit.cells
     IN \E answered \in SUBSET DOMAIN cells, changes, oracle \in BOOLEAN :
          LET produced == {cells[i].id : i \in answered}
              tree     == workspaces[Dir].holds
                            \cup (IF changes /\ answered # {} THEN {Entry.unit.hash} ELSE {})
          IN /\ workspaces' = [workspaces EXCEPT ![Dir].holds = tree]
             /\ run' = [run EXCEPT !.verdict = ReduceVerdict(Results(cells, produced, oracle)),
                                   !.verified = oracle /\ answered = DOMAIN cells,
                                   !.tree = tree]
  /\ pc' = "judged"
  /\ UNCHANGED <<file, engine, log, leases, branches, patches, commits, admitted, faults>>

Lands == run.verdict = "accepted" /\ ~ Inline /\ run.tree # {}

\* What the branch a unit starts from holds, if the box ever pushed to it.
BaseCommits ==
  IF Entry.unit.delivery.base \in Branches THEN branches[Entry.unit.delivery.base] ELSE {}

\* The push is a fast-forward: what the branch holds, the run started from.
FastForward == branches[BranchOf(Entry.unit)] \subseteq BaseCommits

\* A compare URL is derived for a pull request that was pushed to GitHub.
PrUrl(pushed) ==
  /\ pushed
  /\ Entry.unit.delivery.method = "pull-request"
  /\ Entry.unit.delivery.scheme = "https" /\ Entry.unit.delivery.host = "github.com"

\* Seeded bug: the commit is reported from the workspace and never pushed.
DeliverUnpushed ==
  /\ pc = "judged"
  /\ pc' = "delivered"
  /\ IF Lands THEN commits' = commits + 1 /\ run' = [run EXCEPT !.delivery.commit = commits + 1]
     ELSE UNCHANGED <<run, commits>>
  /\ UNCHANGED <<file, engine, log, workspaces, leases, branches, patches, admitted, faults>>

\* 4b. Delivery of an accepted repository unit: commit, then push.  A tree that
\* did not change has nothing to commit, and no ref is reported.  A push that
\* fails, or is not a fast-forward, is not noticed.
Deliver ==
  /\ pc = "judged"
  /\ pc' = "delivered"
  /\ \/ ~ Lands /\ UNCHANGED <<run, branches, commits, faults>>
     \/ /\ Lands
        /\ commits' = commits + 1
        /\ \E pushed \in BOOLEAN :
             /\ IF pushed
                THEN /\ FastForward
                     /\ branches' = [branches EXCEPT ![BranchOf(Entry.unit)] = BaseCommits \cup {commits + 1}]
                     /\ UNCHANGED faults
                ELSE /\ UNCHANGED branches
                     /\ IF FastForward THEN Fault("push") ELSE UNCHANGED faults
             /\ run' = [run EXCEPT !.delivery = [commit |-> commits + 1, pr |-> PrUrl(pushed)]]
  /\ UNCHANGED <<file, engine, log, workspaces, leases, patches, admitted>>

\* 5. Output contract: the event goes to the log, then on the stream.
Emit ==
  /\ pc = "delivered"
  /\ LET ev == Event(run.verdict, TierRan(Entry))
     IN \/ /\ log' = Logged(ev)
           /\ engine' = [engine EXCEPT !.stream = Append(@, ev)]
           /\ pc' = "emitted"
           /\ UNCHANGED faults
        \/ IoError /\ UNCHANGED <<log, engine>>
  /\ UNCHANGED <<file, run, workspaces, leases, branches, patches, commits, admitted>>

\* Seeded bug: the workspace is torn down before the diff is taken.
PatchAfterTeardown ==
  /\ pc = "emitted"
  /\ workspaces' = [workspaces EXCEPT ![Dir] = NoDirectory]
  /\ pc' = "patched"
  /\ UNCHANGED <<file, engine, run, log, leases, branches, patches, commits, admitted, faults>>

\* 5b. Delivery of an accepted inline unit: the patch, unless there is no diff.
\* It replaces a patch of that name; that it cannot be written is not noticed.
Patch ==
  /\ pc = "emitted"
  /\ \/ /\ patches' = IF run.verdict = "accepted" /\ Inline /\ run.tree # {}
                      THEN [patches EXCEPT ![Dir] = run.tree] ELSE patches
        /\ UNCHANGED faults
     \/ Fault("io") /\ UNCHANGED patches
  /\ pc' = "patched"
  /\ UNCHANGED <<file, engine, run, log, workspaces, leases, branches, commits, admitted>>

\* 6. Teardown: the lease, then the workspace.
Revoke ==
  /\ pc = "patched"
  /\ leases' = IF Entry.unit.grant THEN leases \ {Ref} ELSE leases
  /\ pc' = "revoked"
  /\ UNCHANGED <<file, engine, run, log, workspaces, branches, patches, commits, admitted, faults>>

\* Seeded bug: the workspace of a unit that failed is kept for inspection.
TeardownKeepsFailed ==
  /\ pc = "revoked"
  /\ workspaces' = [workspaces EXCEPT ![Dir] = IF run.verdict = "accepted" THEN NoDirectory ELSE @]
  /\ engine' = [engine EXCEPT !.inFlight = @ - 1,
       !.queue = IF run.verdict # "accepted" /\ HasHeadroom(Entry)
                 THEN Append(@, OneBindingUp(Entry)) ELSE @]
  /\ pc' = "top"
  /\ run' = NoRun
  /\ UNCHANGED <<file, log, leases, branches, patches, commits, admitted, faults>>

\* Seeded bug: a unit that failed is not queued again.
TeardownDropsFailed ==
  /\ pc = "revoked"
  /\ workspaces' = [workspaces EXCEPT ![Dir] = NoDirectory]
  /\ engine' = [engine EXCEPT !.inFlight = @ - 1]
  /\ pc' = "top"
  /\ run' = NoRun
  /\ UNCHANGED <<file, log, leases, branches, patches, commits, admitted, faults>>

\* The rest of the drain touches only the engine: in_flight goes down and a
\* failed unit is queued one binding up, if the ladder goes on.
Teardown ==
  /\ pc = "revoked"
  /\ \/ /\ workspaces' = [workspaces EXCEPT ![Dir] = NoDirectory]
        /\ engine' = [engine EXCEPT !.inFlight = @ - 1,
             !.queue = IF run.verdict # "accepted" /\ HasHeadroom(Entry)
                       THEN Append(@, OneBindingUp(Entry)) ELSE @]
        /\ pc' = "top"
        /\ UNCHANGED faults
     \/ IoError /\ UNCHANGED <<workspaces, engine>>
  /\ run' = NoRun
  /\ UNCHANGED <<file, log, leases, branches, patches, commits, admitted>>

-----------------------------------------------------------------------------
\* The loop ends when the set is empty, or with an io error; then save
\* truncates the file and writes it.
SaveTruncate ==
  /\ \/ pc = "failed"
     \/ pc = "top" /\ (engine.mode # "queue" \/ engine.queue = <<>>)
  /\ file' = Torn
  /\ pc' = "saving"
  /\ UNCHANGED <<engine, run, log, workspaces, leases, branches, patches, commits, admitted, faults>>

\* The write starts at the file's start.  A longer file that a command saved in
\* between keeps its end, and does not parse; lengths are abstracted.
SaveWrite ==
  /\ pc = "saving"
  /\ file' \in (IF file.torn THEN {engine} ELSE {engine, Torn})
  /\ engine' = FreshEngine /\ run' = NoRun
  /\ pc' = "down"
  /\ UNCHANGED <<log, workspaces, leases, branches, patches, commits, admitted, faults>>

\* The process is killed: its memory is gone, everything else stays.
Crash ==
  /\ \/ pc \notin {"down", "saving"} /\ Fault("crash")
     \/ pc = "saving" /\ Fault("torn")
  /\ engine' = FreshEngine /\ run' = NoRun
  /\ pc' = "down"
  /\ UNCHANGED <<file, log, workspaces, leases, branches, patches, commits, admitted>>

ServeStep ==
  \/ TakeNotAdmitted \/ Take \/ Provision \/ Fetch \/ Exchange \/ Judge \/ Deliver
  \/ Emit \/ Patch \/ Revoke \/ Teardown \/ SaveTruncate \/ SaveWrite

Next ==
  \/ \E m \in {"queue", "explorer"} : ModeSet(m)
  \/ \E u \in Units : Admit(u)
  \/ Start \/ ServeStep \/ Crash

Spec == Init /\ [][Next]_vars

\* A process that is scheduled takes its steps, and somebody keeps starting
\* kiln serve while the box is in QUEUE.
FairSpec == Spec /\ WF_vars(ServeStep) /\ WF_vars(Start)

-----------------------------------------------------------------------------
\* What a kiln command started now, or the next kiln serve, has to go on.
Recoverable == IF pc = "saving" THEN engine ELSE Load

TicketsIn(queue) == {queue[i].ticket : i \in DOMAIN queue}

Between == pc \in {"down", "top"}

\* The type invariant.
TypeOK ==
  /\ \A e \in {engine} \cup ({file} \ {Torn}) :
        /\ e.mode \in {"off", "queue", "explorer"} /\ e.inFlight \in Nat
        /\ \A i \in DOMAIN e.queue : e.queue[i].unit \in Units /\ e.queue[i].ladder \in Nat
        /\ \A i \in DOMAIN e.stream : e.stream[i].verdict \in {"accepted", "escalate", "not-admitted"}
  /\ \A l \in log : l.verdict \in {"accepted", "escalate", "not-admitted"} /\ l.delivery.commit \in Nat
  /\ workspaces \in [Dirs -> [exists : BOOLEAN, holds : SUBSET Hashes]]
  /\ branches \in [Branches -> SUBSET (1 .. commits)]
  /\ leases \subseteq Refs /\ patches \in [Dirs -> SUBSET Hashes]
  /\ commits \in Nat /\ admitted \in 0 .. MaxAdmissions /\ faults \subseteq Faults

\* how-contract.yaml: verdicts are in the log before the executor is done with
\* a unit.  Each admission is queued in the state file, or has its final event
\* on the saved stream and a verdict of its hash in the log.
NothingLost ==
  \A t \in 1 .. admitted :
    \/ t \in TicketsIn(Recoverable.queue)
    \/ \E i \in DOMAIN Recoverable.stream :
          LET ev == Recoverable.stream[i]
          IN  ev.ticket = t /\ Final(ev) /\ \E l \in log : l.hash = ev.hash

\* A crash alone loses no admission: the state file is written once, at the
\* end, so a unit that was in hand is queued again and drained again.
CrashLosesNothing == faults \subseteq {"crash", "push"} => NothingLost

\* executor/src/lib.rs, the unit's last step: nothing standing survives.  Between
\* two drains nothing stands and nothing is in flight, whatever the verdicts
\* were, as long as no fault cut a drain short.  A workspace a crash left behind
\* belongs to a unit that is still queued, so draining it again tears it down.
NothingLeftBehind ==
  /\ pc = "top" /\ faults \subseteq {"push", "overlap"} =>
       leases = {} /\ (\A d \in Dirs : ~ workspaces[d].exists) /\ engine.inFlight = 0
  /\ Between /\ faults \subseteq {"crash", "push"} =>
       \A d \in Dirs : workspaces[d].exists =>
         LET q == IF pc = "top" THEN engine.queue ELSE Recoverable.queue
         IN  \E i \in DOMAIN q : SafeName[q[i].unit.ref] = d

\* executor/src/lib.rs, step 4: a unit is accepted only if every cell produced
\* content and the oracle's command passes.  A unit with no cells is accepted
\* whatever the oracle says: reduce_verdict accepts an empty list of results.
AcceptedIsVerified ==
  \A l \in log : \A u \in Units :
    l.hash = u.hash /\ u.cells # <<>> /\ l.verdict = "accepted" => l.verified

\* A box left in QUEUE answers every admission, crashes notwithstanding.
Answered ==
  <>[](Recoverable.mode = "queue") =>
    \A t \in 1 .. MaxAdmissions :
      admitted >= t ~> \E i \in DOMAIN Recoverable.stream :
                          Recoverable.stream[i].ticket = t /\ Final(Recoverable.stream[i])

\* how-contract.yaml, at-least-once-emit: a verdict is durably recorded and
\* none is lost.  A unit accepted on the stream is accepted in the log.
LogTellsFate ==
  \A i \in DOMAIN engine.stream : engine.stream[i].verdict = "accepted" =>
    \E l \in log : l.hash = engine.stream[i].hash /\ l.verdict = "accepted"

\* No push of the unit is refused for want of a fast-forward: it starts from the
\* branch it lands on, or no other unit lands there.
OwnBranch(u) ==
  \/ u.delivery.base = BranchOf(u)
  \/ \A v \in Units : v.delivery.mode = "repository" /\ BranchOf(v) = BranchOf(u) => v = u

\* executor/src/lib.rs, deliver_to_repository: the commit is the provenance
\* anchor and the compare URL the ref the producer reconciles against.  Unless a
\* push was refused or a drain was cut short after its push, the log names a
\* commit of each unit it accepts with changes, and of no other, and the commit
\* is on the unit's branch, also when the unit is run twice.  Of two units on one
\* branch that do not both start from it the second push is refused, and nobody
\* is told; for such a unit only this is claimed: whatever failed, an event with
\* a URL names a commit that its unit's branch holds ever after.
RefsResolve ==
  \A l \in log : \A u \in Units : l.hash = u.hash /\ u.delivery.mode = "repository" =>
    /\ faults \subseteq {"torn", "overlap"} /\ OwnBranch(u) =>
         IF l.verdict = "accepted" /\ l.tree # {}
         THEN l.delivery.commit \in branches[BranchOf(u)]
         ELSE l.delivery.commit = 0
    /\ l.delivery.pr => l.delivery.commit \in branches[BranchOf(u)]

\* The drain made of this unit something other than a patch.
NothingToPatch(ev) == ev.verdict # "accepted" \/ ev.tree = {}

\* executor/src/lib.rs, step 5b: the patch is how code leaves the box.  Between
\* two drains an inline unit the log accepts with a changed tree has a patch
\* under its name: its own, unless another unit's ref sanitizes to that name, in
\* which case it may be that unit's.  Only a kill, between the append and the
\* patch, leaves it without one: then it is still queued, or its repeated drain
\* had nothing to patch, a verdict the log does not take.
AcceptedIsDelivered ==
  Between /\ (faults \subseteq {"crash", "push"} \/ faults \subseteq {"torn", "push", "overlap"}) =>
    \A l \in log : \A u \in Units :
      (l.hash = u.hash /\ u.delivery.mode = "inline" /\ l.verdict = "accepted" /\ l.tree # {}) =>
        LET e == IF pc = "top" THEN engine ELSE Recoverable
        IN  \/ \E v \in Units : SafeName[v.ref] = SafeName[u.ref] /\ v.hash \in patches[SafeName[u.ref]]
            \/ /\ "crash" \in faults
               /\ \/ \E i \in DOMAIN e.queue : e.queue[i].unit = u
                  \/ \E i \in DOMAIN e.stream : e.stream[i].hash = u.hash /\ NothingToPatch(e.stream[i])

\* executor/src/lib.rs, ensure_git_baseline: a diff captures exactly what the
\* unit produced.  A run in a clone judges and commits its own changes alone,
\* whatever a killed run of the same name left.  Any other run does so unless a
\* drain was cut short and left its workspace to a unit of the same name: the
\* tree, and a patch, then hold both units' changes.
TreeIsOwn ==
  /\ \A l \in log : \A u \in Units :
        l.hash = u.hash /\ (u.delivery.mode = "repository" \/ faults \subseteq {"torn", "push", "overlap"}) =>
          l.tree \subseteq {l.hash}
  /\ faults \subseteq {"torn", "push", "overlap"} => \A d \in Dirs : Cardinality(patches[d]) <= 1
=============================================================================
