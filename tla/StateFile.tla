------------------------------ MODULE StateFile ------------------------------
(***************************************************************************)
(* .kiln/state.json and the kiln commands: each command is a process that  *)
(* loads the engine, works on its copy and saves the copy whole.  Nothing  *)
(* locks the file, so two commands that overlap work on two copies.  What  *)
(* a command does to its copy are the methods of Engine, here as functions *)
(* of the saved record; what kiln serve does inside one drain is Serve's   *)
(* and is one step here, without its errors and kills.                     *)
(***************************************************************************)
EXTENDS Integers, WorkUnit, Production, Ladder

CONSTANTS
  Processes,      \* the processes that may run a command
  Watched,        \* one of them, for CommandsUseEngine: any
  Units,          \* the frozen units producers hand over
  Manifests,      \* the built-in manifests of the builds that get installed
  Backstop,       \* the drain loops end when more than this many attempts were made
  MaxCommands,    \* bound: commands started
  Faults          \* "overlap": commands overlap; "diskfull": one save fails

ASSUME StateFileAssumption ==
  /\ Watched \in Processes
  /\ \A u \in Units : u.ladder \in Nat /\ u.tier \in Tiers
  /\ Backstop \in Nat /\ MaxCommands \in Nat
  /\ Faults \subseteq {"overlap", "diskfull"}

VARIABLES
  file,      \* the saved engine, or NoState
  proc,      \* per process: the command, its copy of the engine, and its locals
  build,     \* the manifest of the installed build
  log,       \* the durable log: hash, writing command, and position
  commands,  \* commands started so far
  done,      \* what finished commands printed: admissions, and the last flip (history)
  faults     \* the faults that happened (history)

vars == <<file, proc, build, log, commands, done, faults>>

\* The file is absent or empty: load falls back on the default engine.
NoState == [torn |-> TRUE]

\* It holds bytes that do not parse; load falls back on the default engine, too.
Garbled == [torn |-> TRUE, bytes |-> TRUE]

Fresh(manifest) ==
  [torn |-> FALSE, mode |-> "off", prioritySet |-> <<>>, stream |-> <<>>, priorityView |-> 0,
   heterogeneityView |-> [admitted |-> 0, rejected |-> 0], emitted |-> 0,
   utilization |-> [mode |-> "off", inFlight |-> 0, exploring |-> FALSE, discoveries |-> 0],
   seq |-> 0, manifest |-> manifest]

\* Seeded bug: the manifest is the build's, whatever the file says.
LoadNewManifest == IF file.torn THEN Fresh(build) ELSE [file EXCEPT !.manifest = build]

\* load: the saved engine, with the manifest it was saved with.
Load == IF file.torn THEN Fresh(build) ELSE file

Idle == [cmd |-> "none", pc |-> "idle", engine |-> NoState, drained |-> 0, seen |-> {}, id |-> 0]

Init ==
  /\ file = NoState
  /\ proc = [p \in Processes |-> Idle]
  /\ build \in Manifests
  /\ log = {} /\ commands = 0
  /\ done = [admits |-> 0, flip |-> "off"]
  /\ faults = {}

-----------------------------------------------------------------------------
\* Seeded bug: utilization-view is not told of the flip.
FlippedUnseen(e, m) == [e EXCEPT !.mode = m]

\* Engine::throw_switch, of another mode.
Flipped(e, m) == [e EXCEPT !.mode = m, !.utilization.mode = m]

\* Engine::admit, of a unit that validates and of one that does not.
Enqueued(e, u) ==
  [e EXCEPT
     !.prioritySet = Append(@, [unit |-> u, ladder |-> u.ladder, tier |-> u.tier,
                                ticket |-> e.heterogeneityView.admitted + 1]),
     !.priorityView = @ + 1,
     !.heterogeneityView.admitted = @ + 1]

Refused(e) == [e EXCEPT !.heterogeneityView.rejected = @ + 1]

\* The verdict event of a drain, pushed on the stream.
Emitted(e, x, verdict, missing, tierRan, results) ==
  [e EXCEPT
     !.seq = @ + 1, !.emitted = @ + 1,
     !.stream = Append(@,
        [id |-> <<x.unit.ref, e.seq + 1>>, hash |-> x.unit.hash, verdict |-> verdict,
         missing |-> missing, tierRan |-> tierRan, results |-> results,
         next |-> ConsequenceOf(verdict), ticket |-> x.ticket])]

\* Engine::drain_one of a unit the box cannot cover.
AnsweredNotAdmitted(e) ==
  LET x == Head(e.prioritySet)
  IN  [Emitted(e, x, "not-admitted", MissingFor(e.manifest, x.unit), "none", <<>>) EXCEPT
         !.prioritySet = Tail(@), !.priorityView = @ - 1]

\* Seeded bug: a failed unit leaves the set for good.
RanOnce(e, results) ==
  LET x == Head(e.prioritySet)
  IN  [Emitted(e, x, ReduceVerdict(results), {}, TierRan(x), results) EXCEPT
         !.prioritySet = Tail(@), !.priorityView = @ - 1]

\* Seeded bug: a failed unit is queued again behind the projector's back.
RanUnseen(e, results) ==
  LET x       == Head(e.prioritySet)
      verdict == ReduceVerdict(results)
      again   == verdict # "accepted" /\ HasHeadroom(x)
  IN  [Emitted(e, x, verdict, {}, TierRan(x), results) EXCEPT
         !.prioritySet = IF again THEN Append(Tail(@), OneBindingUp(x)) ELSE Tail(@),
         !.priorityView = @ - 1]

\* The drain of a unit that runs, with these cell results.
Ran(e, results) ==
  LET x       == Head(e.prioritySet)
      verdict == ReduceVerdict(results)
      again   == verdict # "accepted" /\ HasHeadroom(x)
  IN  [Emitted(e, x, verdict, {}, TierRan(x), results) EXCEPT
         !.prioritySet = IF again THEN Append(Tail(@), OneBindingUp(x)) ELSE Tail(@),
         !.priorityView = IF again THEN @ ELSE @ - 1]

-----------------------------------------------------------------------------
\* A command starts: it loads the file.  While another runs, that is an overlap.
Begin(p, cmd, engine, pc, seen) ==
  /\ commands < MaxCommands
  /\ proc[p].pc = "idle"
  /\ \/ \A q \in Processes : proc[q].pc = "idle" /\ UNCHANGED faults
     \/ /\ \E q \in Processes : proc[q].pc # "idle"
        /\ "overlap" \in Faults
        /\ faults' = faults \cup {"overlap"}
  /\ commands' = commands + 1
  /\ proc' = [proc EXCEPT ![p] =
       [cmd |-> cmd, pc |-> pc, engine |-> engine, drained |-> 0, seen |-> seen, id |-> commands + 1]]
  /\ UNCHANGED <<file, build, log, done>>

\* cmd_mode_set, without a box configured.  A flip to the saved mode is refused
\* and saves nothing.
ModeSet(p, m) == Load.mode # m /\ Begin(p, "mode", Flipped(Load, m), "save", {})

\* cmd_admit: a rejection is counted and saved as well.
Admit(p, u) ==
  IF Validate(u) = "ok" THEN Begin(p, "admit", Enqueued(Load, u), "save", {})
  ELSE Begin(p, "reject", Refused(Load), "save", {})

\* cmd_explore, up to start_exploration.
Explore(p) ==
  /\ Load.mode = "explorer"
  /\ Begin(p, "explore", [Load EXCEPT !.utilization.exploring = TRUE], "explore", {})

\* cmd_run and cmd_serve, up to the loop: refused unless the box is in QUEUE.
Run(p) == Load.mode = "queue" /\ Begin(p, "run", Load, "drain", {})

Serve(p) == Load.mode = "queue" /\ Begin(p, "serve", Load, "drain", {l.hash : l \in log})

-----------------------------------------------------------------------------
\* Seeded bug: the record is discarded and the session left open.
ProduceKeepsOpen(p) ==
  /\ proc[p].pc = "explore"
  /\ proc' = [proc EXCEPT ![p].pc = "save", ![p].engine.utilization.discoveries = @ + 1]
  /\ UNCHANGED <<file, build, log, commands, done, faults>>

\* cmd_explore, produce_discovery_record.
Produce(p) ==
  /\ proc[p].pc = "explore"
  /\ proc' = [proc EXCEPT ![p].pc = "save",
                          ![p].engine.utilization.exploring = FALSE,
                          ![p].engine.utilization.discoveries = @ + 1]
  /\ UNCHANGED <<file, build, log, commands, done, faults>>

\* DurableLog::append asks the hashes this process read when it opened the log
\* or appended since, not the file.
LogAfter(p, ev) ==
  IF proc[p].cmd # "serve" \/ ev.hash \in proc[p].seen THEN log
  ELSE log \cup {[hash |-> ev.hash, by |-> proc[p].id, at |-> Cardinality(log) + 1]}

\* Seeded bug: the appended hash is not remembered.
SeenAfterForgets(p, ev) == proc[p].seen

SeenAfter(p, ev) == IF proc[p].cmd = "serve" THEN proc[p].seen \cup {ev.hash} ELSE {}

\* One turn of the loop of cmd_run or cmd_serve.  kiln run's oracle passes every
\* cell it is asked about; kiln serve's worker answers all cells, and the command
\* passes on what they wrote or does not.
Drain(p) ==
  LET e == proc[p].engine
      x == Head(e.prioritySet)
  IN /\ proc[p].pc = "drain"
     /\ e.prioritySet # <<>>
     /\ \E after \in
          IF MissingFor(e.manifest, x.unit) # {} THEN {AnsweredNotAdmitted(e)}
          ELSE IF proc[p].cmd = "run" THEN {Ran(e, WalkCells(x.unit.cells, DOMAIN x.unit.cells))}
          ELSE {Ran(e, Results(x.unit.cells, CellIds(x.unit.cells), oracle)) : oracle \in BOOLEAN} :
          /\ proc' = [proc EXCEPT
               ![p].engine  = after,
               ![p].seen    = SeenAfter(p, Last(after.stream)),
               ![p].drained = @ + 1,
               ![p].pc      = IF proc[p].drained >= Backstop THEN "save" ELSE "drain"]
          /\ log' = LogAfter(p, Last(after.stream))
     /\ UNCHANGED <<file, build, commands, done, faults>>

\* The loop ends on an empty set.
DrainIdle(p) ==
  /\ proc[p].pc = "drain"
  /\ proc[p].engine.prioritySet = <<>>
  /\ proc' = [proc EXCEPT ![p].pc = "save"]
  /\ UNCHANGED <<file, build, log, commands, done, faults>>

-----------------------------------------------------------------------------
\* std::fs::write truncates the file and then writes it, from its start.
SaveTruncate(p) ==
  /\ proc[p].pc = "save"
  /\ file' = NoState
  /\ proc' = [proc EXCEPT ![p].pc = "write"]
  /\ UNCHANGED <<build, log, commands, done, faults>>

\* The command prints that it is done, whatever became of the save.
Finish(p) ==
  /\ proc' = [proc EXCEPT ![p] = Idle]
  /\ done' = [admits |-> IF proc[p].cmd = "admit" THEN done.admits + 1 ELSE done.admits,
              flip   |-> IF proc[p].cmd = "mode" THEN proc[p].engine.mode ELSE done.flip]

\* A document written from the file's start.  What another command wrote since
\* this one truncated the file is covered, or the longer text's end is left over
\* behind the shorter one, and no reader parses that; lengths are abstracted.
Overwritten(e) == IF file = NoState THEN {e} ELSE {e, Garbled}

SaveWrite(p) ==
  /\ proc[p].pc = "write"
  /\ file' \in Overwritten(proc[p].engine)
  /\ Finish(p)
  /\ UNCHANGED <<build, log, commands, faults>>

\* save(&e).ok(): the file cannot be opened, not written, or not to its end;
\* nobody is told.
SaveFails(p) ==
  /\ "diskfull" \in Faults \ faults
  /\ \/ proc[p].pc \in {"save", "write"} /\ UNCHANGED file
     \/ proc[p].pc = "write" /\ file' = Garbled
  /\ Finish(p)
  /\ faults' = faults \cup {"diskfull"}
  /\ UNCHANGED <<build, log, commands>>

\* Another build of kiln is installed.
Install(m) ==
  /\ build # m
  /\ build' = m
  /\ UNCHANGED <<file, proc, log, commands, done, faults>>

Next ==
  \/ \E p \in Processes :
       \/ \E m \in {"queue", "explorer"} : ModeSet(p, m)
       \/ \E u \in Units : Admit(p, u)
       \/ Explore(p) \/ Run(p) \/ Serve(p)
       \/ Produce(p) \/ Drain(p) \/ DrainIdle(p)
       \/ SaveTruncate(p) \/ SaveWrite(p) \/ SaveFails(p)
  \/ \E m \in Manifests : Install(m)

Spec == Init /\ [][Next]_vars

-----------------------------------------------------------------------------
\* The type invariant.
TypeOK ==
  /\ \A e \in ({file} \cup {proc[p].engine : p \in Processes}) \ {NoState, Garbled} :
        /\ DOMAIN e = DOMAIN Fresh(build)
        /\ e.manifest \in Manifests
        /\ e.mode \in {"off", "queue", "explorer"}
        /\ e.emitted \in Nat /\ e.priorityView \in Nat
  /\ \A p \in Processes : proc[p].pc \in {"idle", "explore", "drain", "save", "write"}
  /\ build \in Manifests /\ commands \in 0 .. MaxCommands
  /\ \A l \in log : l.by \in 1 .. commands /\ l.at \in 1 .. Cardinality(log)
  /\ faults \subseteq Faults

Quiet == \A p \in Processes : proc[p].pc = "idle"

Tickets(events) == {events[i].ticket : i \in DOMAIN events}

\* Every admission a command printed is queued or has its final event.
AdmissionsKept ==
  \A t \in 1 .. done.admits : t \in Tickets(Load.prioritySet) \cup
    {Load.stream[i].ticket : i \in {j \in DOMAIN Load.stream : Final(Load.stream[j])}}

\* cli/src/main.rs: state persists between invocations.  As long as no command
\* overlapped another and no save failed, whatever a command printed as done is
\* in the file: each admission, queued or with its final event, the last flip,
\* and each verdict of the durable log, also when a drain ended at the backstop.
AcknowledgedSticks ==
  Quiet /\ faults = {} =>
    /\ AdmissionsKept
    /\ Load.mode = done.flip
    /\ \A l \in log : \E i \in DOMAIN Load.stream : Load.stream[i].hash = l.hash


\* The engine of the file, as an Engine.
Saved ==
  INSTANCE Engine WITH
    mode <- file.mode, prioritySet <- file.prioritySet, stream <- file.stream,
    priorityView <- file.priorityView, heterogeneityView <- file.heterogeneityView,
    emitted <- file.emitted, utilization <- file.utilization, seq <- file.seq,
    manifest <- file.manifest,
    MaxAdmissions <- MaxCommands, MaxRejections <- MaxCommands, MaxDiscoveries <- MaxCommands

\* What a file that parses holds: an engine by itself consistent, in which the
\* views tell the set and the stream, each admission it knows of has one fate,
\* and no exploration session was left open across a flip.
SavedIsSound ==
  /\ Saved!ViewsAgree /\ Saved!OneFate /\ Saved!FateInv
  /\ ~ file.utilization.exploring

\* cli/src/main.rs, save and load.  Overlapping commands lose each other's work,
\* at worst all of it, where the bytes of two saves are left in one file; that
\* file is no engine, and what parses is a sound one.  Once a command was run,
\* nothing but an overlap or a failed save leaves a file that does not parse
\* while no command runs, or bytes that do not parse at any time.
FileIsWhole ==
  /\ ~ file.torn => SavedIsSound
  /\ faults = {} => file # Garbled /\ (Quiet /\ commands > 0 => ~ file.torn)

\* executor/src/lib.rs, publish_manifest: producers match against the published
\* copy, the box against its own.  They are one: whichever builds that save the
\* manifest came in between, an event of the saved stream names exactly the
\* capabilities that `kiln manifest` does not list.  (A state file without the
\* field, from an older build, takes the manifest of the build that loads it.)
AnsweredAsPublished ==
  ~ file.torn =>
    \A i \in DOMAIN file.stream : \A u \in Units :
      u.hash = file.stream[i].hash => file.stream[i].missing = MissingFor(file.manifest, u)

\* stream/src/lib.rs, append: a verdict is not appended twice.  Two kiln serve
\* that overlap may do so, one each; otherwise, and by one of them, none is.
OncePerWriter ==
  \A k, l \in log : k.hash = l.hash /\ (k.by = l.by \/ "overlap" \notin faults) => k = l

\* What a command works on: its copy, or the file it is about to load.
Copy(p) == IF proc[p].pc = "idle" THEN Load ELSE proc[p].engine

Working ==
  INSTANCE Engine WITH
    mode <- Copy(Watched).mode, prioritySet <- Copy(Watched).prioritySet,
    stream <- Copy(Watched).stream, priorityView <- Copy(Watched).priorityView,
    heterogeneityView <- Copy(Watched).heterogeneityView, emitted <- Copy(Watched).emitted,
    utilization <- Copy(Watched).utilization, seq <- Copy(Watched).seq,
    manifest <- Copy(Watched).manifest,
    MaxAdmissions <- MaxCommands, MaxRejections <- MaxCommands, MaxDiscoveries <- MaxCommands

\* Every command but kiln serve is a client of the Engine: starting from the
\* file it loads, each step it takes on its copy is a step of Engine.
CommandsUseEngine ==
  [][proc'[Watched].pc # "idle" /\ proc'[Watched].cmd # "serve" =>
       Copy(Watched)' = Copy(Watched) \/ Working!Next]_vars
=============================================================================
