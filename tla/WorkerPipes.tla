---------------------------- MODULE WorkerPipes ----------------------------
(***************************************************************************)
(* CommandWorker::invoke: kiln starts a shell command, writes the prompt   *)
(* to its stdin, closes it, and then reads its stdout to the end and waits *)
(* for it.  The two are processes joined by two pipes; sizes are in blocks *)
(* and a pipe holds a few.  A call says what the command is like: prompt   *)
(* blocks it is given, banner blocks it writes first, whether it reads at  *)
(* all and echoes each block it reads, answer blocks it writes once it has *)
(* read everything, and whether it fails in the end.                       *)
(***************************************************************************)
EXTENDS Integers

CONSTANT Capacity   \* blocks a pipe holds

ASSUME CapacityAssumption == Capacity \in Nat \ {0}

\* owed: blocks the command has to write before it does anything else.
PipeStart(call) ==
  [call |-> call, unsent |-> call.prompt, stdin |-> 0, owed |-> call.banner, answered |-> FALSE,
   stdout |-> 0, received |-> 0, kiln |-> "writing", command |-> "running"]

When(enabled, next) == IF enabled THEN {next} ELSE {}

KilnWrites(w) ==
  When(w.kiln = "writing" /\ w.unsent > 0 /\ w.stdin < Capacity /\ w.command = "running",
       [w EXCEPT !.unsent = @ - 1, !.stdin = @ + 1])

\* The command has gone with the prompt half written: the write fails.
KilnBreaks(w) ==
  When(w.kiln = "writing" /\ w.unsent > 0 /\ w.command = "exited", [w EXCEPT !.kiln = "error"])

KilnCloses(w) == When(w.kiln = "writing" /\ w.unsent = 0, [w EXCEPT !.kiln = "reading"])

\* Seeded bug: the output is read once the command has exited.
KilnReadsLate(w) ==
  When(w.kiln = "reading" /\ w.stdout > 0 /\ w.command = "exited",
       [w EXCEPT !.stdout = @ - 1, !.received = @ + 1])

KilnReads(w) ==
  When(w.kiln = "reading" /\ w.stdout > 0, [w EXCEPT !.stdout = @ - 1, !.received = @ + 1])

\* End of the output and an exit status: Ok if it says success.
KilnWaits(w) ==
  When(w.kiln = "reading" /\ w.stdout = 0 /\ w.command = "exited",
       [w EXCEPT !.kiln = IF w.call.fails THEN "error" ELSE "ok"])

AtEnd(w) == w.kiln # "writing" /\ w.stdin = 0

CommandReads(w) ==
  When(w.command = "running" /\ w.owed = 0 /\ w.call.reads /\ w.stdin > 0,
       [w EXCEPT !.stdin = @ - 1, !.owed = IF w.call.echoes THEN 1 ELSE 0])

CommandAnswers(w) ==
  When(w.command = "running" /\ w.owed = 0 /\ ~ w.answered /\ (w.call.reads => AtEnd(w)),
       [w EXCEPT !.owed = w.call.answer, !.answered = TRUE])

CommandWrites(w) ==
  When(w.command = "running" /\ w.owed > 0 /\ w.stdout < Capacity,
       [w EXCEPT !.owed = @ - 1, !.stdout = @ + 1])

CommandExits(w) ==
  When(w.command = "running" /\ w.owed = 0 /\ w.answered, [w EXCEPT !.command = "exited"])

\* What may happen next in a call that has not returned.
PipeSteps(w) ==
  IF w.kiln \in {"ok", "error"} THEN {}
  ELSE KilnWrites(w) \cup KilnBreaks(w) \cup KilnCloses(w) \cup KilnReads(w) \cup KilnWaits(w)
         \cup CommandReads(w) \cup CommandAnswers(w) \cup CommandWrites(w) \cup CommandExits(w)

\* What the command writes before it has read the whole prompt, and in all.
EarlyOutput(call) ==
  call.banner + (IF call.reads /\ call.echoes THEN call.prompt ELSE 0)
              + (IF call.reads THEN 0 ELSE call.answer)

Output(call) == call.banner + call.answer + (IF call.reads /\ call.echoes THEN call.prompt ELSE 0)
=============================================================================
