----------------------------- MODULE VerdictLog -----------------------------
(***************************************************************************)
(* What the verdict log promises (the verdict-log aggregate): verdicts are *)
(* only ever added, at most one for a bundle hash, until a write is cut    *)
(* short; from then on the log may lose verdicts, but never changes one or *)
(* holds two for a hash.  A restart of the writer is invisible.            *)
(***************************************************************************)
CONSTANT Verdicts   \* what may be recorded: [id, hash]

VARIABLES
  log,       \* the verdicts a reader finds
  damaged    \* whether a write was ever cut short

Init == log = {} /\ damaged = FALSE

\* A verdict is added unless one with its hash is there.
Record(v) ==
  /\ \A w \in log : w.hash # v.hash
  /\ log' = log \cup {v}
  /\ UNCHANGED damaged

\* A cut loses the record it cuts, or the whole log.
Damage == damaged' = TRUE /\ log' \in SUBSET log

\* A later record falls on the line the cut left open, and takes it along.
Lose == damaged /\ log' \in SUBSET log /\ UNCHANGED damaged

Next == Damage \/ Lose \/ \E v \in Verdicts : Record(v)

Spec == Init /\ [][Next]_<<log, damaged>>
=============================================================================
