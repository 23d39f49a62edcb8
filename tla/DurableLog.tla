----------------------------- MODULE DurableLog -----------------------------
(***************************************************************************)
(* The JSON-lines file behind DurableLog, and the processes that open it.  *)
(* append writes a record and then its newline, two writes with nothing    *)
(* between them but luck; open reads the hashes back and never repairs a   *)
(* line.  A process that fails in a write, or is killed, leaves the file   *)
(* as it stands.                                                           *)
(***************************************************************************)
EXTENDS Naturals, Sequences, FiniteSets, SequencesExt

CONSTANTS
  Processes,     \* the processes that may hold the log open
  Hashes,        \* the bundle hashes units carry
  Cuts,          \* how a write may stop short: "newline", "part", "split"
  MaxAppends,    \* bound: records written
  MaxOpens,      \* bound: times the log is opened
  MaxCuts        \* bound: writes stopped short

ASSUME LogAssumption ==
  /\ Cuts \subseteq {"newline", "part", "split"}
  /\ MaxAppends \in Nat /\ MaxOpens \in Nat /\ MaxCuts \in Nat

VARIABLES
  lines,    \* the physical lines ended by a newline, each a sequence of records
  tail,     \* the records after the last newline
  handle,   \* per process: closed, open, or the record whose newline is due
  seen,     \* per process: DurableLog.seen
  written,  \* records begun so far: the ids of verdicts (history)
  vouched,  \* the hashes append returned Ok for (history)
  opens,
  cuts

vars == <<lines, tail, handle, seen, written, vouched, opens, cuts>>

(***************************************************************************)
(* A record is whole, or a part cut at a character, or a part split inside *)
(* a character, which makes the file invalid UTF-8.                        *)
(***************************************************************************)
Records == [id : Nat, hash : Hashes, form : {"whole", "part", "split"}]

Closed == [state |-> "closed"]
Opened == [state |-> "open"]
Due(r) == [state |-> "due", record |-> r]

Physical == Append(lines, tail)

ValidText == \A i \in DOMAIN Physical : \A k \in DOMAIN Physical[i] : Physical[i][k].form # "split"

\* read_all, and the loop of open: a line is a verdict if it parses as one,
\* so a line that holds anything but one whole record is passed over, and a
\* file that is not valid UTF-8 reads as empty.
ReadAll ==
  IF ~ ValidText THEN {}
  ELSE {[id |-> Physical[i][1].id, hash |-> Physical[i][1].hash] :
          i \in {n \in DOMAIN Physical : Len(Physical[n]) = 1 /\ Physical[n][1].form = "whole"}}

\* Seeded bug: the seen set is built from the event ids.
EventIdsOnDisk == {v.id : v \in ReadAll}

HashesOnDisk == {v.hash : v \in ReadAll}

Init ==
  /\ lines = <<>> /\ tail = <<>>
  /\ handle = [p \in Processes |-> Closed]
  /\ seen = [p \in Processes |-> {}]
  /\ written = 0 /\ vouched = {}
  /\ opens = 0 /\ cuts = 0

\* Seeded bug: the seen set is not recovered.
OpenForgets(p) ==
  /\ opens < MaxOpens
  /\ handle[p] = Closed
  /\ handle' = [handle EXCEPT ![p] = Opened]
  /\ seen' = [seen EXCEPT ![p] = {}]
  /\ opens' = opens + 1
  /\ UNCHANGED <<lines, tail, written, vouched, cuts>>

\* DurableLog::open.
Open(p) ==
  /\ opens < MaxOpens
  /\ handle[p] = Closed
  /\ handle' = [handle EXCEPT ![p] = Opened]
  /\ seen' = [seen EXCEPT ![p] = HashesOnDisk]
  /\ opens' = opens + 1
  /\ UNCHANGED <<lines, tail, written, vouched, cuts>>

\* append, hash already seen: Ok(false), and the file is left alone.
AppendSeen(p, h) ==
  /\ handle[p] = Opened
  /\ h \in seen[p]
  /\ vouched' = vouched \cup {h}
  /\ UNCHANGED <<lines, tail, handle, seen, written, opens, cuts>>

NewRecord(h, form) == [id |-> written + 1, hash |-> h, form |-> form]

\* Seeded bug: the duplicate check is gone.
WriteRecordUnchecked(p, h) ==
  /\ written < MaxAppends
  /\ handle[p] = Opened
  /\ tail' = Append(tail, NewRecord(h, "whole"))
  /\ handle' = [handle EXCEPT ![p] = Due(NewRecord(h, "whole"))]
  /\ written' = written + 1
  /\ UNCHANGED <<lines, seen, vouched, opens, cuts>>

\* append, hash not seen: the first write puts the record at the end of file.
WriteRecord(p, h) ==
  /\ written < MaxAppends
  /\ handle[p] = Opened
  /\ h \notin seen[p]
  /\ tail' = Append(tail, NewRecord(h, "whole"))
  /\ handle' = [handle EXCEPT ![p] = Due(NewRecord(h, "whole"))]
  /\ written' = written + 1
  /\ UNCHANGED <<lines, seen, vouched, opens, cuts>>

\* Seeded bug: write! where the code has writeln!.
WriteNoNewline(p) ==
  /\ handle[p].state = "due"
  /\ seen' = [seen EXCEPT ![p] = @ \cup {handle[p].record.hash}]
  /\ vouched' = vouched \cup {handle[p].record.hash}
  /\ handle' = [handle EXCEPT ![p] = Opened]
  /\ UNCHANGED <<lines, tail, written, opens, cuts>>

\* The second write ends the line, whatever else is on it by now; then the
\* hash is remembered and append returns Ok(true).
WriteNewline(p) ==
  /\ handle[p].state = "due"
  /\ lines' = Append(lines, tail)
  /\ tail' = <<>>
  /\ seen' = [seen EXCEPT ![p] = @ \cup {handle[p].record.hash}]
  /\ vouched' = vouched \cup {handle[p].record.hash}
  /\ handle' = [handle EXCEPT ![p] = Opened]
  /\ UNCHANGED <<written, opens, cuts>>

\* The first write stops short: an error that ends cmd_serve, or a kill.
CutRecord(p, h, form) ==
  /\ cuts < MaxCuts /\ written < MaxAppends
  /\ form \in Cuts \cap {"part", "split"}
  /\ handle[p] = Opened
  /\ h \notin seen[p]
  /\ tail' = Append(tail, NewRecord(h, form))
  /\ handle' = [handle EXCEPT ![p] = Closed]
  /\ written' = written + 1
  /\ cuts' = cuts + 1
  /\ UNCHANGED <<lines, seen, vouched, opens>>

\* The second write does not happen.
CutNewline(p) ==
  /\ cuts < MaxCuts
  /\ "newline" \in Cuts
  /\ handle[p].state = "due"
  /\ handle' = [handle EXCEPT ![p] = Closed]
  /\ cuts' = cuts + 1
  /\ UNCHANGED <<lines, tail, seen, written, vouched, opens>>

\* The process ends, or dies, with no write under way.
Close(p) ==
  /\ handle[p] = Opened
  /\ handle' = [handle EXCEPT ![p] = Closed]
  /\ UNCHANGED <<lines, tail, seen, written, vouched, opens, cuts>>

Next ==
  \E p \in Processes :
    \/ Open(p) \/ WriteNewline(p) \/ CutNewline(p) \/ Close(p)
    \/ \E h \in Hashes :
         \/ AppendSeen(p, h) \/ WriteRecord(p, h)
         \/ \E form \in Cuts : CutRecord(p, h, form)

Spec == Init /\ [][Next]_vars

-----------------------------------------------------------------------------
\* The type invariant.
TypeOK ==
  /\ lines \in Seq(Seq(Records)) /\ tail \in Seq(Records)
  /\ DOMAIN handle = Processes
  /\ \A p \in Processes :
        \/ handle[p] \in {Closed, Opened}
        \/ handle[p].record \in Records /\ handle[p] = Due(handle[p].record)
  /\ seen \in [Processes -> SUBSET Hashes]
  /\ written \in Nat /\ vouched \subseteq Hashes /\ opens \in Nat /\ cuts \in Nat

\* A reader never finds two verdicts for one bundle hash, however often the one
\* writer is restarted and wherever its writes are cut: a record that was lost
\* stays lost when its hash is written again.
NoneDoubled == \A v, w \in ReadAll : v.hash = w.hash => v = w

\* A cut spoils at most the line it is on: of the hashes append vouched for, a
\* reader misses no more than two for each cut, the cut record and the next.
DamageBounded == ValidText => Cardinality(vouched \ HashesOnDisk) <= 2 * cuts

\* With one writer the file implements the abstract log, restarts and cuts
\* included: it only grows until the first cut, and whatever is lost later, no
\* verdict is altered and no hash has two.
Abstract ==
  INSTANCE VerdictLog WITH
    Verdicts <- [id : 1 .. MaxAppends, hash : Hashes], log <- ReadAll, damaged <- cuts > 0
RefinesVerdictLog == Abstract!Spec

\* deliverable-stream.yaml, st-durable: an appended verdict survives a restart.
AppendedSurvives == vouched \subseteq HashesOnDisk
=============================================================================
