-------------------------- MODULE DurableLogProofs --------------------------
(***************************************************************************)
(* Proofs about DurableLog with one writer, for any hashes, any bounds and *)
(* any cuts: no verdict is doubled, the damage is bounded, and the file    *)
(* implements the abstract log of VerdictLog.                              *)
(***************************************************************************)
EXTENDS DurableLog, FiniteSetTheorems, TLAPS

OneWriter == \A p, q \in Processes : p = q

-----------------------------------------------------------------------------
(***************************************************************************)
(* What a reader makes of one line, and of the lines of a file.            *)
(***************************************************************************)
Text(s) == \A k \in DOMAIN s : s[k].form # "split"
Whole(s) == Len(s) = 1 /\ s[1].form = "whole"
Verdict(s) == [id |-> s[1].id, hash |-> s[1].hash]
OnLine(s) == IF Whole(s) THEN {Verdict(s)} ELSE {}
OnLines(ls) == {Verdict(ls[i]) : i \in {n \in DOMAIN ls : Whole(ls[n])}}
AllText(ls) == \A i \in DOMAIN ls : Text(ls[i])

\* A line more is a verdict more, or none.
LEMMA OneMoreLine ==
  ASSUME NEW ls \in Seq(Seq(Records)), NEW t \in Seq(Records)
  PROVE  /\ OnLines(Append(ls, t)) = OnLines(ls) \cup OnLine(t)
         /\ AllText(Append(ls, t)) <=> AllText(ls) /\ Text(t)
<1> DEFINE n == Len(ls)
           all == Append(ls, t)
<1>1. /\ n \in Nat /\ DOMAIN ls = 1 .. n /\ DOMAIN all = 1 .. n + 1
      /\ \A i \in 1 .. n : all[i] = ls[i] /\ i \in 1 .. n + 1
      /\ all[n + 1] = t /\ n + 1 \in 1 .. n + 1
      /\ \A i \in 1 .. n + 1 : i \in 1 .. n \/ i = n + 1
  OBVIOUS
<1> HIDE DEF n, all
<1>2. OnLines(all) = OnLines(ls) \cup OnLine(t)
  <2>1. ASSUME NEW v \in OnLines(all) PROVE v \in OnLines(ls) \cup OnLine(t)
    <3>1. PICK i \in DOMAIN all : Whole(all[i]) /\ v = Verdict(all[i])
      BY <2>1 DEF OnLines
    <3>. QED BY <3>1, <1>1 DEF OnLines, OnLine
  <2>2. ASSUME NEW v \in OnLines(ls) PROVE v \in OnLines(all)
    <3>1. PICK i \in DOMAIN ls : Whole(ls[i]) /\ v = Verdict(ls[i])
      BY <2>2 DEF OnLines
    <3>. QED BY <3>1, <1>1 DEF OnLines
  <2>3. ASSUME NEW v \in OnLine(t) PROVE v \in OnLines(all)
    <3>1. Whole(t) /\ v = Verdict(t)
      BY <2>3 DEF OnLine
    <3>. QED BY <3>1, <1>1 DEF OnLines
  <2>. QED BY <2>1, <2>2, <2>3
<1>3. AllText(all) <=> AllText(ls) /\ Text(t)
  BY <1>1 DEF AllText
<1>. QED BY <1>2, <1>3 DEF all

\* A record more leaves a line with no verdict, unless the line was empty.
LEMMA OneMoreRecord ==
  ASSUME NEW t \in Seq(Records), NEW r \in Records
  PROVE  /\ OnLine(Append(t, r)) =
              IF t = <<>> /\ r.form = "whole" THEN {[id |-> r.id, hash |-> r.hash]} ELSE {}
         /\ Text(Append(t, r)) <=> Text(t) /\ r.form # "split"
<1> DEFINE n == Len(t)
           all == Append(t, r)
<1>1. /\ n \in Nat /\ DOMAIN t = 1 .. n /\ DOMAIN all = 1 .. n + 1 /\ Len(all) = n + 1
      /\ \A i \in 1 .. n : all[i] = t[i] /\ i \in 1 .. n + 1
      /\ all[n + 1] = r /\ n + 1 \in 1 .. n + 1
      /\ \A i \in 1 .. n + 1 : i \in 1 .. n \/ i = n + 1
      /\ t = <<>> <=> n = 0
  OBVIOUS
<1> HIDE DEF n, all
<1>2. Text(all) <=> Text(t) /\ r.form # "split"
  BY <1>1 DEF Text
<1>3. n = 0 /\ r.form = "whole" => OnLine(all) = {[id |-> r.id, hash |-> r.hash]}
  BY <1>1 DEF OnLine, Whole, Verdict
<1>4. ~ (n = 0 /\ r.form = "whole") => OnLine(all) = {}
  BY <1>1 DEF OnLine, Whole
<1>. QED BY <1>1, <1>2, <1>3, <1>4 DEF all

\* An empty line holds nothing, and is text.
LEMMA EmptyLine == OnLine(<<>>) = {} /\ Text(<<>>)
BY DEF OnLine, Whole, Text

\* ValidText and ReadAll, line by line.
LEMMA ReadByLine ==
  ASSUME lines \in Seq(Seq(Records)), tail \in Seq(Records)
  PROVE  /\ ValidText <=> AllText(lines) /\ Text(tail)
         /\ ReadAll = IF ValidText THEN OnLines(lines) \cup OnLine(tail) ELSE {}
<1>1. ValidText <=> AllText(Physical)
  BY DEF ValidText, AllText, Text
<1>2. ReadAll = IF ValidText THEN OnLines(Physical) ELSE {}
  BY DEF ReadAll, OnLines, Verdict, Whole
<1>. QED BY <1>1, <1>2, OneMoreLine DEF Physical

\* The same of the state after a step.
LEMMA ReadByLinePrimed ==
  ASSUME lines' \in Seq(Seq(Records)), tail' \in Seq(Records)
  PROVE  /\ ValidText' <=> AllText(lines') /\ Text(tail')
         /\ ReadAll' = IF ValidText' THEN OnLines(lines') \cup OnLine(tail') ELSE {}
<1>1. ValidText' <=> AllText(Physical')
  BY DEF ValidText, AllText, Text
<1>2. ReadAll' = IF ValidText' THEN OnLines(Physical') ELSE {}
  BY DEF ReadAll, OnLines, Verdict, Whole
<1>. QED BY <1>1, <1>2, OneMoreLine DEF Physical

-----------------------------------------------------------------------------
(***************************************************************************)
(* Type correctness, for any number of writers.                            *)
(***************************************************************************)
LEMMA NewRecordTyped ==
  ASSUME TypeOK, NEW h \in Hashes, NEW form \in {"whole", "part", "split"}
  PROVE  NewRecord(h, form) \in Records
BY DEF TypeOK, Records, NewRecord

\* The hashes on disk are hashes of records.
LEMMA HashesTyped == ASSUME TypeOK PROVE HashesOnDisk \subseteq Hashes
<1>1. Physical \in Seq(Seq(Records))
  BY DEF TypeOK, Physical
<1>2. ASSUME NEW v \in ReadAll PROVE v.hash \in Hashes
  <2>1. PICK i \in DOMAIN Physical : Len(Physical[i]) = 1 /\ v.hash = Physical[i][1].hash
    BY <1>2 DEF ReadAll
  <2>2. Physical[i] \in Seq(Records)
    BY <1>1
  <2>3. Physical[i][1] \in Records
    BY <2>1, <2>2
  <2>. QED BY <2>1, <2>3 DEF Records
<1>. QED BY <1>2 DEF HashesOnDisk

\* A process that owes a newline owes it to a record.
LEMMA DueTyped ==
  ASSUME TypeOK, NEW p \in Processes, handle[p].state = "due"
  PROVE  handle[p].record \in Records /\ handle[p].record.hash \in Hashes
         /\ handle[p] # Closed /\ handle[p] # Opened
<1>1. handle[p] # Closed /\ handle[p] # Opened
  BY DEF Closed, Opened
<1>2. handle[p].record \in Records
  BY <1>1 DEF TypeOK
<1>. QED BY <1>1, <1>2 DEF Records

\* Type correctness, at every step.
LEMMA TypeStep == TypeOK /\ [Next]_vars => TypeOK'
<1> SUFFICES ASSUME TypeOK, [Next]_vars PROVE TypeOK'
  OBVIOUS
<1>1. ASSUME NEW p \in Processes, Open(p) PROVE TypeOK'
  BY <1>1, HashesTyped DEF TypeOK, Open
<1>2. ASSUME NEW p \in Processes, WriteNewline(p) PROVE TypeOK'
  <2>1. handle[p].record \in Records /\ handle[p].record.hash \in Hashes
    BY <1>2, DueTyped DEF WriteNewline
  <2>2. lines' \in Seq(Seq(Records)) /\ tail' \in Seq(Records)
    BY <1>2 DEF TypeOK, WriteNewline
  <2>. QED BY <1>2, <2>1, <2>2 DEF TypeOK, WriteNewline
<1>3. ASSUME NEW p \in Processes, CutNewline(p) PROVE TypeOK'
  BY <1>3 DEF TypeOK, CutNewline
<1>4. ASSUME NEW p \in Processes, Close(p) PROVE TypeOK'
  BY <1>4 DEF TypeOK, Close
<1>5. ASSUME NEW p \in Processes, NEW h \in Hashes, AppendSeen(p, h) PROVE TypeOK'
  BY <1>5 DEF TypeOK, AppendSeen
<1>6. ASSUME NEW p \in Processes, NEW h \in Hashes, WriteRecord(p, h) PROVE TypeOK'
  <2> DEFINE r == NewRecord(h, "whole")
  <2>1. r \in Records
    BY NewRecordTyped
  <2> HIDE DEF r
  <2>2. /\ tail' = Append(tail, r) /\ handle' = [handle EXCEPT ![p] = Due(r)]
        /\ written' = written + 1 /\ UNCHANGED <<lines, seen, vouched, opens, cuts>>
    BY <1>6 DEF WriteRecord, r
  <2>3. Due(r).record = r
    BY DEF Due
  <2>. QED BY <2>1, <2>2, <2>3 DEF TypeOK
<1>7. ASSUME NEW p \in Processes, NEW h \in Hashes, NEW form \in Cuts, CutRecord(p, h, form)
      PROVE TypeOK'
  <2> DEFINE r == NewRecord(h, form)
  <2>1. r \in Records
    BY <1>7, NewRecordTyped DEF CutRecord
  <2> HIDE DEF r
  <2>2. /\ tail' = Append(tail, r) /\ handle' = [handle EXCEPT ![p] = Closed]
        /\ written' = written + 1 /\ cuts' = cuts + 1
        /\ UNCHANGED <<lines, seen, vouched, opens>>
    BY <1>7 DEF CutRecord, r
  <2>. QED BY <2>1, <2>2 DEF TypeOK
<1>8. CASE UNCHANGED vars
  BY <1>8 DEF vars, TypeOK
<1>. QED BY <1>1, <1>2, <1>3, <1>4, <1>5, <1>6, <1>7, <1>8 DEF Next

\* Type correctness, at the start.
LEMMA TypeInit == Init => TypeOK
BY DEF Init, TypeOK

\* The type invariant: in particular every process is closed, open, or owes the
\* newline of a record.
THEOREM LogTyped == Spec => []TypeOK
BY TypeInit, TypeStep, PTL DEF Spec

-----------------------------------------------------------------------------
(***************************************************************************)
(* What each step does to the text a reader finds.                         *)
(***************************************************************************)
LEMMA NewlineReads ==
  ASSUME TypeOK, NEW p \in Processes, WriteNewline(p)
  PROVE  ReadAll' = ReadAll /\ (ValidText' <=> ValidText)
<1>1. TypeOK'
  BY TypeStep DEF Next
<1>2. lines' = Append(lines, tail) /\ tail' = <<>>
  BY DEF WriteNewline
<1>3. /\ ValidText <=> AllText(lines) /\ Text(tail)
      /\ ReadAll = IF ValidText THEN OnLines(lines) \cup OnLine(tail) ELSE {}
  BY ReadByLine DEF TypeOK
<1>4. /\ ValidText' <=> AllText(lines') /\ Text(tail')
      /\ ReadAll' = IF ValidText' THEN OnLines(lines') \cup OnLine(tail') ELSE {}
  BY <1>1, ReadByLinePrimed DEF TypeOK
<1>5. /\ OnLines(lines') = OnLines(lines) \cup OnLine(tail)
      /\ AllText(lines') <=> AllText(lines) /\ Text(tail)
  BY <1>2, OneMoreLine DEF TypeOK
<1>. QED BY <1>2, <1>3, <1>4, <1>5, EmptyLine

\* A record on an empty tail is one verdict more; on any other it takes along
\* the verdict that stood there.
LEMMA RecordReads ==
  ASSUME TypeOK, NEW r \in Records, tail' = Append(tail, r), lines' = lines
  PROVE  /\ ValidText' <=> ValidText /\ r.form # "split"
         /\ ReadAll' = IF ~ ValidText' THEN {}
                       ELSE IF tail = <<>> /\ r.form = "whole"
                       THEN ReadAll \cup {[id |-> r.id, hash |-> r.hash]}
                       ELSE OnLines(lines)
         /\ ReadAll = IF ValidText THEN OnLines(lines) \cup OnLine(tail) ELSE {}
<1>2. /\ ValidText <=> AllText(lines) /\ Text(tail)
      /\ ReadAll = IF ValidText THEN OnLines(lines) \cup OnLine(tail) ELSE {}
  BY ReadByLine DEF TypeOK
<1>3. tail' \in Seq(Records) /\ lines' \in Seq(Seq(Records))
  BY DEF TypeOK
<1>4. /\ ValidText' <=> AllText(lines') /\ Text(tail')
      /\ ReadAll' = IF ValidText' THEN OnLines(lines') \cup OnLine(tail') ELSE {}
  BY <1>3, ReadByLinePrimed
<1>5. /\ OnLine(tail') = IF tail = <<>> /\ r.form = "whole" THEN {[id |-> r.id, hash |-> r.hash]} ELSE {}
      /\ Text(tail') <=> Text(tail) /\ r.form # "split"
  BY OneMoreRecord DEF TypeOK
<1>. QED BY <1>2, <1>4, <1>5, EmptyLine

-----------------------------------------------------------------------------
(***************************************************************************)
(* No verdict is doubled, and the file implements the abstract log.        *)
(***************************************************************************)

\* An open handle knows every hash a reader would find, or owes its newline.
SeenCoversDisk ==
  \A p \in Processes : handle[p] # Closed =>
    HashesOnDisk \subseteq seen[p] \cup (IF handle[p] = Opened THEN {} ELSE {handle[p].record.hash})

\* Until the first cut, what stands on the tail is owed a newline by everyone.
TailIsDue == cuts = 0 /\ tail # <<>> => \A p \in Processes : handle[p].state = "due"

LogInv == TypeOK /\ SeenCoversDisk /\ TailIsDue /\ NoneDoubled

\* How the disk may change: not at all, by a verdict of an unseen hash, or by
\* losing verdicts once a write was cut.
DiskSteps ==
  \/ ReadAll' = ReadAll /\ (cuts' > 0 <=> cuts > 0)
  \/ \E v \in [id : 1 .. MaxAppends, hash : Hashes] :
        v.hash \notin HashesOnDisk /\ ReadAll' = ReadAll \cup {v} /\ cuts' = cuts
  \/ ReadAll' \subseteq ReadAll /\ cuts' > 0

\* The log invariant, at the start.
LEMMA LogInit == Init => LogInv
<1>1. Init => ReadAll = {}
  BY DEF Init, ReadAll, Physical
<1>. QED BY <1>1, TypeInit DEF Init, LogInv, SeenCoversDisk, TailIsDue, NoneDoubled, Closed

\* A whole record written keeps the log invariant.
LEMMA WriteRecordKeeps ==
  ASSUME OneWriter, LogInv, NEW p \in Processes, NEW h \in Hashes, WriteRecord(p, h)
  PROVE  DiskSteps /\ SeenCoversDisk' /\ TailIsDue'
<1> DEFINE r == NewRecord(h, "whole")
           v == [id |-> r.id, hash |-> r.hash]
<1>1. r \in Records /\ r.hash = h /\ r.form = "whole" /\ r.id = written + 1
  BY NewRecordTyped DEF LogInv, NewRecord
<1>2. v \in [id : 1 .. MaxAppends, hash : Hashes] /\ v.hash = h
  BY <1>1, LogAssumption DEF WriteRecord, LogInv, TypeOK
<1> HIDE DEF r, v
<1>3. /\ tail' = Append(tail, r) /\ lines' = lines /\ handle' = [handle EXCEPT ![p] = Due(r)]
      /\ handle[p] = Opened /\ h \notin seen[p] /\ UNCHANGED <<seen, cuts>>
  BY DEF WriteRecord, r
<1>4. h \notin HashesOnDisk
  BY <1>3 DEF LogInv, SeenCoversDisk, Opened, Closed
<1>5. cuts = 0 => tail = <<>>
  BY <1>3 DEF LogInv, TailIsDue, Opened
<1>6. cuts \in Nat
  BY DEF LogInv, TypeOK
<1>7. /\ ValidText' <=> ValidText
      /\ ReadAll' = IF ~ ValidText' THEN {} ELSE IF tail = <<>> THEN ReadAll \cup {v} ELSE OnLines(lines)
      /\ ReadAll = IF ValidText THEN OnLines(lines) \cup OnLine(tail) ELSE {}
  BY <1>1, <1>3, RecordReads DEF LogInv, v
<1>8. DiskSteps
  BY <1>2, <1>3, <1>4, <1>5, <1>6, <1>7 DEF DiskSteps
<1>9. HashesOnDisk' \subseteq HashesOnDisk \cup {h}
  BY <1>2, <1>7 DEF HashesOnDisk
<1>10. handle'[p] = Due(r) /\ Due(r).record = r /\ Due(r).state = "due" /\ Due(r) # Opened
       /\ \A q \in Processes : q = p
  BY <1>3 DEF LogInv, TypeOK, Due, Opened, OneWriter
<1>11. SeenCoversDisk'
  BY <1>1, <1>3, <1>9, <1>10 DEF LogInv, SeenCoversDisk, Opened, Closed
<1>12. TailIsDue'
  BY <1>10 DEF TailIsDue
<1>. QED BY <1>8, <1>11, <1>12

\* A record cut short by a crash keeps it.
LEMMA CutRecordKeeps ==
  ASSUME OneWriter, LogInv, NEW p \in Processes, NEW h \in Hashes, NEW form \in Cuts,
         CutRecord(p, h, form)
  PROVE  DiskSteps /\ SeenCoversDisk' /\ TailIsDue'
<1> DEFINE r == NewRecord(h, form)
<1>1. r \in Records /\ r.form \in {"part", "split"}
  BY NewRecordTyped DEF LogInv, NewRecord, CutRecord
<1> HIDE DEF r
<1>2. /\ tail' = Append(tail, r) /\ lines' = lines /\ handle' = [handle EXCEPT ![p] = Closed]
      /\ cuts' = cuts + 1 /\ cuts \in Nat
  BY DEF CutRecord, r, LogInv, TypeOK
<1>3. /\ ValidText' => ValidText
      /\ ReadAll' = IF ~ ValidText' THEN {} ELSE OnLines(lines)
      /\ ReadAll = IF ValidText THEN OnLines(lines) \cup OnLine(tail) ELSE {}
  BY <1>1, <1>2, RecordReads DEF LogInv
<1>4. DiskSteps
  BY <1>2, <1>3 DEF DiskSteps
<1>5. \A q \in Processes : handle'[q] = Closed
  BY <1>2 DEF LogInv, TypeOK, OneWriter
<1>. QED BY <1>2, <1>4, <1>5 DEF SeenCoversDisk, TailIsDue

\* The newline after a record keeps it.
LEMMA WriteNewlineKeeps ==
  ASSUME OneWriter, LogInv, NEW p \in Processes, WriteNewline(p)
  PROVE  DiskSteps /\ SeenCoversDisk' /\ TailIsDue'
<1>1. ReadAll' = ReadAll /\ HashesOnDisk' = HashesOnDisk
  BY NewlineReads DEF LogInv, HashesOnDisk
<1>2. /\ tail' = <<>> /\ handle' = [handle EXCEPT ![p] = Opened] /\ cuts' = cuts
      /\ seen' = [seen EXCEPT ![p] = @ \cup {handle[p].record.hash}]
      /\ handle[p] # Closed /\ handle[p] # Opened
  BY DueTyped DEF LogInv, WriteNewline
<1>3. /\ \A q \in Processes : q = p
      /\ handle'[p] = Opened /\ seen'[p] = seen[p] \cup {handle[p].record.hash}
  BY <1>2 DEF OneWriter, LogInv, TypeOK
<1>. QED BY <1>1, <1>2, <1>3 DEF DiskSteps, LogInv, SeenCoversDisk, TailIsDue

\* The steps that write nothing keep it.
LEMMA OthersKeep ==
  ASSUME OneWriter, LogInv, NEW p \in Processes,
         \/ Open(p) \/ CutNewline(p) \/ Close(p)
         \/ \E h \in Hashes : AppendSeen(p, h)
  PROVE  DiskSteps /\ SeenCoversDisk' /\ TailIsDue'
<1>1. UNCHANGED <<lines, tail>> /\ cuts \in Nat
  BY DEF Open, CutNewline, Close, AppendSeen, LogInv, TypeOK
<1>2. ReadAll' = ReadAll /\ HashesOnDisk' = HashesOnDisk
  BY <1>1 DEF ReadAll, ValidText, Physical, HashesOnDisk
<1>3. \A q \in Processes : q = p
  BY DEF OneWriter
<1>4. CASE Open(p)
  BY <1>1, <1>2, <1>3, <1>4 DEF Open, DiskSteps, LogInv, TypeOK, SeenCoversDisk, TailIsDue, Closed, Opened
<1>5. CASE CutNewline(p)
  BY <1>1, <1>2, <1>3, <1>5 DEF CutNewline, DiskSteps, LogInv, TypeOK, SeenCoversDisk, TailIsDue
<1>6. CASE Close(p)
  BY <1>1, <1>2, <1>3, <1>6 DEF Close, DiskSteps, LogInv, TypeOK, SeenCoversDisk, TailIsDue, Closed, Opened
<1>7. CASE UNCHANGED <<handle, seen, cuts>>
  BY <1>1, <1>2, <1>7 DEF DiskSteps, LogInv, SeenCoversDisk, TailIsDue
<1>. QED BY <1>4, <1>5, <1>6, <1>7 DEF AppendSeen

\* Every step of one writer keeps the invariant, and changes the disk in one of
\* the three ways.
LEMMA LogStep == ASSUME OneWriter, LogInv, [Next]_vars PROVE LogInv' /\ DiskSteps
<1>1. DiskSteps /\ SeenCoversDisk' /\ TailIsDue'
  <2>1. CASE UNCHANGED vars
    <3>1. ReadAll' = ReadAll /\ HashesOnDisk' = HashesOnDisk
      BY <2>1 DEF vars, ReadAll, ValidText, Physical, HashesOnDisk
    <3>. QED BY <2>1, <3>1 DEF vars, DiskSteps, LogInv, SeenCoversDisk, TailIsDue
  <2>. QED BY <2>1, WriteRecordKeeps, CutRecordKeeps, WriteNewlineKeeps, OthersKeep DEF Next
<1>2. NoneDoubled'
  BY <1>1 DEF DiskSteps, LogInv, NoneDoubled, HashesOnDisk
<1>. QED BY <1>1, <1>2, TypeStep DEF LogInv

\* The log invariant, always.
LEMMA LogInvariant == ASSUME OneWriter PROVE Spec => []LogInv
BY LogInit, LogStep, PTL DEF Spec

\* With one writer no reader ever finds two verdicts for one hash.
THEOREM NoneDoubledProved == ASSUME OneWriter PROVE Spec => []NoneDoubled
<1>1. LogInv => NoneDoubled
  BY DEF LogInv
<1>. QED BY <1>1, LogInvariant, PTL

\* With one writer the file, as a reader finds it, implements VerdictLog: it
\* grows by one new hash at a time until the first cut, and after it may lose
\* verdicts but never gains a second one for a hash.
THEOREM LogRefines == ASSUME OneWriter PROVE Spec => RefinesVerdictLog
<1>1. Init => Abstract!Init
  <2>1. Init => ReadAll = {}
    BY DEF Init, ReadAll, Physical
  <2>. QED BY <2>1 DEF Init, Abstract!Init
<1>2. ASSUME LogInv, [Next]_vars PROVE [Abstract!Next]_<<ReadAll, cuts > 0>>
  <2>1. cuts \in Nat
    BY <1>2 DEF LogInv, TypeOK
  <2>2. DiskSteps
    BY <1>2, LogStep
  <2>3. CASE ReadAll' = ReadAll /\ (cuts' > 0 <=> cuts > 0)
    BY <2>3
  <2>4. ASSUME NEW v \in [id : 1 .. MaxAppends, hash : Hashes],
               v.hash \notin HashesOnDisk, ReadAll' = ReadAll \cup {v}, cuts' = cuts
        PROVE  Abstract!Next
    <3>1. \A w \in ReadAll : w.hash # v.hash
      BY <2>4 DEF HashesOnDisk
    <3>. QED BY <2>4, <3>1 DEF Abstract!Next, Abstract!Record
  <2>5. CASE ReadAll' \subseteq ReadAll /\ cuts' > 0
    BY <2>5 DEF Abstract!Next, Abstract!Damage
  <2>. QED BY <2>2, <2>3, <2>4, <2>5 DEF DiskSteps
<1>. QED BY <1>1, <1>2, LogInvariant, PTL DEF Spec, RefinesVerdictLog, Abstract!Spec

-----------------------------------------------------------------------------
(***************************************************************************)
(* The damage of a cut is bounded.                                         *)
(***************************************************************************)

\* The hashes append vouched for or will vouch for without writing them, and
\* the one whose newline is due.
Expected ==
  vouched \cup {h \in Hashes : \E p \in Processes :
                  \/ handle[p] = Opened /\ h \in seen[p]
                  \/ handle[p].state = "due" /\ (h \in seen[p] \/ h = handle[p].record.hash)}

Missing == Expected \ HashesOnDisk

\* What the next record takes along: itself, and the verdict on the open tail.
Exposed ==
  IF tail = <<>> \/ \E p \in Processes : handle[p].state = "due" THEN 0
  ELSE IF OnLine(tail) = {} THEN 1 ELSE 2

DamageInv == ValidText => IsFiniteSet(Missing) /\ Cardinality(Missing) + Exposed <= 2 * cuts

\* What no more than one element is new to is at most one larger.
LEMMA AtMostOneMore ==
  ASSUME NEW S, IsFiniteSet(S), NEW x, NEW T, T \subseteq S \cup {x}
  PROVE  IsFiniteSet(T) /\ Cardinality(S) \in Nat /\ Cardinality(T) \in Nat
         /\ Cardinality(T) <= Cardinality(S) + 1
<1>1. IsFiniteSet(S \cup {x}) /\ Cardinality(S \cup {x}) <= Cardinality(S) + 1
  <2>1. Cardinality(S) \in Nat
    BY FS_CardinalityType
  <2>2. IsFiniteSet(S \cup {x})
    BY FS_AddElement
  <2>3. CASE x \in S
    <3>1. S \cup {x} = S
      BY <2>3
    <3>. QED BY <2>1, <3>1
  <2>4. CASE x \notin S
    <3>1. Cardinality(S \cup {x}) = Cardinality(S) + 1
      BY <2>4, FS_AddElement
    <3>. QED BY <2>1, <2>2, <3>1
  <2>. QED BY <2>3, <2>4
<1>2. IsFiniteSet(T) /\ Cardinality(T) <= Cardinality(S \cup {x})
  BY <1>1, FS_Subset
<1>. QED BY <1>1, <1>2, FS_CardinalityType

\* A part of a finite set has no more elements than the set.
LEMMA NoMore ==
  ASSUME NEW S, IsFiniteSet(S), NEW T \in SUBSET S
  PROVE  IsFiniteSet(T) /\ Cardinality(S) \in Nat /\ Cardinality(T) \in Nat
         /\ Cardinality(T) <= Cardinality(S)
BY FS_Subset, FS_CardinalityType

\* A step that misses nothing new and exposes nothing more, or two for a cut.
LEMMA DamageSame ==
  ASSUME TypeOK, DamageInv, ValidText' => ValidText, Missing' \subseteq Missing,
         \/ Exposed' <= Exposed /\ cuts' = cuts
         \/ cuts' = cuts + 1
  PROVE  DamageInv'
<1> SUFFICES ASSUME ValidText' PROVE IsFiniteSet(Missing') /\ Cardinality(Missing') + Exposed' <= 2 * cuts'
  BY DEF DamageInv
<1>1. /\ Exposed \in {0, 1, 2} /\ Exposed' \in {0, 1, 2} /\ cuts \in Nat
      /\ IsFiniteSet(Missing) /\ Cardinality(Missing) + Exposed <= 2 * cuts
  BY DEF Exposed, DamageInv, TypeOK
<1>2. /\ IsFiniteSet(Missing') /\ Cardinality(Missing) \in Nat /\ Cardinality(Missing') \in Nat
      /\ Cardinality(Missing') <= Cardinality(Missing)
  BY <1>1, NoMore
<1>. QED BY <1>1, <1>2

\* What one writer expects on disk.
LEMMA ExpectedOfOne ==
  ASSUME TypeOK, OneWriter, NEW p \in Processes
  PROVE  Expected = vouched \cup (IF handle[p] = Opened THEN seen[p] ELSE {})
                      \cup (IF handle[p].state = "due" THEN seen[p] \cup {handle[p].record.hash} ELSE {})
<1>1. \A q \in Processes : q = p
  BY DEF OneWriter
<1>2. seen[p] \subseteq Hashes
  BY DEF TypeOK
<1>3. handle[p].state = "due" => handle[p].record.hash \in Hashes
  BY DueTyped
<1>. QED BY <1>1, <1>2, <1>3 DEF Expected

\* The same of the state after a step.
LEMMA ExpectedOfOnePrimed ==
  ASSUME TypeOK', OneWriter, NEW p \in Processes
  PROVE  Expected' = vouched' \cup (IF handle'[p] = Opened THEN seen'[p] ELSE {})
                      \cup (IF handle'[p].state = "due" THEN seen'[p] \cup {handle'[p].record.hash} ELSE {})
<1>1. \A q \in Processes : q = p
  BY DEF OneWriter
<1>2. seen'[p] \subseteq Hashes
  BY DEF TypeOK
<1>3. handle'[p].state = "due" => handle'[p].record.hash \in Hashes
  <2>1. handle'[p].state = "due" => handle'[p] # Closed /\ handle'[p] # Opened
    BY DEF Closed, Opened
  <2>. QED BY <2>1 DEF TypeOK, Records
<1>. QED BY <1>1, <1>2, <1>3 DEF Expected

\* A written record may miss itself and the verdict on the open tail, which is
\* what was exposed.
LEMMA WriteRecordDamages ==
  ASSUME OneWriter, LogInv, LogInv', DamageInv, NEW p \in Processes, NEW h \in Hashes,
         WriteRecord(p, h)
  PROVE  DamageInv'
<1> DEFINE r == NewRecord(h, "whole")
           v == [id |-> r.id, hash |-> r.hash]
<1>1. r \in Records /\ r.hash = h /\ r.form = "whole" /\ v.hash = h
  BY NewRecordTyped DEF LogInv, NewRecord
<1> HIDE DEF r, v
<1>2. /\ tail' = Append(tail, r) /\ lines' = lines /\ handle' = [handle EXCEPT ![p] = Due(r)]
      /\ handle[p] = Opened /\ UNCHANGED <<seen, vouched, cuts>>
  BY DEF WriteRecord, r
<1>3. /\ ValidText' <=> ValidText
      /\ ReadAll' = IF ~ ValidText' THEN {} ELSE IF tail = <<>> THEN ReadAll \cup {v} ELSE OnLines(lines)
      /\ ReadAll = IF ValidText THEN OnLines(lines) \cup OnLine(tail) ELSE {}
  BY <1>1, <1>2, RecordReads DEF LogInv, v
<1>4. /\ handle'[p] = Due(r) /\ Due(r).record = r /\ Due(r).state = "due" /\ Due(r) # Opened
      /\ handle[p].state # "due" /\ \A q \in Processes : q = p
  BY <1>2 DEF LogInv, TypeOK, Due, Opened, OneWriter
<1>5. Expected = vouched \cup seen[p]
  BY <1>2, <1>4, ExpectedOfOne DEF LogInv
<1>6. Expected' = vouched \cup seen[p] \cup {h}
  BY <1>1, <1>2, <1>4, ExpectedOfOnePrimed DEF LogInv
<1>7. Exposed' = 0
  BY <1>4 DEF Exposed
<1>. SUFFICES ASSUME ValidText
             PROVE  IsFiniteSet(Missing') /\ Cardinality(Missing') <= 2 * cuts
  BY <1>2, <1>3, <1>7, FS_CardinalityType DEF DamageInv, LogInv, TypeOK
<1>8. /\ IsFiniteSet(Missing) /\ Cardinality(Missing) + Exposed <= 2 * cuts
      /\ cuts \in Nat /\ Cardinality(Missing) \in Nat /\ Exposed \in {0, 1, 2}
  BY FS_CardinalityType DEF DamageInv, LogInv, TypeOK, Exposed
<1>9. CASE tail = <<>>
  <2>1. Missing' \subseteq Missing
    BY <1>1, <1>3, <1>5, <1>6, <1>9 DEF Missing, HashesOnDisk
  <2>. QED BY <1>8, <2>1, NoMore
<1>10. CASE tail # <<>> /\ OnLine(tail) = {}
  <2>1. Missing' \subseteq Missing \cup {h}
    BY <1>3, <1>5, <1>6, <1>10 DEF Missing, HashesOnDisk
  <2>2. Exposed = 1
    BY <1>4, <1>10 DEF Exposed
  <2>3. /\ IsFiniteSet(Missing') /\ Cardinality(Missing') \in Nat
        /\ Cardinality(Missing') <= Cardinality(Missing) + 1
    BY <1>8, <2>1, AtMostOneMore
  <2>. QED BY <1>8, <2>2, <2>3
<1>11. CASE tail # <<>> /\ OnLine(tail) # {}
  <2>1. PICK w : OnLine(tail) = {w}
    BY <1>11 DEF OnLine
  <2> DEFINE S == Missing \cup {w.hash}
  <2>2. Missing' \subseteq S \cup {h}
    BY <1>3, <1>5, <1>6, <1>11, <2>1 DEF Missing, HashesOnDisk
  <2>3. Exposed = 2
    BY <1>4, <1>11 DEF Exposed
  <2>4. IsFiniteSet(S) /\ Cardinality(S) \in Nat /\ Cardinality(S) <= Cardinality(Missing) + 1
    BY <1>8, AtMostOneMore
  <2> HIDE DEF S
  <2>5. /\ IsFiniteSet(Missing') /\ Cardinality(Missing') \in Nat
        /\ Cardinality(Missing') <= Cardinality(S) + 1
    BY <2>2, <2>4, AtMostOneMore
  <2>. QED BY <1>8, <2>3, <2>4, <2>5
<1>. QED BY <1>9, <1>10, <1>11

\* A cut record loses at most the verdict on the open tail, and exposes itself.
LEMMA CutRecordDamages ==
  ASSUME OneWriter, LogInv, LogInv', DamageInv, NEW p \in Processes, NEW h \in Hashes,
         NEW form \in Cuts, CutRecord(p, h, form)
  PROVE  DamageInv'
<1> DEFINE r == NewRecord(h, form)
<1>1. r \in Records /\ r.form \in {"part", "split"}
  BY NewRecordTyped DEF LogInv, NewRecord, CutRecord
<1> HIDE DEF r
<1>2. /\ tail' = Append(tail, r) /\ lines' = lines /\ handle' = [handle EXCEPT ![p] = Closed]
      /\ handle[p] = Opened /\ cuts' = cuts + 1 /\ UNCHANGED <<seen, vouched>>
  BY DEF CutRecord, r
<1>3. /\ ValidText' => ValidText
      /\ ReadAll' = IF ~ ValidText' THEN {} ELSE OnLines(lines)
      /\ ReadAll = IF ValidText THEN OnLines(lines) \cup OnLine(tail) ELSE {}
  BY <1>1, <1>2, RecordReads DEF LogInv
<1>4. handle'[p] = Closed /\ Closed.state # "due" /\ Closed # Opened /\ Opened.state # "due"
  BY <1>2 DEF LogInv, TypeOK, Closed, Opened
<1>5. Expected = vouched \cup seen[p] /\ Expected' = vouched
  BY <1>2, <1>4, ExpectedOfOne, ExpectedOfOnePrimed DEF LogInv
<1>6. Exposed' <= 1
  <2>1. OnLine(tail') = {}
    BY <1>1, <1>2, OneMoreRecord DEF LogInv, TypeOK
  <2>. QED BY <2>1 DEF Exposed
<1>. SUFFICES ASSUME ValidText, ValidText'
             PROVE  IsFiniteSet(Missing') /\ Cardinality(Missing') + Exposed' <= 2 * (cuts + 1)
  BY <1>2, <1>3 DEF DamageInv
<1>7. /\ IsFiniteSet(Missing) /\ Cardinality(Missing) + Exposed <= 2 * cuts
      /\ cuts \in Nat /\ Exposed \in {0, 1, 2} /\ Exposed' \in {0, 1, 2}
  BY DEF DamageInv, LogInv, TypeOK, Exposed
<1>8. \E x : Missing' \subseteq Missing \cup {x}
  <2>1. CASE OnLine(tail) = {}
    BY <1>3, <1>5, <2>1 DEF Missing, HashesOnDisk
  <2>2. CASE OnLine(tail) # {}
    <3>1. PICK w : OnLine(tail) = {w}
      BY <2>2 DEF OnLine
    <3>2. Missing' \subseteq Missing \cup {w.hash}
      BY <1>3, <1>5, <3>1 DEF Missing, HashesOnDisk
    <3>. QED BY <3>2
  <2>. QED BY <2>1, <2>2
<1>9. /\ IsFiniteSet(Missing') /\ Cardinality(Missing) \in Nat /\ Cardinality(Missing') \in Nat
      /\ Cardinality(Missing') <= Cardinality(Missing) + 1
  BY <1>7, <1>8, AtMostOneMore
<1>. QED BY <1>6, <1>7, <1>9

\* The other steps leave the text alone, or end a line of it.
LEMMA OthersDamageNothing ==
  ASSUME OneWriter, LogInv, LogInv', DamageInv, NEW p \in Processes,
         \/ Open(p) \/ WriteNewline(p) \/ CutNewline(p) \/ Close(p)
         \/ \E h \in Hashes : AppendSeen(p, h)
  PROVE  DamageInv'
<1>1. ReadAll' = ReadAll /\ HashesOnDisk' = HashesOnDisk /\ (ValidText' <=> ValidText)
  <2>1. CASE WriteNewline(p)
    BY <2>1, NewlineReads DEF LogInv, HashesOnDisk
  <2>2. CASE UNCHANGED <<lines, tail>>
    BY <2>2 DEF ReadAll, ValidText, Physical, HashesOnDisk
  <2>. QED BY <2>1, <2>2 DEF Open, CutNewline, Close, AppendSeen
<1>2. \A q \in Processes : q = p
  BY DEF OneWriter
<1>3. Closed.state # "due" /\ Closed # Opened /\ Opened.state # "due"
  BY DEF Closed, Opened
<1>4. DOMAIN handle = Processes /\ seen \in [Processes -> SUBSET Hashes]
  BY DEF LogInv, TypeOK
<1> USE ExpectedOfOne, ExpectedOfOnePrimed DEF LogInv
<1>5. CASE Open(p)
  <2>1. handle[p] = Closed /\ handle'[p] = Opened /\ seen'[p] = HashesOnDisk
        /\ UNCHANGED <<tail, vouched, cuts>>
    BY <1>4, <1>5 DEF Open
  <2>2. Missing' \subseteq Missing
    BY <1>1, <1>3, <2>1 DEF Missing
  <2>3. Exposed' = Exposed
    BY <1>2, <1>3, <2>1 DEF Exposed
  <2>. QED BY <1>1, <2>1, <2>2, <2>3, DamageSame DEF Exposed
<1>6. CASE WriteNewline(p)
  <2>1. /\ handle[p].state = "due" /\ handle'[p] = Opened /\ handle[p] # Opened
        /\ seen'[p] = seen[p] \cup {handle[p].record.hash}
        /\ vouched' = vouched \cup {handle[p].record.hash}
        /\ tail' = <<>> /\ cuts' = cuts
    BY <1>3, <1>4, <1>6 DEF WriteNewline
  <2>2. Missing' \subseteq Missing
    BY <1>1, <1>3, <2>1 DEF Missing
  <2>3. Exposed' = 0 /\ Exposed = 0
    BY <2>1 DEF Exposed
  <2>. QED BY <1>1, <2>1, <2>2, <2>3, DamageSame
<1>7. CASE CutNewline(p)
  <2>1. handle'[p] = Closed /\ vouched' = vouched /\ cuts' = cuts + 1
    BY <1>4, <1>7 DEF CutNewline
  <2>2. Missing' \subseteq Missing
    BY <1>1, <1>3, <2>1 DEF Missing
  <2>. QED BY <1>1, <2>1, <2>2, DamageSame
<1>8. CASE Close(p)
  <2>1. handle[p] = Opened /\ handle'[p] = Closed /\ UNCHANGED <<tail, vouched, cuts>>
    BY <1>4, <1>8 DEF Close
  <2>2. Missing' \subseteq Missing
    BY <1>1, <1>3, <2>1 DEF Missing
  <2>3. Exposed' = Exposed
    BY <1>2, <1>3, <2>1 DEF Exposed
  <2>. QED BY <1>1, <2>1, <2>2, <2>3, DamageSame DEF Exposed
<1>9. ASSUME NEW h \in Hashes, AppendSeen(p, h) PROVE DamageInv'
  <2>1. handle[p] = Opened /\ h \in seen[p] /\ vouched' = vouched \cup {h}
        /\ UNCHANGED <<handle, seen, tail, cuts>>
    BY <1>9 DEF AppendSeen
  <2>2. Missing' \subseteq Missing
    BY <1>1, <1>3, <2>1 DEF Missing
  <2>3. Exposed' = Exposed
    BY <2>1 DEF Exposed
  <2>. QED BY <1>1, <2>1, <2>2, <2>3, DamageSame DEF Exposed
<1>. QED BY <1>5, <1>6, <1>7, <1>8, <1>9

\* The damage, at the start.
LEMMA DamageInit == Init => DamageInv
<1> SUFFICES ASSUME Init PROVE DamageInv
  OBVIOUS
<1>1. Expected = {}
  BY DEF Init, Expected, Closed, Opened
<1>2. IsFiniteSet(Missing) /\ Cardinality(Missing) = 0
  BY <1>1, FS_EmptySet DEF Missing
<1>3. Exposed = 0 /\ cuts = 0
  BY DEF Init, Exposed
<1>. QED BY <1>2, <1>3 DEF DamageInv

\* The damage, at every step.
LEMMA DamageStep == ASSUME OneWriter, LogInv, LogInv', DamageInv, [Next]_vars PROVE DamageInv'
<1>1. CASE UNCHANGED vars
  BY <1>1 DEF vars, DamageInv, Missing, Expected, Exposed, OnLine, Whole, HashesOnDisk, ReadAll, ValidText, Physical
<1>. QED BY <1>1, WriteRecordDamages, CutRecordDamages, OthersDamageNothing DEF Next

\* With one writer, of the hashes append returned Ok for, a reader misses at
\* most two for each write that was cut short, whatever is written after it.
THEOREM DamageBoundedProved == ASSUME OneWriter PROVE Spec => []DamageBounded
<1>1. LogInv /\ DamageInv => DamageBounded
  <2> SUFFICES ASSUME LogInv, DamageInv, ValidText
               PROVE  Cardinality(vouched \ HashesOnDisk) <= 2 * cuts
    BY DEF DamageBounded
  <2>1. vouched \ HashesOnDisk \in SUBSET Missing
    BY DEF Missing, Expected
  <2>2. IsFiniteSet(Missing) /\ Cardinality(Missing) + Exposed <= 2 * cuts
        /\ cuts \in Nat /\ Exposed \in {0, 1, 2}
    BY DEF DamageInv, LogInv, TypeOK, Exposed
  <2>. QED BY <2>1, <2>2, NoMore
<1>. QED BY <1>1, LogInvariant, DamageInit, DamageStep, PTL DEF Spec
=============================================================================
