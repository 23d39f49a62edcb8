----------------------------- MODULE FateProofs -----------------------------
(***************************************************************************)
(* The fate of admissions, as facts about one priority set s, one verdict  *)
(* stream t, the number n of admissions and a manifest m: what Engine's    *)
(* FateInv says of its variables, and what an admission and a drain keep.  *)
(* EngineProofs uses it for the engine in memory, StateFileProofs for the  *)
(* engine of the state file and for every copy a command works on.         *)
(***************************************************************************)
EXTENDS Integers, WorkUnit, Ladder, TLAPS

\* Tickets were issued.
Issued(s, t, n) ==
  /\ \A i \in DOMAIN s : s[i].ticket \in 1 .. n
  /\ \A i \in DOMAIN t : t[i].ticket \in 1 .. n

\* No admission is queued twice.
Distinct(s) == \A i, j \in DOMAIN s : s[i].ticket = s[j].ticket => i = j

\* What was answered and is still queued failed a light run and moved up.
OpenStill(x, ev, m) ==
  /\ ev.verdict = "escalate" /\ ev.tierRan = "light"
  /\ x.ladder >= 1 /\ MissingFor(m, x.unit) = {}

AllOpen(s, t, m) ==
  \A i \in DOMAIN s : \A j \in DOMAIN t : s[i].ticket = t[j].ticket => OpenStill(s[i], t[j], m)

\* Every admission is queued or has a final verdict.
Accounted(s, t, n) ==
  \A k \in 1 .. n :
    \/ \E i \in DOMAIN s : s[i].ticket = k
    \/ \E i \in DOMAIN t : t[i].ticket = k /\ Final(t[i])

\* The verdicts of one admission climb the ladder.
Climbs(t) ==
  \A i, j \in DOMAIN t :
    i < j /\ t[i].ticket = t[j].ticket =>
      /\ t[i].verdict = "escalate" /\ t[i].tierRan = "light"
      /\ t[j].tierRan = "heavy"

Fate(s, t, n, m) ==
  Issued(s, t, n) /\ Distinct(s) /\ AllOpen(s, t, m) /\ Accounted(s, t, n) /\ Climbs(t)

\* The drained unit leaves the set, or is queued again one binding up.
Requeued(s, again) == IF again THEN Append(Tail(s), OneBindingUp(s[1])) ELSE Tail(s)

-----------------------------------------------------------------------------
\* The k-th entry of what a drain leaves was the (k+1)-th; the last one may be
\* the drained unit again.
LEMMA RequeuedShape ==
  ASSUME NEW E, NEW s \in Seq(E), s # <<>>, NEW again \in BOOLEAN
  PROVE  LET r == Requeued(s, again)
             n == Len(s)
         IN  /\ n \in Nat /\ n >= 1 /\ DOMAIN s = 1 .. n
             /\ DOMAIN r = IF again THEN 1 .. n ELSE 1 .. n - 1
             /\ \A k \in 1 .. n - 1 : k + 1 \in DOMAIN s /\ r[k] = s[k + 1]
             /\ again => r[n] = OneBindingUp(s[1])
<1> DEFINE n == Len(s)
           rest == Tail(s)
           x == OneBindingUp(s[1])
<1>1. n \in Nat /\ n >= 1 /\ DOMAIN s = 1 .. n
  OBVIOUS
<1>2. /\ rest \in Seq(E) /\ Len(rest) = n - 1 /\ DOMAIN rest = 1 .. n - 1
      /\ \A k \in 1 .. n - 1 : k + 1 \in DOMAIN s /\ rest[k] = s[k + 1]
  BY <1>1
<1>3. rest \in Seq(E \cup {x})
  BY <1>2
<1> DEFINE r == Append(rest, x)
<1> HIDE DEF rest, x
<1>4. /\ DOMAIN r = 1 .. n
      /\ \A k \in 1 .. n - 1 : r[k] = rest[k]
      /\ r[n] = x
  <2>1. Len(r) = (n - 1) + 1
    BY <1>2, <1>3
  <2>2. DOMAIN r = 1 .. n
    <3>1. r \in Seq(E \cup {x})
      BY <1>3
    <3>2. Len(r) = n
      BY <1>1, <2>1
    <3> HIDE DEF r, n
    <3>. QED BY <3>1, <3>2
  <2>3. \A k \in 1 .. Len(rest) : r[k] = rest[k]
    BY <1>3
  <2>4. r[Len(rest) + 1] = x
    BY <1>3
  <2>5. Len(rest) + 1 = n
    BY <1>1, <1>2
  <2> HIDE DEF r, n
  <2>. QED BY <1>2, <2>2, <2>3, <2>4, <2>5
<1>5. Requeued(s, again) = IF again THEN r ELSE rest
  BY DEF Requeued, rest, x
<1> HIDE DEF r, n
<1>6. CASE again
  BY <1>1, <1>2, <1>4, <1>5, <1>6 DEF n, x
<1>7. CASE ~ again
  BY <1>1, <1>2, <1>5, <1>7 DEF n
<1>. QED BY <1>6, <1>7

\* An admission takes a ticket no queued unit and no event has.
LEMMA FateQueued ==
  ASSUME NEW E, NEW s \in Seq(E), NEW t, NEW n \in Nat, NEW m, NEW x \in E,
         Fate(s, t, n, m), x.ticket = n + 1
  PROVE  Fate(Append(s, x), t, n + 1, m)
<1> DEFINE r == Append(s, x)
           l == Len(s)
<1>1. /\ l \in Nat /\ DOMAIN s = 1 .. l /\ DOMAIN r = 1 .. l + 1
      /\ \A k \in 1 .. l : r[k] = s[k]
      /\ r[l + 1] = x
  OBVIOUS
<1> HIDE DEF r, l
<1>2. Issued(r, t, n + 1)
  BY <1>1 DEF Fate, Issued
<1>3. Distinct(r)
  BY <1>1 DEF Fate, Issued, Distinct
<1>4. AllOpen(r, t, m)
  <2>. SUFFICES ASSUME NEW i \in 1 .. l + 1, NEW j \in DOMAIN t, r[i].ticket = t[j].ticket
                PROVE  OpenStill(r[i], t[j], m)
    BY <1>1 DEF AllOpen
  <2>1. i \in 1 .. l
    BY <1>1 DEF Fate, Issued
  <2>. QED BY <1>1, <2>1 DEF Fate, AllOpen
<1>5. Accounted(r, t, n + 1)
  <2>. SUFFICES ASSUME NEW k \in 1 .. n + 1
                PROVE  \/ \E i \in 1 .. l + 1 : r[i].ticket = k
                       \/ \E i \in DOMAIN t : t[i].ticket = k /\ Final(t[i])
    BY <1>1 DEF Accounted
  <2>1. CASE k = n + 1
    BY <1>1, <2>1
  <2>2. CASE k # n + 1
    <3>1. k \in 1 .. n
      BY <2>2
    <3>. QED BY <1>1, <3>1 DEF Fate, Accounted
  <2>. QED BY <2>1, <2>2
<1>. QED BY <1>2, <1>3, <1>4, <1>5 DEF Fate, r

\* A drain answers the front unit with a ticket only that unit holds: a final
\* verdict takes it off the set, a failed light run leaves it queued, higher up.
LEMMA FateDrained ==
  ASSUME NEW E, NEW s \in Seq(E), NEW V, NEW t \in Seq(V), NEW n \in Nat, NEW m,
         NEW ev \in V, NEW again \in BOOLEAN,
         Fate(s, t, n, m), s # <<>>, s[1].ladder \in Nat,
         ev.ticket = s[1].ticket,
         MissingFor(m, s[1].unit) # {} \/ s[1].ladder = 0 \/ ev.tierRan = "heavy",
         ~ again => Final(ev),
         again => /\ ev.verdict = "escalate" /\ ev.tierRan = "light"
                  /\ MissingFor(m, s[1].unit) = {}
  PROVE  Fate(Requeued(s, again), Append(t, ev), n, m)
<1> DEFINE l == Len(s)
           k == Len(t)
           q == s[1]
           r == Requeued(s, again)
           u == Append(t, ev)
<1>1. /\ l \in Nat /\ l >= 1 /\ DOMAIN s = 1 .. l
      /\ DOMAIN r = IF again THEN 1 .. l ELSE 1 .. l - 1
      /\ \A i \in 1 .. l - 1 : i + 1 \in DOMAIN s /\ r[i] = s[i + 1]
      /\ again => r[l] = OneBindingUp(q)
  BY RequeuedShape
<1>2. /\ k \in Nat /\ DOMAIN t = 1 .. k /\ DOMAIN u = 1 .. k + 1
      /\ \A i \in 1 .. k : u[i] = t[i]
      /\ u[k + 1] = ev
  OBVIOUS
<1>3. /\ OneBindingUp(q).ticket = q.ticket /\ OneBindingUp(q).unit = q.unit
      /\ OneBindingUp(q).ladder >= 1
  BY DEF OneBindingUp
<1>4. /\ 1 \in DOMAIN s /\ s[1] = q
      /\ \A i \in DOMAIN r : \/ i \in 1 .. l - 1
                             \/ i = l /\ again
  BY <1>1
<1> HIDE DEF l, k, q, r, u
<1>5. Issued(r, u, n)
  <2>1. q.ticket \in 1 .. n /\ ev.ticket \in 1 .. n
    BY <1>4 DEF Fate, Issued
  <2>2. \A i \in DOMAIN r : r[i].ticket \in 1 .. n
    BY <1>1, <1>3, <1>4, <2>1 DEF Fate, Issued
  <2>3. \A i \in DOMAIN u : u[i].ticket \in 1 .. n
    BY <1>2, <2>1 DEF Fate, Issued
  <2>. QED BY <2>2, <2>3 DEF Issued
<1>6. Distinct(r)
  <2> DEFINE old(i) == IF i \in 1 .. l - 1 THEN i + 1 ELSE 1
  <2>1. \A i \in DOMAIN r : old(i) \in DOMAIN s /\ r[i].ticket = s[old(i)].ticket
    BY <1>1, <1>3, <1>4
  <2>2. \A i, j \in DOMAIN r : old(i) = old(j) => i = j
    BY <1>1, <1>4
  <2> HIDE DEF old
  <2>3. ASSUME NEW i \in DOMAIN r, NEW j \in DOMAIN r, r[i].ticket = r[j].ticket
        PROVE  i = j
    <3>1. old(i) = old(j)
      BY <2>1, <2>3 DEF Fate, Distinct
    <3>. QED BY <2>2, <3>1
  <2>. QED BY <2>3 DEF Distinct
<1>7. AllOpen(r, u, m)
  <2>. SUFFICES ASSUME NEW i \in DOMAIN r, NEW j \in DOMAIN u, r[i].ticket = u[j].ticket
                PROVE  OpenStill(r[i], u[j], m)
    BY DEF AllOpen
  <2>0. \A a \in DOMAIN s : \A b \in DOMAIN t : s[a].ticket = t[b].ticket => OpenStill(s[a], t[b], m)
    BY DEF Fate, AllOpen
  <2>1. CASE j \in DOMAIN t
    <3>1. u[j] = t[j]
      BY <1>2, <2>1
    <3>2. CASE i \in 1 .. l - 1
      BY <1>1, <2>0, <2>1, <3>1, <3>2
    <3>3. CASE i = l /\ again
      <4>1. r[i] = OneBindingUp(q) /\ s[1].ticket = t[j].ticket
        BY <1>1, <1>3, <1>4, <3>1, <3>3
      <4>2. OpenStill(s[1], t[j], m)
        BY <1>4, <2>0, <2>1, <4>1
      <4>. QED BY <1>3, <1>4, <3>1, <4>1, <4>2 DEF OpenStill
    <3>. QED BY <1>4, <3>2, <3>3
  <2>2. CASE j = k + 1
    <3>1. ~ (i \in 1 .. l - 1)
      <4>. SUFFICES ASSUME i \in 1 .. l - 1 PROVE FALSE
        OBVIOUS
      <4>1. s[i + 1].ticket = s[1].ticket /\ i + 1 \in DOMAIN s
        BY <1>1, <1>2, <2>2
      <4>2. i + 1 = 1
        BY <1>4, <4>1 DEF Fate, Distinct
      <4>. QED BY <1>1, <4>2
    <3>2. i = l /\ again
      BY <1>4, <3>1
    <3>. QED BY <1>1, <1>2, <1>3, <1>4, <2>2, <3>2 DEF OpenStill
  <2>. QED BY <1>2, <2>1, <2>2
<1>8. Accounted(r, u, n)
  <2>. SUFFICES ASSUME NEW a \in 1 .. n
                PROVE  \/ \E i \in DOMAIN r : r[i].ticket = a
                       \/ \E i \in DOMAIN u : u[i].ticket = a /\ Final(u[i])
    BY DEF Accounted
  <2>1. CASE \E i \in DOMAIN t : t[i].ticket = a /\ Final(t[i])
    <3>1. PICK i \in DOMAIN t : t[i].ticket = a /\ Final(t[i])
      BY <2>1
    <3>2. i \in DOMAIN u /\ u[i] = t[i]
      BY <1>2
    <3>. QED BY <3>1, <3>2
  <2>2. CASE \E i \in DOMAIN s : s[i].ticket = a
    <3>1. PICK i \in DOMAIN s : s[i].ticket = a
      BY <2>2
    <3>2. CASE i = 1
      <4>1. q.ticket = a
        BY <1>4, <3>1, <3>2
      <4>2. CASE ~ again
        <5>1. k + 1 \in DOMAIN u /\ u[k + 1].ticket = a /\ Final(u[k + 1])
          BY <1>2, <1>4, <4>1, <4>2
        <5>. QED BY <5>1
      <4>3. CASE again
        <5>1. l \in DOMAIN r /\ r[l].ticket = a
          BY <1>1, <1>3, <4>1, <4>3
        <5>. QED BY <5>1
      <4>. QED BY <4>2, <4>3
    <3>3. CASE i # 1
      <4>1. i - 1 \in 1 .. l - 1 /\ (i - 1) + 1 = i
        BY <1>1, <3>3
      <4>2. i - 1 \in DOMAIN r /\ r[i - 1].ticket = a
        BY <1>1, <3>1, <4>1
      <4>. QED BY <4>2
    <3>. QED BY <3>2, <3>3
  <2>. QED BY <2>1, <2>2 DEF Fate, Accounted
<1>9. Climbs(u)
  <2>. SUFFICES ASSUME NEW i \in DOMAIN u, NEW j \in DOMAIN u, i < j, u[i].ticket = u[j].ticket
                PROVE  /\ u[i].verdict = "escalate" /\ u[i].tierRan = "light"
                       /\ u[j].tierRan = "heavy"
    BY DEF Climbs
  <2>1. i \in DOMAIN t /\ u[i] = t[i]
    BY <1>2
  <2>2. CASE j \in DOMAIN t
    BY <1>2, <2>1, <2>2 DEF Fate, Climbs
  <2>3. CASE j = k + 1
    <3>1. s[1].ticket = t[i].ticket
      BY <1>2, <2>1, <2>3
    <3>2. OpenStill(s[1], t[i], m)
      BY <1>4, <2>1, <3>1 DEF Fate, AllOpen
    <3>. QED BY <1>2, <2>1, <2>3, <3>2 DEF OpenStill
  <2>. QED BY <1>2, <2>2, <2>3
<1>. QED BY <1>5, <1>6, <1>7, <1>8, <1>9 DEF Fate, r, u
\* Every admission has exactly one fate.
ExactlyOne(s, t, n) ==
  /\ Distinct(s)
  /\ \A i, j \in DOMAIN t : Final(t[i]) /\ Final(t[j]) /\ t[i].ticket = t[j].ticket => i = j
  /\ \A k \in 1 .. n :
        (\E i \in DOMAIN s : s[i].ticket = k) <=> ~ \E i \in DOMAIN t : t[i].ticket = k /\ Final(t[i])

\* A queued admission has no final verdict, and two final verdicts never share
\* an admission: the earlier would have to be a failed light run.
LEMMA FateIsOne ==
  ASSUME NEW V, NEW t \in Seq(V), NEW s, NEW n, NEW m, Fate(s, t, n, m)
  PROVE  ExactlyOne(s, t, n)
<1>1. \A i \in DOMAIN t : t[i].verdict = "escalate" /\ t[i].tierRan = "light" => ~ Final(t[i])
  BY DEF Final
<1>2. ASSUME NEW i \in DOMAIN t, NEW j \in DOMAIN t,
             Final(t[i]), Final(t[j]), t[i].ticket = t[j].ticket
      PROVE  i = j
  <2>1. ~ (i < j) /\ ~ (j < i)
    BY <1>1, <1>2 DEF Fate, Climbs
  <2>. QED BY <2>1
<1>3. \A k \in 1 .. n :
        (\E i \in DOMAIN s : s[i].ticket = k) <=> ~ \E i \in DOMAIN t : t[i].ticket = k /\ Final(t[i])
  BY <1>1 DEF Fate, AllOpen, OpenStill, Accounted
<1>. QED BY <1>2, <1>3 DEF Fate, ExactlyOne
=============================================================================
