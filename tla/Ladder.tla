------------------------------- MODULE Ladder -------------------------------
(***************************************************************************)
(* The escalation ladder: light, then heavy, and no third rung.  A queue   *)
(* entry is a unit with the two fields escalation rewrites, and a ticket,  *)
(* the number of the admission it comes from, which the code does not      *)
(* keep.                                                                   *)
(***************************************************************************)
EXTENDS Naturals

MAX_LADDER == 1

Tiers == {"light", "heavy"}

TierRan(e) == IF e.ladder = 0 THEN "light" ELSE "heavy"

\* Seeded bug: an off-by-one in the ladder guard.
HasHeadroomAtTop(e) == e.ladder <= MAX_LADDER

HasHeadroom(e) == e.ladder < MAX_LADDER

\* Only the ladder position and the tier change.
OneBindingUp(e) ==
  [unit |-> e.unit, ladder |-> e.ladder + 1, tier |-> "heavy", ticket |-> e.ticket]

\* A verdict after which the engine never sees the unit again.
Final(v) ==
  \/ v.verdict \in {"accepted", "not-admitted"}
  \/ v.verdict = "escalate" /\ v.tierRan = "heavy"
=============================================================================
