----------------------------- MODULE MCResidency -----------------------------
(***************************************************************************)
(* Instances of Residency: every fault, and a failed retirement alone.     *)
(***************************************************************************)
EXTENDS Residency

AllFaults == FaultKinds
OnlyRetire == {"retire"}
=============================================================================
