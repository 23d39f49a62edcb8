---------------------------- MODULE MCDurableLog ----------------------------
(***************************************************************************)
(* Small instances of DurableLog.                                          *)
(***************************************************************************)
EXTENDS DurableLog, TLC

HashSymmetry == Permutations(Hashes)
=============================================================================
