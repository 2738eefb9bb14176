------------------------------ MODULE MCTransfer ------------------------------
(***************************************************************************)
(* Values for TLC.                                                          *)
(***************************************************************************)
EXTENDS TransferProperties, TLC

MCFileOf == [n \in Names |-> n]
MCSymmetry == Permutations(Runs)
=============================================================================
