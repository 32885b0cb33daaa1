-------------------------- MODULE MCLedgerSchema ----------------------------
(***************************************************************************)
(* Values that a configuration file cannot write down.                     *)
(***************************************************************************)
EXTENDS LedgerSchema, TLC

OpenerSymmetry == Permutations(Openers)
=============================================================================
