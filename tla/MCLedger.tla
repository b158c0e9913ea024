------------------------------ MODULE MCLedger ------------------------------
(* Small instances of Ledger for TLC.                                      *)
EXTENDS Ledger, TLC

MCUnit == {One}

MCFlagSets == {{}, {"issuer"}, {"super"}}

(* Accounts other than Root, and notes, are interchangeable.               *)
MCSymmetry == Permutations(Acct \ {Root}) \cup Permutations(Note)
=============================================================================
