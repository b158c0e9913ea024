----------------------------- MODULE MCShellTxn -----------------------------
(* Small instances of ShellTxn for TLC.                                    *)
EXTENDS ShellTxn

CONSTANTS r1, r2

(* Commands that want the same rows in opposite orders, which can make     *)
(* victims of one another and of a client's transaction.                   *)
MCCrossed == {<<r1, r2>>, <<r2, r1>>}

(* The row that txn_create reads.                                          *)
MCFlags == {<<r1>>}

MCRows == {r1, r2}
=============================================================================
