------------------------------ MODULE MCTxnIds ------------------------------
(* A small instance of TxnIds for TLC.                                     *)
EXTENDS TxnIds

CONSTANTS r1, r2

MCRows == {r1, r2}

(* Two commands that can deadlock.                                         *)
MCCrossed == {<<r1, r2>>, <<r2, r1>>}

(* The row that txn_create reads.                                          *)
MCFlags == {<<r1>>}
=============================================================================
