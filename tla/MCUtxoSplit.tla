------------------------------ MODULE MCUtxoSplit ------------------------------
(* Balances and numbers of parts for the run of UtxoSplit.                 *)
EXTENDS UtxoSplit

SmallTotals == 0..40
SmallNums == -1..12

=============================================================================
