------------------------------ MODULE MCTxPath ------------------------------
(* Instances of TxPath for TLC: rates with a bucket size each.              *)
EXTENDS TxPath

ThreeRates == {<<4, 3>>, <<3, 2>>, <<3, 0>>}
=============================================================================
