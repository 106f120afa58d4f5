---------------------------- MODULE MCExtraction ----------------------------
EXTENDS Extraction, Sequences

(* The user looks at the second file first, or at the last.                  *)
TwoOrders == {<<2, 3, 1>>, <<3, 1, 2>>}
=============================================================================
