------------------------------- MODULE MCTxn -------------------------------
EXTENDS Txn, TLC

Symmetry == Permutations(Files) \cup Permutations(Hosts)
=============================================================================
