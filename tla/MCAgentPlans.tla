---------------------------- MODULE MCAgentPlans ----------------------------
EXTENDS AgentPlans, TLC

Symmetry == Permutations(Files)
=============================================================================
