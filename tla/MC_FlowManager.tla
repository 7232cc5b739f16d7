--------------------------- MODULE MC_FlowManager ---------------------------
EXTENDS FlowManager

CONSTANTS c1, c2
MCCallers == {c1, c2}
CallerSymmetry == Permutations(MCCallers)
=============================================================================
