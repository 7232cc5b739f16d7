--------------------------- MODULE MC_FlowAllocation ---------------------------
EXTENDS FlowAllocation

CONSTANTS l1, l2, r1
MCLocalReqs == {l1, l2}
MCRemoteReqs == {r1}
MCFAIs == MCLocalReqs \cup MCRemoteReqs
=============================================================================
