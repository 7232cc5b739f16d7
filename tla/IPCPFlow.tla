------------------------------- MODULE IPCPFlow -------------------------------
(***************************************************************************)
(* What a flow of an IPC process promises (rinad ipcp/flow-allocator.h,    *)
(* class Flow): its life cycle over Flow::IPCPFlowState and the port id it *)
(* holds.  A port id is held from the allocation request until the flow is *)
(* DEALLOCATED: after the 2*MPL wait if it was allocated, at once if its   *)
(* allocation failed.  No two flows that hold a port ever hold the same    *)
(* one.  This is the abstract specification that FlowAllocatorInstance      *)
(* implements.                                                             *)
(***************************************************************************)
EXTENDS Naturals

CONSTANTS
    Flows,      \* the flows of the IPC process
    PortIds     \* port ids a flow can be given

VARIABLES
    flowState,  \* Flow::state_
    flowPort    \* Flow::source_port_id_ (the local port id)

vars == <<flowState, flowPort>>

NoPort == 0

\* Flow::IPCPFlowState
FlowStates == {"EMPTY", "ALLOCATION_IN_PROGRESS", "ALLOCATED",
               "WAITING_2_MPL_BEFORE_TEARING_DOWN", "DEALLOCATED"}

HoldsPort(f) == flowState[f] \notin {"EMPTY", "DEALLOCATED"}

Init ==
    /\ flowState = [f \in Flows |-> "EMPTY"]
    /\ flowPort = [f \in Flows |-> NoPort]

\* A flow is requested on a port no live flow holds.
Request(f, p) ==
    /\ flowState[f] = "EMPTY"
    /\ \A g \in Flows : HoldsPort(g) => flowPort[g] # p
    /\ flowState' = [flowState EXCEPT ![f] = "ALLOCATION_IN_PROGRESS"]
    /\ flowPort' = [flowPort EXCEPT ![f] = p]

\* A request from a peer is refused: the flow is given a free port id and
\* gives it back at once.
Refuse(f, p) ==
    /\ flowState[f] = "EMPTY"
    /\ \A g \in Flows : HoldsPort(g) => flowPort[g] # p
    /\ flowState' = [flowState EXCEPT ![f] = "DEALLOCATED"]
    /\ flowPort' = [flowPort EXCEPT ![f] = p]

Allocate(f) ==
    /\ flowState[f] = "ALLOCATION_IN_PROGRESS"
    /\ flowState' = [flowState EXCEPT ![f] = "ALLOCATED"]
    /\ UNCHANGED flowPort

\* The allocation fails for good; the port is given back.
Fail(f) ==
    /\ flowState[f] = "ALLOCATION_IN_PROGRESS"
    /\ flowState' = [flowState EXCEPT ![f] = "DEALLOCATED"]
    /\ UNCHANGED flowPort

Deallocate(f) ==
    /\ flowState[f] = "ALLOCATED"
    /\ flowState' = [flowState EXCEPT ![f] = "WAITING_2_MPL_BEFORE_TEARING_DOWN"]
    /\ UNCHANGED flowPort

TearDown(f) ==
    /\ flowState[f] = "WAITING_2_MPL_BEFORE_TEARING_DOWN"
    /\ flowState' = [flowState EXCEPT ![f] = "DEALLOCATED"]
    /\ UNCHANGED flowPort

Next ==
    \/ \E f \in Flows, p \in PortIds : Request(f, p) \/ Refuse(f, p)
    \/ \E f \in Flows : Allocate(f) \/ Fail(f) \/ Deallocate(f) \/ TearDown(f)

Spec == Init /\ [][Next]_vars

\* No two flows that hold a port hold the same port id.
PortsExclusive ==
    \A f, g \in Flows : f # g /\ HoldsPort(f) /\ HoldsPort(g) => flowPort[f] # flowPort[g]
=============================================================================
