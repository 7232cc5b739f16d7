------------------------- MODULE FlowAllocatorInstance -------------------------
(***************************************************************************)
(* The flow allocator instances (FAIs) of an IPC process (rinad            *)
(* ipcp/flow-allocator.h: FlowAllocatorInstance, TearDownFlowTimerTask and *)
(* the FlowAllocator's table of instances).  Only the declarations are in  *)
(* the repository; the transitions follow the FAI state machine of the     *)
(* design (spec.md 4.5): the requestor path, the recipient path, bounded   *)
(* retries of a rejected create request, and the teardown that keeps the   *)
(* port id for 2*MPL before it is released.                                *)
(*                                                                         *)
(* Events from the kernel, the peer FAI and the local application are      *)
(* actions; which answer the peer gives is a nondeterministic choice.      *)
(***************************************************************************)
EXTENDS Naturals

CONSTANTS
    FAIs,                   \* flow allocator instances, one per flow
    PortIds,                \* port ids handed out to flows
    MaxCreateFlowRetries    \* Flow::max_create_flow_retries_

VARIABLES
    state,      \* FlowAllocatorInstance::state_
    port,       \* FlowAllocatorInstance::port_id_
    retries,    \* Flow::create_flow_retries_
    notified,   \* what the local application was told of the flow
    portsInUse  \* port ids allocated and not yet released (releasePortId)

vars == <<state, port, retries, notified, portsInUse>>

NoPort == 0

\* FlowAllocatorInstance::FAIState
FAIStates == {"NO_STATE", "CONNECTION_CREATE_REQUESTED", "MESSAGE_TO_PEER_FAI_SENT",
              "APP_NOTIFIED_OF_INCOMING_FLOW", "CONNECTION_UPDATE_REQUESTED",
              "FLOW_ALLOCATED", "CONNECTION_DESTROY_REQUESTED",
              "WAITING_2_MPL_BEFORE_TEARING_DOWN", "FINISHED"}

\* The FAIs in the FlowAllocator's table (flow_allocator_instances_).
Live == {f \in FAIs : state[f] \notin {"NO_STATE", "FINISHED"}}

Init ==
    /\ state = [f \in FAIs |-> "NO_STATE"]
    /\ port = [f \in FAIs |-> NoPort]
    /\ retries = [f \in FAIs |-> 0]
    /\ notified = [f \in FAIs |-> "none"]
    /\ portsInUse = {}

Move(f, from, to) ==
    /\ state[f] = from
    /\ state' = [state EXCEPT ![f] = to]

\* A new FAI on a port id that is not in use.
Open(f, p) ==
    /\ p \notin portsInUse
    /\ port' = [port EXCEPT ![f] = p]
    /\ portsInUse' = portsInUse \cup {p}

\* releasePortId and removal from the FlowAllocator's table.
ReleaseUnlockRemove(f) ==
    /\ state' = [state EXCEPT ![f] = "FINISHED"]
    /\ portsInUse' = portsInUse \ {port[f]}

(***************************************************************************)
(* Requestor path                                                          *)
(***************************************************************************)

\* submitAllocateRequest: ask for the connection to be created.
SubmitAllocateRequest(f, p) ==
    /\ Move(f, "NO_STATE", "CONNECTION_CREATE_REQUESTED")
    /\ Open(f, p)
    /\ UNCHANGED <<retries, notified>>

\* processCreateConnectionResponseEvent: send the CDAP create of the Flow
\* object to the peer FAI.
ProcessCreateConnectionResponseEvent(f) ==
    /\ Move(f, "CONNECTION_CREATE_REQUESTED", "MESSAGE_TO_PEER_FAI_SENT")
    /\ UNCHANGED <<port, retries, notified, portsInUse>>

\* A negative answer ends the allocation when the AllocateRetryPolicy
\* refuses another try or max_create_flow_retries_ retries were made.
GivesUp(f, retryAuthorized) ==
    ~retryAuthorized \/ retries[f] = MaxCreateFlowRetries

\* Mutant: the terminal failure removes the FAI without replying to the
\* application.
CreateResponseSilentFail(f, positive, retryAuthorized) ==
    /\ state[f] = "MESSAGE_TO_PEER_FAI_SENT"
    /\ \/ /\ positive
          /\ state' = [state EXCEPT ![f] = "FLOW_ALLOCATED"]
          /\ notified' = [notified EXCEPT ![f] = "allocated"]
          /\ UNCHANGED <<retries, portsInUse>>
       \/ /\ ~positive /\ ~GivesUp(f, retryAuthorized)
          /\ retries' = [retries EXCEPT ![f] = @ + 1]
          /\ UNCHANGED <<state, notified, portsInUse>>
       \/ /\ ~positive /\ GivesUp(f, retryAuthorized)
          /\ ReleaseUnlockRemove(f)
          /\ UNCHANGED <<retries, notified>>
    /\ UNCHANGED port

\* createResponse: the peer's answer to the CDAP create.  A positive one
\* allocates the flow and tells the application.  On a negative one the
\* AllocateRetryPolicy is asked (retryAuthorized, a pluggable policy, so
\* any answer): if it authorizes a retry and fewer than
\* max_create_flow_retries_ were made, a new Create_Flow request is sent;
\* otherwise the application is told the flow could not be created and
\* the FAI does its housekeeping and terminates.
CreateResponse(f, positive, retryAuthorized) ==
    /\ state[f] = "MESSAGE_TO_PEER_FAI_SENT"
    /\ \/ /\ positive
          /\ state' = [state EXCEPT ![f] = "FLOW_ALLOCATED"]
          /\ notified' = [notified EXCEPT ![f] = "allocated"]
          /\ UNCHANGED <<retries, portsInUse>>
       \/ /\ ~positive /\ ~GivesUp(f, retryAuthorized)
          /\ retries' = [retries EXCEPT ![f] = @ + 1]
          /\ UNCHANGED <<state, notified, portsInUse>>
       \/ /\ ~positive /\ GivesUp(f, retryAuthorized)
          /\ ReleaseUnlockRemove(f)
          /\ notified' = [notified EXCEPT ![f] = "failed"]
          /\ UNCHANGED retries
    /\ UNCHANGED port

(***************************************************************************)
(* Recipient path                                                          *)
(***************************************************************************)

\* createFlowRequestMessageReceived: a peer asks for a flow.  The
\* FlowAllocator has already created the FAI on the destination port id p
\* it chose.  If the access control or the NewFlowRequestPolicy refuses
\* the request, a negative Create_Response goes back and the FAI releases
\* p and terminates within the same handler; otherwise the application is
\* told of the incoming flow on port p.
CreateFlowRequestMessageReceived(f, p, acceptable) ==
    LET bound == portsInUse \cup {p} IN
    /\ state[f] = "NO_STATE" /\ p \notin portsInUse
    /\ port' = [port EXCEPT ![f] = p]
    /\ \/ /\ acceptable
          /\ state' = [state EXCEPT ![f] = "APP_NOTIFIED_OF_INCOMING_FLOW"]
          /\ notified' = [notified EXCEPT ![f] = "incoming"]
          /\ portsInUse' = bound
       \/ /\ ~acceptable
          /\ state' = [state EXCEPT ![f] = "FINISHED"]
          /\ portsInUse' = bound \ {p}
          /\ UNCHANGED notified
    /\ UNCHANGED retries

\* Mutant: the refusing application's FAI terminates without releasing its
\* port id.
SubmitAllocateResponseLeaksPort(f, accept) ==
    \/ /\ accept
       /\ Move(f, "APP_NOTIFIED_OF_INCOMING_FLOW", "CONNECTION_UPDATE_REQUESTED")
       /\ UNCHANGED <<port, retries, notified, portsInUse>>
    \/ /\ ~accept
       /\ Move(f, "APP_NOTIFIED_OF_INCOMING_FLOW", "FINISHED")
       /\ UNCHANGED <<port, retries, notified, portsInUse>>

\* submitAllocateResponse: the application's answer.  On accept the
\* connection is updated; on refusal a negative Create_Response goes to
\* the peer and the FAI does its housekeeping (releases the port id) and
\* terminates.
SubmitAllocateResponse(f, accept) ==
    \/ /\ accept
       /\ Move(f, "APP_NOTIFIED_OF_INCOMING_FLOW", "CONNECTION_UPDATE_REQUESTED")
       /\ UNCHANGED <<port, retries, notified, portsInUse>>
    \/ /\ ~accept
       /\ state[f] = "APP_NOTIFIED_OF_INCOMING_FLOW"
       /\ ReleaseUnlockRemove(f)
       /\ UNCHANGED <<port, retries, notified>>

\* processUpdateConnectionResponseEvent
ProcessUpdateConnectionResponseEvent(f) ==
    /\ Move(f, "CONNECTION_UPDATE_REQUESTED", "FLOW_ALLOCATED")
    /\ notified' = [notified EXCEPT ![f] = "allocated"]
    /\ UNCHANGED <<port, retries, portsInUse>>

(***************************************************************************)
(* Teardown                                                                *)
(***************************************************************************)

\* Mutant: the flow is destroyed at once, without the 2*MPL wait.
SubmitDeallocateAtOnce(f) ==
    /\ state[f] = "FLOW_ALLOCATED"
    /\ ReleaseUnlockRemove(f)
    /\ UNCHANGED <<port, retries, notified>>

\* submitDeallocate: the local application releases the flow.
SubmitDeallocate(f) ==
    /\ Move(f, "FLOW_ALLOCATED", "CONNECTION_DESTROY_REQUESTED")
    /\ UNCHANGED <<port, retries, notified, portsInUse>>

\* deleteFlowRequestMessageReceived: the peer FAI releases the flow; the
\* local application is told (Deallocate.deliver).
DeleteFlowRequestMessageReceived(f) ==
    /\ Move(f, "FLOW_ALLOCATED", "CONNECTION_DESTROY_REQUESTED")
    /\ notified' = [notified EXCEPT ![f] = "deallocated"]
    /\ UNCHANGED <<port, retries, portsInUse>>

\* Mutant: the port id is released as soon as the connection is destroyed.
ConnectionDestroyedReleasesPort(f) ==
    /\ Move(f, "CONNECTION_DESTROY_REQUESTED", "WAITING_2_MPL_BEFORE_TEARING_DOWN")
    /\ portsInUse' = portsInUse \ {port[f]}
    /\ UNCHANGED <<port, retries, notified>>

\* The connection is destroyed: a TearDownFlowTimerTask is scheduled.
ConnectionDestroyed(f) ==
    /\ Move(f, "CONNECTION_DESTROY_REQUESTED", "WAITING_2_MPL_BEFORE_TEARING_DOWN")
    /\ UNCHANGED <<port, retries, notified, portsInUse>>

\* TearDownFlowTimerTask::run -> destroyFlowAllocatorInstance: release the
\* port id and remove the FAI.
TearDownTimerFires(f) ==
    /\ state[f] = "WAITING_2_MPL_BEFORE_TEARING_DOWN"
    /\ ReleaseUnlockRemove(f)
    /\ UNCHANGED <<port, retries, notified>>

Next ==
    \/ \E f \in FAIs, p \in PortIds : SubmitAllocateRequest(f, p)
    \/ \E f \in FAIs, p \in PortIds, ok \in BOOLEAN : CreateFlowRequestMessageReceived(f, p, ok)
    \/ \E f \in FAIs, ok, auth \in BOOLEAN : CreateResponse(f, ok, auth)
    \/ \E f \in FAIs, ok \in BOOLEAN : SubmitAllocateResponse(f, ok)
    \/ \E f \in FAIs :
         \/ ProcessCreateConnectionResponseEvent(f)
         \/ ProcessUpdateConnectionResponseEvent(f)
         \/ SubmitDeallocate(f)
         \/ DeleteFlowRequestMessageReceived(f)
         \/ ConnectionDestroyed(f)
         \/ TearDownTimerFires(f)

\* Kernel events, the peer's answer to a create request and the teardown
\* timer all come eventually; the applications' requests, acceptances and
\* releases come at their will.
Fairness ==
    \A f \in FAIs :
        /\ WF_vars(ProcessCreateConnectionResponseEvent(f))
        /\ WF_vars(\E positive, auth \in BOOLEAN : CreateResponse(f, positive, auth))
        /\ WF_vars(ProcessUpdateConnectionResponseEvent(f))
        /\ WF_vars(ConnectionDestroyed(f))
        /\ WF_vars(TearDownTimerFires(f))

Spec == Init /\ [][Next]_vars /\ Fairness

(***************************************************************************)
(* Properties                                                              *)
(***************************************************************************)

TypeOK ==
    /\ state \in [FAIs -> FAIStates]
    /\ port \in [FAIs -> PortIds \cup {NoPort}]
    /\ retries \in [FAIs -> 0..MaxCreateFlowRetries]
    /\ notified \in [FAIs -> {"none", "incoming", "allocated", "failed", "deallocated"}]
    /\ portsInUse \subseteq PortIds

\* A port id is never given to a new flow while another FAI, including one
\* waiting 2*MPL after its connection was destroyed, still has it: stray
\* PDUs for the old flow must not reach the new one.
PortNotReusedBeforeTeardown ==
    \A f, g \in Live : f # g => port[f] # port[g]

\* The port ids in use are exactly those of the FAIs in the FlowAllocator's
\* table: every way an FAI terminates (failed retries, refused request,
\* refused by the application, teardown) gives its port id back, and no
\* port id is released while its FAI is still in the table.
NoPortLeak == portsInUse = {port[f] : f \in Live}

\* Every allocation the application requests is eventually answered, with
\* the flow or with a terminal failure after at most
\* max_create_flow_retries_ rejected retries (no endless retrying).
AllocationEventuallyAnswered ==
    \A f \in FAIs :
        state[f] = "CONNECTION_CREATE_REQUESTED" ~> notified[f] \in {"allocated", "failed"}

\* The refinement mapping: each FAIState stands for the Flow state it
\* realises, and the FAI's port id for the flow's.
FlowStateOf(s) ==
    CASE s = "NO_STATE" -> "EMPTY"
      [] s \in {"CONNECTION_CREATE_REQUESTED", "MESSAGE_TO_PEER_FAI_SENT",
                "APP_NOTIFIED_OF_INCOMING_FLOW",
                "CONNECTION_UPDATE_REQUESTED"} -> "ALLOCATION_IN_PROGRESS"
      [] s \in {"FLOW_ALLOCATED", "CONNECTION_DESTROY_REQUESTED"} -> "ALLOCATED"
      [] s = "WAITING_2_MPL_BEFORE_TEARING_DOWN" -> "WAITING_2_MPL_BEFORE_TEARING_DOWN"
      [] s = "FINISHED" -> "DEALLOCATED"

Abstract == INSTANCE IPCPFlow WITH
    Flows <- FAIs,
    flowState <- [f \in FAIs |-> FlowStateOf(state[f])],
    flowPort <- port

\* The FAIs implement the Flow life cycle: every step is a step of a flow
\* (or leaves the flows unchanged), so a port is never handed to a new flow
\* while a flow still holds it.
ImplementsIPCPFlow == Abstract!Spec
=============================================================================
