---------------------------- MODULE FlowAllocation ----------------------------
(***************************************************************************)
(* Flow allocation end to end: the IPC Manager's handlers                  *)
(* (IPCMFlowAllocation) composed with the flow allocator of the IPC        *)
(* process they talk to (FlowAllocatorInstance, one FAI per request).      *)
(*                                                                         *)
(* Local request:  application -> IPCM (allocateFlow) -> FlowAllocator     *)
(*   submitAllocateRequest -> FAI ... createResponse -> the IPCP raises    *)
(*   IpcmAllocateFlowRequestResultEvent -> IPCM -> flowAllocated.          *)
(* Remote request: peer FAI's M_CREATE -> createFlowRequestMessageReceived *)
(*   -> FlowRequestEvent to the IPCM -> flowRequestArrived -> application  *)
(*   -> AllocateFlowResponseEvent -> IPCM (allocateFlowResponse) -> FAI    *)
(*   submitAllocateResponse.                                               *)
(*                                                                         *)
(* The FAI's variables are its own (EXTENDS); the IPCM's are declared here *)
(* and handed to its instance, its notified renamed appPorts.              *)
(***************************************************************************)
EXTENDS FlowAllocatorInstance, Integers, Sequences

CONSTANTS
    LocalReqs,      \* flow requests of local applications
    RemoteReqs      \* flow requests arriving from peer FAIs

ASSUME FAIs = LocalReqs \cup RemoteReqs

VARIABLES
    events, pending, nextSeq, atIpcp, atApp, issued, served,
    appPorts,   \* per local request: port ids passed to flowAllocated
    responded   \* per remote request: results passed to allocateFlowResponse

Ipcm == INSTANCE IPCMFlowAllocation WITH notified <- appPorts

ipcmVars == <<events, pending, nextSeq, atIpcp, atApp, issued, served, appPorts, responded>>
allVars == <<ipcmVars, vars>>

\* The IPC process raises the allocation result of local request r.
RaiseResult(r, ok, p) ==
    LET s == CHOOSE x \in DOMAIN pending : pending[x].req = r
    IN events' = events \cup {[type |-> "alloc_result", seq |-> s,
                               result |-> IF ok THEN 0 ELSE -1, port |-> p]}

(***************************************************************************)
(* The IPC Manager and the applications                                    *)
(***************************************************************************)

AppRequestsFlow(r) == Ipcm!RequestRaised(r) /\ UNCHANGED vars

IpcmHandlesEvent(e) == Ipcm!HandleEvent(e) /\ UNCHANGED vars

AppAnswersArrival(s) == Ipcm!AppAnswers(s) /\ UNCHANGED vars

(***************************************************************************)
(* The IPC process                                                         *)
(***************************************************************************)

\* FlowAllocator::submitAllocateRequest for the allocateFlow of seqnum s:
\* a new FAI on a free port id, or, with none left, the exception that the
\* IPCP reports as a failed allocation.
IpcpAllocateFlow(s) ==
    /\ s \in atIpcp
    /\ atIpcp' = atIpcp \ {s}
    /\ LET r == pending[s].req IN
       \/ \E p \in PortIds : SubmitAllocateRequest(r, p) /\ UNCHANGED events
       \/ portsInUse = PortIds /\ RaiseResult(r, FALSE, -1) /\ UNCHANGED vars
    /\ UNCHANGED <<pending, nextSeq, atApp, issued, served, appPorts, responded>>

\* createResponse; once the allocation is settled (allocated, or failed
\* when no retry is made) the IPCP raises its result to the IPCM.
IpcpCreateResponse(f, positive, retryAuthorized) ==
    /\ CreateResponse(f, positive, retryAuthorized)
    /\ IF notified'[f] \in {"allocated", "failed"}
         THEN RaiseResult(f, notified'[f] = "allocated", port[f])
         ELSE UNCHANGED events
    /\ UNCHANGED <<pending, nextSeq, atIpcp, atApp, issued, served, appPorts, responded>>

\* createFlowRequestMessageReceived; an acceptable request is passed to
\* the IPCM as a remote FlowRequestEvent.
PeerRequestsFlow(f, p, acceptable) ==
    /\ CreateFlowRequestMessageReceived(f, p, acceptable)
    /\ IF acceptable THEN Ipcm!RequestRaised(f) ELSE UNCHANGED ipcmVars

\* The IPCP receives the IPCM's allocateFlowResponse and hands it to the
\* FAI (FlowAllocator::submitAllocateResponse).
IpcpAllocateFlowResponse(f) ==
    /\ f \in RemoteReqs /\ responded[f] # <<>>
    /\ SubmitAllocateResponse(f, Head(responded[f]) = 0)
    /\ UNCHANGED ipcmVars

\* An application releases only a flow it was told of.
AppKnowsFlow(f) ==
    f \in LocalReqs => \E i \in DOMAIN appPorts[f] : appPorts[f][i] = port[f]

AppDeallocates(f) == AppKnowsFlow(f) /\ SubmitDeallocate(f) /\ UNCHANGED ipcmVars

\* Steps of an FAI that the IPCM takes no part in.
FaiInternal(f) ==
    /\ \/ ProcessCreateConnectionResponseEvent(f)
       \/ ProcessUpdateConnectionResponseEvent(f)
       \/ DeleteFlowRequestMessageReceived(f)
       \/ ConnectionDestroyed(f)
       \/ TearDownTimerFires(f)
    /\ UNCHANGED ipcmVars

SystemInit == Init /\ Ipcm!Init

SystemNext ==
    \/ \E r \in LocalReqs : AppRequestsFlow(r)
    \/ \E e \in events : IpcmHandlesEvent(e)
    \/ \E s \in Ipcm!Seqs : AppAnswersArrival(s) \/ IpcpAllocateFlow(s)
    \/ \E f \in RemoteReqs, p \in PortIds, ok \in BOOLEAN : PeerRequestsFlow(f, p, ok)
    \/ \E f \in LocalReqs, ok, auth \in BOOLEAN : IpcpCreateResponse(f, ok, auth)
    \/ \E f \in RemoteReqs : IpcpAllocateFlowResponse(f)
    \/ \E f \in FAIs : AppDeallocates(f) \/ FaiInternal(f)

\* The IPCM event loop drains its queue; the IPC process takes every
\* request and response the IPCM sends it; kernel events, the peer's
\* answer and the teardown timer come as in FlowAllocatorInstance.
\* Applications and peers making new requests or releasing flows get none.
SystemFairness ==
    /\ \A e \in Ipcm!Events : WF_allVars(IpcmHandlesEvent(e))
    /\ \A s \in Ipcm!Seqs : WF_allVars(IpcpAllocateFlow(s))
    /\ \A f \in FAIs :
         /\ WF_allVars(\E ok, auth \in BOOLEAN : IpcpCreateResponse(f, ok, auth))
         /\ WF_allVars(IpcpAllocateFlowResponse(f))
         /\ WF_allVars(ProcessCreateConnectionResponseEvent(f) /\ UNCHANGED ipcmVars)
         /\ WF_allVars(ProcessUpdateConnectionResponseEvent(f) /\ UNCHANGED ipcmVars)
         /\ WF_allVars(ConnectionDestroyed(f) /\ UNCHANGED ipcmVars)
         /\ WF_allVars(TearDownTimerFires(f) /\ UNCHANGED ipcmVars)

SystemSpec == SystemInit /\ [][SystemNext]_allVars /\ SystemFairness

(***************************************************************************)
(* Properties                                                              *)
(***************************************************************************)

SystemTypeOK == TypeOK /\ Ipcm!TypeOK

\* A port id the IPCM passes to an application with flowAllocated is the
\* port of the FAI that serves that request, and that FAI did allocate the
\* flow: the seqnum bookkeeping of pending_flow_allocations, the result
\* handler and the FAI agree on which flow the application got.
AppPortIsFlowPort ==
    \A r \in LocalReqs : \A i \in DOMAIN appPorts[r] :
        appPorts[r][i] # -1 =>
            appPorts[r][i] = port[r] /\ notified[r] \in {"allocated", "deallocated"}

\* Each local request is answered with flowAllocated at most once and each
\* remote request with allocateFlowResponse at most once, however often the
\* application answers.
AnsweredAtMostOnce ==
    /\ \A r \in LocalReqs : Len(appPorts[r]) <= 1
    /\ \A r \in RemoteReqs : Len(responded[r]) <= 1

\* A local request for which an IPC process was selected is eventually
\* answered with flowAllocated: by the FAI's result after at most
\* max_create_flow_retries_ retries, or by one of the failure paths.
ServedRequestAnswered ==
    \A r \in LocalReqs : r \in served ~> appPorts[r] # <<>>

\* A flow that an FAI holds allocated for a local request is known to its
\* application once the IPCM has answered it with flowAllocated: otherwise
\* nobody will ever deallocate it and its port id stays in use.  The
\* catch of ipcm_allocate_flow_request_result_handler tells the
\* application -1 when allocateFlowResult throws, whatever the IPCP did.
AllocatedFlowKnown ==
    \A r \in LocalReqs :
        appPorts[r] # <<>> /\ notified[r] = "allocated" => AppKnowsFlow(r)

\* The IPCM has done its part for request r: a local application was
\* answered with flowAllocated; a remote request reached the local
\* application or the IPCP was answered.
Handled(r) ==
    IF r \in LocalReqs THEN appPorts[r] # <<>>
    ELSE \/ r \in {pending[s].req : s \in atApp \cap DOMAIN pending}
         \/ responded[r] # <<>>

\* Every flow request, local or from a peer FAI, is eventually handled by
\* the IPCM (spec: each flow request produces a flow-allocated result or a
\* response to the requesting IPC process).
RequestAnswered == \A r \in FAIs : r \in issued ~> Handled(r)
=============================================================================
