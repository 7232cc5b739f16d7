------------------------- MODULE IPCMFlowAllocation -------------------------
(***************************************************************************)
(* Flow allocation in the IPC Manager (rinad ipcm/flow-allocation.cc).     *)
(* The IPCM event loop handles one event at a time:                        *)
(*   - a FlowRequestEvent from a local application (localRequest) is sent *)
(*     to a selected IPC process with allocateFlow; the IPCP's             *)
(*     IpcmAllocateFlowRequestResultEvent later settles it and the         *)
(*     application is told with flowAllocated;                             *)
(*   - a FlowRequestEvent from a remote application is handed to the      *)
(*     local application with flowRequestArrived; its                      *)
(*     AllocateFlowResponseEvent is passed on to the IPCP with             *)
(*     allocateFlowResponse.                                               *)
(* Both wait in pending_flow_allocations under the sequence number the     *)
(* librina call returned.  Calls into librina that may throw are a choice. *)
(* The IPC process that takes allocateFlow, raises the result and receives *)
(* allocateFlowResponse is its flow allocator: FlowAllocation composes the *)
(* two.                                                                    *)
(***************************************************************************)
EXTENDS Integers, Sequences, FiniteSets, TLC

CONSTANTS
    LocalReqs,      \* flow requests of local applications
    RemoteReqs,     \* flow requests arriving from remote applications
    PortIds         \* port ids an IPC process may allocate

VARIABLES
    events,     \* events queued for the IPCM event loop
    pending,    \* pending_flow_allocations: seqnum -> [local, req]
    nextSeq,    \* librina's next sequence number
    atIpcp,     \* seqnums of allocateFlow requests the IPCP has not answered
    atApp,      \* seqnums of flowRequestArrived the local application knows
    issued,     \* requests whose FlowRequestEvent has been raised
    served,     \* local requests for which an IPC process was selected
    notified,   \* per local request: port ids passed to flowAllocated
    responded   \* per remote request: results passed to allocateFlowResponse

Reqs == LocalReqs \cup RemoteReqs
\* librina hands out one sequence number per request at most.
Seqs == 1..Cardinality(Reqs)
Results == {0, -1}

Init ==
    /\ events = {}
    /\ pending = <<>>
    /\ nextSeq = 1
    /\ atIpcp = {}
    /\ atApp = {}
    /\ issued = {}
    /\ served = {}
    /\ notified = [r \in LocalReqs |-> <<>>]
    /\ responded = [r \in RemoteReqs |-> <<>>]

Erase(f, k) == [x \in DOMAIN f \ {k} |-> f[x]]
Notify(r, port) == notified' = [notified EXCEPT ![r] = Append(@, port)]
Respond(r, res) == responded' = [responded EXCEPT ![r] = Append(@, res)]

(***************************************************************************)
(* The environment: applications and IPC processes raising events.        *)
(***************************************************************************)

\* A local application asks for a flow, or a remote one's request arrives.
RequestRaised(r) ==
    /\ r \notin issued
    /\ issued' = issued \cup {r}
    /\ events' = events \cup {[type |-> "flow_request", local |-> r \in LocalReqs, req |-> r]}
    /\ UNCHANGED <<pending, nextSeq, atIpcp, atApp, served, notified, responded>>

\* The local application answers an incoming flow request, as often as it
\* likes: nothing in librina stops a second allocateFlowResponse.
AppAnswers(s) ==
    /\ s \in atApp
    /\ \E res \in Results :
         events' = events \cup {[type |-> "alloc_response", seq |-> s, result |-> res]}
    /\ UNCHANGED <<pending, nextSeq, atIpcp, atApp, issued, served, notified, responded>>

(***************************************************************************)
(* The IPCM event handlers.                                                *)
(***************************************************************************)

\* flow_allocation_requested_local: no IPC process for the DIF (looked up
\* from the configuration or the event's DIF name) returns without a word to
\* the application; allocateFlow either hands out a seqnum that is stored
\* as pending, or throws, and the application is told portId -1.
FlowAllocationRequestedLocal(e) ==
    LET r == e.req IN
    /\ \E ipcpFound \in BOOLEAN :
       IF ~ipcpFound
         THEN UNCHANGED <<pending, nextSeq, atIpcp, served, notified>>
         ELSE /\ served' = served \cup {r}
              /\ \E allocated \in BOOLEAN :
                 IF allocated
                   THEN /\ pending' = (nextSeq :> [local |-> TRUE, req |-> r]) @@ pending
                        /\ atIpcp' = atIpcp \cup {nextSeq}
                        /\ nextSeq' = nextSeq + 1
                        /\ UNCHANGED notified
                   ELSE /\ Notify(r, -1)
                        /\ UNCHANGED <<pending, nextSeq, atIpcp>>
    /\ UNCHANGED <<atApp, responded>>

\* flow_allocation_requested_remote: no IPC process with the event's id
\* returns without a word to the IPCP; flowRequestArrived either hands out a
\* seqnum stored as pending, or throws and the IPCP gets a negative
\* allocateFlowResponse.
FlowAllocationRequestedRemote(e) ==
    LET r == e.req IN
    /\ \E ipcpFound \in BOOLEAN :
       IF ~ipcpFound
         THEN UNCHANGED <<pending, nextSeq, atApp, responded>>
         ELSE \E arrived \in BOOLEAN :
              IF arrived
                THEN /\ pending' = (nextSeq :> [local |-> FALSE, req |-> r]) @@ pending
                     /\ atApp' = atApp \cup {nextSeq}
                     /\ nextSeq' = nextSeq + 1
                     /\ UNCHANGED responded
                ELSE /\ Respond(r, -1)
                     /\ UNCHANGED <<pending, nextSeq, atApp>>
    /\ UNCHANGED <<atIpcp, served, notified>>

\* Mutant: flowAllocated is given the event's result instead of its port.
ResultPassesResult(e) ==
    /\ IF e.seq \notin DOMAIN pending
         THEN UNCHANGED <<pending, notified>>
         ELSE \E resultThrows \in BOOLEAN :
              /\ Notify(pending[e.seq].req,
                        IF e.result = 0 /\ ~resultThrows THEN e.result ELSE -1)
              /\ pending' = Erase(pending, e.seq)
    /\ UNCHANGED <<nextSeq, atIpcp, atApp, served, responded>>

\* Mutant: the port is passed on without looking at the result.
ResultIgnoresFailure(e) ==
    /\ IF e.seq \notin DOMAIN pending
         THEN UNCHANGED <<pending, notified>>
         ELSE \E resultThrows \in BOOLEAN :
              /\ Notify(pending[e.seq].req,
                        IF ~resultThrows THEN e.port ELSE -1)
              /\ pending' = Erase(pending, e.seq)
    /\ UNCHANGED <<nextSeq, atIpcp, atApp, served, responded>>

\* Mutant: flowAllocated sits inside the try, skipped when allocateFlowResult throws.
ResultNotifyInTry(e) ==
    /\ IF e.seq \notin DOMAIN pending
         THEN UNCHANGED <<pending, notified>>
         ELSE \E resultThrows \in BOOLEAN :
              /\ IF resultThrows THEN UNCHANGED notified
                 ELSE Notify(pending[e.seq].req, IF e.result = 0 THEN e.port ELSE -1)
              /\ pending' = Erase(pending, e.seq)
    /\ UNCHANGED <<nextSeq, atIpcp, atApp, served, responded>>

\* ipcm_allocate_flow_request_result_handler: an unknown seqnum is only
\* warned about.  Otherwise req_event.portId = -1; allocateFlowResult is
\* called and, if it does not throw and the result is 0, portId becomes the
\* IPCP's port; the application is told with flowAllocated and the entry
\* erased.
IpcmAllocateFlowRequestResult(e) ==
    /\ IF e.seq \notin DOMAIN pending
         THEN UNCHANGED <<pending, notified>>
         ELSE \E resultThrows \in BOOLEAN :
              /\ Notify(pending[e.seq].req,
                        IF e.result = 0 /\ ~resultThrows THEN e.port ELSE -1)
              /\ pending' = Erase(pending, e.seq)
    /\ UNCHANGED <<nextSeq, atIpcp, atApp, served, responded>>

\* Mutant: the pending entry is kept after the response is passed on.
ResponseKeepsPending(e) ==
    /\ IF e.seq \notin DOMAIN pending
         THEN UNCHANGED <<pending, responded>>
         ELSE /\ Respond(pending[e.seq].req, e.result)
              /\ UNCHANGED pending
    /\ UNCHANGED <<nextSeq, atIpcp, atApp, served, notified>>

\* allocate_flow_response_event_handler: an unknown seqnum is dropped;
\* otherwise allocateFlowResponse passes the result to the IPCP and the
\* entry is erased whether or not it threw.
AllocateFlowResponse(e) ==
    /\ IF e.seq \notin DOMAIN pending
         THEN UNCHANGED <<pending, responded>>
         ELSE /\ Respond(pending[e.seq].req, e.result)
              /\ pending' = Erase(pending, e.seq)
    /\ UNCHANGED <<nextSeq, atIpcp, atApp, served, notified>>

\* The event loop takes any queued event and dispatches on its type.
HandleEvent(e) ==
    /\ e \in events
    /\ events' = events \ {e}
    /\ CASE e.type = "flow_request" /\ e.local -> FlowAllocationRequestedLocal(e)
         [] e.type = "flow_request"            -> FlowAllocationRequestedRemote(e)
         [] e.type = "alloc_result"            -> IpcmAllocateFlowRequestResult(e)
         [] e.type = "alloc_response"          -> AllocateFlowResponse(e)
    /\ UNCHANGED issued

\* The events of the IPCM event loop (an allocation result carries -1 when
\* the IPC process had no port to give).
Events ==
    [type : {"flow_request"}, local : BOOLEAN, req : Reqs] \cup
    [type : {"alloc_result"}, seq : Seqs, result : Results, port : PortIds \cup {-1}] \cup
    [type : {"alloc_response"}, seq : Seqs, result : Results]

(***************************************************************************)
(* Type invariant                                                          *)
(***************************************************************************)

TypeOK ==
    /\ events \subseteq Events
    /\ DOMAIN pending \subseteq Seqs
    /\ \A s \in DOMAIN pending : pending[s] \in [local : BOOLEAN, req : Reqs]
    /\ nextSeq \in 1..Cardinality(Reqs) + 1
    /\ atIpcp \subseteq Seqs /\ atApp \subseteq Seqs
    /\ issued \subseteq Reqs /\ served \subseteq LocalReqs
    /\ notified \in [LocalReqs -> Seq(PortIds \cup {-1})]
    /\ responded \in [RemoteReqs -> Seq(Results)]
=============================================================================
