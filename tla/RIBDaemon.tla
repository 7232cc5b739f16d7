------------------------------ MODULE RIBDaemon ------------------------------
(***************************************************************************)
(* The RIB daemon of librina (class RIBDaemon, rib_v2.cc): the registry of *)
(* schemas, RIB instances, AE associations and CDAP port bindings that the *)
(* application drives through RIBDaemonProxy, and the callbacks through    *)
(* which the CDAP provider hands it connection events, incoming object     *)
(* requests and results of remote operations.                              *)
(*                                                                         *)
(* Each method is one atomic step.  Most hold the daemon's rwlock for     *)
(* their whole registry access; store_connection reads aeversion_rib_map  *)
(* before taking it and remove_connection takes the read lock and then    *)
(* the write lock, but both only touch a RIB, which createRIB can never   *)
(* make, so no interleaving inside them is reachable.  A request carries  *)
(* an invoke id from InvokeIds, used once, which bounds the requests.     *)
(*                                                                         *)
(* The daemon is the static ribd of the library routines rib::init,       *)
(* RIBDaemonProxyFactory and rib::fini; the application reaches it only    *)
(* through a RIBDaemonProxy, also for its own requests to remote RIBs,     *)
(* which the proxy hands to the CDAP provider and whose results come back *)
(* through the remote_<op>_result callbacks.                              *)
(***************************************************************************)
EXTENDS Integers, Sequences, FiniteSets, TLC

CONSTANTS
    Versions,       \* schema / RIB versions the application uses
    AENames,        \* application entity names
    Ports,          \* port ids of CDAP connections
    ObjNames,       \* object names (sequences of segments) in requests
    HandleArgs,     \* RIB handles the application may pass in
    InvokeIds,      \* invoke ids of incoming requests
    HandleWrap,     \* int64_t next_handle_id: values past it wrap around
    InstIdWrap,     \* the same for a RIB's next_inst_id
    InitInstIds,    \* values an uninitialised next_inst_id can hold
    NDEBUG,         \* TRUE: assert() compiled out; FALSE: assert(0) aborts
    ClientOps,      \* remote operations the application issues through the proxy
    ClientPorts     \* ports of the CDAP connections the application opens

ASSUME ClientPorts \subseteq Ports

Store == INSTANCE RIBStore

VARIABLES
    schemas,    \* ver_schema_map: version -> refs of the RIBSchema
    ribs,       \* handle_rib_map: handle -> [ver, store] of the RIB
    nextHandle, \* next_handle_id
    aeRib,      \* aeversion_rib_map: <<ae, version>> -> handle
    portRib,    \* port_id_rib_map: port -> handle
    requests,   \* requests handed to the daemon: [op, port, invoke]
    replies,    \* results sent through cdap_provider: [op, port, invoke, res]
    apiRet,     \* outcome of the last RIBDaemonProxy call
    appEvent,   \* the last callback made to the application
    aborted,    \* an assert(0) fired in a debug build
    ribd,       \* the static RIBDaemon pointer: "NULL", "live" or "deleted"
    hasProxy,   \* the application holds a RIBDaemonProxy
    sent,       \* requests the application sent to remote RIBs, not yet answered
    ub          \* the freed daemon was used (undefined behaviour)

libVars == <<ribd, hasProxy, sent, ub>>
vars == <<schemas, ribs, nextHandle, aeRib, portRib, requests, replies,
          apiRet, appEvent, aborted, libVars>>

ConOps == {"open", "close"}
RemoteOps == {"remote_open", "remote_close"} \cup
             {"remote_" \o op : op \in Store!ObjOps}
Errors == {"ok", "eSchemaExists", "eSchemaNotFound", "InvalidHandle",
           "eRIBNotFound", "eRIBAlreadyAssociated", "eRIBNotAssociated",
           "eNotImplemented", "Exception"}

UsedInvokes == {q.invoke : q \in requests}

\* RIBDaemon::RIBDaemon: empty maps, next_handle_id(1).
Init ==
    /\ schemas = <<>>
    /\ ribs = <<>>
    /\ nextHandle = 1
    /\ aeRib = <<>>
    /\ portRib = <<>>
    /\ requests = {}
    /\ replies = {}
    /\ apiRet = [call |-> "none", ret |-> "ok"]
    /\ appEvent = "none"
    /\ aborted = FALSE
    /\ ribd = "NULL"
    /\ hasProxy = FALSE
    /\ sent = {}
    /\ ub = FALSE

\* assert(0): aborts the process unless NDEBUG.
Assert0 == aborted' = ~NDEBUG

Api(call, ret) == apiRet' = [call |-> call, ret |-> ret]

\* RIBDaemon::get_new_handle: for(;; ++next_handle_id) from curr =
\* next_handle_id, restarting at 1; it gives up with -1 when it is back at
\* curr and leaves the loop when next_handle_id IS in handle_rib_map.
RECURSIVE ProbeHandle(_, _, _)
ProbeHandle(curr, n, used) ==
    LET m == IF n < 1 THEN 1 ELSE n
        c == IF curr < 0 THEN m ELSE curr
    IN  CASE curr = m   -> [ret |-> -1, next |-> m]
          [] m \in used -> [ret |-> m, next |-> m]
          [] OTHER      -> ProbeHandle(c, IF m = HandleWrap THEN -HandleWrap ELSE m + 1, used)

\* RIBDaemon::createSchema
CreateSchema(v) ==
    /\ IF v \in DOMAIN schemas
         THEN Api("createSchema", "eSchemaExists") /\ UNCHANGED schemas
         ELSE Api("createSchema", "ok") /\ schemas' = (v :> 0) @@ schemas
    /\ UNCHANGED <<ribs, nextHandle, aeRib, portRib, requests, replies, appEvent, aborted>>

\* RIBDaemon::createRIB: needs the schema and a handle from get_new_handle;
\* the new RIB is stored and the schema's refs incremented.
CreateRIB(v) ==
    /\ IF v \notin DOMAIN schemas
         THEN Api("createRIB", "eSchemaNotFound") /\ UNCHANGED <<schemas, ribs, nextHandle>>
         ELSE LET p == ProbeHandle(nextHandle, nextHandle, DOMAIN ribs) IN
              /\ nextHandle' = p.next
              /\ IF p.ret < 0
                   THEN Api("createRIB", "InvalidHandle") /\ UNCHANGED <<schemas, ribs>>
                   ELSE \E s \in Store!Stores(InitInstIds, {0}) :
                        /\ ribs' = (p.ret :> [ver |-> v, store |-> s]) @@ ribs
                        /\ schemas' = [schemas EXCEPT ![v] = @ + 1]
                        /\ Api("createRIB", "ok")
    /\ UNCHANGED <<aeRib, portRib, requests, replies, appEvent, aborted>>

\* RIBDaemon::destroySchema and destroyRIB throw eNotImplemented.
DestroySchema(v) ==
    /\ Api("destroySchema", "eNotImplemented")
    /\ UNCHANGED <<schemas, ribs, nextHandle, aeRib, portRib, requests, replies, appEvent, aborted>>
DestroyRIB(h) ==
    /\ Api("destroyRIB", "eNotImplemented")
    /\ UNCHANGED <<schemas, ribs, nextHandle, aeRib, portRib, requests, replies, appEvent, aborted>>

\* RIBDaemon::get: the handle associated with <<ae, version>>.
Get(v, ae) ==
    /\ IF <<ae, v>> \in DOMAIN aeRib THEN Api("get", "ok") ELSE Api("get", "eRIBNotFound")
    /\ UNCHANGED <<schemas, ribs, nextHandle, aeRib, portRib, requests, replies, appEvent, aborted>>

\* RIBDaemon::associateRIBtoAE
AssociateRIBtoAE(h, ae) ==
    /\ CASE h \notin DOMAIN ribs ->
              Api("associate", "eRIBNotFound") /\ UNCHANGED aeRib
         [] <<ae, ribs[h].ver>> \in DOMAIN aeRib ->
              Api("associate", "eRIBAlreadyAssociated") /\ UNCHANGED aeRib
         [] OTHER ->
              Api("associate", "ok") /\ aeRib' = (<<ae, ribs[h].ver>> :> h) @@ aeRib
    /\ UNCHANGED <<schemas, ribs, nextHandle, portRib, requests, replies, appEvent, aborted>>

\* RIBDaemon::deassociateRIBfromAE
DeassociateRIBfromAE(h, ae) ==
    /\ CASE h \notin DOMAIN ribs ->
              Api("deassociate", "eRIBNotFound") /\ UNCHANGED aeRib
         [] <<ae, ribs[h].ver>> \notin DOMAIN aeRib ->
              Api("deassociate", "eRIBNotAssociated") /\ UNCHANGED aeRib
         [] OTHER ->
              Api("deassociate", "ok") /\
              aeRib' = [k \in DOMAIN aeRib \ {<<ae, ribs[h].ver>>} |-> aeRib[k]]
    /\ UNCHANGED <<schemas, ribs, nextHandle, portRib, requests, replies, appEvent, aborted>>

(***************************************************************************)
(* Callbacks of the CDAP provider.                                         *)
(***************************************************************************)

\* RIBDaemon::getByPortId
Bound(p) == p \in DOMAIN portRib

Received(op, p, i) == requests' = requests \cup {[op |-> op, port |-> p, invoke |-> i]}
Send(op, p, i, r) == replies' = replies \cup {[op |-> op, port |-> p, invoke |-> i, res |-> r]}

\* RIBDaemon::store_connection, once the RIB of the AE and version is found:
\* a port already bound hits assert(0) and is then overwritten.
StoreConnection(p, ae, v) ==
    /\ IF Bound(p) THEN Assert0 ELSE UNCHANGED aborted
    /\ portRib' = (p :> aeRib[<<ae, v>>]) @@ portRib

\* RIBDaemon::remove_connection: assert(0) for a port bound to no RIB,
\* otherwise the port is unbound.
RemoveConnection(p) ==
    IF Bound(p)
      THEN portRib' = [q \in DOMAIN portRib \ {p} |-> portRib[q]] /\ UNCHANGED aborted
      ELSE Assert0 /\ UNCHANGED portRib

\* RIBDaemon::open_connection: the application's connect callback, then
\* store_connection, then the open-connection result.  store_connection
\* throws eRIBNotFound when no RIB is associated with the AE and version of
\* the connection, and the result is then never sent; a port already bound
\* hits assert(0) and is overwritten.
OpenConnection(p, ae, v, i) ==
    /\ ~aborted /\ i \notin UsedInvokes
    /\ Received("open", p, i)
    /\ appEvent' = "connect"
    /\ IF <<ae, v>> \notin DOMAIN aeRib
         THEN UNCHANGED <<portRib, replies, aborted>>
         ELSE StoreConnection(p, ae, v) /\ Send("open", p, i, 0)
    /\ UNCHANGED <<schemas, ribs, nextHandle, aeRib, apiRet>>

\* RIBDaemon::close_connection: the release callback and the result; the
\* port stays bound.
CloseConnection(p, i) ==
    /\ ~aborted /\ i \notin UsedInvokes
    /\ Received("close", p, i)
    /\ appEvent' = "release"
    /\ Send("close", p, i, 0)
    /\ UNCHANGED <<schemas, ribs, nextHandle, aeRib, portRib, apiRet, aborted>>

\* RIBDaemon::remote_open_connection_result: the connectResult callback.
RemoteOpenConnectionResult(p) ==
    /\ ~aborted
    /\ appEvent' = "connectResult"
    /\ UNCHANGED <<schemas, ribs, nextHandle, aeRib, portRib, requests, replies, apiRet, aborted>>

\* RIBDaemon::remote_close_connection_result: the releaseResult callback,
\* then remove_connection, which hits assert(0) for a port bound to no RIB
\* and otherwise unbinds it.
RemoteCloseConnectionResult(p) ==
    /\ ~aborted
    /\ appEvent' = "releaseResult"
    /\ RemoveConnection(p)
    /\ UNCHANGED <<schemas, ribs, nextHandle, aeRib, requests, replies, apiRet>>

\* RIBDaemon::remote_<op>_result: dropped when the port is bound to no RIB,
\* else handed to the application's remote handlers.
RemoteObjResult(op, p) ==
    /\ ~aborted
    /\ appEvent' = IF Bound(p) THEN op ELSE appEvent
    /\ UNCHANGED <<schemas, ribs, nextHandle, aeRib, portRib, requests, replies, apiRet, aborted>>

\* Mutant: the result is sent with port id and invoke id swapped.
ObjRequestSwapped(op, p, name, i) ==
    /\ ~aborted /\ i \notin UsedInvokes
    /\ Received(op, p, i)
    /\ IF ~Bound(p)
         THEN Send(op, i, p, -1)
         ELSE LET r == Store!ObjRequest(ribs[portRib[p]].store, op, name) IN
              IF r.sent THEN Send(op, i, p, r.res) ELSE UNCHANGED replies
    /\ UNCHANGED <<schemas, ribs, nextHandle, aeRib, portRib, apiRet, appEvent, aborted>>

\* RIBDaemon::<op>_request: answered with -1 when the port is bound to no
\* RIB, else handed to RIB::<op>_request, which may send nothing.
ObjRequest(op, p, name, i) ==
    /\ ~aborted /\ i \notin UsedInvokes
    /\ Received(op, p, i)
    /\ IF ~Bound(p)
         THEN Send(op, p, i, -1)
         ELSE LET r == Store!ObjRequest(ribs[portRib[p]].store, op, name) IN
              IF r.sent THEN Send(op, p, i, r.res) ELSE UNCHANGED replies
    /\ UNCHANGED <<schemas, ribs, nextHandle, aeRib, portRib, apiRet, appEvent, aborted>>

\* RIBDaemon::listVersions: reads the schema versions under the read lock.
ListVersions ==
    /\ Api("listVersions", "ok")
    /\ UNCHANGED <<schemas, ribs, nextHandle, aeRib, portRib, requests, replies, appEvent, aborted>>

(***************************************************************************)
(* The library routines and the proxy's client requests                    *)
(***************************************************************************)

LibStep(call, ret) ==
    /\ ~aborted
    /\ Api(call, ret)
    /\ UNCHANGED <<schemas, ribs, nextHandle, aeRib, portRib, requests, replies, appEvent, aborted>>

\* rib::init: throws "Double call" while ribd is set, else creates the
\* daemon (its constructor state is the one Init gives the registry).
LibInit ==
    /\ IF ribd = "NULL"
         THEN LibStep("init", "ok") /\ ribd' = "live"
         ELSE LibStep("init", "Exception") /\ UNCHANGED ribd
    /\ UNCHANGED <<hasProxy, sent, ub>>

\* RIBDaemonProxyFactory: throws while ribd is NULL, else a new proxy
\* wrapping ribd, whatever the daemon it points to has become.
RIBDaemonProxyFactory ==
    /\ IF ribd = "NULL"
         THEN LibStep("proxyFactory", "Exception") /\ UNCHANGED hasProxy
         ELSE LibStep("proxyFactory", "ok") /\ hasProxy' = TRUE
    /\ UNCHANGED <<ribd, sent, ub>>

\* rib::fini: delete ribd, leaving the pointer set; deleting it a second
\* time is undefined behaviour, deleting NULL does nothing.
LibFini ==
    /\ LibStep("fini", "ok")
    /\ ribd' = IF ribd = "live" THEN "deleted" ELSE ribd
    /\ ub' = (ub \/ ribd = "deleted")
    /\ UNCHANGED <<hasProxy, sent>>

\* After fini, a proxy call or a CDAP provider callback runs on the freed
\* daemon: undefined behaviour, whose outcome the model does not follow.
UseAfterFree ==
    /\ ~aborted /\ ribd = "deleted" /\ ~ub
    /\ ub' = TRUE
    /\ UNCHANGED <<schemas, ribs, nextHandle, aeRib, portRib, requests, replies,
                   apiRet, appEvent, aborted, ribd, hasProxy, sent>>

\* RIBDaemonProxy::remote_open_connection, remote_close_connection and
\* remote_<op>: handed to ribd->cdap_provider; the connection is not
\* stored ("TODO store?"), so the port stays bound to no RIB.
ClientRequest(op, p) ==
    /\ ~aborted /\ [op |-> op, port |-> p] \notin sent
    /\ sent' = sent \cup {[op |-> op, port |-> p]}
    /\ UNCHANGED <<schemas, ribs, nextHandle, aeRib, portRib, requests, replies,
                   apiRet, appEvent, aborted, ribd, hasProxy, ub>>

\* The peer answers request q; the CDAP provider calls the daemon's
\* remote_<op>_result for it.
PeerAnswers(q) ==
    /\ sent' = sent \ {q}
    /\ CASE q.op = "remote_open"  -> RemoteOpenConnectionResult(q.port)
         [] q.op = "remote_close" -> RemoteCloseConnectionResult(q.port)
         [] OTHER                 -> RemoteObjResult(q.op, q.port)
    /\ UNCHANGED <<ribd, hasProxy, ub>>

ApiCall ==
    \/ ListVersions
    \/ \E v \in Versions : CreateSchema(v) \/ CreateRIB(v) \/ DestroySchema(v)
    \/ \E h \in HandleArgs : DestroyRIB(h)
    \/ \E v \in Versions, ae \in AENames : Get(v, ae)
    \/ \E h \in HandleArgs, ae \in AENames : AssociateRIBtoAE(h, ae) \/ DeassociateRIBfromAE(h, ae)

Callback ==
    \/ \E p \in Ports, ae \in AENames, v \in Versions, i \in InvokeIds : OpenConnection(p, ae, v, i)
    \/ \E p \in Ports, i \in InvokeIds : CloseConnection(p, i)
    \/ \E p \in Ports, op \in Store!ObjOps, n \in ObjNames, i \in InvokeIds : ObjRequest(op, p, n, i)

\* The application calls the library routines, and, through a proxy, the
\* daemon's API and remote requests; the CDAP provider's callbacks reach
\* the daemon once init created it.  After fini every one of them uses the
\* freed daemon.
Next ==
    \/ LibInit \/ RIBDaemonProxyFactory \/ LibFini \/ UseAfterFree
    \/ /\ ribd = "live" /\ hasProxy
       /\ \/ ~aborted /\ ApiCall /\ UNCHANGED libVars
          \/ \E op \in ClientOps, p \in ClientPorts : ClientRequest(op, p)
    \/ ribd = "live" /\ Callback /\ UNCHANGED libVars
    \/ ribd = "live" /\ \E q \in sent : PeerAnswers(q)

Spec == Init /\ [][Next]_vars

(***************************************************************************)
(* Properties                                                              *)
(***************************************************************************)

TypeOK ==
    /\ DOMAIN schemas \subseteq Versions /\ \A v \in DOMAIN schemas : schemas[v] \in Nat
    /\ nextHandle \in Int
    /\ DOMAIN portRib \subseteq Ports /\ DOMAIN aeRib \subseteq AENames \X Versions
    /\ requests \subseteq [op : ConOps \cup Store!ObjOps, port : Ports, invoke : InvokeIds]
    /\ replies \subseteq [op : ConOps \cup Store!ObjOps, port : Ports, invoke : InvokeIds, res : Int]
    /\ apiRet.ret \in Errors
    /\ aborted \in BOOLEAN
    /\ ribd \in {"NULL", "live", "deleted"} /\ hasProxy \in BOOLEAN /\ ub \in BOOLEAN
    /\ sent \subseteq [op : ClientOps, port : ClientPorts]

\* A connection request (open_connection, close_connection) is always
\* answered: the peer waits for the M_CONNECT_R / M_RELEASE_R.
ConnectionRequestsAnswered ==
    \A q \in requests : q.op \in ConOps =>
        \E r \in replies : r.invoke = q.invoke /\ r.op = q.op

\* Once a schema of version v exists, createRIB(v) hands out a RIB (spec:
\* "Create a RIB instance for a schema version").
CreateRIBSucceeds ==
    apiRet.call = "createRIB" => apiRet.ret \notin {"InvalidHandle"}

\* No callback of the CDAP provider makes the daemon hit assert(0).
NeverAborts == ~aborted
=============================================================================
