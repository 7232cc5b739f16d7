------------------------------ MODULE RIBStore ------------------------------
(***************************************************************************)
(* The object store of one RIB instance (class RIB, librina rib_v2.cc) and *)
(* the handlers RIB::<op>_request that answer incoming CDAP requests on    *)
(* it.  Pure operators, no variables: RIB.tla drives them as a unit, and   *)
(* RIBDaemon.tla calls the handlers when a port is bound to a RIB.         *)
(*                                                                         *)
(* An object name (fqn) is the sequence of its segments between           *)
(* separators; <<>> is the empty string "".  Objects are records with the *)
(* fields the store reads: the delegation flag and the result code its     *)
(* handlers return (RIBObj_ returns -2, an application subclass may       *)
(* return anything).                                                       *)
(***************************************************************************)
EXTENDS Integers, Sequences, TLC

CONSTANTS
    InstIdWrap      \* int64_t next_inst_id: values past it wrap to -InstIdWrap

\* The reply of a handler: sent with a result code, or nothing sent at all.
Reply(r) == [sent |-> TRUE, res |-> r]
NoReply  == [sent |-> FALSE, res |-> 0]

\* What a call that never returns yields (a spin loop, a lock held by the
\* caller itself).
Hang == "hang"

\* The store after RIB::RIB: the four maps are empty, num_of_deleg and
\* next_inst_id are left uninitialised by the constructor, so every value
\* the build can leave in them is possible.
Stores(InitIds, InitDelegs) ==
    { [inst |-> <<>>, name |-> <<>>, next |-> n, ndeleg |-> d] :
        n \in InitIds, d \in InitDelegs }

\* RIB::get_parent_fqn: the prefix before the last separator, "" if none.
GetParentFqn(fqn) == IF Len(fqn) <= 1 THEN <<>> ELSE SubSeq(fqn, 1, Len(fqn) - 1)

\* RIB::__get_obj_inst_id (also get_obj_inst_id, which only adds the read
\* lock): the instance id of fqn in name_inst_map, -1 if absent.
GetObjInstId(s, fqn) == IF fqn \in DOMAIN s.name THEN s.name[fqn] ELSE -1

\* RIB::get_obj: the object of obj_inst_map, NULL if absent.
HasObj(s, id) == id \in DOMAIN s.inst

\* RIB::get_new_inst_id: for(;; ++next_inst_id), restarting at 1, and
\* leaving the loop when next_inst_id IS in obj_inst_map.  On an empty map it
\* never leaves; ids beyond InstIdWrap stand for the int64 wrap-around.
RECURSIVE ProbeInstId(_, _, _)
ProbeInstId(n, used, steps) ==
    LET m == IF n < 1 THEN 1 ELSE n IN
    IF m \in used THEN m
    ELSE IF steps = 0 THEN Hang
    ELSE ProbeInstId(IF m = InstIdWrap THEN -InstIdWrap ELSE m + 1, used, steps - 1)
GetNewInstId(s) == ProbeInstId(s.next, DOMAIN s.inst, 2 * InstIdWrap + 1)

\* RIB::add_obj(fqn, obj): the store afterwards and the return value.  The
\* parent must have an id; an fqn WITHOUT an id is refused as "already
\* exists"; otherwise the id of get_new_inst_id is (re)bound in all maps.
AddObj(s, fqn, obj) ==
    LET id == GetNewInstId(s) IN
    CASE GetObjInstId(s, GetParentFqn(fqn)) = -1 -> [store |-> s, ret |-> -1]
      [] GetObjInstId(s, fqn) = -1               -> [store |-> s, ret |-> -1]
      [] id = Hang                               -> [store |-> s, ret |-> Hang]
      [] OTHER ->
         [store |-> [s EXCEPT !.inst   = (id :> [fqn |-> fqn] @@ obj) @@ @,
                              !.name   = (fqn :> id) @@ @,
                              !.next   = id,
                              !.ndeleg = IF obj.delegates THEN @ + 1 ELSE @],
          ret |-> id]

\* RIB::__remove_obj(inst_id): -1 for an unknown id.  Otherwise it holds the
\* write lock of the RIB and calls get_obj_fqn, which takes the read lock of
\* the same rwlock: the calling thread blocks on itself.
RemoveObj(s, id) ==
    IF ~HasObj(s, id) THEN [store |-> s, ret |-> -1]
    ELSE [store |-> s, ret |-> Hang]

\* RIB::create_request: the object, else its parent, answers; when neither
\* exists the handler returns without replying.
CreateRequest(s, fqn) ==
    LET id  == GetObjInstId(s, fqn)
        pid == GetObjInstId(s, GetParentFqn(fqn))
    IN  CASE id # 0 /\ HasObj(s, id) -> Reply(s.inst[id].res)
          [] HasObj(s, pid)          -> Reply(s.inst[pid].res)
          [] OTHER                   -> NoReply

\* RIB::delete_request: the object answers; an unknown name gets no reply.
DeleteRequest(s, fqn) ==
    LET id == GetObjInstId(s, fqn) IN
    IF HasObj(s, id) THEN Reply(s.inst[id].res) ELSE NoReply

\* RIB::read_request, cancel_read_request, write_request, start_request and
\* stop_request: the object answers; an unknown name is answered with -1.
OtherRequest(s, fqn) ==
    LET id == GetObjInstId(s, fqn) IN
    IF HasObj(s, id) THEN Reply(s.inst[id].res) ELSE Reply(-1)

\* The seven object operations a CDAP peer can request.
ObjOps == {"create", "delete", "read", "cancel_read", "write", "start", "stop"}

\* Dispatch of RIBDaemon::<op>_request to RIB::<op>_request.
ObjRequest(s, op, fqn) ==
    CASE op = "create" -> CreateRequest(s, fqn)
      [] op = "delete" -> DeleteRequest(s, fqn)
      [] OTHER         -> OtherRequest(s, fqn)
=============================================================================
