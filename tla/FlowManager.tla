----------------------------- MODULE FlowManager -----------------------------
(***************************************************************************)
(* The flow manager of the management agent (rinad ma/flowm.cc): one       *)
(* FlowWorker thread per flow, kept in the map workers (port id -> worker) *)
(* guarded by a pthread mutex.  spawnWorker and joinWorker are called by   *)
(* the agent's event threads (Callers); each worker thread runs            *)
(* FlowWorker::run, which sets keep_on and loops until it is cleared by    *)
(* FlowWorker::stop.                                                       *)
(*                                                                         *)
(* spawnWorker holds the mutex only for code that no worker thread reads,  *)
(* so its critical section is one step; joinWorker holds it across the     *)
(* blocking pthread_join, which is a step of its own.                      *)
(***************************************************************************)
EXTENDS Naturals, FiniteSets, TLC

CONSTANTS
    Callers,        \* threads calling spawnWorker / joinWorker
    PortIds,        \* port ids of flows
    MaxWorkers,     \* FlowWorker objects allocated over a behaviour
    MaxThreads,     \* threads the process can hold; pthread_create fails beyond
    NDEBUG,         \* TRUE: assert() compiled out; FALSE: assert(0) aborts
    NoOwner         \* model value: the mutex is free

Workers == 1..MaxWorkers

VARIABLES
    workers,    \* FlowManager_::workers: port id -> worker
    mutex,      \* owner of FlowManager_::mutex, or NoOwner
    pc,         \* where each caller is
    cw,         \* the caller's local FlowWorker* w
    cport,      \* the caller's port_id argument
    heap,       \* per worker object: "unborn", "live" (new), "freed" (delete)
    thread,     \* per worker: "none", "start", "loop", "exited", "joined"
    keepOn,     \* FlowWorker::keep_on
    aborted     \* an assert(0) fired in a debug build

vars == <<workers, mutex, pc, cw, cport, heap, thread, keepOn, aborted>>

Running == {w \in Workers : thread[w] \in {"start", "loop"}}
NoWorker == 0

Init ==
    /\ workers = <<>>
    /\ mutex = NoOwner
    /\ pc = [c \in Callers |-> "idle"]
    /\ cw = [c \in Callers |-> NoWorker]
    /\ cport = [c \in Callers |-> CHOOSE p \in PortIds : TRUE]
    /\ heap = [w \in Workers |-> "unborn"]
    /\ thread = [w \in Workers |-> "none"]
    \* keep_on is written by run() before it is read; its initial value is
    \* never observed.
    /\ keepOn = [w \in Workers |-> FALSE]
    /\ aborted = FALSE

Assert0 == aborted' = ~NDEBUG

Erase(f, k) == [x \in DOMAIN f \ {k} |-> f[x]]

\* spawnWorker(port_id), line 77: w = new FlowWorker().
SpawnNew(c, p) ==
    /\ ~aborted /\ pc[c] = "idle"
    /\ \E w \in Workers :
         /\ heap[w] = "unborn" /\ \A v \in Workers : heap[v] = "unborn" => w <= v
         /\ heap' = [heap EXCEPT ![w] = "live"]
         /\ cw' = [cw EXCEPT ![c] = w]
    /\ cport' = [cport EXCEPT ![c] = p]
    /\ pc' = [pc EXCEPT ![c] = "spawn"]
    /\ UNCHANGED <<workers, mutex, thread, keepOn, aborted>>

\* Mutant: the map stores the worker pointer before it is set (NULL).
SpawnLockedNullEntry(c) ==
    LET w == cw[c]
        p == cport[c]
        dup == p \in DOMAIN workers
        createFails == Cardinality(Running \cup {v \in Workers : thread[v] = "exited"}) >= MaxThreads
    IN
    /\ ~aborted /\ pc[c] = "spawn" /\ mutex = NoOwner
    /\ IF dup \/ createFails
         THEN /\ workers' = Erase(workers, p)
              /\ heap' = [heap EXCEPT ![w] = "freed"]
              /\ Assert0
              /\ UNCHANGED thread
         ELSE /\ workers' = (p :> NoWorker) @@ workers
              /\ thread' = [thread EXCEPT ![w] = "start"]
              /\ UNCHANGED <<heap, aborted>>
    /\ pc' = [pc EXCEPT ![c] = "idle"]
    /\ cw' = [cw EXCEPT ![c] = NoWorker]
    /\ UNCHANGED <<mutex, cport, keepOn>>

\* Mutant: after a failed pthread_create, SPAWN_ERROR deletes w but does
\* not erase the entry stored for it at line 95.
SpawnLockedKeepEntry(c) ==
    LET w == cw[c]
        p == cport[c]
        dup == p \in DOMAIN workers
        createFails == Cardinality(Running \cup {v \in Workers : thread[v] = "exited"}) >= MaxThreads
    IN
    /\ ~aborted /\ pc[c] = "spawn" /\ mutex = NoOwner
    /\ IF dup \/ createFails
         THEN /\ workers' = IF dup THEN Erase(workers, p) ELSE (p :> w) @@ workers
              /\ heap' = [heap EXCEPT ![w] = "freed"]
              /\ Assert0
              /\ UNCHANGED thread
         ELSE /\ workers' = (p :> w) @@ workers
              /\ thread' = [thread EXCEPT ![w] = "start"]
              /\ UNCHANGED <<heap, aborted>>
    /\ pc' = [pc EXCEPT ![c] = "idle"]
    /\ cw' = [cw EXCEPT ![c] = NoWorker]
    /\ UNCHANGED <<mutex, cport, keepOn>>

\* spawnWorker, lines 83-120, under the mutex.  An existing entry for the
\* port, or a failing pthread_create, goes to SPAWN_ERROR: the map entry of
\* port_id is erased if there is one, w is deleted, assert(0), unlock and
\* throw.  Otherwise w is stored and its thread created.
SpawnLocked(c) ==
    LET w == cw[c]
        p == cport[c]
        dup == p \in DOMAIN workers
        createFails == Cardinality(Running \cup {v \in Workers : thread[v] = "exited"}) >= MaxThreads
    IN
    /\ ~aborted /\ pc[c] = "spawn" /\ mutex = NoOwner
    /\ IF dup \/ createFails
         THEN /\ workers' = Erase(workers, p)
              /\ heap' = [heap EXCEPT ![w] = "freed"]
              /\ Assert0
              /\ UNCHANGED thread
         ELSE /\ workers' = (p :> w) @@ workers
              /\ thread' = [thread EXCEPT ![w] = "start"]
              /\ UNCHANGED <<heap, aborted>>
    /\ pc' = [pc EXCEPT ![c] = "idle"]
    /\ cw' = [cw EXCEPT ![c] = NoWorker]
    /\ UNCHANGED <<mutex, cport, keepOn>>

\* joinWorker(port_id), lines 129-140: lock; an unknown port goes to
\* JOIN_ERROR (assert(0), unlock, throw); else w->stop() clears keep_on and
\* the caller blocks in pthread_join still holding the mutex.
JoinLock(c, p) ==
    /\ ~aborted /\ pc[c] = "idle" /\ mutex = NoOwner
    /\ cport' = [cport EXCEPT ![c] = p]
    /\ IF p \notin DOMAIN workers
         THEN /\ Assert0
              /\ UNCHANGED <<mutex, pc, cw, keepOn>>
         ELSE /\ mutex' = c
              /\ cw' = [cw EXCEPT ![c] = workers[p]]
              /\ keepOn' = [keepOn EXCEPT ![workers[p]] = FALSE]
              /\ pc' = [pc EXCEPT ![c] = "join"]
              /\ UNCHANGED aborted
    /\ UNCHANGED <<workers, heap, thread>>

\* Mutant: the worker is cleaned up without waiting in pthread_join.
JoinReturnNoWait(c) ==
    LET w == cw[c] IN
    /\ ~aborted /\ pc[c] = "join"
    /\ UNCHANGED thread
    /\ workers' = Erase(workers, cport[c])
    /\ heap' = [heap EXCEPT ![w] = "freed"]
    /\ mutex' = NoOwner
    /\ pc' = [pc EXCEPT ![c] = "idle"]
    /\ cw' = [cw EXCEPT ![c] = NoWorker]
    /\ UNCHANGED <<cport, keepOn, aborted>>

\* joinWorker, lines 143-152: pthread_join returns once the thread has
\* exited; the entry is erased, w deleted and the mutex released.
JoinReturn(c) ==
    LET w == cw[c] IN
    /\ ~aborted /\ pc[c] = "join" /\ thread[w] = "exited"
    /\ thread' = [thread EXCEPT ![w] = "joined"]
    /\ workers' = Erase(workers, cport[c])
    /\ heap' = [heap EXCEPT ![w] = "freed"]
    /\ mutex' = NoOwner
    /\ pc' = [pc EXCEPT ![c] = "idle"]
    /\ cw' = [cw EXCEPT ![c] = NoWorker]
    /\ UNCHANGED <<cport, keepOn, aborted>>

\* FlowWorker::run, line 25: keep_on = true.
WorkerStart(w) ==
    /\ ~aborted /\ thread[w] = "start"
    /\ keepOn' = [keepOn EXCEPT ![w] = TRUE]
    /\ thread' = [thread EXCEPT ![w] = "loop"]
    /\ UNCHANGED <<workers, mutex, pc, cw, cport, heap, aborted>>

\* FlowWorker::run, lines 27-32: while(keep_on) sleep(1); return.  The
\* sleeping iterations change nothing.
WorkerExit(w) ==
    /\ ~aborted /\ thread[w] = "loop" /\ ~keepOn[w]
    /\ thread' = [thread EXCEPT ![w] = "exited"]
    /\ UNCHANGED <<workers, mutex, pc, cw, cport, heap, keepOn, aborted>>
WorkerSleep(w) ==
    /\ ~aborted /\ thread[w] = "loop" /\ keepOn[w]
    /\ UNCHANGED vars

Next ==
    \/ \E c \in Callers, p \in PortIds : SpawnNew(c, p) \/ JoinLock(c, p)
    \/ \E c \in Callers : SpawnLocked(c) \/ JoinReturn(c)
    \/ \E w \in Workers : WorkerStart(w) \/ WorkerExit(w) \/ WorkerSleep(w)

\* The OS schedules every runnable thread; the calls themselves are made at
\* the callers' will and get no fairness.
Fairness ==
    /\ \A c \in Callers : WF_vars(SpawnLocked(c)) /\ WF_vars(JoinReturn(c))
    /\ \A w \in Workers : WF_vars(WorkerStart(w)) /\ WF_vars(WorkerExit(w))

Spec == Init /\ [][Next]_vars /\ Fairness

(***************************************************************************)
(* Properties                                                              *)
(***************************************************************************)

TypeOK ==
    /\ DOMAIN workers \subseteq PortIds /\ \A p \in DOMAIN workers : workers[p] \in Workers
    /\ mutex \in Callers \cup {NoOwner}
    /\ pc \in [Callers -> {"idle", "spawn", "join"}]
    /\ cw \in [Callers -> Workers \cup {NoWorker}]
    /\ heap \in [Workers -> {"unborn", "live", "freed"}]
    /\ thread \in [Workers -> {"none", "start", "loop", "exited", "joined"}]
    /\ keepOn \in [Workers -> BOOLEAN] /\ aborted \in BOOLEAN

\* A FlowWorker is never deleted while its thread still runs FlowWorker::run
\* on it: joinWorker deletes only after pthread_join, spawnWorker's error
\* path only a worker whose thread was never created.
RunningWorkerAllocated == \A w \in Running : heap[w] = "live"

\* Every entry of the workers map points to a worker that has not been
\* deleted, so a later joinWorker never dereferences freed memory.
MapEntriesLive == \A p \in DOMAIN workers : heap[workers[p]] = "live"

\* Every running worker thread is reachable from the workers map, so some
\* joinWorker can stop it: a flow's thread is never leaked.
NoOrphanWorker == \A w \in Running : \E p \in DOMAIN workers : workers[p] = w

\* joinWorker returns: a caller blocked in pthread_join eventually gets the
\* worker's exit (spec: the worker is stopped by a flag, then joined).
JoinEventuallyReturns == \A c \in Callers : pc[c] = "join" ~> pc[c] = "idle"
=============================================================================
