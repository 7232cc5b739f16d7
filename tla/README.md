# TLA+ models of lgcshq-rina

This directory holds TLA+ models of the stateful parts of the RINA stack under `src/`. Each model is checked with TLC. Every definition is translated from the C/C++ source. `PROJECT.json` maps each definition to the lines it models, lists the runs, mutants, findings and hazards, and records which parts are not modelled.

## The system and its parts

| Part | Source | Module(s) |
|---|---|---|
| RIB daemon: schema/RIB registry, AE association, CDAP connection and object callbacks, the library routines and the proxy's client requests | `librina/src/rib_v2.cc` (RIBDaemon, RIBDaemonProxy, `rib::init`/`fini`) | `RIBDaemon`, `MC_RIBDaemon` |
| RIB object store: instance ids, add/remove, per-object requests | `librina/src/rib_v2.cc` (RIB) | `RIBStore` (pure operators) |
| Management agent flow manager: one worker thread per flow | `rinad/src/ma/flowm.cc` | `FlowManager`, `MC_FlowManager` |
| IPC Manager flow-allocation event handlers | `rinad/src/ipcm/flow-allocation.cc` | `IPCMFlowAllocation`; composed with the FAIs in `FlowAllocation`, `MC_FlowAllocation` |
| Kernel/user message serialisation (`irati_msg`, policies, DTP and DTCP configs) | `common/serdes-utils.c` | `SerdesUtils`, `MC_SerdesUtils` |
| RINA name helpers (`rina_name_*`, `rina_sername_valid`) | `common/serdes-utils.c` | `RinaNames` |
| IPCP flow allocator instances (FAIs) and the Flow life cycle they implement | `rinad/src/ipcp/flow-allocator.h` | `FlowAllocatorInstance`, `IPCPFlow` (abstract); composed in `FlowAllocation` |

These parts interact as follows:
- The CDAP provider calls the RIB daemon's callbacks (`open_connection`, `*_request`, `remote_*_result`). The daemon maps each port to a RIB and hands each request to `RIB::*_request`, which uses the object store.
- The IPC Manager's event loop hands flow requests to an IPC process and keeps them in `pending_flow_allocations` until the IPCP or the application answers.
- The management agent spawns and joins one `FlowWorker` thread per flow.
- An IPC process's flow allocator creates one FAI per flow. The IPC Manager's `allocateFlow` becomes `submitAllocateRequest` on a new FAI, the FAI's settled allocation comes back to the IPC Manager as an `IpcmAllocateFlowRequestResultEvent`, and a peer's `M_CREATE` reaches the IPC Manager as a remote `FlowRequestEvent` whose answer returns as `submitAllocateResponse`. The FAI keeps the port id until its teardown timer fires.
- Messages between user space and the kernel are encoded by `serialize_irati_msg` and decoded by `deserialize_irati_msg`, both driven by a per-type layout table.

Each part is modelled as its own module. The IPC Manager and the flow allocator exchange the events listed above, so `FlowAllocation` composes those two modules and checks them together. The other parts share no state in the source: their coupling goes through I/O (netlink and CDAP messages), and they are checked one by one.

## Modules and their correspondence with the code

**RIBStore** models the `RIB` class as operators over a store record `[inst, name, next, ndeleg]`:
- `inst` maps each instance id to its object.
- `name` maps each fully qualified name to its id.
- `next` and `ndeleg` are `next_inst_id` and `num_of_deleg`. The constructor never initialises them, so `Stores` lets them take any value.

The operators translate these functions:
- `GetNewInstId` is `get_new_inst_id`. Its loop stops when it finds an id that is already in use, so on an empty map it never returns: the result is `Hang`.
- `AddObj` is `add_obj`, including its inverted existence check.
- `RemoveObj` is `__remove_obj`. It read-locks the rwlock it already holds for writing, which gives `Hang`.
- `CreateRequest`, `DeleteRequest` and `OtherRequest` are `RIB::*_request`. Each returns the CDAP reply, or `NoReply` where the code returns without sending one.

**RIBDaemon** has one action per public operation of `RIBDaemon`:
- `ListVersions`, `CreateSchema`, `CreateRIB`, `DestroySchema`, `DestroyRIB`, `Get`, `AssociateRIBtoAE` and `DeassociateRIBfromAE` are API calls. Each records its return or exception in `apiRet`.
- `OpenConnection` (with `StoreConnection`), `CloseConnection`, `RemoteOpenConnectionResult`, `RemoteCloseConnectionResult` (with `RemoveConnection`), `RemoteObjResult` and `ObjRequest` are provider callbacks.
- `LibInit`, `RIBDaemonProxyFactory` and `LibFini` are the library routines. `ribd` is the static daemon pointer: `"NULL"`, `"live"` or `"deleted"`. `fini` deletes the daemon and leaves the pointer set, so after it the factory still hands out proxies and `init` throws. `UseAfterFree` is the next proxy call or provider callback on the freed daemon; it sets `ub`, and the model does not follow that undefined behaviour further.
- `ClientRequest` is `RIBDaemonProxy::remote_*`: the request goes to the CDAP provider and is recorded in `sent`. The proxy never stores the connection. `PeerAnswers` is the peer's answer, which the provider hands to the matching `remote_*_result` callback. This is the provider's side of the interface, so it is modelled from the spec.

The application reaches the daemon only through a proxy (`hasProxy`), and the provider's callbacks arrive only once `init` has created the daemon.

The state follows the daemon's maps:
- `schemas` is `ver_schema_map`.
- `ribs` is `handle_rib_map`.
- `aeRib` is `aeversion_rib_map`.
- `portRib` is `port_id_rib_map`.

`requests` and `replies` record the CDAP traffic, and `aborted` records an `assert(0)` when `NDEBUG` is FALSE. `ProbeHandle` translates `get_new_handle` literally. From the reachable state it returns -1, so `createRIB` never succeeds. As a result the RIB-level paths exist in the model but are unreachable, exactly as in the code. The `assert(0)` that `remote_close_connection_result` reaches on an unbound port is hit by every close of a connection the application opened, because the proxy never binds those ports. It only aborts debug builds. `NeverAborts` states it, but it has no run.

Each method is one step. `store_connection` reads `aeversion_rib_map` before taking the lock, and `remove_connection` takes the read lock and then the write lock. Both only act on a RIB, which never exists, so no interleaving inside them is reachable.

**FlowManager** has these variables:
- `pc` holds each caller's position in `spawnWorker`/`joinWorker`.
- `mutex` is the manager's mutex.
- `workers` is the port → worker map.
- `heap` gives each `FlowWorker` object's lifetime: unborn, live or freed.
- `thread` and `keepOn` are the worker threads' state.

The actions are:
- `SpawnNew` is the `new FlowWorker`.
- `SpawnLocked` is the locked section, including the duplicate check, `pthread_create` failure and `SPAWN_ERROR`.
- `JoinLock` is the lock, the lookup and `stop()`.
- `JoinReturn` is the return of `pthread_join` and the cleanup.
- `WorkerStart`, `WorkerSleep` and `WorkerExit` are the three steps of `FlowWorker::run`.

`FlowWorker::stop` is declared in `flowm.h`, which is not among the sources. It is modelled from its use as clearing `keep_on`.

**IPCMFlowAllocation** has one action per handler: `FlowAllocationRequestedLocal`, `FlowAllocationRequestedRemote`, `IpcmAllocateFlowRequestResult` and `AllocateFlowResponse`. `HandleEvent` dispatches on the event's type as the event loop does. The applications are environment actions: `RequestRaised` and `AppAnswers`.

The state consists of:
- `events`, the event loop's queue;
- `pending`, which is `pending_flow_allocations`, keyed by librina's sequence numbers (`nextSeq`);
- `atIpcp` and `atApp`, the requests handed to the IPCP and to the application;
- `notified`, the port ids the application was told with `flowAllocated`;
- `responded`, the results passed to `allocateFlowResponse`.

Whether an IPCP can be found, and whether a librina call throws, are nondeterministic choices. The module has no specification of its own: the IPC process it talks to is the flow allocator, and `FlowAllocation` supplies it.

**FlowAllocation** composes the two. It extends `FlowAllocatorInstance`, one FAI per request, and instantiates `IPCMFlowAllocation` with the IPCM's `notified` renamed `appPorts`. Each step of one side leaves the other side's variables unchanged, except at the points where the code passes control across:
- `IpcpAllocateFlow` is the IPCP taking the IPCM's `allocateFlow`: a new FAI on a free port id, or, with none free, the exception reported as a failed result (`RaiseResult`).
- `IpcpCreateResponse` is `createResponse`. Once the FAI has allocated the flow, or failed without a retry, the IPCP raises the result to the IPCM with the FAI's port.
- `PeerRequestsFlow` is `createFlowRequestMessageReceived`. An accepted request reaches the IPCM as a remote `FlowRequestEvent`.
- `IpcpAllocateFlowResponse` hands the IPCM's `allocateFlowResponse` to the FAI (`submitAllocateResponse`).
- `AppDeallocates` releases only a flow the application was told of (`AppKnowsFlow`). `FaiInternal` holds the FAI steps the IPCM takes no part in.

**SerdesUtils** models the codec as operators:
- `U16`/`U16At` are `serialize_obj`/`deserialize_obj` of a `uint16_t`, using `ByteBits`-bit bytes.
- `StringPrlen`, `SerializeString` and `SerializeRinaName`.
- `RinaNameSerlen`.
- `SerializeIratiMsg` and `IratiMsgSerlens`. The second is a set, because `dtcp_config_serlen` has no return statement (see below).
- `PolicyParmSerlen`, `PolicySerlen`, `SerializePolicyParm`, `SerializePolicy`, `DtpConfigSerlen` and `SerializeDtpConfig`: the policy and DTP-config encoders. The DTP config's fixed fields are abstracted to `DtpFixedLen` zero bytes.
- The DTCP encoders: `WindowFctrlConfigSerlen`/`SerializeWindowFctrlConfig`, `RateFctrlConfigSerlen`/`SerializeRateFctrlConfig`, `DtcpFctrlConfigSerlen`/`SerializeDtcpFctrlConfig`, `DtcpRxctrlConfigSerlen`/`SerializeDtcpRxctrlConfig`, and `SerializeDctpConfig` (the file's spelling). Fixed `uint32_t` fields are `U32Len` zero bytes and a `bool` is one byte; the policies follow in the order each serializer writes them. The `window_based_config` and `rate_based_config` of the flow-control config, and the flow-control and rtx-control configs of the DTCP config, are gated by their flags.
- `DtcpConfigSerlens(c)`: `dtcp_config_serlen` falls off its end without a `return`. This is undefined behaviour, modelled as the values the build can leave in the return register. With `rtx_ctrl` set, that register still holds the computed length. Without it, it holds the zero-extended flag byte, which is 0. So the value is `{ret}` or `{ret, 0}`.
- `DeserializeString`, `DeserializePolicyParm`, `DeserializePolicy` (with its parameter loop `DecodeParams`) `DeserializeDtpConfig`, and the DTCP decoders `DeserializeWindowFctrlConfig`, `DeserializeRateFctrlConfig`, `DeserializeDtcpFctrlConfig`, `DeserializeDtcpRxctrlConfig` and `DeserializeDtcpConfig`. Each decoder step hands its result to the next step as an operator argument: `StringOfLength`, `ParmValue`, `PolicyVersion` and so on. A decode result is `Ok`, `Fault` (a read past the buffer) or `Crash`. `DecodeParams` carries `headInit`, which records whether the `params` list head is valid. `deserialize_policy` `memset`s the head that its caller had just initialised, so `list_add_tail` writes through NULL on the first parameter.
- `DecodeItems`, which runs the decoders over a plan built from the layout (`Plan`): names, strings, flow specs, DTP configs, DTCP configs.
- `DeserializeIratiMsg`. It returns the result, the fault flag, the highest byte read and the decoded message.

A driver with four actions composes the operators:
- `Send` serialises a message.
- `Receive` copies any length `0..serlen+1` of the buffer into memory followed by arbitrary junk, then deserialises it.
- `Reset` starts over.
- `NameHelpers` hands one input (`call`) to the name helpers and takes it back. This turns the `RinaNames` properties into state predicates checked for every input.

**RinaNames** translates the name helpers. A C string is a sequence over `Letters ∪ {Colon}`, NULL is the model value `Null`, and a `struct name` is a record of four components:
- `RinaSernameValid`;
- `RinaNameToString`;
- `Strsep` and `RinaNameFromString` (four `strsep` calls, then `RinaNameFill`);
- `RinaNameCmp`;
- `RinaNameValid`.

The reference definitions are `SplitFields` (RECURSIVE) and `NormName`.

**FlowAllocatorInstance** models the FAIs of one IPC process. Each FAI has these variables:
- `state` is `FAIState`;
- `port` is `port_id_`;
- `retries` is `create_flow_retries_`.

Two more variables are shared:
- `notified` is what the application was told;
- `portsInUse` holds the port ids allocated and not yet released.

There is one action per handler:
- `SubmitAllocateRequest`, `ProcessCreateConnectionResponseEvent` and `CreateResponse` form the requestor path: a positive answer, a retry, or a failure. A negative answer is retried only while the `AllocateRetryPolicy` authorizes it (`retryAuthorized`, any answer, since the policy is pluggable) and fewer than `MaxCreateFlowRetries` retries were made (`GivesUp`). The `CreateFlowTimer` is not modelled, because the header documents only its reset: the peer always answers.
- `CreateFlowRequestMessageReceived` (accepted or refused). The FlowAllocator creates the FAI on the destination port id it chose, so a refused request binds that port and releases it in the same handler, `SubmitAllocateResponse` and `ProcessUpdateConnectionResponseEvent` form the recipient path.
- `SubmitDeallocate`, `DeleteFlowRequestMessageReceived`, `ConnectionDestroyed` and `TearDownTimerFires` form the teardown. The port is released only when the 2*MPL timer fires.

`flow-allocator.h` holds only declarations. The transitions that the header's declarations do not fix come from the design's FAI state machine, and `PROJECT.json` marks them `spec_modelled`.

**IPCPFlow** is the abstract specification: `Flow::IPCPFlowState` and the port each flow holds. `FlowAllocatorInstance` maps every FAI state to the Flow state it realises (`FlowStateOf`). Its `Abstract == INSTANCE IPCPFlow WITH ...` is checked as the property `ImplementsIPCPFlow`.

## Runs

| Run | Result | What it shows |
|---|---|---|
| `rib_daemon` | pass | The daemon's state stays well formed (`TypeOK`) under every sequence of API calls, library routines, provider callbacks and client requests. This run exercises every RIB daemon action. Every correctness property the daemon should have is violated by a defect reachable in a few steps. Two of these defects are the violation runs below, and the others are hazards without a run. |
| `rib_create_fails` | violation | `createRIB` after `createSchema` returns InvalidHandle (`get_new_handle`). |
| `rib_open_unanswered` | violation | An M_CONNECT for an AE with no RIB is never answered (`store_connection` throws). |
| `flow_manager` | pass | No running thread's worker is freed, and every map entry is live. |
| `flow_manager_orphan` | violation | A duplicate `spawnWorker` erases the live worker's entry, orphaning its thread. |
| `flow_manager_join_hang` | violation | `stop()` before `keep_on = true` makes `joinWorker` hang with the mutex held. |
| `flow_alloc` | pass | IPCM and FAIs together: an application is given only the port of the FAI that allocated its flow, each request is answered at most once, port ids are neither reused nor leaked while an FAI (including one waiting 2*MPL) holds them, every served request and every FAI allocation is eventually answered, and the FAIs refine `IPCPFlow`. |
| `flow_alloc_dropped` | violation | A flow request, local or from a peer, for which no IPC process is found is dropped: nobody is ever answered. |
| `flow_alloc_leak` | violation | When `allocateFlowResult` throws, the application is told -1 while the FAI keeps the flow and its port id, and nobody can release them. |
| `serdes` | pass | The serialised size equals `irati_msg_serlen` (for messages without DTCP configs, whose `serlen` is undefined), decoding round-trips, and every wrong length is rejected. The name helpers round-trip through their string form, `rina_sername_valid` and `rina_name_valid` agree with the field structure, and `rina_name_cmp` is equality. |
| `serdes_overread` | violation | Decoding reads past the received length before the final length check. |
| `serdes_policy_crash` | violation | A DTP config whose policy has one parameter does not round-trip: `deserialize_policy` zeroes the `params` list head, and `list_add_tail` then writes through NULL. |

Each violation is a disagreement between the code and what its comments or interface promise. The findings in `PROJECT.json` explain each one.

Every property of a passing run has a mutant. A mutant is an operator defined just before the action it replaces, and it reproduces a plausible slip in that code:
- swapped ids;
- a map entry kept or NULL;
- no wait in join;
- the result passed as a port;
- a failure ignored;
- a notification moved into the try block;
- the pending entry kept;
- a `uint16_t` not split into bytes;
- a missing length prefix;
- rate-based flow-control policies written in `rate_fctrl_config_serlen`'s order instead of the serializer's;
- a missing final length check;
- a colon count off by one, an empty component kept as "", a comparison that skips a field, and a NULL-only validity test (the name helpers);
- a failure that is not reported, a teardown without the 2*MPL wait, a port released at connection destroy, and a refusal that leaks its port (the FAIs).

TLC finds each mutant violating its property.

## Bounds

- **RIBDaemon:**
  - two versions, one AE and two ports;
  - a three-level name tree;
  - two invoke ids;
  - handle and instance ids that wrap at 3;
  - client requests `remote_open`, `remote_close` and `remote_read` (one object operation stands for all seven, whose result handlers are identical) on one client port.

  These bounds are enough for every registry operation to hit both its success and its error branch, and for every library routine to run before `init`, while the daemon is live and after `fini`. No port is ever bound, because `createRIB` never succeeds. The run reaches 596k states. Two client ports give 4.75M states and take three minutes.
- **FlowManager:**
  - two callers (symmetric) and two ports;
  - four worker objects (enough for an orphaned thread plus two live ones, so `pthread_create` can fail on a fresh port);
  - a thread limit of 2, so `pthread_create` can fail.

  Two callers are the fewest that can race on the same port.
- **FlowAllocation** (the IPCM and the FAIs):
  - two local requests and one from a peer, each with its own FAI;
  - one port id, so two FAIs compete for it: one request finds no free port and fails, and a released port is reused only after the 2*MPL wait;
  - `MaxCreateFlowRetries = 1`, so an FAI retries at most once, and the retry policy may also refuse the first retry.

  These bounds allow concurrent pending allocations, duplicate application answers, and success and failure on both paths. The run reaches 95k states in about 40 s. Two ports and two retries give 1.9M states and take 20 minutes, which is too slow to run with every mutant.
- **SerdesUtils:**
  - 1-bit bytes, so a `uint16_t` is two bytes with values 0..3 and the 65535 cap becomes 3;
  - two message layouts, one with a name and one with two strings and a flow spec;
  - strings of length 0, 1 and 4, the last above the cap;
  - two junk bytes past the buffer;
  - four message layouts, the third with one DTP config and the fourth with one DTCP config, and policy strings NULL or one byte;
  - DTCP configs (`MCDtcpConfigs`) that cover every combination of the four gating flags `flow_ctrl`, `rtx_ctrl`, `window_based` and `rate_based`. In each config one of the 17 policies is marked and the others are plain, so a policy written out of order fails to round-trip;
  - `MaxPolicyParams` 0 in the passing run, because with any parameter the decoder crashes. The `serdes_policy_crash` run uses 1;
  - for the name helpers: letters `{a, b}`, strings of up to 5 characters (enough for four colons and a letter, which the colon-count mutant needs), and names whose components are NULL, "" or one letter.

## Fairness

- **FlowManager:** the threads that are already runnable get weak fairness. These are the locked sections `SpawnLocked` and `JoinReturn`, which run once the mutex is free, and the worker's `WorkerStart`/`WorkerExit`. This models any OS scheduler. New calls from callers get no fairness.
- **FlowAllocation:**
  - Each queued IPCM event is handled, because the event loop is a single loop over the queue.
  - The IPCP takes every `allocateFlow` and `allocateFlowResponse` it is sent.
  - Kernel events (the create and update connection responses and connection destroy), the peer's answer to a create request and the teardown timer get weak fairness. The IPC process's event loop and timer deliver all of them.
  - Applications and peers making new requests, and applications answering or releasing flows, get no fairness.
- **RIBDaemon and SerdesUtils:** safety only.
- **Deadlock checking:** the `flow_alloc` runs set `CHECK_DEADLOCK FALSE`, because the event loop is idle and every bounded FAI has finished once all requests are settled.

## Not modelled, and the plan

- **RIB store:** the operators translate the code, including the inverted `add_obj` check, the `get_new_inst_id` hang and the `__remove_obj` self-deadlock. But `createRIB` never succeeds, so no reachable state holds a RIB, and no property is checked on them. A run that starts from a RIB would check states the program cannot reach.
- **RIB properties without a run:**
  - the use of the freed daemon after `fini`, which `LibFini` and `UseAfterFree` model;
  - the dropped results of the application's remote object operations: `remote_<op>_result` finds no RIB on a client port. The requirement that the application is told each result is violated in four steps: init, proxy, `remote_read`, and the answer;
  - the `assert(0)` that every close of a client connection reaches.

  All three are listed as hazards. Each needs a violation run of its own, and every run slot answers another question.
- **RIB schemas:** `RIBSchema::ribSchemaDefContRelation` and the `RIBSchemaObject` tree. Nothing in the repository calls them, and a schema made by `createSchema` has no classes.
- **Serdes, still missing:**
  - DIF configs (`serialize_dif_config` and its helpers are declared but not defined in the file), buffers, `irati_msg_free`, and `rina_name_copy` (its `strdup` results are not checked);
  - the `irati_msg_free` and `irati_numtables_max_size` size computations, because they use `sizeof` of structs defined outside `src/`.

  Several policy and DTP routines do not compile as written: `deserialize_obj` is called with non-pointer arguments, `serialize_policy_parm` is passed `pos`, `serialize_irati_msg` calls `serialize_dtcp_config` while the file defines `serialize_dctp_config`, and the nested DTCP serializers are called without their `pptr` argument. They are modelled by their evident intent.
- **RINA names:** the NULL-on-`strdup`-failure paths of `__rina_name_fill`, because allocation failure is not modelled.
- **Not modelled at all:**
  - `netlink-parsers.h` and `librina-application.h` are declarations only.
  - `librina-common.cc` holds value classes.
  - `shim-empty.c` is kernel stubs.
