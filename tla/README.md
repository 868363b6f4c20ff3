# Verification of mochi-thallium

Thallium (`src/include/thallium/`) is a C++14 header-only library over Margo,
Mercury and Argobots: remote procedure calls, RDMA and user-level threads.
Margo, Mercury and Argobots are not in the repository. What thallium adds, and
what this project is about, is *ownership and protocol*: which object owns
which reference-counted C handle, in which order calls into Margo are made,
and what a program may rely on when ULTs, messages, timers and finalization
interleave.

## 1. The system

| Component (files) | State it keeps | Operations | Interacts with |
|---|---|---|---|
| **Handle ownership**: `callable_remote_procedure`, `async_response`, `packed_data`, `request` | `m_handle` (counted), `m_request` | constructors, assignments, destructors, `forward`, `iforward`, `wait`, `get_input`, `with_serialization_context` | Mercury's reference counts, via `margo_ref_incr` and `margo_destroy` |
| **Calls**: the same classes, `timeout` | timeout, `m_ignore_response`, the output buffer of a handle | `operator()`, `timed`, `async`, `timed_async`, `wait`, `received`, `wait_any`, `respond` | the network, Margo's timers, the remote handler |
| **Registration and dispatch**: `engine::define`, `thallium_generic_rpc`, `remote_procedure` | the function registered for each id | `define`, `deregister`, `disable_response`, `on` | Margo's id table; the ULTs that run handlers |
| **Providers**: `provider`, `provider_handle` | provider id, identity, RPCs that capture `this` | constructor, `define`, destructor, `get_identity` | registration, finalization callbacks |
| **Finalization**: `engine` | two stacks of callbacks | `push_`, `top_`, `pop_` of `finalize` and `prefinalize` callbacks, `finalize`, `finalize_and_wait`, `wait_for_finalize` | Margo runs the callbacks; providers push and pop |
| **Instance references**: `margo_instance_ref` | `m_mid` (counted) | copy, move, destruction | base or member of almost every class |
| **Lists and lookups**: `engine::pools()`, `engine::xstreams()`, `lookup`, `self`, `expose`, `wrap` | Margo's named pools and streams, with reference counts; `named_object_proxy` | `operator[]`, `ref_incr`, `release`, `remove` by name, index or handle | Margo |
| **Bulk**: `bulk`, `bulk_segment`, `remote_bulk`, `timed_remote_bulk`, `async_bulk_op` | `m_bulk` (counted), offset and size of a segment | `select`, `>>`, `<<`, `pull_to`, `push_from`, `wait` | endpoints, Margo's transfers, timeouts |
| **Timed callbacks** | a timer and a `std::function` | `start`, `cancel`, move, destruction | Margo's progress loop, which calls back |
| **Synchronisation**: `eventual`, `future`, `mutex`, `condition_variable`, `barrier`, `rwlock`, `xstream_barrier` | an Argobots object; `eventual` also a value | `set_value`, `wait`, `test`, `reset`, `lock`, ... | ULTs on several execution streams |
| **Work units**: `thread`, `task`, `xstream`, `pool`, `scheduler`, `managed` | an Argobots handle, owned by `managed`; the `std::function` of a unit | `make_thread`, `revive`, `cancel`, `migrate_to`, `yield_to`, `suspend`, `join`, `release`, ... | Argobots, which calls custom pools and schedulers back |
| **Serialization**: `proc_object`, archives, `serialization/stl` | none | encode, decode | `forward`, `respond`, `as`, `define` |
| **Utilities**: exceptions, `logger`, `timer`, tuples | none shared | | |

What is hard in it, and hard to test:

* *Long sequences of legal calls.* Four classes share one handle and each has
  its own hand-written copy, move, assignment and destructor, with different
  rules (which of them null the source, return early, wait, or throw).
* *Late answers.* A timeout races with the response; a `packed_data` does not
  hold the response but a reference to the handle's buffer.
* *Gaps.* `define` registers the id first and the function later; a pop deletes
  the `std::function` first and Margo's entry later.
* *Stale pointers.* A handler runs a `std::function` that belongs to an id
  table; a callback or an RPC captures a provider's `this`.
* *Machine arithmetic.* Selections of selections add and subtract in `size_t`;
  a future counts its compartments twice.
* *Many wrappers, each by hand.* Seventeen classes own or alias a native handle,
  and no two have quite the same assignment operator.
* *Callbacks on other streams.* A timer fires while its object is assigned to or
  destroyed; a stolen, migrated or revived work unit must still be run once.
* *Termination.* A finalization must end whatever its callbacks do; a timed
  call must end whatever the network does; a join must return.

`PROJECT.json` lists the hazards one by one, at the line where each bites, with
the properties that cover it or the reason why none does yet.

## 2. The modules

| Module | What it models | Composes |
|---|---|---|
| `RpcHandle` | ownership of `hg_handle_t` by the objects of both sides | |
| `RpcPromise` | abstract specification: what one call promises its caller | |
| `RpcCall` | calls end to end: callers, the vector of responses, network, handlers, timers | implements `RpcPromise` |
| `RpcDispatch` | `define`, dispatch, `deregister`, providers, finalization waiting for handlers | |
| `EngineFinalize` | callback stacks, finalization, instance references | |
| `BulkTransfer` | selections, the six kinds of transfer, `async_bulk_op`, timeouts and failures | |
| `Wrappers` | how each of seventeen classes constructs, copies, moves, assigns and destroys its native handle | |
| `Monitor` | `mutex` and `condition_variable` | |
| `Eventual` | `eventual` in rounds | |
| `Future` | `future` and its callback | |
| `TimedCallback` | `timed_callback` against the timer's threads | |
| `EngineLists` | `engine::pools()`, `engine::xstreams()`, `named_object_proxy` | |
| `WorkUnits` | threads, tasks, custom pools and schedulers, streams | |
| `Local` | what runs inside one process, one part in each behaviour | the seven above, from `Wrappers` on |
| `RpcHandleProofs`, `RpcCallProofs`, `RpcDispatchProofs`, `EngineFinalizeProofs`, `BulkTransferProofs`, `WrappersProofs` | theorems, for all values of the constants | the module they are named after |
| `WorkUnitsProofs`, `LocalProofs` | the invariant of work units; those of the other parts, and the theorems about `Local` | `Local` and its seven parts |
| `MCRpcHandle`, `MCRpcCall`, `MCRpcDispatch`, `MCEngineFinalize`, `MCBulkTransfer`, `MCLocal` | finite sets for TLC, symmetry | one module each |

Operators that are named as mutants in a comment (`MoveLeavesSource`, ...) are
not part of any specification. Each is a plausible bug in the definition that
follows it, and makes the property it is paired with in `PROJECT.json` fail.

### RpcHandle

An *object* is a C++ variable of one of the four types. `handle[o]` is its
`m_handle`, `NoHandle` after a move, `Dead` outside its lifetime; `request[r]`
is `m_request` of an `async_response`, and `refs[h]` is Mercury's count. Each
constructor, assignment, destructor or call is one action, with the early
returns of the code as guards: `ResponseMoveAssign` requires different requests
because `operator=` does nothing when they are equal, and
`RequestCopyAssign` different handles. Exceptions are actions of their own
where they leave another state (`ResponseMoveAssignThrows`, `WaitNoData`).
`ResponseDestroyTerminates` is `std::terminate`, out of a `noexcept` destructor
whose `wait()` throws, and stops the program. `WaitAny` is `wait_any`, which lets
`margo_wait_any` consume the request of one response and does not clear its
`m_request`: this becomes `Spent`, travels with moves and assignments as any other
value does, and every use of it (`UseSpent`: `wait`, `received`, another `wait_any`,
the destructor, an assignment to that response) is a fault that stops the model,
because Margo has freed what it points to. Whether Margo has given the same address
to a later request by then is not modelled: the use is undefined either way.
`thallium_generic_rpc` is
`Dispatch` (Mercury's reference and that of the local `req`) and
`HandlerReturn`; in between `req` can be copied but not assigned to, moved or
destroyed, because handlers get a `const request&`. `lost` is a history
variable with the references that `packed_data::operator=` drops; without it
the accounting of everything else could not be stated.

### RpcPromise and RpcCall

`RpcCall` follows calls from `operator()`, `timed`, `async` or `timed_async` to
their outcome. A call owns a handle until its operation is over. `op[h]` is
Mercury's operation, `output[h]` (history) tells whose response the handle's
buffer holds. Messages are a set: they may be delayed and reordered for as long
as TLC likes, a message that is never delivered is lost, and a handler that
never responds is `Silent` - for instance because its arguments could not be
decoded (`engine.hpp:1092-1097`). The caller keeps its `async_response` objects
in a vector, as the examples and tests do. `erase` is modelled by what
`std::vector::erase` does: it move-assigns each later element onto its
predecessor, in which the early return of `async_response::operator=` matters
(`Erased`), and destroys the last. `WaitAny` leaves `m_request` as it is, as
the code does.

`RpcPromise` is the abstract specification: a call ends at most once, with data
only after its own handler responded, with `thallium::timeout` only if it was
given a timeout, empty only if responses are disabled. `KeepsPromise` maps
`result` and `server` of `RpcCall` to it.

### RpcDispatch

An id (name and provider id) is in Margo's table with or without handler, and
has data or not. `define` of a function is `Register` followed by
`RegisterData`, or `RegisterDataThrows` when the id has been deregistered in
between. An RPC is queued by Margo (`Arrive`), looks its function up (`Call`) and
returns (`Return`). `heap` is the state of every `rpc_callback_data`, and
`self` the provider that its lambda captures (`provider::define_member`).
`rpcs` are the `remote_procedure` members through which a provider will deregister
what it has defined; they name ids, so that a deregistration takes the function away
that was defined last, whoever did that. `Destroy`, `DestructorDeregisters` and
`Destroyed` are the steps of a provider's destructor, written as in
`docs/examples/thallium/15_finalize`. All this happens at any time, also while
handlers run, and a handler that is in a deleted function ends in a fault (`Return`),
as a queued one does whose id has been deregistered (`Call`). What holds even so is
`ReachableIsLive`: a *new* RPC never finds a deleted function; and
`DataThereOutsideGap`: it misses its function for no other reason than these two.

### EngineFinalize

Margo's two lists of (owner, callback), the `std::function` objects thallium
allocates for them, and finalization: `Finalize` increments the instance's
count and starts it, `RunTop` takes an entry off and calls it,
`CallbackReturns` is the rest of `finalize_callback_wrapper`. A pop is two steps,
`PopBegin` up to `delete f` and `PopEnd`, Margo's removal. Callbacks may do
anything meanwhile: push, pop, destroy a provider. `holds` are the
`margo_instance_ref` objects that are not null. `engine::finalize` is called
once, or not at all when the last reference is dropped.

### BulkTransfer

`segment[s]` is the `bulk_segment` of either side that the next transfer will be
between, in numbers modulo `Width`, as `size_t` is. `BulkSelect` is
`bulk::select`, which cuts nothing; `SubSelect` is `bulk_segment::select`, which
cuts the size (`EffectiveSize`) with the additions and subtractions of
`bulk.hpp:463-467`, for any offset and size. `chosen[s]` (history) are the bytes that
the program asked for, as sets and without arithmetic: the reference definition
against which the arithmetic is checked by `SelectionExact`. `wild[s]` (history) says
that some selection on the way began beyond its segment, or that its offset and size
add up to no `size_t`. `SelectionExact` and `Confined` say that this is the only way out of
what was selected, and `AlwaysConfined`, which has no such exception, fails.
`Post` cuts the transfer to the smaller side, as `remote_bulk::transfer` and its
five siblings do, and fails where Mercury refuses what exceeds the exposed memory
(`Fits`, external). Mercury may write any prefix before a transfer expires or fails.
`object[a]` is an `async_bulk_op`: its `m_request`, and the transfer whose size is in
`m_tranferred_size`. The move constructor leaves that size uninitialized and the
move assignment leaves it as it was; `wait()` then returns any size, or the old one. A
destructor whose `wait()` throws ends the program.

### Wrappers

All objects of a behaviour are of one class, chosen at the start. `native[o]` is
the handle inside, `refs` how often it is referred to - by counting for `bulk`
and `endpoint`, once for the owners, once for `managed<T>` where `thread`,
`task`, `pool`, `xstream` and `scheduler` objects only alias it. Each class is
one definition (`Mutex`, `Rwlock`, `Bulk`, ...) put together from a few shared
steps, so that the differences can be read off: who tests for self-assignment,
who throws, who forgets. `lost` counts references that the code is known to
drop: decoding into a `bulk` that holds one (`bulk.hpp:320`), assigning to a
`timed_callback`, moving a handle out of a `managed` object.

### Monitor, Eventual, Future, TimedCallback

`Monitor`: waiters in `wait(lock, predicate)`, some with a deadline, and producers
that make the predicate true under the lock and notify without it. Wakeups may
be spurious, `notify_all` may wake several for one item, and an expired waiter
takes an item if there is one. `NoSignalLost` says that while anybody sleeps there are
no more items than producers about to notify and waiters already awake. `lock`, `lock_low`, `spin_lock` and a successful
`try_lock` are one action.

`Eventual`: `set_value` in its two steps, the store into `m_value` and
`ABT_eventual_set`; `wait` in its two, the native wait and the read. A second
setter throws, but has stored its value. Rounds end with `reset`, which the
creator of the threads calls after it has joined them, as the tests do.

`Future`: the constructor's two extra values, `set`, and `when_ready`, which reads
the number of values from the array and copies that many from its third
element on, past the end (`Garbage`).

`TimedCallback`: `cancel`, `operator=` and the destructor begin and return in two
actions, so that timers expire and call in between. Each function belongs to
one timer.

### EngineLists

Two lists, Margo's counts, and the proxy each user has found. Every operation
takes a name, an index or a handle as the code does; `Target` says what each
designates by now.

### WorkUnits

`units[p]` and `in_pool` are the members of `my_pool` and `my_unit` of
`examples/14_custom_sched`, called through the adaptors in `pool.hpp` and
`scheduler.hpp`; `fun[u]` is the `std::function` that `make_thread`, `revive`
and the others allocate and `forward_work_unit` deletes; when Argobots fails to create
or revive a unit (`CreateFails`, `ReviveFails`) nobody deletes it. A scheduler's loop is
`Poll` (its own pool), `Steal` (another one, when its own was found empty), `RunUnit`,
`Return`, `Check`. Migration and cancellation are requests that
`run_unit` grants. `HasToStop` counts blocked and migrating units, as
`ABT_sched_has_to_stop` is documented to. `NobodyLeftBehind` says that the pool to
which an unfinished unit returns is always served by a stream that has not stopped.

### Local

These seven parts share no state in the code, and a behaviour of `Local` exercises one
of them, chosen in its initial state, while the others stay where they are.
That keeps one set of constants and one statement of progress (`EveryPartEnds`)
without multiplying the state spaces.

## 3. What is checked

| Run | Instance | Shows |
|---|---|---|
| `handle_ownership` (`RpcHandle.cfg`) | 2 handles, 2 objects of each of the 4 types, 1 lost reference per handle; symmetry; 112,176 states | `Accounting`, `NoUseAfterFree`, `PendingHasOneOwner` |
| `call_promise` (`RpcCall.cfg`) | 2 calls, 2 handles, timeouts 0 and 5; 81,601 states | `OneWaiter`, `PackedHoldsOwnResponse`, `KeepsPromise` (refinement), `TimedCallsEnd`, `AnsweredCallsEnd` |
| `dispatch` (`RpcDispatch.cfg`) | 2 ids, 3 functions, 2 providers, 2 RPCs; symmetry; 1,106,192 states | `FunctionsOwned`, `ReachableIsLive`, `DataThereOutsideGap` |
| `finalization` (`EngineFinalize.cfg`) | 3 callbacks, 1 owner, 2 ULTs, 2 references; 20,001 states | `RefsExact`, `OneFate`, `EntriesLive`, `DeadOwnersSilent`, `FinalizeEnds` |
| `bulk` (`BulkTransfer.cfg`) | 2 transfers between bulks of 1 and 2 bytes, two-bit arithmetic, 2 selections of any offset and size, 2 `async_bulk_op`; 475,760 states | `SelectionExact`, `Confined`, `SomebodyWaits`, `TimedTransfersEnd` |
| `local` (`Local.cfg`) | see below; 116,992 states | `TypesOK`, `Accounting`, `PredicateHolds`, `NoSignalLost`, `ValueOfThisRound`, `CallbackFirst`, `FunctionAlive`, `CancelHolds`, `ReferencesKept`, `OnePlace`, `FunctionOnce`, `NobodyLeftBehind`, `EveryPartEnds` |
| `packed_data_leak` | as `handle_ownership` | *violated*: `NoLeak` |
| `wait_any_erase` | 2 calls, 2 handles | *violated*: `NoDoubleWait` |
| `define_gap` | as `dispatch`, 1 provider | *violated*: `RegisteredDataNotNull` |
| `select_wraps` | as `bulk`, 1 transfer | *violated*: `AlwaysConfined` |
| `finalize_during_pop` | as `finalization`, `Concurrent` | *violated*: `NoUseAfterFree` |
| `future_vector` | as `local` | *violated*: `VectorIsObjects` |

`local` is, part by part: 3 objects, 2 of them managed where the class has
`managed`, on 2 handles; 2 waiters, 1 waiter with a deadline and 3 producers; 2
rounds of an eventual with 3 setters and 2 waiters; a future of 2 objects that is
set 3 times; 2 timed callbacks started 3 times; 2 pools, 2 streams and 2 users
of the lists; 2 threads on 2 streams of which one steals, with 1 revival and
1 yield, suspension or request.

**Bounds.** Two objects of each type are what an assignment needs, and two
handles make both its outcomes (equal or different handles) possible; a third of
either adds no new pair. `RpcHandleProofs` removes this bound altogether. `MaxLeak`
bounds only the history of lost references. Two calls make a vector that is erased
from at either end while the other response is late; `RpcCallProofs` covers vectors of
any length. Three functions allow an id to be defined, deregistered and defined again
while another id is in use; two RPCs allow one to be queued while another runs, and two
providers to define the same id.
Three callbacks make two with and one without owner, or the reverse, in
either stack. Two transfers make the sizes of one land in the object of
another; one byte against two makes both sides the smaller one, and two-bit
words wrap as soon as an offset and a size of the larger bulk are added; two
selections make a selection of a selection. Three objects are two that share and
one that takes. Two waiters and one with a deadline compete for every
item, and three items for three waiters are what a lost signal needs; a second round tells a stale value from a fresh one. Two units on two
streams are what stealing, `yield_to` and migration need; a `task` is a thread that
does not yield, so `Tasks` is empty and every path is the threads'. Where a
theorem removes a bound, section 5 says so. Calls, functions and callbacks are used up, so the systems stop by
themselves; this is why the configurations switch the deadlock check off.

**Disciplines.** A few constants say what callers do, because the code leaves it
to them. `ReuseHandle = FALSE`: a callable is not called again while a result
of it is unread (with `TRUE`, `PackedHoldsOwnResponse` fails: a `packed_data`
shares the handle's buffer). `RetryTimeout = FALSE`: no `wait()` after one that
threw `timeout`. `Concurrent = FALSE`: finalization does not run inside another ULT's
pop. Selections of a bulk, and what changes ids and providers while handlers run, are
under no discipline. `MoveTimers = FALSE`: a `timed_callback` that holds a timer is not moved by
construction (with `TRUE` it is freed twice). `DestroyWaits = TRUE`:
`margo_timer_destroy` waits for a running callback, as `margo_timer_cancel` does
(with `FALSE`, `FunctionAlive` fails). `StaleIndex = FALSE`: an index into a
list is not used after the list has changed. `define_gap` and
`finalize_during_pop` are violated where the documentation makes no
condition.

**Fairness.** `RpcCall`: Margo's progress loop runs (a response that was sent
arrives, an armed timer fires, a send completes) and Argobots resumes a ULT whose
`forward` is over. Nothing is assumed of callers, or of handlers: they may
never respond. The delivery of responses is used by `AnsweredCallsEnd` only;
`TimedCallsEnd` rests on the timer, whatever is lost. `EngineFinalize`: `margo_finalize` goes on and callbacks and pops
return. `BulkTransfer`: Margo's timers fire and a ULT whose transfer is over is
scheduled again; the network owes nothing, so only timed transfers must end.
`Local`: a thread that wants a mutex gets it, although others take it again
and again (strong fairness: Argobots queues them); the threads of an eventual or a
future go on; schedulers keep polling, functions return, whoever blocks is resumed
by somebody, and the program goes on to its joins. Deadlines and spurious wakeups
are never required.

**External behaviour assumed.** `margo_ref_incr` fails on a null handle and
`margo_destroy` does not (`request.hpp` calls it unconditionally); a handle that is
in use by an operation cannot be forwarded again; `margo_wait` and
`margo_wait_any` consume the request; the latter skips null requests;
`margo_register_data` frees the data it replaces, and `margo_deregister` the
data of the id; Margo takes a finalization callback off its list before it calls
it, runs the most recent first, and lets pending handlers end before the progress
loop stops.

## 4. Where the code disagrees with itself

Each is a `violation` run, with the lines quoted in `PROJECT.json`:

1. `packed_data::operator=(packed_data&&)` leaks the handle it held, which its
   own comment warns about.
2. `wait_any` followed by `erase`, as in `examples/08_async/client.cpp`, waits
   again for a request that is gone.
3. The callback of a `future` gets two elements more than the objects expected,
   read from beyond the array that Argobots passes.
4. An RPC that arrives inside `define` fails an assertion of
   `thallium_generic_rpc`.
5. `finalize`, which "can be called by any thread", can run a
   `std::function` that a pop has just deleted.
6. `bulk_segment::select` is said to choose the maximum possible size when the size
   is too large; a huge size, or an offset beyond the segment, wraps around
   instead, and a transfer then writes what nobody selected.

A disagreement no run checks: `wait()` on an `async_bulk_op` that was moved into
returns an uninitialized size, or that of the transfer before (`bulk.hpp:58-70`), where
`tests/unit/test_bulk_transfers.cpp:565-566` takes it for the number of bytes
moved. The model returns these sizes (`Wait`), and no property speaks of them: it
would exempt exactly the objects that were moved into.

## 5. What is proved

`RpcHandleProofs` proves with TLAPS, for any finite sets of objects, any set of
handles and any `MaxLeak`:

* `TypeCorrect`: `Spec => []TypeOK` - no count is ever negative.
* `AccountingHolds`: `Spec => []Accounting`.
* `PendingOwnedOnce`: `Spec => []PendingHasOneOwner`.
* `NoUseAfterFreeHolds`: `Spec => []NoUseAfterFree`.

They follow from `Invariance`, the inductive invariant

    IInv == TypeOK /\ Accounting /\ RequestsPaired /\ FramesHeld

`Accounting` alone is not inductive: `HandlerReturn` takes two references
back and is right only if the local request still holds the handler's handle
(`FramesHeld`), and every other action must leave that object alone.
`PendingHasOneOwner` says nothing of a response whose request is not pending;
`RequestsPaired` adds that a request that is neither null nor `Spent` names the
response's own handle and an operation in progress, and that two responses never
share one. That holds with `wait_any` because the spent request no longer names the
operation, whose handle can be forwarded again. Cardinalities are handled once: `CountUpdate` says how the number of
holders of a handle changes when one object changes its handle, `CountMove` when
one takes another's. Every action is then an instance of "one object is rebound,
and the counts move with it" (`RebindsBalance`, `MovesIntoBalance`). The
counts cannot become negative because an object that gives up a handle was
one of its holders. The assumptions are those `RpcHandle` names: objects are
finitely many, the four types are disjoint, null and dead values are not
handles.

`RpcCallProofs`, for any sets of calls and handles, a vector of any length and any
timeouts:

* `TypeCorrect`, and `OneWaiterHolds`: `Spec => []OneWaiter`.
* `KeepsPromiseHolds`: `Spec => KeepsPromise`, the refinement.
* `PackedHoldsOwnResponseHolds`, if `~ReuseHandle` and `~RetryTimeout`.

The program has many steps, but an operation sees four kinds of them: it is posted,
it ends, the server or the network makes progress, or nothing happens
(`StepKinds`). `OpInv` - no two handles serve one call, an answer is the
answer to the call that is waiting, a message in flight has its handler in the right
state - is kept by each kind. `WaitInv` is about the vector: requests are unique, a
request that is not spent names the operation that its handle serves, and
every operation without blocked ULT has an entry. `OneWaiter` alone would not
survive an erase: one has to know that requests are unique to see that the
chain of move assignments, with its early return on equal requests, drops nothing
(`EraseEffect`). The refinement then follows kind by kind.

`RpcDispatchProofs`, for any sets of ids, functions, providers and RPCs:
`TypeCorrect`, `FunctionsOwnedHolds`, `ReachableIsLiveHolds` and
`DataThereOutsideGapHolds`, whatever callers do. `OwnershipInv` ties every function to
the step its `define` is at and to at most one id. That what an id leads to is live
needs the way back from a function to the members of the provider it captures
(`Kept`: as long as an id leads to a function of a provider, the provider has the
id among the `rpcs` it will deregister), that a provider is there as long as a
`define` of it is under way (`Outlives`), and that a provider is gone only when it has
nothing left to deregister (`NothingLeft`). An id with a handler has data, or a `define`
that is between its two steps (`HandlersHaveData`): attaching data ends the gap
for every other `define` of the id too, and the last way out of it, `RegisterDataThrows`,
is open only once the handler is gone.

`EngineFinalizeProofs`, for any sets of callbacks, owners, ULTs and references:
`TypeCorrect`, `RefsExactHolds` and `OneFateHolds` whatever `Concurrent` is, and if
`~Concurrent`, `EntriesLiveHolds` and `DeadOwnersSilentHolds`. The invariant
behind the last two, `Lists`, says that at most one pop is under way, that
entries are distinct and, but for the one it has begun to remove, live, and that
an owner with such an entry is alive. The pop removes the last entry of
its owner; that this exists is the well-foundedness of the naturals.

`BulkTransferProofs`, for bulks of any size, words of any width, and any number
of transfers, selections and objects, and without a condition on what is selected:
`TypeCorrect`, `SelectionExactHolds`, `ConfinedHolds`, `SomebodyWaitsHolds`. One
selection keeps exactness because, when nothing wraps, `EffectiveSize` is the smaller of the
size asked for and what is left of the segment, in whichever branch of the code.
Confinement then rests on each transfer's range lying inside the bytes that were
chosen for its destination, unless these were selected wildly (`InScope`), which holds
because `CutSize` only ever shortens a range. That somebody waits rests on every request being in
one object or one blocked ULT (`Waiting`).

`WrappersProofs`: `AccountingHolds`, for all seventeen classes and any sets of
objects and handles, if `~MoveTimers`. `TypeOK /\ Accounting` is inductive; the
proof has one lemma for each shared step (create, take over, share, ...), and each
class is a disjunction of these.

`LocalProofs` and `WorkUnitsProofs` prove what the run `local` checks, of the
composition itself and for any sets of threads, objects, timers, lists, units, pools
and streams. The assumptions are those that `Local` names, and TLC evaluates them
whenever it checks `Local`; among them, `Nobody` is not a thread, a waiter has either a deadline
or none, threads are finitely many, listed names are distinct, every scheduler has a
pool and every pool a scheduler. Each part has an inductive invariant of its own. A
step of `Local` is a step of one part and leaves the variables of the others alone
(`PartSteps`), which also gives `PartsImplemented`: `Local` implements the
specification of each part, but for fairness.

| Theorems | Inductive invariant | Why the property alone is not enough |
|---|---|---|
| `PredicateAlwaysHolds`, `NoSignalIsLost` | `MonitorInv` | Whoever is past the wait owns the mutex, and nobody else does (`Exclusion`); items are never more than producers that produced, so that somebody who is awake or about to notify answers for each |
| `RoundsAreApart` | `EventualInv` | The value is of this round as soon as a setter has begun (`ValueSet`), and the eventual is ready only after that (`ReadyMeansSet`) |
| `CallbackComesFirst` | `FutureInv` | The two values of the constructor come first and what follows is what was set (`Filled`); the callback had all of it (`CalledWithAll`) |
| `FunctionsStayAlive` if `DestroyWaits`, `CancelsHold` | `TimersInv` | Timer and function of an object are one pair (`TimersOwned`); a deleted or cancelled function's timer is unlisted and has no thread, and who waits for that keeps it so (`OpInv`) |
| `ReferencesAreKept` if `~StaleIndex` | `ListsInv` | Listed names are distinct: removing the i-th then removes one name from the set of members |
| `UnitsStayInOnePlace`, `FunctionsLiveLongEnough`, `NobodyIsLeft` | `UnitsInv` | See below |
| `AccountingInProcess` if `~MoveTimers` | that of `WrappersProofs` | |
| `TypesHold` if `~MoveTimers`, `~StaleIndex` | all of them | |

That a unit is in one place is not inductive: a scheduler pushes the unit it runs back
into a pool when it yields, which is right only if the unit is in no pool and in
nobody else's hands (`Hands`), and a unit's flag `in_pool` must tell which pool it was last
pushed to, once (`Placed`). `Found` says that a unit that can run is somewhere at
all. `NobodyLeftBehind` needs these too: a stream that stops has seen its pools empty, so
that a unit which would come back to one of them is in the hands of another stream that
serves it and has not stopped. That no unit is revived or migrates to a pool
whose streams are gone needs that streams stop only after all managed units were joined
(`Phases`), and that requests are made only of managed units (`Requests`). TLC checked
`UnitsInv` on the instance of `local` before it was proved. A run that checks it is not
kept: the theorems say more.

Every invariant of the passing runs is proved, and so are the action properties
`Confined` and `DeadOwnersSilent` and the refinement `KeepsPromise`. Only
model-checked: liveness (`TimedCallsEnd`, `AnsweredCallsEnd`, `FinalizeEnds`,
`TimedTransfersEnd`, `EveryPartEnds`), which rests on fairness and is beyond the proof
system. What Argobots and Margo do is assumed in the models, as section 3 lists it,
and no theorem is about their code.
Whatever is proved under a discipline of section 3 is proved under exactly that
one. That `engine::finalize` gets past the handlers in flight is Margo's doing
(`Finalized` in `RpcDispatch`) and not checked.

## 6. Not modelled

* Serialization: payloads are opaque. What an RPC sees of it, that decoding may
  fail, is `Silent`; that exceptions cross Mercury's C frames depends on how those
  were compiled.
* The waits of `barrier`, `xstream_barrier` and `rwlock` and the count of
  `recursive_mutex`: each is one Argobots call. Who owns these objects is in
  `Wrappers`.
* `xstream::cancel`, `revive` and `exit`, `scheduler::exit` and `finish`, added
  schedulers: one Argobots call each, without state of thallium's.
* `get_main_pools`, `get_identity`, getters, configuration, remote shutdown,
  logging, exceptions, timers: sequential functions without shared state.
* The identity table of providers and `define(name)` without a function: what Margo
  does with a second registration is not in the repository.

## 7. Plan

Done: `RpcHandle`, `RpcPromise` and `RpcCall`, `RpcDispatch`, `EngineFinalize`,
`BulkTransfer`, `Wrappers`, the parts of `Local`, and the proofs of section 5.

Left, in this order:

1. An id-wide `disable_response`: two `remote_procedure` objects of one id that
   disagree.
2. `get_main_pools`, whose bound is compared after the vector has been resized.
3. The two steps of `define(name)`, and the identity table of providers, should
   their external parts become available.
