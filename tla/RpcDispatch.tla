---------------------------- MODULE RpcDispatch ----------------------------
(***************************************************************************)
(* The server's side of an RPC: engine::define in its two steps,           *)
(* thallium_generic_rpc finding the function of an RPC that arrived,       *)
(* remote_procedure::deregister, providers whose member functions are      *)
(* RPCs, and engine::finalize, which lets the handlers that are in flight  *)
(* end.  Several ULTs on several execution streams do this at once.        *)
(***************************************************************************)
EXTENDS Integers, FiniteSets

CONSTANTS
  Id,          \* RPC ids: a name together with a provider id
  Function,    \* rpc_callback_data objects, one for each call of engine::define
  Provider,    \* objects of classes derived from thallium::provider
  Rpc,         \* RPCs that clients send
  Null

ASSUME NullIsFresh == Null \notin Id \cup Function \cup Provider

VARIABLES
  table,       \* Mercury's registration of each id
  data,        \* what margo_register_data attached to each id
  heap,        \* state of each rpc_callback_data
  define,      \* how far the call of engine::define for each function is
  self,        \* the provider that a function's lambda captures, if any
  provider,    \* lifetime of each provider
  rpcs,        \* the remote_procedure members that each provider is to deregister
  rpc,         \* progress of each RPC: state, id and (while it runs) function
  engine,      \* "running", "finalizing" while handlers end, "finalized"
  fault        \* "none", or what brought the process down

vars == <<table, data, heap, define, self, provider, rpcs, rpc, engine, fault>>

DefineState == [step : {"none", "registered", "done", "thrown"}, id : Id \cup {Null}]
RpcState ==
  [state : {"sent", "over"}, id : {Null}, function : {Null}]
    \cup [state : {"queued"}, id : Id, function : {Null}]
    \cup [state : {"running"}, id : Id, function : Function]

TypeOK ==
  /\ table    \in [Id -> {"absent", "name only", "handler"}]
  /\ data     \in [Id -> Function \cup {Null}]
  /\ heap     \in [Function -> {"unused", "live", "freed"}]
  /\ define   \in [Function -> DefineState]
  /\ self     \in [Function -> Provider \cup {Null}]
  /\ provider \in [Provider -> {"none", "alive", "destructor", "destroyed"}]
  /\ rpcs     \in [Provider -> SUBSET Id]
  /\ rpc      \in [Rpc -> RpcState]
  /\ engine   \in {"running", "finalizing", "finalized"}
  /\ fault    \in {"none", "abort", "use after free"}

Init ==
  /\ table    = [i \in Id |-> "absent"]
  /\ data     = [i \in Id |-> Null]
  /\ heap     = [f \in Function |-> "unused"]
  /\ define   = [f \in Function |-> [step |-> "none", id |-> Null]]
  /\ self     = [f \in Function |-> Null]
  /\ provider = [p \in Provider |-> "none"]
  /\ rpcs     = [p \in Provider |-> {}]
  /\ rpc      = [r \in Rpc |-> [state |-> "sent", id |-> Null, function |-> Null]]
  /\ engine   = "running"
  /\ fault    = "none"

InFlight(r)  == rpc[r].state \in {"queued", "running"}
Defining(i)  == \E f \in Function : define[f] = [step |-> "registered", id |-> i]

\* The callback margo_register_data was given, free_rpc_callback_data, on what
\* id i holds.
Freed(i) == [f \in Function |-> IF f = data[i] THEN "freed" ELSE heap[f]]

-----------------------------------------------------------------------------
(* engine::define                                                          *)

DefineNameWithHandler(i) ==          \* mutant: a handler, and no data
  /\ engine = "running" /\ table[i] = "absent"
  /\ table' = [table EXCEPT ![i] = "handler"]
  /\ UNCHANGED <<data, heap, define, self, provider, rpcs, rpc, engine, fault>>

\* define(name) looks the name up and registers it without a handler if it is
\* not there.
DefineName(i) ==
  /\ engine = "running" /\ table[i] = "absent"
  /\ table' = [table EXCEPT ![i] = "name only"]
  /\ UNCHANGED <<data, heap, define, self, provider, rpcs, rpc, engine, fault>>

\* define(name, fun, provider_id, pool): from MARGO_REGISTER_PROVIDER on, RPCs
\* are dispatched to thallium_generic_rpc.  p is the provider whose
\* define_member captured its this pointer, or Null for a free function.
Register(f, i, p) ==
  /\ engine = "running" /\ define[f].step = "none"
  /\ p # Null => provider[p] = "alive"
  /\ table'  = [table EXCEPT ![i] = "handler"]
  /\ heap'   = [heap EXCEPT ![f] = "live"]
  /\ self'   = [self EXCEPT ![f] = p]
  /\ define' = [define EXCEPT ![f] = [step |-> "registered", id |-> i]]
  /\ UNCHANGED <<data, provider, rpcs, rpc, engine, fault>>

RegisterDataForgets(f) ==            \* mutant: cb_data is not attached
  LET i == define[f].id IN
  /\ define[f].step = "registered" /\ table[i] # "absent"
  /\ define' = [define EXCEPT ![f].step = "done"]
  /\ UNCHANGED <<table, data, heap, self, provider, rpcs, rpc, engine, fault>>

\* margo_register_data: data that is already there is freed.  A provider keeps
\* the remote_procedure that define returns.
RegisterData(f) ==
  LET i == define[f].id IN
  /\ define[f].step = "registered" /\ table[i] # "absent"
  /\ data'   = [data EXCEPT ![i] = f]
  /\ heap'   = Freed(i)
  /\ define' = [define EXCEPT ![f].step = "done"]
  /\ rpcs'   = [p \in Provider |-> IF p = self[f] THEN rpcs[p] \cup {i} ELSE rpcs[p]]
  /\ UNCHANGED <<table, self, provider, rpc, engine, fault>>

\* It fails when the id was deregistered meanwhile; MARGO_ASSERT throws, and
\* nobody deletes the rpc_callback_data.
RegisterDataThrows(f) ==
  /\ define[f].step = "registered" /\ table[define[f].id] = "absent"
  /\ define' = [define EXCEPT ![f].step = "thrown"]
  /\ UNCHANGED <<table, data, heap, self, provider, rpcs, rpc, engine, fault>>

Unregister(i) ==
  /\ table' = [table EXCEPT ![i] = "absent"]
  /\ data'  = [data EXCEPT ![i] = Null]
  /\ heap'  = Freed(i)

\* remote_procedure::deregister, or the destructor of auto_remote_procedure.
Deregister(i) ==
  /\ table[i] # "absent"
  /\ Unregister(i)
  /\ UNCHANGED <<define, self, provider, rpcs, rpc, engine, fault>>

-----------------------------------------------------------------------------
(* thallium_generic_rpc                                                    *)

\* Margo's handler makes a ULT for an RPC whose id has a handler, unless the
\* engine is finalizing.
Arrive(r, i) ==
  /\ rpc[r].state = "sent" /\ engine = "running" /\ table[i] = "handler"
  /\ rpc' = [rpc EXCEPT ![r] = [state |-> "queued", id |-> i, function |-> Null]]
  /\ UNCHANGED <<table, data, heap, define, self, provider, rpcs, engine, fault>>

CallUnchecked(r) ==                  \* mutant: the null pointer is used
  /\ rpc[r].state = "queued"
  /\ rpc' = [rpc EXCEPT ![r].state = "running", ![r].function = data[rpc[r].id]]
  /\ UNCHANGED <<table, data, heap, define, self, provider, rpcs, engine, fault>>

\* The ULT runs: it looks the function up and keeps a reference to it.
Call(r) ==
  LET f == data[rpc[r].id] IN
  /\ rpc[r].state = "queued"
  /\ IF f = Null
       THEN fault' = "abort" /\ UNCHANGED rpc
       ELSE /\ rpc' = [rpc EXCEPT ![r].state = "running", ![r].function = f]
            /\ UNCHANGED fault
  /\ UNCHANGED <<table, data, heap, define, self, provider, rpcs, engine>>

Dangling(f) ==
  heap[f] = "freed" \/ (self[f] # Null /\ provider[self[f]] = "destroyed")

\* The function goes on, and returns; it uses what its lambda captured.
Return(r) ==
  /\ rpc[r].state = "running"
  /\ IF Dangling(rpc[r].function)
       THEN fault' = "use after free" /\ UNCHANGED rpc
       ELSE /\ rpc' = [rpc EXCEPT ![r] = [state |-> "over", id |-> Null, function |-> Null]]
            /\ UNCHANGED fault
  /\ UNCHANGED <<table, data, heap, define, self, provider, rpcs, engine>>

-----------------------------------------------------------------------------
(* Providers and the end of the engine                                     *)

NewProvider(p) ==
  /\ provider[p] = "none" /\ engine = "running"
  /\ provider' = [provider EXCEPT ![p] = "alive"]
  /\ UNCHANGED <<table, data, heap, define, self, rpcs, rpc, engine, fault>>

\* delete of a provider, in a finalization callback or anywhere else, but not
\* while one of its own member functions, such as define, is being called.
Destroy(p) ==
  /\ provider[p] = "alive"
  /\ \A f \in Function : self[f] = p => define[f].step # "registered"
  /\ provider' = [provider EXCEPT ![p] = "destructor"]
  /\ UNCHANGED <<table, data, heap, define, self, rpcs, rpc, engine, fault>>

\* The destructor of the derived class deregisters its RPCs, one by one: by their
\* ids, whoever defined these last.
DestructorDeregisters(p, i) ==
  /\ provider[p] = "destructor" /\ i \in rpcs[p]
  /\ Unregister(i)
  /\ rpcs' = [rpcs EXCEPT ![p] = @ \ {i}]
  /\ UNCHANGED <<define, self, provider, rpc, engine, fault>>

DestroyedAtOnce(p) ==                \* mutant: a destructor that forgets its RPCs
  /\ provider[p] = "destructor"
  /\ provider' = [provider EXCEPT ![p] = "destroyed"]
  /\ UNCHANGED <<table, data, heap, define, self, rpcs, rpc, engine, fault>>

Destroyed(p) ==
  /\ provider[p] = "destructor" /\ rpcs[p] = {}
  /\ provider' = [provider EXCEPT ![p] = "destroyed"]
  /\ UNCHANGED <<table, data, heap, define, self, rpcs, rpc, engine, fault>>

Finalize ==
  /\ engine = "running" /\ \A i \in Id : ~Defining(i)
  /\ engine' = "finalizing"
  /\ UNCHANGED <<table, data, heap, define, self, provider, rpcs, rpc, fault>>

\* The progress loop stops, and the finalization callbacks run, once no handler
\* is in flight.
Finalized ==
  /\ engine = "finalizing" /\ \A r \in Rpc : ~InFlight(r)
  /\ engine' = "finalized"
  /\ UNCHANGED <<table, data, heap, define, self, provider, rpcs, rpc, fault>>

-----------------------------------------------------------------------------

DefineStep ==
  \/ \E i \in Id : DefineName(i) \/ Deregister(i)
  \/ \E f \in Function :
       \/ \E i \in Id, p \in Provider \cup {Null} : Register(f, i, p)
       \/ RegisterData(f)
       \/ RegisterDataThrows(f)

HandlerStep ==
  \E r \in Rpc : Call(r) \/ Return(r) \/ \E i \in Id : Arrive(r, i)

EngineStep ==
  \/ \E p \in Provider :
       \/ NewProvider(p) \/ Destroy(p) \/ Destroyed(p)
       \/ \E i \in Id : DestructorDeregisters(p, i)
  \/ Finalize \/ Finalized

Next == fault = "none" /\ (DefineStep \/ HandlerStep \/ EngineStep)

Spec == Init /\ [][Next]_vars

-----------------------------------------------------------------------------
(* Properties                                                              *)

\* Each rpc_callback_data that was allocated and not freed has exactly one
\* owner: the id it is attached to, or the define that is still going to
\* attach it.  Only a define whose margo_register_data fails leaves one behind.
FunctionsOwned ==
  \A f \in Function :
    LET ids == {i \in Id : data[i] = f} IN
    CASE heap[f] = "live" ->
           \/ Cardinality(ids) = 1 /\ define[f].step = "done"
           \/ ids = {} /\ define[f].step \in {"registered", "thrown"}
      [] OTHER -> ids = {}

\* What an RPC finds when it looks its id up is never a function that was freed,
\* nor one whose provider is gone, however calls of define for one id - by
\* several providers, in two steps each - deregistrations and destructors
\* interleave.  Only a handler that has looked its function up before can still
\* use it after it was deleted.
ReachableIsLive == \A i \in Id : data[i] # Null => ~Dangling(data[i])

\* A queued RPC finds the data of its id, unless it came in the gap of a define
\* between registering the id and attaching the data, or its id was deregistered
\* before the ULT ran: a define that replaces another, of the same id at the same
\* time, opens no other gap.
DataThereOutsideGap ==
  \A r \in Rpc : rpc[r].state = "queued" =>
    LET i == rpc[r].id IN data[i] # Null \/ Defining(i) \/ table[i] # "handler"

\* What thallium_generic_rpc asserts: "margo_registered_data returned null"
\* never happens.
RegisteredDataNotNull == fault # "abort"
=============================================================================
