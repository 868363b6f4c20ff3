------------------------- MODULE RpcDispatchProofs -------------------------
(***************************************************************************)
(* Proofs about RpcDispatch: for any numbers of ids, functions, providers  *)
(* and RPCs, every rpc_callback_data has one owner, what an RPC can look   *)
(* up is never deleted, and an id that dispatches RPCs has data except in  *)
(* the gap of a define.                                                    *)
(***************************************************************************)
EXTENDS RpcDispatch, FiniteSetTheorems, TLAPS

Unattached(f) == \A i \in Id : data[i] # f

\* Where the function of each call of define is, at each step of that call.
NotBegun == \A f \in Function : define[f].step = "none" => heap[f] = "unused" /\ Unattached(f)

NotAttached ==
  \A f \in Function : define[f].step \in {"registered", "thrown"} => heap[f] = "live" /\ Unattached(f)

Attached ==
  \A f \in Function : define[f].step = "done" =>
    (heap[f] = "live" /\ ~Unattached(f)) \/ (heap[f] = "freed" /\ Unattached(f))

ForAnId == \A f \in Function : define[f].step # "none" => define[f].id \in Id

OneIdEach == \A i, j \in Id : data[i] # Null /\ data[i] = data[j] => i = j

Ownership == NotBegun /\ NotAttached /\ Attached /\ ForAnId /\ OneIdEach

OwnershipInv == TypeOK /\ Ownership

-----------------------------------------------------------------------------
(* Types, without the records, and what actions do to the records.         *)

\* The types of the id table's data and of the functions.
LEMMA Shapes ==
  ASSUME TypeOK
  PROVE  /\ data \in [Id -> Function \cup {Null}]
         /\ heap \in [Function -> {"unused", "live", "freed"}]
BY DEF TypeOK

\* The type of Margo's table.
LEMMA TableShape == TypeOK => table \in [Id -> {"absent", "name only", "handler"}]
BY DEF TypeOK

\* The type of the progress of a define.
LEMMA StepShape ==
  ASSUME TypeOK, NEW f \in Function
  PROVE  define[f].step \in {"none", "registered", "done", "thrown"}
BY DEF TypeOK, DefineState

\* The types of what providers are.
LEMMA ProviderShapes ==
  ASSUME TypeOK
  PROVE  /\ self \in [Function -> Provider \cup {Null}]
         /\ provider \in [Provider -> {"none", "alive", "destructor", "destroyed"}]
         /\ rpcs \in [Provider -> SUBSET Id]
BY DEF TypeOK

\* Every call of define other than that for f stays where it is.
LEMMA DefineGoesOn ==
  ASSUME TypeOK, NEW f \in Function, NEW to \in {"done", "thrown"},
         define' = [define EXCEPT ![f].step = to]
  PROVE  /\ define' \in [Function -> DefineState]
         /\ \A g \in Function : /\ define'[g].step = IF g = f THEN to ELSE define[g].step
                                /\ define'[g].id = define[g].id
BY ZenonT(40) DEF TypeOK, DefineState

\* A define that has registered its id, and all others.
LEMMA DefineBegins ==
  ASSUME TypeOK, NEW f \in Function, NEW i \in Id,
         define' = [define EXCEPT ![f] = [step |-> "registered", id |-> i]]
  PROVE  /\ define' \in [Function -> DefineState]
         /\ \A g \in Function :
              /\ define'[g].step = IF g = f THEN "registered" ELSE define[g].step
              /\ define'[g].id = IF g = f THEN i ELSE define[g].id
BY DEF TypeOK, DefineState

\* What TypeOK says of an RPC, and what the steps of an RPC do to it.
LEMMA RpcShape ==
  ASSUME TypeOK, NEW r \in Rpc
  PROVE  /\ InFlight(r) => rpc[r].id \in Id
         /\ rpc[r].state = "running" => rpc[r].function \in Function
BY DEF TypeOK, RpcState, InFlight

\* An RPC is queued.
LEMMA RpcArrives ==
  ASSUME TypeOK, NEW r \in Rpc, NEW i \in Id, Arrive(r, i)
  PROVE  /\ rpc' \in [Rpc -> RpcState]
         /\ rpc'[r].state = "queued" /\ rpc'[r].id = i
         /\ \A q \in Rpc : q # r => rpc'[q] = rpc[q]
BY DEF TypeOK, RpcState, Arrive

\* A queued RPC looks its function up, or aborts.
LEMMA RpcCalls ==
  ASSUME TypeOK, NEW r \in Rpc, Call(r)
  PROVE  /\ rpc' \in [Rpc -> RpcState]
         /\ \/ rpc' = rpc
            \/ /\ rpc'[r].state = "running" /\ rpc'[r].id = rpc[r].id
               /\ rpc'[r].function = data[rpc[r].id]
         /\ \A q \in Rpc : q # r => rpc'[q] = rpc[q]
<1>1. CASE data[rpc[r].id] = Null
  BY <1>1 DEF TypeOK, Call
<1>2. CASE data[rpc[r].id] # Null
  <2>1. rpc[r] \in [state : {"queued"}, id : Id, function : {Null}]
    BY DEF TypeOK, RpcState, Call
  <2>2. data[rpc[r].id] \in Function
    BY <2>1, <1>2, Shapes
  <2>3. rpc' = [rpc EXCEPT ![r].state = "running", ![r].function = data[rpc[r].id]]
    BY <1>2 DEF Call
  <2>4. rpc'[r] = [state |-> "running", id |-> rpc[r].id, function |-> data[rpc[r].id]]
    BY <2>1, <2>3 DEF TypeOK
  <2>5. rpc'[r] \in RpcState
    BY <2>1, <2>2, <2>4 DEF RpcState
  <2>6. rpc' \in [Rpc -> RpcState] /\ \A q \in Rpc : q # r => rpc'[q] = rpc[q]
    BY <2>3, <2>5 DEF TypeOK
  <2>7. QED BY <2>4, <2>6
<1>3. QED BY <1>1, <1>2

\* A running RPC ends, unless its function is gone.
LEMMA RpcReturns ==
  ASSUME TypeOK, NEW r \in Rpc, Return(r)
  PROVE  /\ rpc' \in [Rpc -> RpcState]
         /\ rpc' = rpc \/ rpc'[r].state = "over"
         /\ \A q \in Rpc : q # r => rpc'[q] = rpc[q]
<1>1. CASE Dangling(rpc[r].function)
  BY <1>1 DEF TypeOK, Return
<1>2. CASE ~Dangling(rpc[r].function)
  <2>1. rpc' = [rpc EXCEPT ![r] = [state |-> "over", id |-> Null, function |-> Null]]
    BY <1>2 DEF Return
  <2>2. [state |-> "over", id |-> Null, function |-> Null] \in RpcState
    BY DEF RpcState
  <2>3. QED BY <2>1, <2>2 DEF TypeOK
<1>3. QED BY <1>1, <1>2

\* Types are kept.
LEMMA TypeStep ==
  ASSUME TypeOK, ForAnId, [Next]_vars
  PROVE  TypeOK'
<1>1. CASE UNCHANGED vars
  BY <1>1 DEF vars, TypeOK
<1>2. ASSUME NEW i \in Id, DefineName(i) \/ Deregister(i) PROVE TypeOK'
  <2>1. CASE DefineName(i)
    BY <2>1 DEF TypeOK, DefineName
  <2>2. CASE Deregister(i)
    BY <2>2 DEF TypeOK, Deregister, Unregister, Freed
  <2>3. QED BY <1>2, <2>1, <2>2
<1>3. ASSUME NEW f \in Function, NEW i \in Id, NEW p \in Provider \cup {Null}, Register(f, i, p)
      PROVE  TypeOK'
  <2>1. define' \in [Function -> DefineState]
    BY <1>3, DefineBegins DEF Register
  <2>2. QED BY <1>3, <2>1 DEF TypeOK, Register
<1>4. ASSUME NEW f \in Function, RegisterData(f) PROVE TypeOK'
  <2>1. define' \in [Function -> DefineState]
    BY <1>4, DefineGoesOn DEF RegisterData
  <2>2. define[f].id \in Id
    BY <1>4 DEF RegisterData, ForAnId
  <2>3. rpcs' \in [Provider -> SUBSET Id]
    BY <1>4, <2>2, ProviderShapes DEF RegisterData
  <2>4. QED BY <1>4, <2>1, <2>2, <2>3 DEF TypeOK, RegisterData, Freed
<1>5. ASSUME NEW f \in Function, RegisterDataThrows(f) PROVE TypeOK'
  <2>1. define' \in [Function -> DefineState]
    BY <1>5, DefineGoesOn DEF RegisterDataThrows
  <2>2. QED BY <1>5, <2>1 DEF TypeOK, RegisterDataThrows
<1>6. ASSUME HandlerStep PROVE TypeOK'
  <2>1. UNCHANGED <<table, data, heap, define, self, provider, rpcs, engine>>
    BY <1>6 DEF HandlerStep, Call, Return, Arrive
  <2>2. fault' \in {"none", "abort", "use after free"}
    BY <1>6 DEF HandlerStep, Call, Return, Arrive, TypeOK
  <2>3. rpc' \in [Rpc -> RpcState]
    BY <1>6, RpcArrives, RpcCalls, RpcReturns DEF HandlerStep
  <2>4. QED BY <2>1, <2>2, <2>3 DEF TypeOK
<1>7. ASSUME EngineStep PROVE TypeOK'
  <2>1. ASSUME NEW p \in Provider, NEW i \in Id, DestructorDeregisters(p, i) PROVE TypeOK'
    BY <2>1 DEF TypeOK, DestructorDeregisters, Unregister, Freed
  <2>2. ASSUME NEW p \in Provider, NewProvider(p) \/ Destroy(p) \/ Destroyed(p) PROVE TypeOK'
    BY <2>2 DEF TypeOK, NewProvider, Destroy, Destroyed
  <2>3. CASE Finalize \/ Finalized
    BY <2>3 DEF TypeOK, Finalize, Finalized
  <2>4. QED BY <1>7, <2>1, <2>2, <2>3 DEF EngineStep
<1>8. QED BY <1>1, <1>2, <1>3, <1>4, <1>5, <1>6, <1>7 DEF Next, DefineStep

-----------------------------------------------------------------------------
(* Ownership                                                               *)

\* Deregistering an id frees its function, which no other id has.
LEMMA UnregisterOwnership ==
  ASSUME OwnershipInv, NEW i \in Id, Unregister(i), UNCHANGED define
  PROVE  Ownership'
BY NullIsFresh, Shapes DEF OwnershipInv, Unregister, Freed, Ownership, NotBegun, NotAttached, Attached,
             ForAnId, OneIdEach, Unattached

\* Every step of define and deregister keeps functions owned.
LEMMA DefineOwnership ==
  ASSUME OwnershipInv, DefineStep
  PROVE  Ownership'
<1>1. ASSUME NEW i \in Id, DefineName(i) PROVE Ownership'
  BY ZenonT(40), <1>1 DEF DefineName, OwnershipInv, Ownership, NotBegun, NotAttached, Attached,
             ForAnId, OneIdEach, Unattached
<1>2. ASSUME NEW i \in Id, Deregister(i) PROVE Ownership'
  BY <1>2, UnregisterOwnership DEF Deregister
<1>3. ASSUME NEW f \in Function, NEW i \in Id, NEW p \in Provider \cup {Null}, Register(f, i, p)
      PROVE  Ownership'
  <2>1. \A g \in Function : /\ define'[g].step = IF g = f THEN "registered" ELSE define[g].step
                            /\ define'[g].id = IF g = f THEN i ELSE define[g].id
    BY <1>3, DefineBegins DEF Register, OwnershipInv
  <2>2. QED
    BY <1>3, <2>1, Shapes DEF Register, OwnershipInv, Ownership, NotBegun, NotAttached, Attached,
             ForAnId, OneIdEach, Unattached
<1>4. ASSUME NEW f \in Function, RegisterData(f) PROVE Ownership'
  <2>1. \A g \in Function : /\ define'[g].step = IF g = f THEN "done" ELSE define[g].step
                            /\ define'[g].id = define[g].id
    BY <1>4, DefineGoesOn DEF RegisterData, OwnershipInv
  <2>2. define[f].id \in Id /\ define[f].step = "registered"
    BY <1>4 DEF RegisterData, OwnershipInv, Ownership, ForAnId
  <2>3. /\ data' = [data EXCEPT ![define[f].id] = f]
        /\ heap' = [g \in Function |-> IF g = data[define[f].id] THEN "freed" ELSE heap[g]]
    BY <1>4 DEF RegisterData, Freed
  <2>4. QED
    BY <2>1, <2>2, <2>3, NullIsFresh, Shapes DEF OwnershipInv, Ownership, NotBegun, NotAttached, Attached,
             ForAnId, OneIdEach, Unattached
<1>5. ASSUME NEW f \in Function, RegisterDataThrows(f) PROVE Ownership'
  <2>1. \A g \in Function : /\ define'[g].step = IF g = f THEN "thrown" ELSE define[g].step
                            /\ define'[g].id = define[g].id
    BY <1>5, DefineGoesOn DEF RegisterDataThrows, OwnershipInv
  <2>2. QED
    BY <1>5, <2>1 DEF RegisterDataThrows, OwnershipInv, Ownership, NotBegun, NotAttached, Attached,
             ForAnId, OneIdEach, Unattached
<1>6. QED BY <1>1, <1>2, <1>3, <1>4, <1>5 DEF DefineStep

\* And so does every other step.
LEMMA OwnershipStep ==
  ASSUME OwnershipInv, [Next]_vars
  PROVE  OwnershipInv'
<1>1. ASSUME UNCHANGED <<data, heap, define>> PROVE Ownership'
  BY <1>1 DEF OwnershipInv, Ownership, NotBegun, NotAttached, Attached,
             ForAnId, OneIdEach, Unattached
<1>2. ASSUME DefineStep PROVE Ownership'
  BY <1>2, DefineOwnership
<1>3. ASSUME NEW p \in Provider, NEW i \in Id, DestructorDeregisters(p, i)
      PROVE  Ownership'
  BY <1>3, UnregisterOwnership DEF DestructorDeregisters
<1>4. Ownership'
  BY <1>1, <1>2, <1>3
     DEF Next, vars, HandlerStep, EngineStep, Call, Return, Arrive, NewProvider, Destroy,
         Destroyed, Finalize, Finalized
<1>5. QED BY <1>4, TypeStep DEF OwnershipInv, Ownership

\* No function exists at first.
LEMMA OwnershipInit == Init => OwnershipInv
<1>1. Init => TypeOK
  BY DEF Init, TypeOK, DefineState, RpcState
<1>2. Init => Ownership
  BY NullIsFresh DEF Init, Ownership, NotBegun, NotAttached, Attached,
           ForAnId, OneIdEach, Unattached
<1>3. QED BY <1>1, <1>2 DEF OwnershipInv

\* The invariant behind FunctionsOwned.
LEMMA OwnershipInvariant == Spec => []OwnershipInv
BY OwnershipInit, OwnershipStep, PTL DEF Spec

\* The tables, the functions and the RPCs in flight have their types.
THEOREM TypeCorrect == Spec => []TypeOK
<1>1. OwnershipInv => TypeOK
  BY DEF OwnershipInv
<1>2. QED BY <1>1, OwnershipInvariant, PTL

\* Whatever callers do, and in whichever order the two steps of several calls of
\* define interleave with deregistrations, each rpc_callback_data that exists
\* is owned by one id, by the define that will attach it, or was left behind by
\* a define that threw.
THEOREM FunctionsOwnedHolds == Spec => []FunctionsOwned
<1>1. OwnershipInv => FunctionsOwned
  <2> SUFFICES ASSUME OwnershipInv, NEW f \in Function
               PROVE LET ids == {i \in Id : data[i] = f} IN
                     CASE heap[f] = "live" ->
                            \/ Cardinality(ids) = 1 /\ define[f].step = "done"
                            \/ ids = {} /\ define[f].step \in {"registered", "thrown"}
                       [] OTHER -> ids = {}
    BY DEF FunctionsOwned
  <2> DEFINE ids == {i \in Id : data[i] = f}
  <2>1. define[f].step \in {"none", "registered", "done", "thrown"} /\ f # Null
    BY NullIsFresh DEF OwnershipInv, TypeOK, DefineState
  <2>2. Unattached(f) => ids = {}
    BY DEF Unattached
  <2>3. ASSUME NEW i \in Id, data[i] = f PROVE Cardinality(ids) = 1
    <3>1. ids = {i}
      BY <2>1, <2>3 DEF OwnershipInv, Ownership, NotBegun, NotAttached, Attached, OneIdEach, Unattached
    <3>2. QED BY <3>1, FS_Singleton
  <2>4. CASE heap[f] = "live"
    BY <2>1, <2>2, <2>3, <2>4 DEF OwnershipInv, Ownership, NotBegun, NotAttached, Attached, OneIdEach, Unattached
  <2>5. CASE heap[f] # "live"
    <3>1. ids = {}
      BY <2>1, <2>2, <2>5 DEF OwnershipInv, Ownership, NotBegun, NotAttached, Attached, OneIdEach, Unattached
    <3>2. QED BY <3>1, <2>5
  <2>6. QED BY <2>4, <2>5
<1>2. QED BY <1>1, OwnershipInvariant, PTL

-----------------------------------------------------------------------------
(* What an RPC can look up.  An id with a member function of a provider is *)
(* among the RPCs which that provider's destructor deregisters, and a      *)
(* provider outlives its calls of define: so none is attached too late.    *)

Kept == \A i \in Id : \A p \in Provider : data[i] # Null /\ self[data[i]] = p => i \in rpcs[p]

Outlives ==
  \A f \in Function :
    define[f].step = "registered" /\ self[f] # Null => provider[self[f]] = "alive"

NothingLeft == \A p \in Provider : provider[p] = "destroyed" => rpcs[p] = {}

LiveInv == OwnershipInv /\ Kept /\ Outlives /\ NothingLeft

\* Deregistering makes no id depend on a provider, and takes one RPC off the list of
\* the provider that is destroyed.
LEMMA UnregisterLive ==
  ASSUME LiveInv, NEW i \in Id, Unregister(i), UNCHANGED <<define, self, provider>>,
         \/ rpcs' = rpcs
         \/ \E p \in Provider : rpcs' = [rpcs EXCEPT ![p] = @ \ {i}]
  PROVE  Kept' /\ Outlives' /\ NothingLeft'
<1>1. data' = [data EXCEPT ![i] = Null]
  BY DEF Unregister
<1>2. /\ data \in [Id -> Function \cup {Null}] /\ rpcs \in [Provider -> SUBSET Id]
  BY Shapes, ProviderShapes DEF LiveInv, OwnershipInv
<1>3. data'[i] = Null /\ \A j \in Id : j # i => data'[j] = data[j]
  BY <1>1, <1>2
<1>4. \A q \in Provider : rpcs'[q] \subseteq rpcs[q] /\ rpcs[q] \ {i} \subseteq rpcs'[q]
  BY <1>2
<1>5. Kept'
  BY <1>3, <1>4 DEF LiveInv, Kept
<1>6. Outlives' /\ NothingLeft'
  BY <1>4 DEF LiveInv, Outlives, NothingLeft
<1>7. QED BY <1>5, <1>6

\* Steps of define and deregister.
LEMMA DefineLive ==
  ASSUME LiveInv, DefineStep
  PROVE  Kept' /\ Outlives' /\ NothingLeft'
<1>0. /\ TypeOK /\ Ownership /\ Kept /\ Outlives /\ NothingLeft
      /\ data \in [Id -> Function \cup {Null}]
      /\ self \in [Function -> Provider \cup {Null}]
      /\ rpcs \in [Provider -> SUBSET Id]
  BY Shapes, ProviderShapes DEF LiveInv, OwnershipInv
<1>1. ASSUME NEW i \in Id, DefineName(i) PROVE Kept' /\ Outlives' /\ NothingLeft'
  BY ZenonT(40), <1>0, <1>1 DEF DefineName, Kept, Outlives, NothingLeft
<1>2. ASSUME NEW i \in Id, Deregister(i) PROVE Kept' /\ Outlives' /\ NothingLeft'
  BY <1>2, UnregisterLive DEF Deregister
<1>3. ASSUME NEW f \in Function, NEW i \in Id, NEW p \in Provider \cup {Null}, Register(f, i, p)
      PROVE  Kept' /\ Outlives' /\ NothingLeft'
  <2>1. \A g \in Function : define'[g].step = IF g = f THEN "registered" ELSE define[g].step
    BY <1>0, <1>3, DefineBegins DEF Register
  <2>2. /\ UNCHANGED <<data, provider, rpcs>> /\ define[f].step = "none"
        /\ p # Null => provider[p] = "alive"
        /\ self'[f] = p /\ \A g \in Function : g # f => self'[g] = self[g]
    BY <1>0, <1>3 DEF Register
  <2>3. Unattached(f)
    BY <1>0, <2>2 DEF Ownership, NotBegun
  <2>4. Kept'
    BY <1>0, <2>2, <2>3 DEF Kept, Unattached
  <2>5. Outlives' /\ NothingLeft'
    BY <1>0, <2>1, <2>2 DEF Outlives, NothingLeft
  <2>6. QED BY <2>4, <2>5
<1>4. ASSUME NEW f \in Function, RegisterData(f) PROVE Kept' /\ Outlives' /\ NothingLeft'
  <2> DEFINE i == define[f].id
  <2>1. \A g \in Function : define'[g].step = IF g = f THEN "done" ELSE define[g].step
    BY <1>0, <1>4, DefineGoesOn DEF RegisterData
  <2>2. i \in Id /\ define[f].step = "registered"
    BY <1>0, <1>4 DEF RegisterData, Ownership, ForAnId
  <2>3. /\ data' = [data EXCEPT ![i] = f] /\ UNCHANGED <<self, provider>>
        /\ rpcs' = [p \in Provider |-> IF p = self[f] THEN rpcs[p] \cup {i} ELSE rpcs[p]]
    BY <1>4 DEF RegisterData
  <2> HIDE DEF i
  <2>4. data'[i] = f /\ \A j \in Id : j # i => data'[j] = data[j]
    BY <1>0, <2>2, <2>3
  <2>5. \A p \in Provider : /\ rpcs[p] \subseteq rpcs'[p]
                            /\ p = self[f] => i \in rpcs'[p]
                            /\ p # self[f] => rpcs'[p] = rpcs[p]
    BY <2>3
  <2>6. Kept'
    BY <1>0, <2>3, <2>4, <2>5 DEF Kept
  <2>7. Outlives'
    BY <1>0, <2>1, <2>3 DEF Outlives
  <2>8. NothingLeft'
    <3>1. \A p \in Provider : p = self[f] => provider[p] = "alive"
      BY <1>0, <2>2, NullIsFresh DEF Outlives
    <3>2. QED BY <1>0, <2>3, <2>5, <3>1 DEF NothingLeft
  <2>9. QED BY <2>6, <2>7, <2>8
<1>5. ASSUME NEW f \in Function, RegisterDataThrows(f) PROVE Kept' /\ Outlives' /\ NothingLeft'
  <2>1. \A g \in Function : define'[g].step = IF g = f THEN "thrown" ELSE define[g].step
    BY <1>0, <1>5, DefineGoesOn DEF RegisterDataThrows
  <2>2. UNCHANGED <<data, self, provider, rpcs>>
    BY <1>5 DEF RegisterDataThrows
  <2>3. QED BY <1>0, <2>1, <2>2 DEF Kept, Outlives, NothingLeft
<1>6. QED BY <1>1, <1>2, <1>3, <1>4, <1>5 DEF DefineStep

\* Steps of providers: only a destructor that has deregistered everything ends, and
\* none begins while the provider is in a call of define.
LEMMA ProviderLive ==
  ASSUME LiveInv, NEW p \in Provider, NewProvider(p) \/ Destroy(p) \/ Destroyed(p)
  PROVE  Kept' /\ Outlives' /\ NothingLeft'
<1>1. provider \in [Provider -> {"none", "alive", "destructor", "destroyed"}]
  BY ProviderShapes DEF LiveInv, OwnershipInv
<1>2. UNCHANGED <<data, define, self, rpcs>>
  BY DEF NewProvider, Destroy, Destroyed
<1>3. Kept'
  BY <1>2 DEF LiveInv, Kept
<1>4. \A q \in Provider : q # p => provider'[q] = provider[q]
  BY <1>1 DEF NewProvider, Destroy, Destroyed
<1>5. CASE NewProvider(p)
  <2>1. provider'[p] = "alive"
    BY <1>1, <1>5 DEF NewProvider
  <2>2. Outlives'
    BY <1>2, <1>4, <2>1, ProviderShapes DEF LiveInv, OwnershipInv, Outlives
  <2>3. NothingLeft'
    BY <1>2, <1>4, <2>1 DEF LiveInv, NothingLeft
  <2>4. QED BY <1>3, <2>2, <2>3
<1>6. CASE Destroy(p)
  <2>1. provider'[p] = "destructor" /\ \A f \in Function : self[f] = p => define[f].step # "registered"
    BY <1>1, <1>6 DEF Destroy
  <2>2. Outlives'
    BY <1>2, <1>4, <2>1, ProviderShapes DEF LiveInv, OwnershipInv, Outlives
  <2>3. NothingLeft'
    BY <1>2, <1>4, <2>1 DEF LiveInv, NothingLeft
  <2>4. QED BY <1>3, <2>2, <2>3
<1>7. CASE Destroyed(p)
  <2>1. provider[p] = "destructor" /\ rpcs[p] = {}
    BY <1>7 DEF Destroyed
  <2>2. Outlives'
    BY <1>2, <1>4, <2>1, ProviderShapes DEF LiveInv, OwnershipInv, Outlives
  <2>3. NothingLeft'
    BY <1>2, <1>4, <2>1 DEF LiveInv, NothingLeft
  <2>4. QED BY <1>3, <2>2, <2>3
<1>8. QED BY <1>5, <1>6, <1>7

\* The invariant behind ReachableIsLive.
LEMMA LiveInvariant == Spec => []LiveInv
<1>1. Init => LiveInv
  <2>1. Init => Kept /\ Outlives /\ NothingLeft
    BY DEF Init, Kept, Outlives, NothingLeft
  <2>2. Init => OwnershipInv
    BY OwnershipInit
  <2>3. QED BY <2>1, <2>2 DEF LiveInv
<1>2. LiveInv /\ [Next]_vars => LiveInv'
  <2> SUFFICES ASSUME LiveInv, [Next]_vars PROVE LiveInv'
    OBVIOUS
  <2>1. OwnershipInv'
    BY OwnershipStep DEF LiveInv
  <2>2. ASSUME UNCHANGED <<data, define, self, provider, rpcs>>
        PROVE  Kept' /\ Outlives' /\ NothingLeft'
    BY <2>2 DEF LiveInv, Kept, Outlives, NothingLeft
  <2>3. CASE DefineStep
    BY <2>1, <2>3, DefineLive DEF LiveInv
  <2>4. ASSUME NEW p \in Provider, NewProvider(p) \/ Destroy(p) \/ Destroyed(p) PROVE LiveInv'
    BY <2>1, <2>4, ProviderLive DEF LiveInv
  <2>5. ASSUME NEW p \in Provider, NEW i \in Id, DestructorDeregisters(p, i) PROVE LiveInv'
    BY <2>1, <2>5, UnregisterLive DEF DestructorDeregisters, LiveInv
  <2>6. CASE HandlerStep \/ Finalize \/ Finalized \/ UNCHANGED vars
    <3>1. UNCHANGED <<data, define, self, provider, rpcs>>
      BY <2>6 DEF HandlerStep, Call, Return, Arrive, Finalize, Finalized, vars
    <3>2. QED BY <2>1, <2>2, <3>1 DEF LiveInv
  <2>7. QED BY <2>3, <2>4, <2>5, <2>6 DEF Next, EngineStep
<1>3. QED BY <1>1, <1>2, PTL DEF Spec

\* Whatever callers do, with handlers in flight or not: the function that an RPC
\* finds at its id has not been freed, and its provider is not gone.
THEOREM ReachableIsLiveHolds == Spec => []ReachableIsLive
<1>1. LiveInv => ReachableIsLive
  <2> SUFFICES ASSUME LiveInv, NEW i \in Id, data[i] # Null
               PROVE  ~Dangling(data[i])
    BY DEF ReachableIsLive
  <2>1. data[i] \in Function /\ TypeOK
    BY Shapes DEF LiveInv, OwnershipInv
  <2>2. heap[data[i]] = "live"
    BY <2>1, StepShape
       DEF LiveInv, OwnershipInv, Ownership, NotBegun, NotAttached, Attached, Unattached
  <2>3. self[data[i]] # Null => provider[self[data[i]]] # "destroyed"
    BY <2>1, ProviderShapes DEF LiveInv, Kept, NothingLeft
  <2>4. QED BY <2>2, <2>3 DEF Dangling
<1>2. QED BY <1>1, LiveInvariant, PTL

-----------------------------------------------------------------------------
(* What a queued RPC finds.  Only define registers a handler, and its gap  *)
(* ends when it attaches the data or finds that the id was deregistered.   *)

Defines(i) == \E f \in Function : define[f].step = "registered" /\ define[f].id = i

HandlersHaveData == \A i \in Id : table[i] = "handler" => data[i] # Null \/ Defines(i)

GapInv == OwnershipInv /\ HandlersHaveData

\* Defining, without its record.
LEMMA DefiningIs ==
  ASSUME TypeOK, NEW i
  PROVE  Defining(i) <=> Defines(i)
<1>1. \A f \in Function : define[f] = [step |-> define[f].step, id |-> define[f].id]
  BY DEF TypeOK, DefineState
<1>2. QED BY <1>1 DEF Defining, Defines

\* An id that is deregistered has no handler either.
LEMMA UnregisterGap ==
  ASSUME GapInv, NEW i \in Id, Unregister(i), UNCHANGED define
  PROVE  HandlersHaveData'
BY Shapes, TableShape DEF GapInv, OwnershipInv, HandlersHaveData, Defines, Unregister

\* Steps of define and deregister, whichever other defines are under way for the id.
LEMMA DefineGap ==
  ASSUME GapInv, DefineStep
  PROVE  HandlersHaveData'
<1>0. /\ TypeOK /\ HandlersHaveData /\ ForAnId
      /\ data \in [Id -> Function \cup {Null}]
      /\ table \in [Id -> {"absent", "name only", "handler"}]
  BY Shapes, TableShape DEF GapInv, OwnershipInv, Ownership
<1>1. ASSUME NEW i \in Id, DefineName(i) PROVE HandlersHaveData'
  BY <1>0, <1>1 DEF DefineName, HandlersHaveData, Defines
<1>2. ASSUME NEW i \in Id, Deregister(i) PROVE HandlersHaveData'
  BY <1>2, UnregisterGap DEF Deregister
<1>3. ASSUME NEW f \in Function, NEW i \in Id, NEW p \in Provider \cup {Null}, Register(f, i, p)
      PROVE  HandlersHaveData'
  <2>1. \A g \in Function : /\ define'[g].step = IF g = f THEN "registered" ELSE define[g].step
                            /\ define'[g].id = IF g = f THEN i ELSE define[g].id
    BY <1>0, <1>3, DefineBegins DEF Register
  <2>2. data' = data /\ table' = [table EXCEPT ![i] = "handler"] /\ define[f].step = "none"
    BY <1>3 DEF Register
  <2>3. Defines(i)'
    BY <2>1 DEF Defines
  <2>4. \A j \in Id : Defines(j) => Defines(j)'
    BY <2>1, <2>2 DEF Defines
  <2>5. \A j \in Id : j # i => table'[j] = table[j]
    BY <1>0, <2>2
  <2>6. QED BY <1>0, <2>2, <2>3, <2>4, <2>5 DEF HandlersHaveData
<1>4. ASSUME NEW f \in Function, RegisterData(f) PROVE HandlersHaveData'
  <2>1. /\ define[f].step = "registered" /\ define[f].id \in Id
        /\ data' = [data EXCEPT ![define[f].id] = f] /\ table' = table
    BY <1>0, <1>4 DEF RegisterData, ForAnId
  <2>2. \A g \in Function : /\ define'[g].step = IF g = f THEN "done" ELSE define[g].step
                            /\ define'[g].id = define[g].id
    BY <1>0, <1>4, DefineGoesOn DEF RegisterData
  <2>3. \A j \in Id : j # define[f].id => data'[j] = data[j] /\ (Defines(j) => Defines(j)')
    BY <1>0, <2>1, <2>2 DEF Defines
  <2>4. data'[define[f].id] # Null
    BY <1>0, <2>1, NullIsFresh
  <2>5. QED BY <1>0, <2>1, <2>3, <2>4 DEF HandlersHaveData
<1>5. ASSUME NEW f \in Function, RegisterDataThrows(f) PROVE HandlersHaveData'
  <2>1. \A g \in Function : /\ define'[g].step = IF g = f THEN "thrown" ELSE define[g].step
                            /\ define'[g].id = define[g].id
    BY <1>0, <1>5, DefineGoesOn DEF RegisterDataThrows
  <2>2. table[define[f].id] = "absent" /\ UNCHANGED <<table, data>>
    BY <1>5 DEF RegisterDataThrows
  <2>3. \A j \in Id : j # define[f].id /\ Defines(j) => Defines(j)'
    BY <2>1 DEF Defines
  <2>4. QED BY <1>0, <2>2, <2>3 DEF HandlersHaveData
<1>6. QED BY <1>1, <1>2, <1>3, <1>4, <1>5 DEF DefineStep

\* The invariant behind DataThereOutsideGap.
LEMMA GapInvariant == Spec => []GapInv
<1>1. Init => GapInv
  <2>1. Init => HandlersHaveData
    BY DEF Init, HandlersHaveData
  <2>2. QED BY <2>1, OwnershipInit DEF GapInv
<1>2. GapInv /\ [Next]_vars => GapInv'
  <2> SUFFICES ASSUME GapInv, [Next]_vars PROVE GapInv'
    OBVIOUS
  <2>1. OwnershipInv'
    BY OwnershipStep DEF GapInv
  <2>2. ASSUME UNCHANGED <<table, data, define>> PROVE HandlersHaveData'
    BY <2>2 DEF GapInv, HandlersHaveData, Defines
  <2>3. CASE DefineStep
    BY <2>1, <2>3, DefineGap DEF GapInv
  <2>4. ASSUME NEW p \in Provider, NEW i \in Id, DestructorDeregisters(p, i) PROVE GapInv'
    BY <2>1, <2>4, UnregisterGap DEF DestructorDeregisters, GapInv
  <2>5. ASSUME NEW p \in Provider, NewProvider(p) \/ Destroy(p) \/ Destroyed(p) PROVE GapInv'
    BY <2>1, <2>2, <2>5 DEF NewProvider, Destroy, Destroyed, GapInv
  <2>6. CASE HandlerStep \/ Finalize \/ Finalized \/ UNCHANGED vars
    <3>1. UNCHANGED <<table, data, define>>
      BY <2>6 DEF HandlerStep, Call, Return, Arrive, Finalize, Finalized, vars
    <3>2. QED BY <2>1, <2>2, <3>1 DEF GapInv
  <2>7. QED BY <2>3, <2>4, <2>5, <2>6 DEF Next, EngineStep
<1>3. QED BY <1>1, <1>2, PTL DEF Spec

\* Whatever callers do, the only queued RPCs that do not find a function are those
\* that arrived between the two steps of a define, and those whose id was
\* deregistered after they arrived.
THEOREM DataThereOutsideGapHolds == Spec => []DataThereOutsideGap
<1>1. GapInv => DataThereOutsideGap
  <2> SUFFICES ASSUME GapInv, NEW r \in Rpc, rpc[r].state = "queued",
                      table[rpc[r].id] = "handler"
               PROVE  data[rpc[r].id] # Null \/ Defining(rpc[r].id)
    BY DEF DataThereOutsideGap
  <2>1. rpc[r].id \in Id /\ TypeOK
    BY RpcShape DEF InFlight, GapInv, OwnershipInv
  <2>2. QED BY <2>1, DefiningIs DEF GapInv, HandlersHaveData
<1>2. QED BY <1>1, GapInvariant, PTL
=============================================================================
