----------------------------- MODULE RpcHandle -----------------------------
(***************************************************************************)
(* Ownership of Mercury's reference-counted hg_handle_t by the C++ objects *)
(* an RPC goes through:                                                    *)
(*   client  callable_remote_procedure, async_response, packed_data        *)
(*   server  request, packed_data                                          *)
(* One action per constructor, assignment, destructor or call that creates *)
(* a reference, drops one, or moves one.  An object is a C++ variable; it  *)
(* is Dead while its storage holds no live object, and its m_handle is     *)
(* NoHandle once it has been moved from.  margo_ref_incr of HG_HANDLE_NULL *)
(* is an error and margo_destroy of it succeeds, which is what             *)
(* request.hpp relies on in its destructor.                                *)
(***************************************************************************)
EXTENDS Integers, FiniteSets

CONSTANTS
  Handle,     \* hg_handle_t values Mercury can hand out, and reuse once freed
  Callable,   \* variables of type callable_remote_procedure
  Response,   \* variables of type async_response
  Packed,     \* variables of type packed_data
  Request,    \* variables of type request
  NoHandle,   \* HG_HANDLE_NULL, and MARGO_REQUEST_NULL for m_request
  Spent,      \* m_request of a response that wait_any has completed: Margo freed it
  Dead,       \* no live object in this storage
  MaxLeak     \* bound: references that may be lost per handle

Object == Callable \cup Response \cup Packed \cup Request

ASSUME ObjectsAreFinite == IsFiniteSet(Object)
ASSUME KindsAreDisjoint ==
  /\ Callable \cap (Response \cup Packed \cup Request) = {}
  /\ Response \cap (Packed \cup Request) = {}
  /\ Packed \cap Request = {}
ASSUME NullsAreDistinct ==
  /\ NoHandle \notin Handle \cup Object /\ Dead \notin Handle /\ NoHandle # Dead
  /\ Spent \notin Handle /\ Spent # NoHandle
ASSUME MaxLeakIsNat == MaxLeak \in Nat

VARIABLES
  refs,       \* Mercury's reference count of each handle, 0 when freed
  handle,     \* m_handle of each object, or Dead
  request,    \* m_request of each async_response: the handle it was posted on,
              \* null, or Spent
  op,         \* the non-blocking forward posted on each handle
  frame,      \* the local "req" of the thallium_generic_rpc that runs on a handle
  lost,       \* history: references no object will ever drop
  fault       \* "none", or why the client process is gone

vars == <<refs, handle, request, op, frame, lost, fault>>

OpState == {"none", "posted", "answered", "expired"}

TypeOK ==
  /\ refs    \in [Handle -> Nat]
  /\ handle  \in [Object -> Handle \cup {NoHandle, Dead}]
  /\ request \in [Response -> Handle \cup {NoHandle, Spent}]
  /\ op      \in [Handle -> OpState]
  /\ frame   \in [Handle -> Request \cup {NoHandle}]
  /\ lost    \in [Handle -> Nat]
  /\ fault   \in {"none", "terminate", "stale"}

Init ==
  /\ refs    = [h \in Handle |-> 0]
  /\ handle  = [o \in Object |-> Dead]
  /\ request = [r \in Response |-> NoHandle]
  /\ op      = [h \in Handle |-> "none"]
  /\ frame   = [h \in Handle |-> NoHandle]
  /\ lost    = [h \in Handle |-> 0]
  /\ fault   = "none"

Live(o)    == handle[o] # Dead
Holds(o)   == handle[o] \in Handle
Local(q)   == \E h \in Handle : frame[h] = q    \* passed as const request&

\* margo_ref_incr and margo_destroy, on a count function.
Ref(count, h)   == [k \in Handle |-> count[k] + (IF k = h THEN 1 ELSE 0)]
Unref(count, h) == [k \in Handle |-> count[k] - (IF k = h THEN 1 ELSE 0)]

-----------------------------------------------------------------------------
(* callable_remote_procedure                                               *)

\* remote_procedure::on: margo_create gives the handle its first reference.
On(c, h) ==
  /\ ~Live(c) /\ refs[h] = 0
  /\ refs'   = Ref(refs, h)
  /\ handle' = [handle EXCEPT ![c] = h]
  /\ UNCHANGED <<request, op, frame, lost, fault>>

\* Copy constructor, and with_serialization_context, of a possibly null source.
CallableCopy(d, c) ==
  /\ ~Live(d) /\ Live(c)
  /\ refs'   = Ref(refs, handle[c])
  /\ handle' = [handle EXCEPT ![d] = handle[c]]
  /\ UNCHANGED <<request, op, frame, lost, fault>>

\* Copy assignment drops the old reference first; from a moved-from source the
\* final margo_ref_incr throws, with m_handle already null.
CallableCopyAssign(d, c) ==
  /\ d # c /\ Live(d) /\ Live(c)
  /\ refs'   = Ref(Unref(refs, handle[d]), handle[c])
  /\ handle' = [handle EXCEPT ![d] = handle[c]]
  /\ UNCHANGED <<request, op, frame, lost, fault>>

MoveAssignSkipsDestroy(d, s) ==      \* mutant: the old reference is forgotten
  /\ d # s /\ Live(d) /\ Live(s)
  /\ refs'   = refs
  /\ handle' = [handle EXCEPT ![d] = handle[s], ![s] = NoHandle]
  /\ UNCHANGED <<request, op, frame, lost, fault>>

CallableMoveAssign(d, s) ==
  /\ d # s /\ Live(d) /\ Live(s)
  /\ refs'   = Unref(refs, handle[d])
  /\ handle' = [handle EXCEPT ![d] = handle[s], ![s] = NoHandle]
  /\ UNCHANGED <<request, op, frame, lost, fault>>

\* forward: blocks until the response is there and wraps it; on a timeout, an
\* error or an ignored response no reference is taken.  On a handle that is
\* busy margo_forward fails and MARGO_ASSERT throws: nothing changes.
Forward(c, p) ==
  /\ Holds(c) /\ op[handle[c]] = "none" /\ ~Live(p)
  /\ refs'   = Ref(refs, handle[c])
  /\ handle' = [handle EXCEPT ![p] = handle[c]]
  /\ UNCHANGED <<request, op, frame, lost, fault>>

\* iforward: the async_response shares the handle and holds the request.
IForward(c, r) ==
  /\ Holds(c) /\ op[handle[c]] = "none" /\ ~Live(r)
  /\ refs'    = Ref(refs, handle[c])
  /\ handle'  = [handle EXCEPT ![r] = handle[c]]
  /\ request' = [request EXCEPT ![r] = handle[c]]
  /\ op'      = [op EXCEPT ![handle[c]] = "posted"]
  /\ UNCHANGED <<frame, lost, fault>>

\* Margo completes a posted operation, with the response or with HG_TIMEOUT.
Complete(h, result) ==
  /\ op[h] = "posted"
  /\ op' = [op EXCEPT ![h] = result]
  /\ UNCHANGED <<refs, handle, request, frame, lost, fault>>

-----------------------------------------------------------------------------
(* async_response                                                          *)

Pending(r) == request[r] \in Handle

\* The state of op once margo_wait has consumed r's request, if it has one.
Consumed(r) == [h \in Handle |-> IF h = request[r] THEN "none" ELSE op[h]]

\* wait() without an exception: margo_wait if needed, then a packed_data.
Wait(r, p) ==
  /\ Holds(r) /\ ~Live(p) /\ request[r] # Spent
  /\ Pending(r) => op[request[r]] = "answered"
  /\ refs'    = Ref(refs, handle[r])
  /\ handle'  = [handle EXCEPT ![p] = handle[r]]
  /\ op'      = Consumed(r)
  /\ request' = [request EXCEPT ![r] = NoHandle]
  /\ UNCHANGED <<frame, lost, fault>>

\* wait() that throws timeout, or whose response is ignored: no packed_data.
WaitNoData(r) ==
  /\ Holds(r) /\ Pending(r)
  /\ op[request[r]] \in {"answered", "expired"}
  /\ op'      = Consumed(r)
  /\ request' = [request EXCEPT ![r] = NoHandle]
  /\ UNCHANGED <<refs, handle, frame, lost, fault>>

\* wait_any over any range: margo_wait_any skips null requests and consumes the
\* one of a response that is over, but m_request is not set to null.
WaitAny(r, p) ==
  /\ Pending(r) /\ ~Live(p) /\ op[request[r]] = "answered"
  /\ refs'    = Ref(refs, handle[r])
  /\ handle'  = [handle EXCEPT ![p] = handle[r]]
  /\ op'      = Consumed(r)
  /\ request' = [request EXCEPT ![r] = Spent]
  /\ UNCHANGED <<frame, lost, fault>>

\* wait_any that throws timeout, or whose response is ignored.
WaitAnyNoData(r) ==
  /\ Pending(r) /\ op[request[r]] \in {"answered", "expired"}
  /\ op'      = Consumed(r)
  /\ request' = [request EXCEPT ![r] = Spent]
  /\ UNCHANGED <<refs, handle, frame, lost, fault>>

\* wait, received, another wait_any, the destructor, or move assignment to a
\* response whose request is gone: undefined behaviour, where this model stops.
UseSpent(r) ==
  /\ request[r] = Spent
  /\ fault' = "stale"
  /\ UNCHANGED <<refs, handle, request, op, frame, lost>>

ResponseMove(d, r) ==
  /\ ~Live(d) /\ Live(r)
  /\ handle'  = [handle EXCEPT ![d] = handle[r], ![r] = NoHandle]
  /\ request' = [request EXCEPT ![d] = request[r], ![r] = NoHandle]
  /\ UNCHANGED <<refs, op, frame, lost, fault>>

MoveAssignWithoutWait(d, r) ==       \* mutant: the pending operation is dropped
  /\ d # r /\ Live(d) /\ Live(r) /\ request[d] # request[r]
  /\ refs'    = Unref(refs, handle[d])
  /\ handle'  = [handle EXCEPT ![d] = handle[r], ![r] = NoHandle]
  /\ request' = [request EXCEPT ![d] = request[r], ![r] = NoHandle]
  /\ UNCHANGED <<op, frame, lost, fault>>

\* Move assignment returns early when both requests are equal, in particular
\* when both are null; otherwise it waits for its own operation first.
ResponseMoveAssign(d, r) ==
  /\ d # r /\ Live(d) /\ Live(r) /\ request[d] \notin {request[r], Spent}
  /\ Pending(d) => op[request[d]] = "answered"
  /\ refs'    = Unref(refs, handle[d])
  /\ handle'  = [handle EXCEPT ![d] = handle[r], ![r] = NoHandle]
  /\ request' = [request EXCEPT ![d] = request[r], ![r] = NoHandle]
  /\ op'      = Consumed(d)
  /\ UNCHANGED <<frame, lost, fault>>

\* The wait inside the assignment throws: only the target's request is gone.
ResponseMoveAssignThrows(d, r) ==
  /\ d # r /\ Live(d) /\ Live(r) /\ request[d] # request[r]
  /\ Pending(d) /\ op[request[d]] = "expired"
  /\ op'      = Consumed(d)
  /\ request' = [request EXCEPT ![d] = NoHandle]
  /\ UNCHANGED <<refs, handle, frame, lost, fault>>

ResponseDestroy(r) ==
  /\ Live(r) /\ request[r] # Spent
  /\ Pending(r) => op[request[r]] = "answered"
  /\ refs'    = Unref(refs, handle[r])
  /\ handle'  = [handle EXCEPT ![r] = Dead]
  /\ op'      = Consumed(r)
  /\ request' = [request EXCEPT ![r] = NoHandle]
  /\ UNCHANGED <<frame, lost, fault>>

\* wait() throws timeout inside the noexcept destructor: std::terminate.
ResponseDestroyTerminates(r) ==
  /\ Live(r) /\ Pending(r) /\ op[request[r]] = "expired"
  /\ op'      = Consumed(r)
  /\ request' = [request EXCEPT ![r] = NoHandle]
  /\ fault'   = "terminate"
  /\ UNCHANGED <<refs, handle, frame, lost>>

-----------------------------------------------------------------------------
(* packed_data                                                             *)

\* with_serialization_context on o = a packed_data, get_input on o = a request:
\* both throw when the handle is null.
NewPacked(o, p) ==
  /\ Holds(o) /\ ~Live(p)
  /\ refs'   = Ref(refs, handle[o])
  /\ handle' = [handle EXCEPT ![p] = handle[o]]
  /\ UNCHANGED <<request, op, frame, lost, fault>>

\* Move assignment overwrites m_handle without margo_destroy.
PackedMoveAssign(d, p) ==
  /\ d # p /\ Live(d) /\ Live(p)
  /\ Holds(d) => lost[handle[d]] < MaxLeak
  /\ lost'   = Ref(lost, handle[d])
  /\ handle' = [handle EXCEPT ![d] = handle[p], ![p] = NoHandle]
  /\ UNCHANGED <<refs, request, op, frame, fault>>

-----------------------------------------------------------------------------
(* request                                                                 *)

\* thallium_generic_rpc starts on a handle Mercury delivers with one reference,
\* and builds its local req, which takes the second one.
Dispatch(h, q) ==
  /\ ~Live(q) /\ refs[h] = 0
  /\ refs'   = [refs EXCEPT ![h] = 2]
  /\ handle' = [handle EXCEPT ![q] = h]
  /\ frame'  = [frame EXCEPT ![h] = q]
  /\ UNCHANGED <<request, op, lost, fault>>

\* It returns: margo_destroy(handle), then the destructor of req.
HandlerReturn(h) ==
  /\ frame[h] # NoHandle
  /\ refs'   = [refs EXCEPT ![h] = @ - 2]
  /\ handle' = [handle EXCEPT ![frame[h]] = Dead]
  /\ frame'  = [frame EXCEPT ![h] = NoHandle]
  /\ UNCHANGED <<request, op, lost, fault>>

RequestCopyWithoutRef(d, q) ==       \* mutant: the copy shares a reference
  /\ ~Live(d) /\ Holds(q)
  /\ refs'   = refs
  /\ handle' = [handle EXCEPT ![d] = handle[q]]
  /\ UNCHANGED <<request, op, frame, lost, fault>>

\* Copy constructor and with_serialization_context; throws from a null source.
RequestCopy(d, q) ==
  /\ ~Live(d) /\ Holds(q)
  /\ refs'   = Ref(refs, handle[q])
  /\ handle' = [handle EXCEPT ![d] = handle[q]]
  /\ UNCHANGED <<request, op, frame, lost, fault>>

\* Both assignments do nothing when the handles are equal; the copy from a null
\* source throws after m_handle was set to null.
RequestCopyAssign(d, q) ==
  /\ Live(d) /\ Live(q) /\ ~Local(d) /\ handle[d] # handle[q]
  /\ refs'   = Ref(Unref(refs, handle[d]), handle[q])
  /\ handle' = [handle EXCEPT ![d] = handle[q]]
  /\ UNCHANGED <<request, op, frame, lost, fault>>

RequestMoveAssign(d, q) ==
  /\ Live(d) /\ Live(q) /\ ~Local(d) /\ ~Local(q) /\ handle[d] # handle[q]
  /\ refs'   = Unref(refs, handle[d])
  /\ handle' = [handle EXCEPT ![d] = handle[q], ![q] = NoHandle]
  /\ UNCHANGED <<request, op, frame, lost, fault>>

-----------------------------------------------------------------------------
(* Move constructor and destructor, the same in the three classes without  *)
(* a pending request.                                                      *)

MoveLeavesSource(d, s) ==            \* mutant: the source keeps its m_handle
  /\ ~Live(d) /\ Live(s) /\ ~Local(s)
  /\ handle' = [handle EXCEPT ![d] = handle[s]]
  /\ UNCHANGED <<refs, request, op, frame, lost, fault>>

Move(d, s) ==
  /\ ~Live(d) /\ Live(s) /\ ~Local(s)
  /\ handle' = [handle EXCEPT ![d] = handle[s], ![s] = NoHandle]
  /\ UNCHANGED <<refs, request, op, frame, lost, fault>>

Destroy(o) ==
  /\ Live(o) /\ ~Local(o)
  /\ refs'   = Unref(refs, handle[o])
  /\ handle' = [handle EXCEPT ![o] = Dead]
  /\ UNCHANGED <<request, op, frame, lost, fault>>

-----------------------------------------------------------------------------

CallableStep ==
  \/ \E c \in Callable, h \in Handle : On(c, h)
  \/ \E c \in Callable, p \in Packed : Forward(c, p)
  \/ \E c \in Callable, r \in Response : IForward(c, r)
  \/ \E d, c \in Callable :
       \/ CallableCopy(d, c)
       \/ CallableCopyAssign(d, c)
       \/ CallableMoveAssign(d, c)
       \/ Move(d, c)
  \/ \E c \in Callable : Destroy(c)

ResponseStep ==
  \/ \E h \in Handle, result \in {"answered", "expired"} : Complete(h, result)
  \/ \E r \in Response, p \in Packed : Wait(r, p) \/ WaitAny(r, p)
  \/ \E d, r \in Response :
       \/ ResponseMove(d, r)
       \/ ResponseMoveAssign(d, r)
       \/ ResponseMoveAssignThrows(d, r)
  \/ \E r \in Response :
       \/ WaitNoData(r)
       \/ WaitAnyNoData(r)
       \/ UseSpent(r)
       \/ ResponseDestroy(r)
       \/ ResponseDestroyTerminates(r)

PackedStep ==
  \/ \E o \in Packed \cup Request, p \in Packed : NewPacked(o, p)
  \/ \E d, p \in Packed : PackedMoveAssign(d, p) \/ Move(d, p)
  \/ \E p \in Packed : Destroy(p)

RequestStep ==
  \/ \E h \in Handle, q \in Request : Dispatch(h, q)
  \/ \E h \in Handle : HandlerReturn(h)
  \/ \E d, q \in Request :
       \/ RequestCopy(d, q)
       \/ RequestCopyAssign(d, q)
       \/ RequestMoveAssign(d, q)
       \/ Move(d, q)
  \/ \E q \in Request : Destroy(q)

Next == fault = "none" /\ (CallableStep \/ ResponseStep \/ PackedStep \/ RequestStep)

Spec == Init /\ [][Next]_vars

-----------------------------------------------------------------------------
(* Properties                                                              *)

Owners(h) == {o \in Object : handle[o] = h}

\* The reference Mercury gave to the running thallium_generic_rpc.
FrameRef(h) == IF frame[h] = NoHandle THEN 0 ELSE 1

\* Every reference is accounted for: the count of a handle is the number of
\* objects that hold it, plus the one of the RPC that runs on it, plus the
\* references a packed_data assignment threw away.  Any constructor,
\* assignment or destructor that is out of step with margo_ref_incr or
\* margo_destroy breaks it, in one direction or the other.
Accounting ==
  \A h \in Handle : refs[h] = Cardinality(Owners(h)) + FrameRef(h) + lost[h]

\* No sequence of copies, moves, assignments and destructions, in any order on
\* either side, leaves an object, a running handler or a posted operation with
\* a handle that Mercury has already freed.
NoUseAfterFree ==
  \A h \in Handle : refs[h] = 0 =>
    /\ \A o \in Object : handle[o] # h
    /\ frame[h] = NoHandle
    /\ op[h] = "none"

\* Operations in progress and the requests that are still to be waited for are
\* paired one to one, through every order of iforward, wait, wait_any, moves,
\* assignments (with the wait inside them, which may throw) and destructions.
\* Each operation has exactly one live async_response to wait for it, which
\* holds its handle; and the only request of an operation that is over already
\* is the one that wait_any leaves behind, Spent.  Using that one is the fault
\* "stale", which the code does not prevent.
PendingHasOneOwner ==
  /\ \A h \in Handle : op[h] # "none" =>
       \E r \in Response :
         /\ request[r] = h /\ handle[r] = h
         /\ \A s \in Response \ {r} : request[s] # h
  /\ \A r \in Response : request[r] \notin {NoHandle, Spent} => op[request[r]] # "none"

\* The comment in packed_data::operator=(packed_data&&) wants resources that
\* are replaced to be released, "otherwise we would be leaking memory": when
\* no object and no handler holds a handle, its count is 0.
NoLeak ==
  \A h \in Handle : Owners(h) = {} /\ FrameRef(h) = 0 => refs[h] = 0
=============================================================================
