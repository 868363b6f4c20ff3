-------------------------- MODULE RpcHandleProofs --------------------------
(***************************************************************************)
(* Proofs about RpcHandle: for any number of handles and of objects, the   *)
(* reference counts are exact, nothing holds a freed handle, and posted    *)
(* operations and the requests to be waited for are paired one to one.     *)
(***************************************************************************)
EXTENDS RpcHandle, FiniteSetTheorems, TLAPS

\* The number of objects whose m_handle is h when the objects are as in f.
Holders(f, h) == {o \in Object : f[o] = h}
Count(f, h)   == Cardinality(Holders(f, h))

\* g gives every object but o the m_handle that f gives it.
SameBut(f, g, o) == \A x \in Object : x # o => g[x] = f[x]

\* g is f after d took the m_handle of s, leaving s null.
Moved(f, g, d, s) ==
  /\ d # s /\ g[d] = f[s] /\ g[s] = NoHandle
  /\ \A x \in Object : x # d /\ x # s => g[x] = f[x]

\* A handle has finitely many holders.
LEMMA HoldersFinite ==
  ASSUME NEW f, NEW h
  PROVE  IsFiniteSet(Holders(f, h)) /\ Count(f, h) \in Nat
BY FS_Subset, FS_CardinalityType, ObjectsAreFinite DEF Holders, Count

\* When only o changes, its unit moves from the old handle to the new one.
LEMMA CountUpdate ==
  ASSUME NEW f, NEW g, NEW o \in Object, NEW h,
         SameBut(f, g, o)
  PROVE  Count(g, h) = Count(f, h) + (IF g[o] = h THEN 1 ELSE 0)
                                   - (IF f[o] = h THEN 1 ELSE 0)
<1>1. /\ IsFiniteSet(Holders(f, h)) /\ Count(f, h) \in Nat
      /\ IsFiniteSet(Holders(g, h)) /\ Count(g, h) \in Nat
  BY HoldersFinite
<1>2. CASE (g[o] = h) <=> (f[o] = h)
  <2>1. Holders(g, h) = Holders(f, h)
    BY <1>2 DEF Holders, SameBut
  <2>2. QED BY <2>1, <1>1, <1>2 DEF Count
<1>3. CASE g[o] = h /\ f[o] # h
  <2>1. Holders(g, h) = Holders(f, h) \cup {o} /\ o \notin Holders(f, h)
    BY <1>3 DEF Holders, SameBut
  <2>2. Count(g, h) = Count(f, h) + 1
    BY <2>1, <1>1, FS_AddElement DEF Count
  <2>3. QED BY <2>2, <1>1, <1>3
<1>4. CASE g[o] # h /\ f[o] = h
  <2>1. Holders(g, h) = Holders(f, h) \ {o} /\ o \in Holders(f, h)
    BY <1>4 DEF Holders, SameBut
  <2>2. Count(g, h) = Count(f, h) - 1
    BY <2>1, <1>1, FS_RemoveElement DEF Count
  <2>3. QED BY <2>2, <1>1, <1>4
<1>5. QED BY <1>2, <1>3, <1>4

\* A move: d takes the handle of s, s is left null, d's old handle is dropped.
LEMMA CountMove ==
  ASSUME NEW f, NEW g, NEW d \in Object, NEW s \in Object, Moved(f, g, d, s),
         NEW h \in Handle
  PROVE  Count(g, h) = Count(f, h) - (IF f[d] = h THEN 1 ELSE 0)
<1>1. ASSUME NEW e, e[d] = f[s], e[s] = f[s],
             SameBut(f, e, d), SameBut(e, g, s)
      PROVE  Count(g, h) = Count(f, h) - (IF f[d] = h THEN 1 ELSE 0)
  <2>1. Count(e, h) = Count(f, h) + (IF e[d] = h THEN 1 ELSE 0)
                                  - (IF f[d] = h THEN 1 ELSE 0)
    BY <1>1, CountUpdate
  <2>2. Count(g, h) = Count(e, h) + (IF g[s] = h THEN 1 ELSE 0)
                                  - (IF e[s] = h THEN 1 ELSE 0)
    BY <1>1, CountUpdate
  <2>3. Count(f, h) \in Nat /\ Count(e, h) \in Nat /\ NoHandle # h
    BY HoldersFinite, NullsAreDistinct
  <2>4. g[s] = NoHandle
    BY DEF Moved
  <2>5. QED BY <1>1, <2>1, <2>2, <2>3, <2>4
<1>2. QED
  <2> DEFINE e == [x \in Object |-> IF x = d THEN f[s] ELSE f[x]]
  <2>1. /\ e[d] = f[s] /\ e[s] = f[s]
        /\ SameBut(f, e, d) /\ SameBut(e, g, s)
    BY DEF SameBut, Moved
  <2> HIDE DEF e
  <2>2. QED BY <1>1, <2>1

-----------------------------------------------------------------------------
(* The inductive invariant.  Accounting needs FramesHeld: HandlerReturn     *)
(* drops the reference of the request it destroys.  PendingHasOneOwner      *)
(* needs RequestsPaired, which ties m_request to m_handle and to op.        *)

RequestsPaired ==
  /\ \A r \in Response : request[r] \in Handle =>
       handle[r] = request[r] /\ op[request[r]] # "none"
  /\ \A r, s \in Response : request[r] = request[s] /\ r # s =>
       request[r] \notin Handle
  /\ \A h \in Handle : op[h] # "none" => \E r \in Response : request[r] = h

FramesHeld ==
  \A h \in Handle : frame[h] # NoHandle => handle[frame[h]] = h

IInv == TypeOK /\ Accounting /\ RequestsPaired /\ FramesHeld

\* No object is alive at first.
LEMMA InitInv == Init => IInv
<1> SUFFICES ASSUME Init PROVE IInv
  OBVIOUS
<1>1. TypeOK /\ RequestsPaired /\ FramesHeld
  BY NullsAreDistinct DEF Init, TypeOK, OpState, RequestsPaired, FramesHeld
<1>2. Accounting
  <2>1. \A h \in Handle : Owners(h) = {}
    BY NullsAreDistinct DEF Init, Owners
  <2>2. QED BY <2>1, FS_EmptySet DEF Init, Accounting, FrameRef
<1>3. QED BY <1>1, <1>2 DEF IInv

\* Accounting, in terms of counts.
LEMMA AccountingIsCount ==
  /\ Accounting <=> \A h \in Handle :
                      refs[h] = Count(handle, h) + FrameRef(h) + lost[h]
  /\ Accounting' <=> \A h \in Handle :
                      refs'[h] = Count(handle', h) + FrameRef(h)' + lost'[h]
BY DEF Accounting, Owners, Count, Holders

\* The two ways an action rearranges owners, each with the matching change of
\* the reference counts: one object gets another handle...
Rebinds(o) ==
  /\ SameBut(handle, handle', o)
  /\ \A h \in Handle : refs'[h] = refs[h] + (IF handle'[o] = h THEN 1 ELSE 0)
                                          - (IF handle[o] = h THEN 1 ELSE 0)
  /\ UNCHANGED <<frame, lost>>

\* ... or one object is moved into another, which drops its own.
MovesInto(d, s) ==
  /\ Moved(handle, handle', d, s)
  /\ \A h \in Handle : refs'[h] = refs[h] - (IF handle[d] = h THEN 1 ELSE 0)
  /\ UNCHANGED <<frame, lost>>

Balanced(h) ==
  refs[h] \in Nat /\ refs[h] = Count(handle, h) + FrameRef(h) + lost[h]

\* What accounting says of one handle, and that its parts are numbers.
LEMMA BalanceOf ==
  ASSUME TypeOK, Accounting, NEW h \in Handle
  PROVE  /\ refs[h] = Count(handle, h) + FrameRef(h) + lost[h]
         /\ Count(handle, h) \in Nat /\ Count(handle', h) \in Nat
         /\ FrameRef(h) \in Nat /\ lost[h] \in Nat
<1>1. FrameRef(h) \in Nat /\ lost[h] \in Nat
  BY DEF TypeOK, FrameRef
<1>2. QED BY <1>1, HoldersFinite, AccountingIsCount

\* An object that changes its handle, with the counts, keeps the balance.
LEMMA RebindsBalance ==
  ASSUME TypeOK, Accounting, NEW o \in Object, Rebinds(o), NEW h \in Handle
  PROVE  Balanced(h)'
<1>1. SameBut(handle, handle', o)
  BY DEF Rebinds
<1>2. Count(handle', h) = Count(handle, h) + (IF handle'[o] = h THEN 1 ELSE 0)
                                           - (IF handle[o] = h THEN 1 ELSE 0)
  BY <1>1, CountUpdate
<1>3. /\ refs'[h] = refs[h] + (IF handle'[o] = h THEN 1 ELSE 0)
                            - (IF handle[o] = h THEN 1 ELSE 0)
      /\ FrameRef(h)' = FrameRef(h) /\ lost'[h] = lost[h]
  BY DEF Rebinds, FrameRef
<1>4. QED BY <1>2, <1>3, BalanceOf DEF Balanced

\* So does an object that takes the handle of another.
LEMMA MovesIntoBalance ==
  ASSUME TypeOK, Accounting, NEW d \in Object, NEW s \in Object,
         MovesInto(d, s), NEW h \in Handle
  PROVE  Balanced(h)'
<1>1. Moved(handle, handle', d, s)
  BY DEF MovesInto
<1>2. Count(handle', h) = Count(handle, h) - (IF handle[d] = h THEN 1 ELSE 0)
  BY <1>1, CountMove
<1>3. /\ refs'[h] = refs[h] - (IF handle[d] = h THEN 1 ELSE 0)
      /\ FrameRef(h)' = FrameRef(h) /\ lost'[h] = lost[h]
  BY DEF MovesInto, FrameRef
<1>4. QED BY <1>2, <1>3, BalanceOf DEF Balanced

\* Actions that leave handles and counts alone.
LEMMA UntouchedBalance ==
  ASSUME TypeOK, Accounting, UNCHANGED <<refs, handle, frame, lost>>,
         NEW h \in Handle
  PROVE  Balanced(h)'
BY BalanceOf DEF Balanced, FrameRef, TypeOK

\* The operations of callable_remote_procedure keep the balance.
LEMMA CallableBalance ==
  ASSUME TypeOK, Accounting, CallableStep, NEW h \in Handle
  PROVE  Balanced(h)'
<1> USE NullsAreDistinct DEF TypeOK, Live, Holds, Ref, Unref, Object
<1>1. ASSUME NEW c \in Callable, NEW k \in Handle, On(c, k)
      PROVE  Rebinds(c)
  BY <1>1 DEF On, Rebinds, SameBut
<1>2. ASSUME NEW c \in Callable, NEW p \in Packed, Forward(c, p)
      PROVE  Rebinds(p)
  BY <1>2 DEF Forward, Rebinds, SameBut
<1>3. ASSUME NEW c \in Callable, NEW r \in Response, IForward(c, r)
      PROVE  Rebinds(r)
  BY <1>3 DEF IForward, Rebinds, SameBut
<1>4. ASSUME NEW d \in Callable, NEW c \in Callable, CallableCopy(d, c)
      PROVE  Rebinds(d)
  BY <1>4 DEF CallableCopy, Rebinds, SameBut
<1>5. ASSUME NEW d \in Callable, NEW c \in Callable, CallableCopyAssign(d, c)
      PROVE  Rebinds(d)
  BY <1>5 DEF CallableCopyAssign, Rebinds, SameBut
<1>6. ASSUME NEW d \in Callable, NEW c \in Callable, CallableMoveAssign(d, c)
      PROVE  MovesInto(d, c)
  BY <1>6 DEF CallableMoveAssign, MovesInto, Moved
<1>7. ASSUME NEW d \in Callable, NEW c \in Callable, Move(d, c)
      PROVE  MovesInto(d, c)
  BY <1>7 DEF Move, MovesInto, Moved
<1>8. ASSUME NEW c \in Callable, Destroy(c)
      PROVE  Rebinds(c)
  BY <1>8 DEF Destroy, Rebinds, SameBut
<1>9. QED
  BY <1>1, <1>2, <1>3, <1>4, <1>5, <1>6, <1>7, <1>8,
     RebindsBalance, MovesIntoBalance DEF CallableStep

\* The operations of async_response do.
LEMMA ResponseBalance ==
  ASSUME TypeOK, Accounting, ResponseStep, NEW h \in Handle
  PROVE  Balanced(h)'
<1> USE NullsAreDistinct DEF TypeOK, Live, Holds, Ref, Unref, Object
<1>1. ASSUME NEW k \in Handle, NEW result \in {"answered", "expired"},
             Complete(k, result)
      PROVE  UNCHANGED <<refs, handle, frame, lost>>
  BY <1>1 DEF Complete
<1>2. ASSUME NEW r \in Response, NEW p \in Packed, Wait(r, p)
      PROVE  Rebinds(p)
  BY <1>2 DEF Wait, Rebinds, SameBut
<1>3. ASSUME NEW d \in Response, NEW r \in Response, ResponseMove(d, r)
      PROVE  MovesInto(d, r)
  BY <1>3 DEF ResponseMove, MovesInto, Moved
<1>4. ASSUME NEW d \in Response, NEW r \in Response, ResponseMoveAssign(d, r)
      PROVE  MovesInto(d, r)
  BY <1>4 DEF ResponseMoveAssign, MovesInto, Moved
<1>5. ASSUME NEW d \in Response, NEW r \in Response,
             ResponseMoveAssignThrows(d, r)
      PROVE  UNCHANGED <<refs, handle, frame, lost>>
  BY <1>5 DEF ResponseMoveAssignThrows
<1>6. ASSUME NEW r \in Response, WaitNoData(r)
      PROVE  UNCHANGED <<refs, handle, frame, lost>>
  BY <1>6 DEF WaitNoData
<1>7. ASSUME NEW r \in Response, ResponseDestroy(r)
      PROVE  Rebinds(r)
  BY <1>7 DEF ResponseDestroy, Rebinds, SameBut
<1>8. ASSUME NEW r \in Response,
             ResponseDestroyTerminates(r) \/ WaitAnyNoData(r) \/ UseSpent(r)
      PROVE  UNCHANGED <<refs, handle, frame, lost>>
  BY <1>8 DEF ResponseDestroyTerminates, WaitAnyNoData, UseSpent
<1>9. ASSUME NEW r \in Response, NEW p \in Packed, WaitAny(r, p)
      PROVE  Rebinds(p)
  BY <1>9 DEF WaitAny, Pending, Rebinds, SameBut
<1>10. QED
  BY <1>1, <1>2, <1>3, <1>4, <1>5, <1>6, <1>7, <1>8, <1>9,
     RebindsBalance, MovesIntoBalance, UntouchedBalance DEF ResponseStep

\* The overwritten reference leaves the owners and joins the lost ones.
LEMMA PackedMoveAssignBalance ==
  ASSUME TypeOK, Accounting, NEW d \in Packed, NEW p \in Packed,
         PackedMoveAssign(d, p), NEW h \in Handle
  PROVE  Balanced(h)'
<1>1. d \in Object /\ p \in Object
  BY DEF Object
<1>2. Moved(handle, handle', d, p)
  BY <1>1 DEF PackedMoveAssign, Moved, TypeOK
<1>3. Count(handle', h) = Count(handle, h) - (IF handle[d] = h THEN 1 ELSE 0)
  BY <1>1, <1>2, CountMove
<1>4. /\ refs'[h] = refs[h] /\ FrameRef(h)' = FrameRef(h)
      /\ lost'[h] = lost[h] + (IF handle[d] = h THEN 1 ELSE 0)
  BY DEF PackedMoveAssign, FrameRef, Ref
<1>5. QED BY <1>3, <1>4, BalanceOf DEF Balanced

\* Those of packed_data do, counting what its assignment loses.
LEMMA PackedBalance ==
  ASSUME TypeOK, Accounting, PackedStep, NEW h \in Handle
  PROVE  Balanced(h)'
<1> USE NullsAreDistinct DEF TypeOK, Live, Holds, Ref, Unref, Object
<1>1. ASSUME NEW o \in Packed \cup Request, NEW p \in Packed, NewPacked(o, p)
      PROVE  Rebinds(p)
  BY <1>1 DEF NewPacked, Rebinds, SameBut
<1>2. ASSUME NEW d \in Packed, NEW p \in Packed, Move(d, p)
      PROVE  MovesInto(d, p)
  BY <1>2 DEF Move, MovesInto, Moved
<1>3. ASSUME NEW p \in Packed, Destroy(p)
      PROVE  Rebinds(p)
  BY <1>3 DEF Destroy, Rebinds, SameBut
<1>4. QED
  BY <1>1, <1>2, <1>3, PackedMoveAssignBalance,
     RebindsBalance, MovesIntoBalance DEF PackedStep

\* Dispatch creates two references at once, the handler's and the request's.
LEMMA DispatchBalance ==
  ASSUME TypeOK, Accounting, NEW k \in Handle, NEW q \in Request,
         Dispatch(k, q), NEW h \in Handle
  PROVE  Balanced(h)'
<1>1. q \in Object /\ SameBut(handle, handle', q)
  BY DEF Object, SameBut, Dispatch, TypeOK
<1>2. Count(handle', h) = Count(handle, h) + (IF handle'[q] = h THEN 1 ELSE 0)
                                           - (IF handle[q] = h THEN 1 ELSE 0)
  BY <1>1, CountUpdate
<1>3. handle'[q] = k /\ handle[q] # h /\ lost'[h] = lost[h]
  BY <1>1, NullsAreDistinct DEF Dispatch, TypeOK, Live
<1>4. CASE h = k
  <2>1. refs[h] = 0 /\ refs'[h] = 2 /\ frame'[h] = q
    BY <1>4 DEF Dispatch, TypeOK
  <2>2. FrameRef(h)' = 1
    BY <2>1, <1>1, NullsAreDistinct DEF FrameRef
  <2>3. QED BY <2>1, <2>2, <1>2, <1>3, <1>4, BalanceOf DEF Balanced
<1>5. CASE h # k
  <2>1. refs'[h] = refs[h] /\ FrameRef(h)' = FrameRef(h)
    BY <1>5 DEF Dispatch, TypeOK, FrameRef
  <2>2. QED BY <2>1, <1>2, <1>3, <1>5, BalanceOf DEF Balanced
<1>6. QED BY <1>4, <1>5

\* HandlerReturn drops both, which is why FramesHeld is needed.
LEMMA HandlerReturnBalance ==
  ASSUME TypeOK, Accounting, FramesHeld, NEW k \in Handle, HandlerReturn(k),
         NEW h \in Handle
  PROVE  Balanced(h)'
<1>1. /\ frame[k] \in Object /\ SameBut(handle, handle', frame[k])
      /\ handle[frame[k]] = k
  BY DEF Object, SameBut, HandlerReturn, TypeOK, FramesHeld
<1>2. Count(handle', h)
        = Count(handle, h) + (IF handle'[frame[k]] = h THEN 1 ELSE 0)
                           - (IF handle[frame[k]] = h THEN 1 ELSE 0)
  BY <1>1, CountUpdate
<1>3. handle'[frame[k]] # h /\ lost'[h] = lost[h]
  BY <1>1, NullsAreDistinct DEF HandlerReturn, TypeOK
<1>4. CASE h = k
  <2>1. /\ refs'[h] = refs[h] - 2
        /\ FrameRef(h) = 1 /\ FrameRef(h)' = 0
    BY <1>4 DEF HandlerReturn, TypeOK, FrameRef
  <2>2. QED BY <2>1, <1>1, <1>2, <1>3, <1>4, BalanceOf DEF Balanced
<1>5. CASE h # k
  <2>1. refs'[h] = refs[h] /\ FrameRef(h)' = FrameRef(h)
    BY <1>5 DEF HandlerReturn, TypeOK, FrameRef
  <2>2. QED BY <2>1, <1>1, <1>2, <1>3, <1>5, BalanceOf DEF Balanced
<1>6. QED BY <1>4, <1>5

\* Those of request, and the dispatch of handlers, do.
LEMMA RequestBalance ==
  ASSUME TypeOK, Accounting, FramesHeld, RequestStep, NEW h \in Handle
  PROVE  Balanced(h)'
<1> USE NullsAreDistinct DEF TypeOK, Live, Holds, Ref, Unref, Object
<1>1. ASSUME NEW d \in Request, NEW q \in Request, RequestCopy(d, q)
      PROVE  Rebinds(d)
  BY <1>1 DEF RequestCopy, Rebinds, SameBut
<1>2. ASSUME NEW d \in Request, NEW q \in Request, RequestCopyAssign(d, q)
      PROVE  Rebinds(d)
  BY <1>2 DEF RequestCopyAssign, Rebinds, SameBut
<1>3. ASSUME NEW d \in Request, NEW q \in Request, RequestMoveAssign(d, q)
      PROVE  MovesInto(d, q)
  BY <1>3 DEF RequestMoveAssign, MovesInto, Moved
<1>4. ASSUME NEW d \in Request, NEW q \in Request, Move(d, q)
      PROVE  MovesInto(d, q)
  BY <1>4 DEF Move, MovesInto, Moved
<1>5. ASSUME NEW q \in Request, Destroy(q)
      PROVE  Rebinds(q)
  BY <1>5 DEF Destroy, Rebinds, SameBut
<1>6. QED
  BY <1>1, <1>2, <1>3, <1>4, <1>5, DispatchBalance, HandlerReturnBalance,
     RebindsBalance, MovesIntoBalance DEF RequestStep

\* Every step does.
LEMMA BalanceStep ==
  ASSUME TypeOK, Accounting, FramesHeld, [Next]_vars, NEW h \in Handle
  PROVE  Balanced(h)'
<1>1. CASE UNCHANGED vars
  BY <1>1, UntouchedBalance DEF vars
<1>2. CASE Next
  BY <1>2, CallableBalance, ResponseBalance, PackedBalance, RequestBalance
     DEF Next
<1>3. QED BY <1>1, <1>2

\* Accounting is kept, and no count becomes negative.
LEMMA AccountingStep ==
  ASSUME TypeOK, Accounting, FramesHeld, [Next]_vars
  PROVE  Accounting' /\ \A h \in Handle : refs'[h] \in Nat
<1>1. \A h \in Handle : Balanced(h)'
  BY BalanceStep
<1>2. \A h \in Handle : /\ refs'[h] \in Nat
                        /\ refs'[h] = Count(handle', h) + FrameRef(h)' + lost'[h]
  BY <1>1 DEF Balanced
<1>3. QED BY <1>2, AccountingIsCount

\* A reference count stays a function on Handle, whatever the action; that its
\* values stay natural numbers is AccountingStep.
LEMMA TypeStep ==
  ASSUME TypeOK, [Next]_vars, \A h \in Handle : refs'[h] \in Nat
  PROVE  TypeOK'
<1> USE DEF TypeOK, Object, OpState, Ref, Unref, Consumed, Holds, Live
<1>1. CASE UNCHANGED vars
  BY <1>1 DEF vars
<1>2. CASE CallableStep
  BY <1>2 DEF CallableStep, On, Forward, IForward, CallableCopy,
              CallableCopyAssign, CallableMoveAssign, Move, Destroy
<1>3. CASE ResponseStep
  <2>1. ASSUME NEW h \in Handle, NEW result \in {"answered", "expired"},
               Complete(h, result)
        PROVE  TypeOK'
    BY <2>1 DEF Complete
  <2>2. ASSUME NEW r \in Response, NEW p \in Packed, Wait(r, p)
        PROVE  TypeOK'
    BY <2>2 DEF Wait
  <2>3. ASSUME NEW d \in Response, NEW r \in Response, ResponseMove(d, r)
        PROVE  TypeOK'
    BY <2>3 DEF ResponseMove
  <2>4. ASSUME NEW d \in Response, NEW r \in Response, ResponseMoveAssign(d, r)
        PROVE  TypeOK'
    BY <2>4 DEF ResponseMoveAssign
  <2>5. ASSUME NEW d \in Response, NEW r \in Response,
               ResponseMoveAssignThrows(d, r)
        PROVE  TypeOK'
    BY <2>5 DEF ResponseMoveAssignThrows
  <2>6. ASSUME NEW r \in Response, WaitNoData(r)
        PROVE  TypeOK'
    BY <2>6 DEF WaitNoData
  <2>7. ASSUME NEW r \in Response, ResponseDestroy(r)
        PROVE  TypeOK'
    BY <2>7 DEF ResponseDestroy
  <2>8. ASSUME NEW r \in Response, ResponseDestroyTerminates(r)
        PROVE  TypeOK'
    BY <2>8 DEF ResponseDestroyTerminates
  <2>9. ASSUME NEW r \in Response, NEW p \in Packed, WaitAny(r, p)
        PROVE  TypeOK'
    BY <2>9 DEF WaitAny, Pending
  <2>10. ASSUME NEW r \in Response, WaitAnyNoData(r) \/ UseSpent(r)
         PROVE  TypeOK'
    BY <2>10 DEF WaitAnyNoData, UseSpent
  <2>11. QED
    BY <1>3, <2>1, <2>2, <2>3, <2>4, <2>5, <2>6, <2>7, <2>8, <2>9, <2>10
       DEF ResponseStep
<1>4. CASE PackedStep
  BY <1>4 DEF PackedStep, NewPacked, PackedMoveAssign, Move, Destroy
<1>5. CASE RequestStep
  BY <1>5 DEF RequestStep, Dispatch, HandlerReturn, RequestCopy,
              RequestCopyAssign, RequestMoveAssign, Move, Destroy
<1>6. QED BY <1>1, <1>2, <1>3, <1>4, <1>5 DEF Next

\* The request on the stack of a handler is kept.
LEMMA FramesStep ==
  ASSUME TypeOK, Accounting, FramesHeld, [Next]_vars
  PROVE  FramesHeld'
<1> USE NullsAreDistinct, KindsAreDisjoint
    DEF TypeOK, FramesHeld, Object, Holds, Live, Local
<1>1. CASE UNCHANGED vars
  BY <1>1 DEF vars
<1>2. CASE CallableStep
  BY <1>2 DEF CallableStep, On, Forward, IForward, CallableCopy,
              CallableCopyAssign, CallableMoveAssign, Move, Destroy
<1>3. CASE ResponseStep
  BY <1>3 DEF ResponseStep, Complete, Wait, WaitNoData, ResponseMove,
              ResponseMoveAssign, ResponseMoveAssignThrows, ResponseDestroy,
              ResponseDestroyTerminates, WaitAny, WaitAnyNoData, UseSpent
<1>4. CASE PackedStep
  BY <1>4 DEF PackedStep, NewPacked, PackedMoveAssign, Move, Destroy
<1>5. CASE RequestStep
  BY <1>5 DEF RequestStep, Dispatch, HandlerReturn, RequestCopy,
              RequestCopyAssign, RequestMoveAssign, Move, Destroy
<1>6. QED BY <1>1, <1>2, <1>3, <1>4, <1>5 DEF Next

\* Requests stay paired with operations.
LEMMA PairedStep ==
  ASSUME TypeOK, RequestsPaired, [Next]_vars
  PROVE  RequestsPaired'
<1> USE NullsAreDistinct, KindsAreDisjoint
    DEF TypeOK, RequestsPaired, Object, Holds, Live, Pending, Consumed
<1>1. CASE UNCHANGED vars
  BY <1>1 DEF vars
<1>2. CASE CallableStep
  BY <1>2 DEF CallableStep, On, Forward, IForward, CallableCopy,
              CallableCopyAssign, CallableMoveAssign, Move, Destroy
<1>3. CASE ResponseStep
  BY <1>3 DEF ResponseStep, Complete, Wait, WaitNoData, ResponseMove,
              ResponseMoveAssign, ResponseMoveAssignThrows, ResponseDestroy,
              ResponseDestroyTerminates, WaitAny, WaitAnyNoData, UseSpent
<1>4. CASE PackedStep
  BY <1>4 DEF PackedStep, NewPacked, PackedMoveAssign, Move, Destroy
<1>5. CASE RequestStep
  BY <1>5 DEF RequestStep, Dispatch, HandlerReturn, RequestCopy,
              RequestCopyAssign, RequestMoveAssign, Move, Destroy
<1>6. QED BY <1>1, <1>2, <1>3, <1>4, <1>5 DEF Next

-----------------------------------------------------------------------------
(* The theorems.                                                           *)

\* RpcHandle's inductive invariant holds in every reachable state: the counts
\* are exact, requests and handles stay paired, handlers keep their request.
THEOREM Invariance == Spec => []IInv
<1>1. IInv /\ [Next]_vars => IInv'
  BY AccountingStep, TypeStep, FramesStep, PairedStep DEF IInv
<1>2. QED BY <1>1, InitInv, PTL DEF Spec

\* Type correctness; in particular no reference count ever goes below zero, so
\* no destructor calls margo_destroy once too often.
THEOREM TypeCorrect == Spec => []TypeOK
<1>1. IInv => TypeOK
  BY DEF IInv
<1>2. QED BY <1>1, Invariance, PTL

\* The reference count of every handle is exactly the number of its owners and
\* of the references a packed_data assignment lost.
THEOREM AccountingHolds == Spec => []Accounting
<1>1. IInv => Accounting
  BY DEF IInv
<1>2. QED BY <1>1, Invariance, PTL

\* Operations in progress and requests that are still to be waited for stay
\* paired one to one, wait_any included: each operation has one live
\* async_response to wait for it, which holds its handle, and of the operations
\* that are over only those wait_any returned have a request left, Spent.
THEOREM PendingOwnedOnce == Spec => []PendingHasOneOwner
<1>1. IInv => PendingHasOneOwner
  BY NullsAreDistinct DEF IInv, TypeOK, RequestsPaired, PendingHasOneOwner
<1>2. QED BY <1>1, Invariance, PTL

\* No object, no running handler and no posted operation has a freed handle.
THEOREM NoUseAfterFreeHolds == Spec => []NoUseAfterFree
<1>1. ASSUME IInv, NEW h \in Handle, refs[h] = 0
      PROVE  /\ \A o \in Object : handle[o] # h
             /\ frame[h] = NoHandle /\ op[h] = "none"
  <2>1. Count(handle, h) = 0 /\ FrameRef(h) = 0
    BY <1>1, BalanceOf DEF IInv
  <2>2. Holders(handle, h) = {}
    BY <2>1, HoldersFinite, FS_EmptySet DEF Count
  <2>3. \A o \in Object : handle[o] # h
    BY <2>2 DEF Holders
  <2>4. frame[h] = NoHandle
    BY <2>1 DEF FrameRef
  <2>5. op[h] = "none"
    BY <2>3, <1>1, NullsAreDistinct DEF IInv, TypeOK, RequestsPaired, Object
  <2>6. QED BY <2>3, <2>4, <2>5
<1>2. IInv => NoUseAfterFree
  BY <1>1 DEF NoUseAfterFree
<1>3. QED BY <1>2, Invariance, PTL
=============================================================================
