--------------------------- MODULE WrappersProofs ---------------------------
(***************************************************************************)
(* Proofs about Wrappers: in every class, for any number of objects and of *)
(* native handles, the references to a handle are exactly those of its     *)
(* owners, of C code, and those that are known to be lost.                 *)
(***************************************************************************)
EXTENDS Wrappers, FiniteSetTheorems, TLAPS

\* How many objects of S hold h when the objects are as in f.
Holders(S, f, h) == {o \in S : f[o] = h}
Count(S, f, h)   == Cardinality(Holders(S, f, h))

One(b) == IF b THEN 1 ELSE 0

\* A handle has finitely many holders.
LEMMA HoldersFinite ==
  ASSUME NEW S \in SUBSET Object, NEW f, NEW h
  PROVE  IsFiniteSet(Holders(S, f, h)) /\ Count(S, f, h) \in Nat
<1>1. IsFiniteSet(S)
  BY FS_Subset, ObjectsAreFinite
<1>2. QED BY <1>1, FS_Subset, FS_CardinalityType DEF Holders, Count

\* When only o changes, its unit moves from the old handle to the new one.
LEMMA CountUpdate ==
  ASSUME NEW S \in SUBSET Object, NEW f, NEW g, NEW o \in S, NEW h,
         \A x \in S : x # o => g[x] = f[x]
  PROVE  Count(S, g, h) = Count(S, f, h) + One(g[o] = h) - One(f[o] = h)
<1>1. /\ IsFiniteSet(Holders(S, f, h)) /\ Count(S, f, h) \in Nat
      /\ IsFiniteSet(Holders(S, g, h)) /\ Count(S, g, h) \in Nat
  BY HoldersFinite
<1>2. CASE (g[o] = h) <=> (f[o] = h)
  <2>1. Holders(S, g, h) = Holders(S, f, h)
    BY <1>2 DEF Holders
  <2>2. QED BY <2>1, <1>1, <1>2 DEF Count, One
<1>3. CASE g[o] = h /\ f[o] # h
  <2>1. Holders(S, g, h) = Holders(S, f, h) \cup {o} /\ o \notin Holders(S, f, h)
    BY <1>3 DEF Holders
  <2>2. Count(S, g, h) = Count(S, f, h) + 1
    BY <2>1, <1>1, FS_AddElement DEF Count
  <2>3. QED BY <2>2, <1>1, <1>3 DEF One
<1>4. CASE g[o] # h /\ f[o] = h
  <2>1. Holders(S, g, h) = Holders(S, f, h) \ {o} /\ o \in Holders(S, f, h)
    BY <1>4 DEF Holders
  <2>2. Count(S, g, h) = Count(S, f, h) - 1
    BY <2>1, <1>1, FS_RemoveElement DEF Count
  <2>3. QED BY <2>2, <1>1, <1>4 DEF One
<1>5. QED BY <1>2, <1>3, <1>4

\* When d takes what s holds and s is left null, only d's old handle loses one.
\* With d = s, the object is left null.
LEMMA CountMove ==
  ASSUME NEW S \in SUBSET Object, NEW f, NEW g, NEW d \in S, NEW s \in S, NEW h \in Handle,
         d # s => g[d] = f[s], g[s] = Null,
         \A x \in S : x # d /\ x # s => g[x] = f[x]
  PROVE  Count(S, g, h) = Count(S, f, h) - One(f[d] = h)
<1>0. Null # h
  BY MarkersAreFresh
<1>1. CASE d = s
  <2>1. Count(S, g, h) = Count(S, f, h) + One(g[d] = h) - One(f[d] = h)
    BY <1>1, CountUpdate
  <2>2. One(g[d] = h) = 0
    BY <1>0, <1>1 DEF One
  <2>3. Count(S, f, h) \in Nat
    BY HoldersFinite
  <2>4. QED BY <2>1, <2>2, <2>3 DEF One
<1>2. CASE d # s
  <2> DEFINE e == [x \in S |-> IF x = d THEN f[s] ELSE f[x]]
  <2>1. /\ e[d] = f[s] /\ e[s] = f[s]
        /\ \A x \in S : x # d => e[x] = f[x]
        /\ \A x \in S : x # s => g[x] = e[x]
    BY <1>2
  <2> HIDE DEF e
  <2>2. Count(S, e, h) = Count(S, f, h) + One(e[d] = h) - One(f[d] = h)
    BY <2>1, CountUpdate
  <2>3. Count(S, g, h) = Count(S, e, h) + One(g[s] = h) - One(e[s] = h)
    BY <2>1, CountUpdate
  <2>4. Count(S, f, h) \in Nat /\ Count(S, e, h) \in Nat
    BY HoldersFinite
  <2>5. One(g[s] = h) = 0 /\ One(e[d] = h) = One(e[s] = h)
    BY <1>0, <2>1 DEF One
  <2>6. QED BY <2>2, <2>3, <2>4, <2>5 DEF One
<1>3. QED BY <1>1, <1>2

-----------------------------------------------------------------------------
(* What an action does to the balance of a handle: the references that     *)
(* owners should account for change as the number of owners does.          *)

\* Who owns depends on the class only.
LEMMA OwnersAreObjects ==
  /\ Owners \in SUBSET Object
  /\ UNCHANGED class => Owners' = Owners
BY ManagedAreObjects DEF Owners

\* Accounting, in terms of counts.
LEMMA AccountingIsCount ==
  /\ Accounting <=> \A h \in Handle : refs[h] = Count(Owners, native, h) + raw[h] + lost[h]
  /\ Accounting' <=>
       \A h \in Handle : refs'[h] = Count(Owners', native', h) + raw'[h] + lost'[h]
BY DEF Accounting, Count, Holders

\* The types of all variables, except that a count might be negative.
Shape ==
  /\ class  \in Sole \cup Counted \cup Alias
  /\ native \in [Object -> Handle \cup {Null, Dead}]
  /\ refs   \in [Handle -> Int]
  /\ used   \subseteq Handle
  /\ raw    \in [Handle -> 0..MaxRaw]
  /\ lost   \in [Handle -> Nat]

\* Change of the references to h that are not raw or lost.
Owed(h) == refs[h] - raw[h] - lost[h]

\* Object o, an owner or not, gets another handle, and the references follow.
Rebinds(o) ==
  /\ \A x \in Object : x # o => native'[x] = native[x]
  /\ \A h \in Handle : Owed(h)' =
       IF o \in Owners THEN Owed(h) + One(native'[o] = h) - One(native[o] = h) ELSE Owed(h)

\* d takes what s holds and drops its own, both being owners.
MovesInto(d, s) ==
  /\ d \in Owners /\ s \in Owners
  /\ d # s => native'[d] = native[s]
  /\ native'[s] = Null
  /\ \A x \in Object : x # d /\ x # s => native'[x] = native[x]
  /\ \A h \in Handle : Owed(h)' = Owed(h) - One(native[d] = h)

\* It is enough that what is owed changes as the number of owners does.
LEMMA BalanceSuffices ==
  ASSUME TypeOK, Accounting, UNCHANGED class, Shape',
         \A h \in Handle :
           Owed(h)' - Owed(h) = Count(Owners, native', h) - Count(Owners, native, h)
  PROVE  TypeOK' /\ Accounting'
<1>1. ASSUME NEW h \in Handle
      PROVE  refs'[h] = Count(Owners', native', h) + raw'[h] + lost'[h] /\ refs'[h] \in Nat
  <2>1. Owners' = Owners
    BY OwnersAreObjects
  <2>2. Count(Owners, native', h) \in Nat /\ Count(Owners, native, h) \in Nat
    BY HoldersFinite, OwnersAreObjects
  <2>3. refs[h] = Count(Owners, native, h) + raw[h] + lost[h]
    BY AccountingIsCount
  <2>4. /\ refs[h] \in Nat /\ raw[h] \in Nat /\ lost[h] \in Nat
        /\ refs'[h] \in Int /\ raw'[h] \in Nat /\ lost'[h] \in Nat
    BY BoundIsNat DEF TypeOK, Shape
  <2>5. refs'[h] - raw'[h] - lost'[h] - (refs[h] - raw[h] - lost[h])
          = Count(Owners, native', h) - Count(Owners, native, h)
    BY DEF Owed
  <2>6. QED BY <2>1, <2>2, <2>3, <2>4, <2>5
<1>2. TypeOK'
  BY <1>1 DEF TypeOK, Shape
<1>3. QED BY <1>1, <1>2, AccountingIsCount

\* What is owed to the owners is a number.
LEMMA OwedIsInt ==
  ASSUME TypeOK, NEW h \in Handle
  PROVE  Owed(h) \in Int
BY BoundIsNat DEF TypeOK, Owed

\* An object that changes its handle, with the counts, keeps the balance.
LEMMA RebindsBalance ==
  ASSUME TypeOK, Accounting, UNCHANGED class, Shape', NEW o \in Object, Rebinds(o)
  PROVE  TypeOK' /\ Accounting'
<1>1. ASSUME NEW h \in Handle
      PROVE  Owed(h)' - Owed(h) = Count(Owners, native', h) - Count(Owners, native, h)
  <2>1. Count(Owners, native', h) \in Nat /\ Count(Owners, native, h) \in Nat
        /\ Owed(h) \in Int
    BY HoldersFinite, OwnersAreObjects, OwedIsInt
  <2>2. CASE o \in Owners
    <3>1. Count(Owners, native', h)
            = Count(Owners, native, h) + One(native'[o] = h) - One(native[o] = h)
      BY <2>2, CountUpdate, OwnersAreObjects DEF Rebinds
    <3>2. Owed(h)' = Owed(h) + One(native'[o] = h) - One(native[o] = h)
      BY <2>2 DEF Rebinds
    <3>3. QED BY <2>1, <3>1, <3>2 DEF One
  <2>3. CASE o \notin Owners
    <3>1. Holders(Owners, native', h) = Holders(Owners, native, h)
      BY <2>3, OwnersAreObjects DEF Rebinds, Holders
    <3>2. Owed(h)' = Owed(h)
      BY <2>3 DEF Rebinds
    <3>3. QED BY <2>1, <3>1, <3>2 DEF Count
  <2>4. QED BY <2>2, <2>3
<1>2. QED BY <1>1, BalanceSuffices

\* So does an object that takes the handle of another.
LEMMA MovesIntoBalance ==
  ASSUME TypeOK, Accounting, UNCHANGED class, Shape', NEW d, NEW s, MovesInto(d, s)
  PROVE  TypeOK' /\ Accounting'
<1>1. ASSUME NEW h \in Handle
      PROVE  Owed(h)' - Owed(h) = Count(Owners, native', h) - Count(Owners, native, h)
  <2>1. Count(Owners, native', h) \in Nat /\ Count(Owners, native, h) \in Nat
        /\ Owed(h) \in Int
    BY HoldersFinite, OwnersAreObjects, OwedIsInt
  <2>2. Count(Owners, native', h) = Count(Owners, native, h) - One(native[d] = h)
    BY CountMove, OwnersAreObjects DEF MovesInto
  <2>3. Owed(h)' = Owed(h) - One(native[d] = h)
    BY DEF MovesInto
  <2>4. QED BY <2>1, <2>2, <2>3 DEF One
<1>2. QED BY <1>1, BalanceSuffices

-----------------------------------------------------------------------------
(* What the classes are put together from                                  *)

\* Holds whatever the class does, since no class changes what class means.
Balances == TypeOK' /\ Accounting'

\* What adding and dropping a reference does to the counts.
LEMMA ShareAndDrop ==
  ASSUME TypeOK, NEW n
  PROVE  /\ Share(n) \in [Handle -> Int] /\ Drop(n) \in [Handle -> Int]
         /\ \A h \in Handle : /\ Share(n)[h] = refs[h] + One(n = h)
                              /\ Drop(n)[h] = refs[h] - One(n = h)
BY DEF TypeOK, Share, Drop, One

\* Constructors, destructors and copies of owners change one object.
LEMMA OneOwnerBalance ==
  ASSUME TypeOK, Accounting, UNCHANGED class,
         NEW a \in Object, NEW b \in Object, NEW h \in Handle, a \in Owners,
         \/ Create(a, h) \/ Empty(a) \/ Destroy(a) \/ Reinit(a, h) \/ Release(a)
         \/ CopyConstruct(a, b) \/ CopyAssign(a, b) \/ Wrap(a, h) \/ TakeRaw(a, h)
         \/ Decode(a, h)
  PROVE  Balances
<1> USE MarkersAreFresh, BoundIsNat DEF TypeOK, Shape, Rebinds, Owed, One, Alive
<1>1. CASE Create(a, h) \/ Reinit(a, h)
  <2>1. Shape' /\ Rebinds(a)
    BY <1>1, ShareAndDrop DEF Create, Reinit
  <2>2. QED BY <2>1, RebindsBalance DEF Balances
<1>2. CASE Empty(a)
  <2>1. Shape' /\ Rebinds(a)
    BY <1>2 DEF Empty
  <2>2. QED BY <2>1, RebindsBalance DEF Balances
<1>3. CASE Destroy(a) \/ Release(a)
  <2>1. Shape' /\ Rebinds(a)
    BY <1>3, ShareAndDrop DEF Destroy, Release
  <2>2. QED BY <2>1, RebindsBalance DEF Balances
<1>4. CASE CopyConstruct(a, b)
  <2>1. Shape' /\ Rebinds(a)
    BY <1>4, ShareAndDrop DEF CopyConstruct
  <2>2. QED BY <2>1, RebindsBalance DEF Balances
<1>5. CASE CopyAssign(a, b)
  <2>1. Shape' /\ Rebinds(a)
    BY <1>5, ShareAndDrop DEF CopyAssign
  <2>2. QED BY <2>1, RebindsBalance DEF Balances
<1>6. CASE Wrap(a, h)
  <2>1. Shape' /\ Rebinds(a)
    BY <1>6, ShareAndDrop DEF Wrap
  <2>2. QED BY <2>1, RebindsBalance DEF Balances
<1>7. CASE TakeRaw(a, h)
  <2>1. Shape' /\ Rebinds(a)
    BY <1>7 DEF TakeRaw
  <2>2. QED BY <2>1, RebindsBalance DEF Balances
<1>8. CASE Decode(a, h)
  <2>1. Shape' /\ Rebinds(a)
    BY <1>8, ShareAndDrop DEF Decode
  <2>2. QED BY <2>1, RebindsBalance DEF Balances
<1>9. QED BY <1>1, <1>2, <1>3, <1>4, <1>5, <1>6, <1>7, <1>8

\* Moves between owners.
LEMMA TwoOwnersBalance ==
  ASSUME TypeOK, Accounting, UNCHANGED class,
         NEW a \in Object, NEW b \in Object, a \in Owners, b \in Owners,
         MoveConstruct(a, b) \/ TakeOver(a, b) \/ TimerMoveAssign(a, b)
  PROVE  Balances
<1> USE MarkersAreFresh, BoundIsNat DEF TypeOK, Shape, MovesInto, Owed, One, Alive
<1>1. CASE MoveConstruct(a, b)
  <2>1. Shape' /\ MovesInto(a, b)
    BY <1>1 DEF MoveConstruct
  <2>2. QED BY <2>1, MovesIntoBalance DEF Balances
<1>2. CASE TakeOver(a, b)
  <2>1. Shape' /\ MovesInto(a, b)
    BY <1>2, ShareAndDrop DEF TakeOver
  <2>2. QED BY <2>1, MovesIntoBalance DEF Balances
<1>3. CASE TimerMoveAssign(a, b)
  <2>1. Shape' /\ MovesInto(a, b)
    BY <1>3 DEF TimerMoveAssign
  <2>2. QED BY <2>1, MovesIntoBalance DEF Balances
<1>4. QED BY <1>1, <1>2, <1>3

\* A timed_callback that holds no timer may be moved; Null is no handle.
LEMMA TimerMoveBalance ==
  ASSUME TypeOK, Accounting, UNCHANGED class, ~MoveTimers,
         NEW a \in Object, NEW b \in Object, a \in Owners, TimerMoveConstruct(a, b)
  PROVE  Balances
<1>1. Shape' /\ Rebinds(a)
  BY MarkersAreFresh, BoundIsNat
     DEF TypeOK, Shape, Rebinds, Owed, One, Alive, TimerMoveConstruct
<1>2. QED BY <1>1, RebindsBalance DEF Balances

\* C code takes or drops a reference of its own.
LEMMA RawBalance ==
  ASSUME TypeOK, Accounting, UNCHANGED class,
         NEW a \in Object, NEW h \in Handle, GetCopy(a) \/ DropRaw(h)
  PROVE  Balances
<1>1. Shape' /\ Rebinds(a)
  <2>1. CASE GetCopy(a)
    BY <2>1, ShareAndDrop, MarkersAreFresh, BoundIsNat
       DEF GetCopy, TypeOK, Shape, Rebinds, Owed, One
  <2>2. CASE DropRaw(h)
    BY <2>2, ShareAndDrop, MarkersAreFresh, BoundIsNat
       DEF DropRaw, TypeOK, Shape, Rebinds, Owed, One
  <2>3. QED BY <2>1, <2>2
<1>2. QED BY <1>1, RebindsBalance DEF Balances

-----------------------------------------------------------------------------
(* The classes                                                             *)

\* The classes whose handle has one owner keep the balance.
LEMMA SoleBalance ==
  ASSUME TypeOK, Accounting, UNCHANGED class, ~MoveTimers,
         NEW a \in Object, NEW b \in Object, NEW h \in Handle, SoleStep(a, b, h)
  PROVE  Balances
<1>1. a \in Owners /\ b \in Owners
  BY DEF SoleStep, Owners, Alias, Mutex, ConditionVariable, Barrier, XstreamBarrier, Rwlock,
         Eventual, EventualVoid, Future, Attribute, TimedCallback
<1>2. \/ Create(a, h) \/ Destroy(a) \/ Reinit(a, h) \/ MoveConstruct(a, b) \/ TakeOver(a, b)
      \/ TimerMoveAssign(a, b) \/ TimerMoveConstruct(a, b)
  BY DEF SoleStep, Mutex, ConditionVariable, Barrier, XstreamBarrier, Rwlock,
         Eventual, EventualVoid, Future, Attribute, TimedCallback
<1>3. QED BY <1>1, <1>2, OneOwnerBalance, TwoOwnersBalance, TimerMoveBalance

\* bulk and endpoint do.
LEMMA CountedBalance ==
  ASSUME TypeOK, Accounting, UNCHANGED class,
         NEW a \in Object, NEW b \in Object, NEW h \in Handle,
         Bulk(a, b, h) \/ Endpoint(a, b, h)
  PROVE  Balances
<1>1. a \in Owners /\ b \in Owners
  BY DEF Bulk, Endpoint, Owners, Alias
<1>2. \/ Empty(a) \/ Create(a, h) \/ CopyConstruct(a, b) \/ CopyAssign(a, b) \/ Destroy(a)
      \/ Wrap(a, h) \/ TakeRaw(a, h) \/ Decode(a, h)
      \/ MoveConstruct(a, b) \/ TakeOver(a, b) \/ GetCopy(a) \/ DropRaw(h)
  BY DEF Bulk, Endpoint
<1>3. QED BY <1>1, <1>2, OneOwnerBalance, TwoOwnersBalance, RawBalance

\* Objects that only alias a handle own nothing; but they can empty a managed one.
LEMMA AliasObjectBalance ==
  ASSUME TypeOK, Accounting, UNCHANGED class, class \in Alias,
         NEW a \in Object, NEW b \in Object, a \notin Managed,
         Empty(a) \/ AliasCopy(a, b) \/ AliasMove(a, b) \/ AliasEnd(a)
  PROVE  Balances
<1> USE MarkersAreFresh, BoundIsNat DEF TypeOK, Shape, Owed, One, Alive
<1>1. Owners = Managed
  BY DEF Owners
<1>2. CASE Empty(a) \/ AliasCopy(a, b) \/ AliasEnd(a)
  <2>1. Shape' /\ Rebinds(a)
    BY <1>1, <1>2 DEF Empty, AliasCopy, AliasEnd, Rebinds
  <2>2. QED BY <2>1, RebindsBalance DEF Balances
<1>3. CASE AliasMove(a, b)
  <2>1. Shape'
    BY <1>3 DEF AliasMove
  <2>2. ASSUME NEW h \in Handle
        PROVE  Owed(h)' - Owed(h) = Count(Owners, native', h) - Count(Owners, native, h)
    <3>1. Owed(h)' = Owed(h) - One(b \in Managed /\ native[b] = h)
      BY <1>3 DEF AliasMove
    <3>2. Count(Owners, native', h) \in Nat /\ Count(Owners, native, h) \in Nat
          /\ Owed(h) \in Int
      BY HoldersFinite, OwnersAreObjects, OwedIsInt
    <3>3. CASE b \in Managed
      <4>1. \A x \in Owners : x # b => native'[x] = native[x]
        BY <1>1, <1>3, OwnersAreObjects DEF AliasMove
      <4>2. Count(Owners, native', h)
              = Count(Owners, native, h) + One(native'[b] = h) - One(native[b] = h)
        BY <4>1, <3>3, <1>1, CountUpdate, OwnersAreObjects
      <4>3. native'[b] # h
        BY <1>3 DEF AliasMove
      <4>4. QED BY <3>1, <3>2, <3>3, <4>2, <4>3
    <3>4. CASE b \notin Managed
      <4>1. Holders(Owners, native', h) = Holders(Owners, native, h)
        BY <1>1, <1>3, <3>4, OwnersAreObjects DEF AliasMove, Holders
      <4>2. QED BY <4>1, <3>1, <3>2, <3>4 DEF Count
    <3>5. QED BY <3>3, <3>4
  <2>3. QED BY <2>1, <2>2, BalanceSuffices DEF Balances
<1>4. QED BY <1>2, <1>3

\* The classes that alias, and managed, do.
LEMMA AliasBalance ==
  ASSUME TypeOK, Accounting, UNCHANGED class,
         NEW a \in Object, NEW b \in Object, NEW h \in Handle, AliasStep(a, b, h)
  PROVE  Balances
<1>1. class \in Alias /\ Owners = Managed
  BY DEF AliasStep, Owners, Alias, ThreadObject, TaskObject, PoolObject, XstreamObject,
         SchedulerObject, ThreadCreate, TaskCreate, PoolCreate, XstreamCreate, SchedulerCreate
<1>2. CASE /\ a \notin Managed
           /\ Empty(a) \/ AliasCopy(a, b) \/ AliasMove(a, b) \/ AliasEnd(a)
  BY <1>1, <1>2, AliasObjectBalance
<1>3. CASE a \in Managed /\ (Create(a, h) \/ Empty(a) \/ Release(a) \/ Destroy(a))
  BY <1>1, <1>3, OneOwnerBalance
<1>4. CASE a \in Managed /\ b \in Managed /\ (MoveConstruct(a, b) \/ TakeOver(a, b))
  BY <1>1, <1>4, TwoOwnersBalance
<1>5. QED
  BY <1>2, <1>3, <1>4
     DEF AliasStep, ThreadObject, TaskObject, PoolObject, XstreamObject, SchedulerObject,
         ThreadCreate, TaskCreate, PoolCreate, XstreamCreate, SchedulerCreate, ManagedStep,
         AliasCopy, AliasMove, AliasEnd

-----------------------------------------------------------------------------
(* The theorems                                                            *)

IInv == TypeOK /\ Accounting

\* No object is alive at first.
LEMMA InitInv == Init => IInv
<1> SUFFICES ASSUME Init PROVE IInv
  OBVIOUS
<1>1. TypeOK
  BY BoundIsNat DEF Init, TypeOK
<1>2. ASSUME NEW h \in Handle
      PROVE  refs[h] = Count(Owners, native, h) + raw[h] + lost[h]
  <2>1. Holders(Owners, native, h) = {}
    BY MarkersAreFresh, OwnersAreObjects DEF Init, Holders
  <2>2. QED BY <2>1, FS_EmptySet DEF Init, Count
<1>3. QED BY <1>1, <1>2, AccountingIsCount DEF IInv

\* Every step keeps types and accounting.
LEMMA StepInv ==
  ASSUME IInv, ~MoveTimers, [Next]_vars
  PROVE  IInv'
<1>1. CASE UNCHANGED vars
  BY <1>1 DEF vars, IInv, TypeOK, Accounting, Owners
<1>2. CASE Next
  <2>1. UNCHANGED class
    BY <1>2 DEF Next
  <2>2. PICK a \in Object, b \in Object, h \in Handle :
          SoleStep(a, b, h) \/ Bulk(a, b, h) \/ Endpoint(a, b, h) \/ AliasStep(a, b, h)
    BY <1>2 DEF Next
  <2>3. Balances
    BY <2>1, <2>2, SoleBalance, CountedBalance, AliasBalance DEF IInv
  <2>4. QED BY <2>3 DEF Balances, IInv
<1>3. QED BY <1>1, <1>2

\* Through any sequence of operations on any number of objects of any of the
\* seventeen classes, the references to each native handle are those of the objects
\* that will free it, of C code, and those that are known to be lost; none is ever
\* below zero, so nothing is freed twice.  The condition is that no timed_callback
\* that holds a timer is moved by construction (timed_callback.hpp:45).
THEOREM AccountingHolds ==
  ASSUME ~MoveTimers
  PROVE  Spec => [](TypeOK /\ Accounting)
<1>1. IInv /\ [Next]_vars => IInv'
  BY StepInv
<1>2. QED BY <1>1, InitInv, PTL DEF Spec, IInv
=============================================================================
