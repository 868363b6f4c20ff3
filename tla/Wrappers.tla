------------------------------ MODULE Wrappers ------------------------------
(***************************************************************************)
(* The C++ objects that wrap a native handle of Argobots, Mercury or       *)
(* Margo: how each class constructs, copies, moves, assigns and destroys   *)
(* itself, and what that does to the handle.  One definition per class, so *)
(* that the differences between the hand-written versions can be read off. *)
(* All objects of a behaviour are of one class, chosen at the start.       *)
(***************************************************************************)
EXTENDS Integers, FiniteSets

CONSTANTS
  Object,     \* C++ variables of the class
  Managed,    \* those of type managed<class>, for the classes that alias
  Handle,     \* native handles; each is created at most once
  Null,       \* ABT_MUTEX_NULL, HG_BULK_NULL, MARGO_TIMER_NULL, ...
  Dead,       \* an object outside its lifetime
  MaxRaw,     \* bound on the references that C code holds, for each handle
  MoveTimers  \* may a timed_callback that holds a timer be moved by construction?

ASSUME ObjectsAreFinite  == IsFiniteSet(Object)
ASSUME ManagedAreObjects == Managed \subseteq Object
ASSUME MarkersAreFresh   == Null # Dead /\ {Null, Dead} \cap Handle = {}
ASSUME BoundIsNat        == MaxRaw \in Nat /\ MoveTimers \in BOOLEAN

VARIABLES
  class,      \* the class of all objects of this behaviour
  native,     \* m_mutex, m_bulk, m_thread, ... of each object
  refs,       \* references to each handle: at most 1 where nothing counts them
  used,       \* the handles that have been created
  raw,        \* references held by C code, or by nobody any more
  lost        \* (history) references dropped by an operation that keeps no copy

vars == <<class, native, refs, used, raw, lost>>

\* Handles with one owner, handles that Mercury counts, and handles that copies
\* of an object share while a managed object owns them.
Sole == {"mutex", "condition_variable", "barrier", "xstream_barrier", "rwlock",
         "eventual", "eventual_void", "future", "attribute", "timed_callback"}
Counted == {"bulk", "endpoint"}
Alias == {"thread", "task", "pool", "xstream", "scheduler"}

TypeOK ==
  /\ class  \in Sole \cup Counted \cup Alias
  /\ native \in [Object -> Handle \cup {Null, Dead}]
  /\ refs   \in [Handle -> Nat]
  /\ used   \subseteq Handle
  /\ raw    \in [Handle -> 0..MaxRaw]
  /\ lost   \in [Handle -> Nat]

Init ==
  /\ class  \in Sole \cup Counted \cup Alias
  /\ native = [o \in Object |-> Dead]
  /\ refs   = [h \in Handle |-> 0]
  /\ used   = {}
  /\ raw    = [h \in Handle |-> 0]
  /\ lost   = [h \in Handle |-> 0]

Alive(o) == native[o] # Dead

\* The counts after one reference to what is in n is dropped, or added.  What is
\* freed twice stays at -1, which TypeOK excludes.
Drop(n) == [h \in Handle |-> IF h = n THEN refs[h] - 1 ELSE refs[h]]
Share(n) == [h \in Handle |-> IF h = n THEN refs[h] + 1 ELSE refs[h]]

-----------------------------------------------------------------------------
(* What the classes are put together from                                  *)

\* A constructor that creates the native object.
Create(a, h) ==
  /\ native[a] = Dead /\ h \notin used
  /\ native' = [native EXCEPT ![a] = h]
  /\ refs'   = Share(h)
  /\ used'   = used \cup {h}
  /\ UNCHANGED <<raw, lost>>

\* A default constructor that leaves the handle null.
Empty(a) ==
  /\ native[a] = Dead
  /\ native' = [native EXCEPT ![a] = Null]
  /\ UNCHANGED <<refs, used, raw, lost>>

\* The destructor: free what is held, if anything.
Destroy(a) ==
  /\ Alive(a)
  /\ native' = [native EXCEPT ![a] = Dead]
  /\ refs'   = Drop(native[a])
  /\ UNCHANGED <<used, raw, lost>>

\* The move constructor takes the handle and leaves null behind.
MoveConstruct(a, b) ==
  /\ native[a] = Dead /\ Alive(b)
  /\ native' = [native EXCEPT ![a] = native[b], ![b] = Null]
  /\ UNCHANGED <<refs, used, raw, lost>>

TakeOverKeeps(a, b) ==               \* mutant: what a held is not freed
  /\ Alive(a) /\ Alive(b)
  /\ native' = [native EXCEPT ![a] = native[b], ![b] = Null]
  /\ UNCHANGED <<refs, used, raw, lost>>

\* Move assignment: free what a holds, take what b holds, leave b null.  With
\* a = b, the handle is freed and the object is left null.
TakeOver(a, b) ==
  /\ Alive(a) /\ Alive(b)
  /\ native' = [native EXCEPT ![a] = native[b], ![b] = Null]
  /\ refs'   = Drop(native[a])
  /\ UNCHANGED <<used, raw, lost>>

-----------------------------------------------------------------------------
(* Classes whose handle has one owner                                      *)

\* operator= does not test for self-assignment.  recursive_mutex derives from it.
Mutex(a, b, h) ==
  /\ class = "mutex"
  /\ Create(a, h) \/ MoveConstruct(a, b) \/ TakeOver(a, b) \/ Destroy(a)

ConditionVariable(a, b, h) ==
  /\ class = "condition_variable"
  /\ Create(a, h) \/ MoveConstruct(a, b) \/ (a # b /\ TakeOver(a, b)) \/ Destroy(a)

\* reinit creates a barrier in an object that holds none.
Reinit(a, h) ==
  /\ native[a] = Null /\ h \notin used
  /\ native' = [native EXCEPT ![a] = h]
  /\ refs'   = Share(h)
  /\ used'   = used \cup {h}
  /\ UNCHANGED <<raw, lost>>

Barrier(a, b, h) ==
  /\ class = "barrier"
  /\ \/ Create(a, h) \/ MoveConstruct(a, b) \/ (a # b /\ TakeOver(a, b)) \/ Destroy(a)
     \/ Reinit(a, h)

XstreamBarrier(a, b, h) ==
  /\ class = "xstream_barrier"
  /\ Create(a, h) \/ MoveConstruct(a, b) \/ (a # b /\ TakeOver(a, b)) \/ Destroy(a)

\* operator= asserts that freeing its own lock succeeds: assigning to an object
\* that was moved from throws, and nothing changes.
Rwlock(a, b, h) ==
  /\ class = "rwlock"
  /\ \/ Create(a, h) \/ MoveConstruct(a, b) \/ Destroy(a)
     \/ a # b /\ native[a] # Null /\ TakeOver(a, b)

\* operator= compares an object with a handle, and no compiler instantiates it.
Eventual(a, b, h) ==
  /\ class = "eventual"
  /\ Create(a, h) \/ MoveConstruct(a, b) \/ Destroy(a)

\* eventual<void> compares the handles.
EventualVoid(a, b, h) ==
  /\ class = "eventual_void"
  /\ \/ Create(a, h) \/ MoveConstruct(a, b) \/ Destroy(a)
     \/ native[a] # native[b] /\ TakeOver(a, b)

\* operator= has no return statement: this is the outcome in which its caller
\* goes on.
Future(a, b, h) ==
  /\ class = "future"
  /\ Create(a, h) \/ MoveConstruct(a, b) \/ (a # b /\ TakeOver(a, b)) \/ Destroy(a)

Attribute(a, b, h) ==
  /\ class = "attribute"
  /\ Create(a, h) \/ MoveConstruct(a, b) \/ (a # b /\ TakeOver(a, b)) \/ Destroy(a)

\* The defaulted move constructor copies m_timer.
TimerMoveConstruct(a, b) ==
  /\ native[a] = Dead /\ Alive(b) /\ (MoveTimers \/ native[b] = Null)
  /\ native' = [native EXCEPT ![a] = native[b]]
  /\ UNCHANGED <<refs, used, raw, lost>>

\* operator= cancels its own timer, and does not destroy it.
TimerMoveAssign(a, b) ==
  /\ Alive(a) /\ Alive(b) /\ a # b
  /\ native' = [native EXCEPT ![a] = native[b], ![b] = Null]
  /\ lost'   = [h \in Handle |-> IF h = native[a] THEN lost[h] + 1 ELSE lost[h]]
  /\ UNCHANGED <<refs, used, raw>>

TimedCallback(a, b, h) ==
  /\ class = "timed_callback"
  /\ Create(a, h) \/ TimerMoveConstruct(a, b) \/ TimerMoveAssign(a, b) \/ Destroy(a)

-----------------------------------------------------------------------------
(* Classes whose handle Mercury counts: bulk and endpoint                  *)

\* A copy adds a reference, if there is something to refer to.
CopyConstruct(a, b) ==
  /\ native[a] = Dead /\ Alive(b)
  /\ native' = [native EXCEPT ![a] = native[b]]
  /\ refs'   = Share(native[b])
  /\ UNCHANGED <<used, raw, lost>>

\* Copy assignment drops a's reference first.  When both have the same handle,
\* b's reference keeps it alive meanwhile.
CopyAssign(a, b) ==
  /\ Alive(a) /\ Alive(b) /\ a # b
  /\ native' = [native EXCEPT ![a] = native[b]]
  /\ refs'   = [h \in Handle |-> Drop(native[a])[h] + IF h = native[b] THEN 1 ELSE 0]
  /\ UNCHANGED <<used, raw, lost>>

\* get_bulk(true), get_addr(true): the caller is given a reference of its own.
GetCopy(a) ==
  /\ native[a] \in Handle /\ raw[native[a]] < MaxRaw
  /\ refs' = Share(native[a])
  /\ raw'  = [raw EXCEPT ![native[a]] = @ + 1]
  /\ UNCHANGED <<native, used, lost>>

\* engine::wrap, and an endpoint that does not take ownership: the caller keeps
\* its reference.
Wrap(a, h) ==
  /\ native[a] = Dead /\ raw[h] > 0
  /\ native' = [native EXCEPT ![a] = h]
  /\ refs'   = Share(h)
  /\ UNCHANGED <<used, raw, lost>>

\* An endpoint that takes the reference of its caller.
TakeRaw(a, h) ==
  /\ native[a] = Dead /\ raw[h] > 0
  /\ native' = [native EXCEPT ![a] = h]
  /\ raw'    = [raw EXCEPT ![h] = @ - 1]
  /\ UNCHANGED <<refs, used, lost>>

\* The caller of get_bulk(true) or get_addr(true) frees what it was given.
DropRaw(h) ==
  /\ raw[h] > 0
  /\ refs' = Drop(h)
  /\ raw'  = [raw EXCEPT ![h] = @ - 1]
  /\ UNCHANGED <<native, used, lost>>

\* bulk::serialize, decoding: m_bulk is overwritten with a new handle.
Decode(a, h) ==
  /\ Alive(a) /\ h \notin used
  /\ native' = [native EXCEPT ![a] = h]
  /\ refs'   = Share(h)
  /\ used'   = used \cup {h}
  /\ lost'   = [g \in Handle |-> IF g = native[a] THEN lost[g] + 1 ELSE lost[g]]
  /\ UNCHANGED raw

Bulk(a, b, h) ==
  /\ class = "bulk"
  /\ \/ Empty(a) \/ Create(a, h) \/ CopyConstruct(a, b) \/ MoveConstruct(a, b)
     \/ CopyAssign(a, b) \/ (a # b /\ TakeOver(a, b)) \/ Destroy(a)
     \/ GetCopy(a) \/ Wrap(a, h) \/ DropRaw(h) \/ Decode(a, h)

Endpoint(a, b, h) ==
  /\ class = "endpoint"
  /\ \/ Empty(a) \/ Create(a, h) \/ CopyConstruct(a, b) \/ MoveConstruct(a, b)
     \/ CopyAssign(a, b) \/ (a # b /\ TakeOver(a, b)) \/ Destroy(a)
     \/ GetCopy(a) \/ Wrap(a, h) \/ TakeRaw(a, h) \/ DropRaw(h)

-----------------------------------------------------------------------------
(* Classes whose objects alias a handle, and managed, which owns it        *)

AliasCopy(a, b) ==
  /\ a \notin Managed /\ Alive(b)
  /\ native' = [native EXCEPT ![a] = native[b]]
  /\ UNCHANGED <<refs, used, raw, lost>>

\* Moving leaves null behind.  Moving out of a managed object, through its
\* operator*, takes away what it would have freed.
AliasMove(a, b) ==
  /\ a \notin Managed /\ Alive(b) /\ a # b
  /\ native' = [native EXCEPT ![a] = native[b], ![b] = Null]
  /\ lost'   = [h \in Handle |-> IF b \in Managed /\ h = native[b] THEN lost[h] + 1 ELSE lost[h]]
  /\ UNCHANGED <<refs, used, raw>>

AliasEnd(a) ==
  /\ a \notin Managed /\ Alive(a)
  /\ native' = [native EXCEPT ![a] = Dead]
  /\ UNCHANGED <<refs, used, raw, lost>>

\* managed::release frees, and the native call nulls the handle.
Release(a) ==
  /\ Alive(a)
  /\ native' = [native EXCEPT ![a] = Null]
  /\ refs'   = Drop(native[a])
  /\ UNCHANGED <<used, raw, lost>>

\* operator= destroys its own object first, without a test for self-assignment.
ManagedStep(a, b) ==
  /\ a \in Managed
  /\ \/ Empty(a) \/ Release(a) \/ Destroy(a)
     \/ b \in Managed /\ (MoveConstruct(a, b) \/ TakeOver(a, b))

\* The static functions of each class that create its native object and return a
\* managed one.
ThreadCreate(a, h)    == class = "thread" /\ a \in Managed /\ Create(a, h)
TaskCreate(a, h)      == class = "task" /\ a \in Managed /\ Create(a, h)
PoolCreate(a, h)      == class = "pool" /\ a \in Managed /\ Create(a, h)
XstreamCreate(a, h)   == class = "xstream" /\ a \in Managed /\ Create(a, h)
SchedulerCreate(a, h) == class = "scheduler" /\ a \in Managed /\ Create(a, h)

ThreadObject(a, b) ==
  /\ class = "thread"
  /\ (a \notin Managed /\ Empty(a)) \/ AliasCopy(a, b) \/ AliasMove(a, b) \/ AliasEnd(a)

TaskObject(a, b) ==
  /\ class = "task"
  /\ (a \notin Managed /\ Empty(a)) \/ AliasCopy(a, b) \/ AliasMove(a, b) \/ AliasEnd(a)

PoolObject(a, b) ==
  /\ class = "pool"
  /\ (a \notin Managed /\ Empty(a)) \/ AliasCopy(a, b) \/ AliasMove(a, b) \/ AliasEnd(a)

XstreamObject(a, b) ==
  /\ class = "xstream"
  /\ (a \notin Managed /\ Empty(a)) \/ AliasCopy(a, b) \/ AliasMove(a, b) \/ AliasEnd(a)

SchedulerObject(a, b) ==
  /\ class = "scheduler"
  /\ (a \notin Managed /\ Empty(a)) \/ AliasCopy(a, b) \/ AliasMove(a, b) \/ AliasEnd(a)

-----------------------------------------------------------------------------

SoleStep(a, b, h) ==
  \/ Mutex(a, b, h) \/ ConditionVariable(a, b, h) \/ Barrier(a, b, h)
  \/ XstreamBarrier(a, b, h) \/ Rwlock(a, b, h) \/ Eventual(a, b, h)
  \/ EventualVoid(a, b, h) \/ Future(a, b, h) \/ Attribute(a, b, h)
  \/ TimedCallback(a, b, h)

AliasStep(a, b, h) ==
  \/ ThreadObject(a, b) \/ TaskObject(a, b) \/ PoolObject(a, b) \/ XstreamObject(a, b)
  \/ SchedulerObject(a, b)
  \/ ThreadCreate(a, h) \/ TaskCreate(a, h) \/ PoolCreate(a, h) \/ XstreamCreate(a, h)
  \/ SchedulerCreate(a, h)
  \/ class \in Alias /\ ManagedStep(a, b)

Next ==
  /\ \E a, b \in Object, h \in Handle :
       SoleStep(a, b, h) \/ Bulk(a, b, h) \/ Endpoint(a, b, h) \/ AliasStep(a, b, h)
  /\ UNCHANGED class

Spec == Init /\ [][Next]_vars

-----------------------------------------------------------------------------
(* Properties                                                              *)

\* Objects whose destructor frees what they hold.
Owners == IF class \in Alias THEN Managed ELSE Object

\* Through any sequence of constructions, copies, moves, assignments (also to
\* itself, and to objects that were moved from) and destructions, a handle has
\* exactly as many references as there are owners and holders of raw references
\* that will drop one, and those an operation is known to have lost.  So nothing
\* is freed twice, used after it was freed, or kept for ever.
Accounting ==
  \A h \in Handle :
    refs[h] = Cardinality({o \in Owners : native[o] = h}) + raw[h] + lost[h]
=============================================================================
