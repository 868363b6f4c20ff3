--------------------------- MODULE TimedCallback ---------------------------
(***************************************************************************)
(* thallium::timed_callback: a Margo timer and the std::function it calls, *)
(* used by one thread while the timer fires in another.  External: Margo's *)
(* progress loop takes an expired timer off its list and creates a thread  *)
(* that calls it; margo_timer_cancel takes the timer off the list, keeps   *)
(* threads that have not begun from calling, and waits for the others.     *)
(* Whether margo_timer_destroy waits for them is a constant: the class     *)
(* frees its function right after it.                                      *)
(***************************************************************************)
EXTENDS Naturals

CONSTANTS
  Object,        \* timed_callback objects
  Timer,         \* native timers; each is created once, with a function of its own
  Null,          \* MARGO_TIMER_NULL, or no function
  MaxStarts,     \* bound on the calls to start
  DestroyWaits   \* does margo_timer_destroy wait as margo_timer_cancel does?

VARIABLES
  alive,         \* objects within their lifetime
  timer,         \* m_timer of each object
  callback,      \* m_callback of each object: the timer that calls the same function
  listed,        \* timers waiting to expire
  created,       \* for each timer, its threads that have not called yet
  calling,       \* for each timer, its threads that are in the function
  deleted,       \* functions that were deleted
  op,            \* what the user's thread is doing
  starts,        \* number of calls to start
  cancelled      \* (history) timers whose cancel has returned, and not started since

vars == <<alive, timer, callback, listed, created, calling, deleted, op, starts, cancelled>>

NoOp == <<"none">>

TypeOK ==
  /\ alive \subseteq Object
  /\ timer \in [Object -> Timer \cup {Null}] /\ callback \in [Object -> Timer \cup {Null}]
  /\ listed \subseteq Timer /\ deleted \subseteq Timer
  /\ created \in [Timer -> 0..MaxStarts] /\ calling \in [Timer -> 0..MaxStarts]
  /\ starts \in 0..MaxStarts /\ cancelled \subseteq Timer

Init ==
  /\ alive = {} /\ listed = {} /\ deleted = {}
  /\ timer = [o \in Object |-> Null] /\ callback = [o \in Object |-> Null]
  /\ created = [t \in Timer |-> 0] /\ calling = [t \in Timer |-> 0]
  /\ op = NoOp /\ starts = 0
  /\ cancelled = {}

Used == {t \in Timer : t \in deleted \/ \E o \in Object : callback[o] = t}

\* No thread of the timer is in the function.
Quiet(t) == {u \in {t} \ {Null} : calling[u] > 0} = {}

\* engine::create_timed_callback
Construct(o, t) ==
  /\ op = NoOp /\ o \notin alive /\ t \notin Used
  /\ alive' = alive \cup {o}
  /\ timer' = [timer EXCEPT ![o] = t]
  /\ callback' = [callback EXCEPT ![o] = t]
  /\ UNCHANGED <<listed, created, calling, deleted, op, starts, cancelled>>

\* start throws if the object has no timer or it is listed already.
Start(o) ==
  /\ op = NoOp /\ o \in alive /\ starts < MaxStarts
  /\ timer[o] # Null /\ timer[o] \notin listed
  /\ listed' = listed \cup {timer[o]}
  /\ starts' = starts + 1
  /\ cancelled' = cancelled \ {timer[o]}
  /\ UNCHANGED <<alive, timer, callback, created, calling, deleted, op>>

\* What margo_timer_cancel does at once.
Unlist(t) ==
  /\ listed' = listed \ {t}
  /\ created' = [u \in Timer |-> IF u = t THEN 0 ELSE created[u]]

\* cancel, operator=, and the destructor begin.
Cancel(o) ==
  /\ op = NoOp /\ o \in alive /\ timer[o] # Null
  /\ Unlist(timer[o])
  /\ op' = <<"cancel", o>>
  /\ UNCHANGED <<alive, timer, callback, calling, deleted, starts, cancelled>>

AssignWithoutCancel(o, p) ==         \* mutant: the old timer stays listed
  /\ op = NoOp /\ {o, p} \subseteq alive /\ o # p
  /\ op' = <<"assign", o, p>>
  /\ UNCHANGED <<alive, timer, callback, listed, created, calling, deleted, starts, cancelled>>

Assign(o, p) ==
  /\ op = NoOp /\ {o, p} \subseteq alive /\ o # p
  /\ Unlist(timer[o])
  /\ op' = <<"assign", o, p>>
  /\ UNCHANGED <<alive, timer, callback, calling, deleted, starts, cancelled>>

Destroy(o) ==
  /\ op = NoOp /\ o \in alive
  /\ Unlist(timer[o])
  /\ op' = <<"destroy", o>>
  /\ UNCHANGED <<alive, timer, callback, calling, deleted, starts, cancelled>>

ReturnAtOnce ==                      \* mutant: cancel does not wait
  /\ op # NoOp /\ op[1] = "cancel"
  /\ cancelled' = cancelled \cup {timer[op[2]]}
  /\ op' = NoOp
  /\ UNCHANGED <<alive, timer, callback, listed, created, calling, deleted, starts>>

\* cancel returns when the timer's threads are done.
CancelReturns ==
  /\ op # NoOp /\ op[1] = "cancel" /\ Quiet(timer[op[2]])
  /\ cancelled' = cancelled \cup {timer[op[2]]}
  /\ op' = NoOp
  /\ UNCHANGED <<alive, timer, callback, listed, created, calling, deleted, starts>>

\* operator= goes on after the cancel: the timer and the function of the other
\* object are taken, its own function is deleted.
AssignReturns ==
  /\ op # NoOp /\ op[1] = "assign" /\ Quiet(timer[op[2]])
  /\ LET o == op[2] p == op[3] IN
     /\ timer' = [timer EXCEPT ![o] = timer[p], ![p] = Null]
     /\ callback' = [callback EXCEPT ![o] = callback[p], ![p] = Null]
     /\ deleted' = deleted \cup ({callback[o]} \ {Null})
  /\ op' = NoOp
  /\ UNCHANGED <<alive, listed, created, calling, starts, cancelled>>

\* The destructor deletes the function after margo_timer_destroy.
DestroyReturns ==
  /\ op # NoOp /\ op[1] = "destroy"
  /\ LET o == op[2] IN
     /\ DestroyWaits => Quiet(timer[o])
     /\ alive' = alive \ {o}
     /\ timer' = [timer EXCEPT ![o] = Null]
     /\ callback' = [callback EXCEPT ![o] = Null]
     /\ deleted' = deleted \cup ({callback[o]} \ {Null})
  /\ op' = NoOp
  /\ UNCHANGED <<listed, created, calling, starts, cancelled>>

\* Margo: the timer expires, and a thread is created for it.
Expire(t) ==
  /\ t \in listed
  /\ listed' = listed \ {t}
  /\ created' = [created EXCEPT ![t] = @ + 1]
  /\ UNCHANGED <<alive, timer, callback, calling, deleted, op, starts, cancelled>>

\* call: the function is used from here until it returns.
Call(t) ==
  /\ created[t] > 0
  /\ created' = [created EXCEPT ![t] = @ - 1]
  /\ calling' = [calling EXCEPT ![t] = @ + 1]
  /\ UNCHANGED <<alive, timer, callback, listed, deleted, op, starts, cancelled>>

CallReturns(t) ==
  /\ calling[t] > 0
  /\ calling' = [calling EXCEPT ![t] = @ - 1]
  /\ UNCHANGED <<alive, timer, callback, listed, created, deleted, op, starts, cancelled>>

Return == CancelReturns \/ AssignReturns \/ DestroyReturns

MargoStep(t) == Expire(t) \/ Call(t) \/ CallReturns(t)

Next ==
  \/ \E o \in Object : Start(o) \/ Cancel(o) \/ Destroy(o)
  \/ \E o \in Object, t \in Timer : Construct(o, t)
  \/ \E o, p \in Object : Assign(o, p)
  \/ Return
  \/ \E t \in Timer : MargoStep(t)

Spec == Init /\ [][Next]_vars

-----------------------------------------------------------------------------
(* Properties                                                              *)

\* No thread of a timer is in a function that was deleted, whatever is assigned
\* or destroyed while timers expire.
FunctionAlive == \A t \in deleted : calling[t] = 0

\* Once cancel has returned, and until the timer is started again, its function
\* is not running and will not be called.
CancelHolds == \A t \in cancelled : calling[t] + created[t] = 0 /\ t \notin listed
=============================================================================
