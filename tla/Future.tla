------------------------------- MODULE Future -------------------------------
(***************************************************************************)
(* thallium::future<T>: a callback that receives the objects set into it.  *)
(* The ABT_future has two compartments more than the user asked for: the   *)
(* constructor fills them with the callback and the number of compartments,*)
(* and when_ready reads them back.  External: the native future counts the *)
(* sets, runs the callback in the last one, then wakes the waiters, refuses*)
(* further sets, and its array has one element for each compartment.       *)
(***************************************************************************)
EXTENDS Naturals, Sequences

CONSTANTS
  Compartments,  \* number of objects expected
  Setter,        \* threads that set one object each
  Waiter,        \* threads that wait
  Garbage        \* what is in memory after the array

VARIABLES
  built,         \* how far the constructor is: number of its calls made
  called,        \* was it given a callback?
  array,         \* the values of the native future, in the order of the sets
  given,         \* the vectors that the callback was called with
  fun,           \* the std::function on the heap
  pc             \* where each thread is

vars == <<built, called, array, given, fun, pc>>

Thread == Setter \cup Waiter

\* The constructor's std::intptr_t n.
NumSlots == Compartments + 2

TypeOK ==
  /\ built \in 0..3 /\ called \in BOOLEAN
  /\ array \in Seq(Setter \cup {"function", "n", "null", "this"}) /\ Len(array) <= NumSlots
  /\ fun \in {"none", "held", "deleted"}
  /\ pc \in [Thread -> {"call", "returned", "threw"}]

Init ==
  /\ built = 0 /\ called \in BOOLEAN
  /\ array = <<>>
  /\ given = <<>>
  /\ fun = "none"
  /\ pc = [t \in Thread |-> "call"]

Ready == built = 3 /\ Len(array) = NumSlots

\* when_ready: n comes from the array, and the objects start at its third
\* element: the last two reads are past the end.
Collect(a) ==
  [i \in 1..NumSlots |-> IF i + 2 <= Len(a) THEN a[i + 2] ELSE Garbage]

WhenReadyShifted(a) ==               \* mutant: one of the two extra slots is not skipped
  /\ given' = Append(given, [i \in 1..NumSlots |-> IF i + 1 <= Len(a) THEN a[i + 1] ELSE Garbage])
  /\ fun' = "deleted"

WhenReady(a) ==
  /\ given' = Append(given, Collect(a))
  /\ fun' = "deleted"

\* ABT_future_set with the callback registered: the callback runs when the last
\* compartment is filled, before anybody is woken.
NativeSet(v) ==
  /\ Len(array) < NumSlots
  /\ array' = Append(array, v)
  /\ IF called /\ Len(array) + 1 = NumSlots
     THEN WhenReady(Append(array, v))
     ELSE UNCHANGED given /\ fun' = IF v = "function" THEN "held" ELSE fun

\* The constructors: create the native future, and set the first two values.
\* Nobody can set an object before the constructor returns.
Construct ==
  /\ built' = built + 1
  /\ \/ built = 0 /\ UNCHANGED <<array, given, fun>>
     \/ built = 1 /\ NativeSet(IF called THEN "function" ELSE "null")
     \/ built = 2 /\ NativeSet(IF called THEN "n" ELSE "this")
  /\ UNCHANGED <<called, pc>>

\* set, by a thread; a set too many throws.
Set(s) ==
  /\ built = 3 /\ s \in Setter /\ pc[s] = "call"
  /\ \/ NativeSet(s) /\ pc' = [pc EXCEPT ![s] = "returned"]
     \/ /\ Ready
        /\ pc' = [pc EXCEPT ![s] = "threw"]
        /\ UNCHANGED <<array, given, fun>>
  /\ UNCHANGED <<built, called>>

\* wait, and test when it returns true.
Wait(w) ==
  /\ Ready /\ w \in Waiter /\ pc[w] = "call"
  /\ pc' = [pc EXCEPT ![w] = "returned"]
  /\ UNCHANGED <<built, called, array, given, fun>>

Next == Construct \/ \E t \in Thread : Set(t) \/ Wait(t)

-----------------------------------------------------------------------------
(* Properties                                                              *)

Succeeded == {s \in Setter : pc[s] = "returned"}

\* When a waiter returns, the callback has been called once, with every object
\* that was set, in its first places, and without the two values of the
\* constructor; and the function is gone.
CallbackFirst ==
  called /\ (\E w \in Waiter : pc[w] = "returned") =>
    /\ Len(given) = 1 /\ fun = "deleted"
    /\ {given[1][i] : i \in 1..Compartments} = Succeeded

\* What every behaviour comes to, with at least as many setters as objects.
EveryoneReturned == \A t \in Thread : pc[t] # "call"

\* The callback receives the objects expected, and nothing else.
VectorIsObjects ==
  \A k \in 1..Len(given) : Len(given[k]) = Compartments
=============================================================================
