------------------------------ MODULE Eventual ------------------------------
(***************************************************************************)
(* thallium::eventual<T>: a value that setters store and waiters read,     *)
(* around an ABT_eventual that only carries the fact that it is there.     *)
(* The value is an ordinary member: neither set_value nor wait protects it.*)
(* The eventual is used in rounds, as the tests do: waiters wait, setters  *)
(* set, and when all are done their creator resets it for the next round.  *)
(***************************************************************************)
EXTENDS Naturals

CONSTANTS
  Setter, Waiter,   \* threads, each making one call in each round
  Rounds            \* bound on the number of rounds

VARIABLES
  ready,        \* the state of the ABT_eventual
  value,        \* m_value: 0 is value_type{}, and s in round r stores <<s, r>>
  round,        \* the current round
  pc,           \* where each thread is, and the thread that resets
  got           \* what each waiter's wait returned in this round

vars == <<ready, value, round, pc, got>>

Thread == Setter \cup Waiter
Default == <<>>
Values == Setter \X (1..Rounds)

TypeOK ==
  /\ ready \in BOOLEAN
  /\ value \in Values \cup {Default}
  /\ round \in 1..Rounds
  /\ pc \in [Thread -> {"call", "native", "read", "returned", "threw"}]
  /\ got \in [Waiter -> Values \cup {Default}]

Init ==
  /\ ready = FALSE
  /\ value = Default
  /\ round = 1
  /\ pc = [t \in Thread |-> "call"]
  /\ got = [w \in Waiter |-> Default]

Go(t, from, to) ==
  /\ pc[t] = from
  /\ pc' = [pc EXCEPT ![t] = to]

\* set_value stores the value first, ...
StoreValue(s) ==
  /\ s \in Setter
  /\ Go(s, "call", "native")
  /\ value' = <<s, round>>
  /\ UNCHANGED <<ready, round, got>>

SetBeforeStore(s) ==                 \* mutant: ABT_eventual_set comes first
  /\ s \in Setter /\ pc[s] \in {"call", "native"}
  /\ pc' = [pc EXCEPT ![s] = IF @ = "call" THEN "native" ELSE "returned"]
  /\ IF pc[s] = "call" THEN ready' = TRUE /\ UNCHANGED value
                       ELSE value' = <<s, round>> /\ UNCHANGED ready
  /\ UNCHANGED <<round, got>>

\* ... and then sets the native eventual.  If it is set already, set_value
\* throws, and has replaced the value nevertheless.
SetValue(s) ==
  \/ StoreValue(s)
  \/ /\ s \in Setter
     /\ Go(s, "native", IF ready THEN "threw" ELSE "returned")
     /\ ready' = TRUE
     /\ UNCHANGED <<value, round, got>>

\* wait blocks in ABT_eventual_wait, and reads the value afterwards.  test does
\* not read it.
Wait(w) ==
  /\ w \in Waiter
  /\ \/ ready /\ Go(w, "call", "read") /\ UNCHANGED got
     \/ Go(w, "read", "returned") /\ got' = [got EXCEPT ![w] = value]
  /\ UNCHANGED <<ready, value, round>>

\* reset, by the creator of the threads, once it has joined them; the value and
\* the native eventual are reset one after the other, and nobody is watching.
Reset ==
  /\ \A t \in Thread : pc[t] \in {"returned", "threw"}
  /\ round < Rounds
  /\ round' = round + 1
  /\ value' = Default
  /\ ready' = FALSE
  /\ pc' = [t \in Thread |-> "call"]
  /\ got' = [w \in Waiter |-> Default]

Next == Reset \/ \E t \in Thread : SetValue(t) \/ Wait(t)

Spec == Init /\ [][Next]_vars

-----------------------------------------------------------------------------
(* Properties                                                              *)

\* A wait returns a value that was set in its own round, neither the default nor
\* one from before the reset, and whoever set it; and only one of several
\* setters succeeds.  With one setter, it is that one's value.
ValueOfThisRound ==
  /\ \A w \in Waiter : pc[w] = "returned" => got[w] \in Setter \X {round}
  /\ \A s, t \in Setter : pc[s] = "returned" /\ pc[t] = "returned" => s = t

\* What every behaviour comes to: everyone who waits returns, in every round.
EveryoneReturned == round = Rounds /\ \A t \in Thread : pc[t] \in {"returned", "threw"}
=============================================================================
