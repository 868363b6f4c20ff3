------------------------------ MODULE Monitor ------------------------------
(***************************************************************************)
(* thallium::mutex and thallium::condition_variable as their users combine *)
(* them: user-level threads that wait for a predicate under the lock, with *)
(* or without a deadline, and threads that make it true and notify.  The   *)
(* native ABT_mutex and ABT_cond are external: a mutex has one owner, a    *)
(* wait releases it and sleeps in one step, and may wake without a signal. *)
(***************************************************************************)
EXTENDS Naturals, FiniteSets

CONSTANTS
  Waiter,       \* threads in wait(lock, predicate)
  TimedWaiter,  \* threads in wait_until or wait_for, that give up on timeout
  Producer,     \* threads that make the predicate true for one more waiter
  Nobody        \* the owner of a mutex that is free

VARIABLES
  owner,        \* the thread that holds the mutex
  items,        \* what the predicate is about
  pc            \* where each thread is

vars == <<owner, items, pc>>

Thread == Waiter \cup TimedWaiter \cup Producer

TypeOK ==
  /\ owner \in Thread \cup {Nobody}
  /\ items \in 0..Cardinality(Producer)
  /\ pc \in [Thread -> {"start", "locked", "asleep", "woken", "expired", "through",
                        "unlocked", "done"}]

Init ==
  /\ owner = Nobody
  /\ items = 0
  /\ pc = [t \in Thread |-> "start"]

Go(t, from, to) ==
  /\ pc[t] = from
  /\ pc' = [pc EXCEPT ![t] = to]

-----------------------------------------------------------------------------
(* mutex                                                                   *)

\* lock, lock_low and spin_lock, which differ in how the caller is scheduled, and
\* a try_lock that returns true.  One that returns false changes nothing.
Lock(t) ==
  /\ owner = Nobody
  /\ Go(t, "start", "locked")
  /\ owner' = t
  /\ UNCHANGED items

Unlock(t) == owner = t /\ owner' = Nobody

-----------------------------------------------------------------------------
(* condition_variable                                                      *)

\* ABT_cond_wait takes the mutex again before it returns, and so does
\* ABT_cond_timedwait when the deadline has passed.
Relock(t) ==
  /\ owner = Nobody
  /\ \/ Go(t, "woken", "locked")
     \/ Go(t, "expired", "through")
  /\ owner' = t
  /\ UNCHANGED items

SleepHolding(t) ==                   \* mutant: the lock is kept while asleep
  /\ Go(t, "locked", "asleep")
  /\ UNCHANGED <<owner, items>>

\* wait(lock)
Sleep(t) ==
  /\ Go(t, "locked", "asleep")
  /\ Unlock(t)
  /\ UNCHANGED items

WaitOnce(t) ==                       \* mutant: if instead of while
  /\ t \notin Producer /\ owner = t
  /\ \/ items = 0 /\ owner' = Nobody /\ pc' = [pc EXCEPT ![t] = "asleep"]
     \/ Go(t, "locked", "through") /\ UNCHANGED owner
  /\ UNCHANGED items

\* while(!pred()) wait(lock): the predicate is tested under the lock, each time.
Wait(t) ==
  /\ t \notin Producer
  /\ \/ items = 0 /\ Sleep(t)
     \/ items > 0 /\ Go(t, "locked", "through") /\ UNCHANGED <<owner, items>>

Asleep == {t \in Thread : pc[t] = "asleep"}

Wake(S) == pc' = [t \in Thread |-> IF t \in S THEN "woken" ELSE pc[t]]

\* A wait may return without a signal.
Spurious(t) == t \in Asleep /\ Wake({t}) /\ UNCHANGED <<owner, items>>

\* The deadline passes: wait_until returns false, with the lock.
Expire(t) ==
  /\ t \in TimedWaiter
  /\ Go(t, "asleep", "expired")
  /\ UNCHANGED <<owner, items>>

LeaveTaking(t) ==                    \* mutant: whoever gives up takes an item too
  /\ t \notin Producer
  /\ Go(t, "through", "done")
  /\ Unlock(t)
  /\ items' = items - 1

\* What a waiter does once it has the lock: it takes an item, or gives up.
Leave(t) ==
  /\ t \notin Producer
  /\ Go(t, "through", "done")
  /\ Unlock(t)
  /\ items' = IF items > 0 THEN items - 1 ELSE items

-----------------------------------------------------------------------------

\* A producer makes the predicate true under the lock, and notifies after it.
Produce(t) ==
  /\ t \in Producer
  /\ Go(t, "locked", "unlocked")
  /\ Unlock(t)
  /\ items' = items + 1

NotifyNobody(t) ==                   \* mutant: the signal reaches no one
  /\ t \in Producer
  /\ Go(t, "unlocked", "done")
  /\ UNCHANGED <<owner, items>>

\* notify_one wakes one sleeper, if there is one; notify_all wakes them all.
Notify(t) ==
  /\ t \in Producer /\ pc[t] = "unlocked"
  /\ \E S \in {Asleep} \cup {{s} : s \in Asleep} :
       pc' = [u \in Thread |-> IF u = t THEN "done" ELSE IF u \in S THEN "woken" ELSE pc[u]]
  /\ UNCHANGED <<owner, items>>

Step(t) ==
  \/ Lock(t) \/ Relock(t) \/ Wait(t) \/ Leave(t) \/ Produce(t) \/ Notify(t)

Next == \E t \in Thread : Step(t) \/ Spurious(t) \/ Expire(t)

Spec == Init /\ [][Next]_vars

-----------------------------------------------------------------------------
(* Properties                                                              *)

\* wait(lock, predicate) returns with the lock held and the predicate true, even
\* if other waiters were woken by the same notify_all and were faster.
PredicateHolds ==
  \A t \in Waiter : pc[t] = "through" => owner = t /\ items > 0

\* No signal is lost: while anybody sleeps, there are no more items than producers
\* that are about to notify and waiters on their way to one, although producers
\* notify after they have released the lock, may wake a waiter that gives up, and
\* notify_one wakes nobody if nobody sleeps yet.
NoSignalLost ==
  LET notifying == {t \in Producer : pc[t] = "unlocked"}
      awake == {t \in Thread \ Producer : pc[t] \in {"locked", "woken", "expired", "through"}}
  IN  Asleep # {} => items <= Cardinality(notifying) + Cardinality(awake)

\* What every behaviour comes to: although waiters with a deadline may be notified,
\* or give up, and producers notify without the lock, every waiter gets its item in
\* the end (if there are as many producers as waiters of both kinds).
EveryoneServed == \A t \in Thread : pc[t] = "done"
=============================================================================
