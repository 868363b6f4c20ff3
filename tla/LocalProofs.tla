------------------------------ MODULE LocalProofs ------------------------------
(***************************************************************************)
(* Proofs about Local: what its parts promise, for any numbers of threads, *)
(* objects, timers, streams, pools and units.  The parts share no state,   *)
(* so that each has an inductive invariant of its own, which the steps of  *)
(* the others leave alone.                                                 *)
(***************************************************************************)
EXTENDS WorkUnitsProofs, WrappersProofs

\* A step of the process is a step of each part, or leaves it alone.
LEMMA PartSteps ==
  ASSUME [LocalNext]_local
  PROVE  /\ [M!Next]_(M!vars) /\ [E!Next]_(E!vars) /\ [F!Next]_(F!vars)
         /\ [T!Next]_(T!vars) /\ [L!Next]_(L!vars) /\ [W!Next]_(W!vars)
         /\ [Next]_vars
<1> USE DEF local, OnlyObjects, OnlyMonitor, OnlyEventual, OnlyFuture, OnlyTimers, OnlyLists,
            OnlyUnits
<1>1. [M!Next]_(M!vars)
  BY DEF LocalNext, M!vars, monitor
<1>2. [E!Next]_(E!vars)
  BY DEF LocalNext, E!vars, eventual
<1>3. [F!Next]_(F!vars)
  BY DEF LocalNext, F!vars, future
<1>4. [T!Next]_(T!vars)
  BY DEF LocalNext, T!vars, timers
<1>5. [L!Next]_(L!vars)
  BY DEF LocalNext, L!vars, lists
<1>6. [W!Next]_(W!vars)
  BY DEF LocalNext, W!vars, workers
<1>7. [Next]_vars
  BY DEF LocalNext, vars
<1>8. QED BY <1>1, <1>2, <1>3, <1>4, <1>5, <1>6, <1>7

\* Every part begins in its initial state.
LEMMA PartInits ==
  LocalInit => Init /\ M!Init /\ E!Init /\ F!Init /\ T!Init /\ L!Init /\ W!Init
BY DEF LocalInit

-----------------------------------------------------------------------------
(* Mutexes and condition variables                                         *)

\* Producers that have produced.
Served == {t \in Producer : mpc[t] \in {"unlocked", "done"}}

MonitorTypes ==
  /\ owner \in M!Thread \cup {Nobody}
  /\ items \in Nat /\ items <= Cardinality(Served)
  /\ mpc \in [M!Thread -> {"start", "locked", "asleep", "woken", "expired", "through",
                           "unlocked", "done"}]

\* The mutex is held by whoever is between taking it and releasing it.
Exclusion == \A t \in M!Thread : mpc[t] \in {"locked", "through"} <=> owner = t

\* Only a wait with a deadline expires, so that nobody else gets through without
\* having tested the predicate.
DeadlinesOnly == \A t \in M!Thread : mpc[t] = "expired" => t \in TimedWaiter

\* Producers do not wait.
ProducersAwake == \A t \in Producer : mpc[t] \in {"start", "locked", "unlocked", "done"}

\* Producers that will notify, and waiters that will look for an item.
Notifying == {t \in Producer : mpc[t] = "unlocked"}
Awake == {t \in M!Thread \ Producer : mpc[t] \in {"locked", "woken", "expired", "through"}}

Signals == M!Asleep # {} => items <= Cardinality(Notifying) + Cardinality(Awake)

MonitorInv ==
  /\ MonitorTypes /\ Exclusion /\ DeadlinesOnly /\ ProducersAwake
  /\ M!PredicateHolds /\ Signals

\* There are finitely many of them.
LEMMA ServedFinite ==
  /\ IsFiniteSet(Served) /\ Cardinality(Served) \in Nat
  /\ Cardinality(Served) <= Cardinality(Producer)
BY MonitorAssumption, FS_Subset, FS_CardinalityType DEF Served, M!Thread

\* And finitely many of the others.
LEMMA AwakeFinite ==
  /\ IsFiniteSet(Notifying) /\ Cardinality(Notifying) \in Nat
  /\ IsFiniteSet(Awake) /\ Cardinality(Awake) \in Nat
  /\ IsFiniteSet(Awake') /\ Cardinality(Awake') \in Nat
  /\ IsFiniteSet(Notifying') /\ Cardinality(Notifying') \in Nat
BY MonitorAssumption, FS_Subset, FS_CardinalityType DEF Notifying, Awake, M!Thread

\* Signals is M!NoSignalLost.
LEMMA SignalsAre == Signals <=> M!NoSignalLost
<1>1. \A S : M!Cardinality(S) = Cardinality(S)
  BY DEF M!Cardinality, Cardinality
<1>2. QED BY <1>1 DEF Signals, Notifying, Awake, M!NoSignalLost

\* Nobody holds the mutex at first.
LEMMA MonitorInit == M!Init => MonitorInv
<1> SUFFICES ASSUME M!Init PROVE MonitorInv
  OBVIOUS
<1>1. MonitorTypes
  BY ServedFinite DEF M!Init, MonitorTypes
<1>2. Exclusion /\ DeadlinesOnly /\ ProducersAwake /\ M!PredicateHolds
  BY MonitorAssumption
     DEF M!Init, Exclusion, DeadlinesOnly, ProducersAwake, M!PredicateHolds, M!Thread
<1>3. Signals
  BY DEF M!Init, Signals, M!Asleep
<1>4. QED BY <1>1, <1>2, <1>3 DEF MonitorInv

\* The steps that take the mutex.
LEMMA TakeMutex ==
  ASSUME MonitorInv, NEW t \in M!Thread, M!Lock(t) \/ M!Relock(t)
  PROVE  MonitorInv'
<1>1. /\ owner = Nobody /\ owner' = t /\ items' = items
      /\ \/ mpc[t] \in {"start", "woken"} /\ mpc' = [mpc EXCEPT ![t] = "locked"]
         \/ mpc[t] = "expired" /\ mpc' = [mpc EXCEPT ![t] = "through"]
  BY DEF M!Lock, M!Relock, M!Go
<1>2. MonitorTypes'
  <2>1. Served' = Served
    BY <1>1 DEF MonitorInv, MonitorTypes, Served, M!Thread
  <2>2. QED BY <1>1, <2>1 DEF MonitorInv, MonitorTypes
<1>3. Exclusion' /\ DeadlinesOnly'
  BY <1>1, MonitorAssumption DEF MonitorInv, MonitorTypes, Exclusion, DeadlinesOnly
<1>4. M!PredicateHolds'
  BY <1>1, MonitorAssumption
     DEF MonitorInv, MonitorTypes, Exclusion, DeadlinesOnly, M!PredicateHolds, M!Thread
<1>5. ProducersAwake'
  BY <1>1 DEF MonitorInv, MonitorTypes, ProducersAwake, M!Thread
<1>6. Signals'
  <2>1. M!Asleep' = M!Asleep /\ Notifying' = Notifying
    BY <1>1 DEF MonitorInv, MonitorTypes, M!Asleep, Notifying, M!Thread
  <2>2. Awake \subseteq Awake'
    BY <1>1 DEF MonitorInv, MonitorTypes, Awake
  <2>3. Cardinality(Awake) <= Cardinality(Awake')
    BY <2>2, AwakeFinite, FS_Subset
  <2>4. QED
    BY <1>1, <2>1, <2>3, AwakeFinite DEF MonitorInv, MonitorTypes, Signals
<1>7. QED BY <1>2, <1>3, <1>4, <1>5, <1>6 DEF MonitorInv

\* The steps under the mutex, most of which release it.
LEMMA HoldMutex ==
  ASSUME MonitorInv, NEW t \in M!Thread, M!Wait(t) \/ M!Leave(t) \/ M!Produce(t)
  PROVE  MonitorInv'
<1>1. /\ owner = t
      /\ \/ owner' = Nobody /\ \E s \in {"asleep", "done", "unlocked"} : mpc' = [mpc EXCEPT ![t] = s]
         \/ owner' = t /\ mpc' = [mpc EXCEPT ![t] = "through"] /\ items' = items /\ items > 0
      /\ items' \in Nat
  BY DEF M!Wait, M!Sleep, M!Leave, M!Produce, M!Go, M!Unlock, MonitorInv, MonitorTypes, Exclusion
<1>2. items' <= Cardinality(Served)'
  <2>1. CASE t \notin Producer
    <3>1. Served' = Served /\ items' <= items
      BY <2>1 DEF M!Wait, M!Sleep, M!Leave, M!Produce, M!Go, M!Unlock, MonitorInv, MonitorTypes,
                  Served, M!Thread
    <3>2. QED BY <3>1, <1>1, ServedFinite DEF MonitorInv, MonitorTypes
  <2>2. CASE t \in Producer
    <3>1. /\ mpc[t] = "locked" /\ mpc' = [mpc EXCEPT ![t] = "unlocked"]
          /\ items' = items + 1
      BY <2>2 DEF M!Wait, M!Leave, M!Produce, M!Go
    <3>2. Served' = Served \cup {t} /\ t \notin Served
      BY <2>2, <3>1 DEF MonitorInv, MonitorTypes, Served, M!Thread
    <3>3. Cardinality(Served') = Cardinality(Served) + 1
      BY <3>2, ServedFinite, FS_AddElement
    <3>4. QED BY <3>1, <3>3, ServedFinite DEF MonitorInv, MonitorTypes
  <2>3. QED BY <2>1, <2>2
<1>3. MonitorTypes'
  BY <1>1, <1>2 DEF MonitorInv, MonitorTypes
<1>4. Exclusion' /\ DeadlinesOnly'
  BY <1>1, MonitorAssumption DEF MonitorInv, MonitorTypes, Exclusion, DeadlinesOnly
<1>5. M!PredicateHolds'
  BY <1>1, MonitorAssumption
     DEF MonitorInv, MonitorTypes, Exclusion, M!PredicateHolds, M!Thread
<1>6. ProducersAwake'
  <2>1. CASE t \in Producer
    <3>1. mpc' = [mpc EXCEPT ![t] = "unlocked"]
      BY <2>1 DEF M!Wait, M!Leave, M!Produce, M!Go
    <3>2. QED BY <3>1 DEF MonitorInv, MonitorTypes, ProducersAwake, M!Thread
  <2>2. CASE t \notin Producer
    BY <1>1, <2>2 DEF MonitorInv, MonitorTypes, ProducersAwake, M!Thread
  <2>3. QED BY <2>1, <2>2
<1>7. Signals'
  <2>1. CASE M!Wait(t)
    <3>1. CASE items = 0
      BY <2>1, <3>1, AwakeFinite DEF M!Wait, M!Sleep, Signals
    <3>2. CASE items # 0
      <4>1. /\ t \notin Producer /\ mpc[t] = "locked" /\ mpc' = [mpc EXCEPT ![t] = "through"]
            /\ items' = items
        BY <2>1, <3>2 DEF M!Wait, M!Go
      <4>2. M!Asleep' = M!Asleep /\ Notifying' = Notifying /\ Awake' = Awake
        BY <4>1 DEF MonitorInv, MonitorTypes, M!Asleep, Notifying, Awake, M!Thread
      <4>3. QED BY <4>1, <4>2 DEF MonitorInv, Signals
    <3>3. QED BY <3>1, <3>2
  <2>2. CASE M!Leave(t)
    <3>1. /\ t \notin Producer /\ mpc[t] = "through" /\ mpc' = [mpc EXCEPT ![t] = "done"]
          /\ items' = IF items > 0 THEN items - 1 ELSE items
      BY <2>2 DEF M!Leave, M!Go
    <3>2. /\ M!Asleep' = M!Asleep /\ Notifying' = Notifying
          /\ Awake' = Awake \ {t} /\ t \in Awake
      BY <3>1 DEF MonitorInv, MonitorTypes, M!Asleep, Notifying, Awake, M!Thread
    <3>3. Cardinality(Awake') = Cardinality(Awake) - 1
      BY <3>2, AwakeFinite, FS_RemoveElement
    <3>4. items \in Nat /\ (M!Asleep # {} => items <= Cardinality(Notifying) + Cardinality(Awake))
      BY DEF MonitorInv, MonitorTypes, Signals
    <3>5. M!Asleep # {} => items' <= Cardinality(Notifying) + Cardinality(Awake')
      BY <3>1, <3>3, <3>4, AwakeFinite
    <3>6. QED BY <3>2, <3>5 DEF Signals
  <2>3. CASE M!Produce(t)
    <3>1. /\ t \in Producer /\ mpc[t] = "locked" /\ mpc' = [mpc EXCEPT ![t] = "unlocked"]
          /\ items' = items + 1
      BY <2>3 DEF M!Produce, M!Go
    <3>2. /\ M!Asleep' = M!Asleep /\ Awake' = Awake
          /\ Notifying' = Notifying \cup {t} /\ t \notin Notifying
      BY <3>1 DEF MonitorInv, MonitorTypes, M!Asleep, Notifying, Awake, M!Thread
    <3>3. Cardinality(Notifying') = Cardinality(Notifying) + 1
      BY <3>2, AwakeFinite, FS_AddElement
    <3>4. items \in Nat /\ (M!Asleep # {} => items <= Cardinality(Notifying) + Cardinality(Awake))
      BY DEF MonitorInv, MonitorTypes, Signals
    <3>5. M!Asleep # {} => items' <= Cardinality(Notifying') + Cardinality(Awake)
      BY <3>1, <3>3, <3>4, AwakeFinite
    <3>6. QED BY <3>2, <3>5 DEF Signals
  <2>4. QED BY <2>1, <2>2, <2>3
<1>8. QED BY <1>3, <1>4, <1>5, <1>6, <1>7 DEF MonitorInv

\* The steps of threads that do not have it: notifications, spurious wake-ups
\* and deadlines.
LEMMA WakeUp ==
  ASSUME MonitorInv, NEW t \in M!Thread, M!Notify(t) \/ M!Spurious(t) \/ M!Expire(t)
  PROVE  MonitorInv'
<1>1. /\ owner' = owner /\ items' = items
      /\ mpc' \in [M!Thread -> {"start", "locked", "asleep", "woken", "expired", "through",
                                "unlocked", "done"}]
      /\ \A u \in M!Thread :
           \/ mpc'[u] = mpc[u]
           \/ mpc[u] = "asleep" /\ mpc'[u] = "woken"
           \/ u = t /\ mpc[u] = "unlocked" /\ mpc'[u] = "done"
           \/ u = t /\ mpc[u] = "asleep" /\ mpc'[u] = "expired" /\ t \in TimedWaiter
  <2>1. CASE M!Notify(t)
    BY <2>1 DEF M!Notify, M!Asleep, MonitorInv, MonitorTypes
  <2>2. CASE M!Spurious(t)
    BY <2>2 DEF M!Spurious, M!Asleep, M!Wake, MonitorInv, MonitorTypes
  <2>3. CASE M!Expire(t)
    BY <2>3 DEF M!Expire, M!Go, MonitorInv, MonitorTypes
  <2>4. QED BY <2>1, <2>2, <2>3
<1>2. MonitorTypes'
  <2>1. Served' = Served
    BY <1>1 DEF Served, M!Thread
  <2>2. QED BY <1>1, <2>1 DEF MonitorInv, MonitorTypes
<1>3. Exclusion' /\ DeadlinesOnly' /\ M!PredicateHolds'
  BY <1>1 DEF MonitorInv, Exclusion, DeadlinesOnly, M!PredicateHolds, M!Thread
<1>4. ProducersAwake'
  BY <1>1 DEF MonitorInv, ProducersAwake, M!Thread
<1>5. Signals'
  <2>1. CASE M!Notify(t)
    <3>1. PICK S \in {M!Asleep} \cup {{s} : s \in M!Asleep} :
            mpc' = [u \in M!Thread |->
                     IF u = t THEN "done" ELSE IF u \in S THEN "woken" ELSE mpc[u]]
      BY <2>1 DEF M!Notify
    <3>2. t \in Producer /\ mpc[t] = "unlocked" /\ t \notin M!Asleep
      BY <2>1 DEF M!Notify, M!Asleep
    <3>3. CASE S = M!Asleep
      <4>1. M!Asleep' = {}
        BY <3>1, <3>3 DEF M!Asleep
      <4>2. QED BY <4>1 DEF Signals
    <3>4. CASE S # M!Asleep
      <4>1. PICK s \in M!Asleep : S = {s}
        BY <3>4
      <4>2. s \in M!Thread /\ mpc[s] = "asleep" /\ s \notin Producer /\ s # t
        BY <3>2, <4>1 DEF M!Asleep, MonitorInv, ProducersAwake
      <4>3. M!Asleep' \subseteq M!Asleep
        BY <3>1, <4>1 DEF M!Asleep
      <4>4. Notifying' = Notifying \ {t} /\ t \in Notifying
        BY <3>1, <3>2, <4>1, <4>2 DEF Notifying, M!Thread
      <4>5. Awake' = Awake \cup {s} /\ s \notin Awake
        BY <3>1, <3>2, <4>1, <4>2 DEF Awake
      <4>6. /\ Cardinality(Notifying') = Cardinality(Notifying) - 1
            /\ Cardinality(Awake') = Cardinality(Awake) + 1
        BY <4>4, <4>5, AwakeFinite, FS_RemoveElement, FS_AddElement
      <4>7. Cardinality(Notifying') + Cardinality(Awake') = Cardinality(Notifying) + Cardinality(Awake)
        BY <4>6, AwakeFinite
      <4>8. QED BY <1>1, <4>3, <4>7 DEF MonitorInv, Signals
    <3>5. QED BY <3>3, <3>4
  <2>2. CASE M!Spurious(t) \/ M!Expire(t)
    <3>1. mpc[t] = "asleep" /\ \E s \in {"woken", "expired"} : mpc' = [mpc EXCEPT ![t] = s]
      BY <2>2 DEF M!Spurious, M!Expire, M!Go, M!Wake, M!Asleep, MonitorInv, MonitorTypes
    <3>2. M!Asleep' \subseteq M!Asleep /\ Notifying' = Notifying /\ Awake \subseteq Awake'
      BY <3>1 DEF MonitorInv, MonitorTypes, M!Asleep, Notifying, Awake, M!Thread
    <3>3. Cardinality(Awake) <= Cardinality(Awake')
      BY <3>2, AwakeFinite, FS_Subset
    <3>4. QED
      BY <1>1, <3>2, <3>3, AwakeFinite DEF MonitorInv, MonitorTypes, Signals
  <2>3. QED BY <2>1, <2>2
<1>6. QED BY <1>2, <1>3, <1>4, <1>5 DEF MonitorInv

\* All steps.
LEMMA MonitorStepInv == MonitorInv /\ [M!Next]_(M!vars) => MonitorInv'
<1> SUFFICES ASSUME MonitorInv, [M!Next]_(M!vars) PROVE MonitorInv'
  OBVIOUS
<1>1. CASE UNCHANGED M!vars
  BY <1>1 DEF M!vars, MonitorInv, MonitorTypes, Served, Exclusion, DeadlinesOnly, ProducersAwake,
              M!PredicateHolds, Signals, M!Asleep, Notifying, Awake
<1>2. CASE M!Next
  BY <1>2, TakeMutex, HoldMutex, WakeUp DEF M!Next, M!Step
<1>3. QED BY <1>1, <1>2

\* The types are those of the invariant, the items no more than the producers.
LEMMA MonitorTypeOK == MonitorInv => M!TypeOK
<1> SUFFICES ASSUME MonitorInv PROVE M!TypeOK
  OBVIOUS
<1>1. M!Cardinality(Producer) = Cardinality(Producer)
  BY DEF M!Cardinality, Cardinality
<1>2. Cardinality(Producer) \in Nat /\ items \in 0..Cardinality(Producer)
  <2>1. Cardinality(Producer) \in Nat
    BY MonitorAssumption, FS_Subset, FS_CardinalityType DEF M!Thread
  <2>2. QED BY <2>1, ServedFinite DEF MonitorInv, MonitorTypes
<1>3. QED BY <1>1, <1>2 DEF MonitorInv, MonitorTypes, M!TypeOK

-----------------------------------------------------------------------------
(* Eventuals                                                               *)

\* The value is of this round as soon as a setter has begun.
ValueSet == \A s \in Setter : epc[s] # "call" => value \in Setter \X {round}

\* Once a native eventual is ready, some setter has stored its value; a setter
\* returns, and a waiter goes on, only when it is.
ReadyMeansSet ==
  /\ ready => \E s \in Setter : epc[s] # "call"
  /\ \A s \in Setter : epc[s] = "returned" => ready
  /\ \A w \in Waiter : epc[w] = "read" => ready

EventualInv == E!TypeOK /\ ValueSet /\ ReadyMeansSet /\ E!ValueOfThisRound

\* Nobody has called anything at first.
LEMMA EventualInit == E!Init => EventualInv
<1> SUFFICES ASSUME E!Init PROVE EventualInv
  OBVIOUS
<1>1. E!TypeOK
  <2>1. round \in 1..Rounds
    BY EventualAssumption DEF E!Init
  <2>0. ready \in BOOLEAN
    BY DEF E!Init
  <2>2. /\ value \in E!Values \cup {E!Default}
        /\ got \in [Waiter -> E!Values \cup {E!Default}]
        /\ epc \in [E!Thread -> {"call", "native", "read", "returned", "threw"}]
    BY DEF E!Init
  <2>3. QED BY <2>0, <2>1, <2>2 DEF E!TypeOK
<1>2. ValueSet /\ ReadyMeansSet /\ E!ValueOfThisRound
  BY DEF E!Init, ValueSet, ReadyMeansSet, E!ValueOfThisRound, E!Thread
<1>3. QED BY <1>1, <1>2 DEF EventualInv

\* Setters: the value comes first, and only one finds the eventual not ready.
LEMMA SetterInv ==
  ASSUME EventualInv, NEW s \in E!Thread, E!SetValue(s)
  PROVE  EventualInv'
<1> USE EventualAssumption DEF E!Thread
<1>0. s \in Setter /\ s \notin Waiter /\ round \in 1..Rounds /\ epc \in [E!Thread -> {"call", "native", "read", "returned", "threw"}]
  BY DEF E!SetValue, E!StoreValue, EventualInv, E!TypeOK
<1>1. CASE E!StoreValue(s)
  <2>1. /\ epc[s] = "call" /\ epc' = [epc EXCEPT ![s] = "native"]
        /\ value' = <<s, round>> /\ ready' = ready /\ round' = round /\ got' = got
    BY <1>1 DEF E!StoreValue, E!Go
  <2>2. E!TypeOK'
    BY <1>0, <2>1 DEF EventualInv, E!TypeOK, E!Values
  <2>3. ValueSet'
    BY <1>0, <2>1 DEF ValueSet
  <2>4. ReadyMeansSet'
    BY <1>0, <2>1 DEF EventualInv, ReadyMeansSet
  <2>5. E!ValueOfThisRound'
    BY <1>0, <2>1 DEF EventualInv, E!ValueOfThisRound
  <2>6. QED BY <2>2, <2>3, <2>4, <2>5 DEF EventualInv
<1>2. CASE ~E!StoreValue(s)
  <2>1. /\ epc[s] = "native" /\ epc' = [epc EXCEPT ![s] = IF ready THEN "threw" ELSE "returned"]
        /\ ready' = TRUE /\ value' = value /\ round' = round /\ got' = got
    BY <1>2 DEF E!SetValue, E!Go
  <2>2. E!TypeOK'
    BY <1>0, <2>1 DEF EventualInv, E!TypeOK
  <2>3. ValueSet'
    BY <1>0, <2>1 DEF EventualInv, ValueSet
  <2>4. ReadyMeansSet'
    BY <1>0, <2>1 DEF EventualInv, ReadyMeansSet
  <2>5. E!ValueOfThisRound'
    BY <1>0, <2>1 DEF EventualInv, E!ValueOfThisRound, ReadyMeansSet, ValueSet
  <2>6. QED BY <2>2, <2>3, <2>4, <2>5 DEF EventualInv
<1>3. QED BY <1>1, <1>2

\* Waiters: what they read was set in this round, because it is ready.
LEMMA WaiterInv ==
  ASSUME EventualInv, NEW w \in E!Thread, E!Wait(w)
  PROVE  EventualInv'
<1> USE EventualAssumption DEF E!Thread
<1>0. /\ w \in Waiter /\ w \notin Setter
      /\ epc \in [E!Thread -> {"call", "native", "read", "returned", "threw"}]
      /\ got \in [Waiter -> E!Values \cup {E!Default}]
      /\ ready' = ready /\ value' = value /\ round' = round
  BY DEF E!Wait, EventualInv, E!TypeOK
<1>1. /\ ready
      /\ \/ epc' = [epc EXCEPT ![w] = "read"] /\ got' = got
         \/ epc' = [epc EXCEPT ![w] = "returned"] /\ got' = [got EXCEPT ![w] = value]
  BY <1>0 DEF E!Wait, E!Go, EventualInv, ReadyMeansSet
<1>2. value \in Setter \X {round}
  BY <1>1 DEF EventualInv, ReadyMeansSet, ValueSet
<1>3. E!TypeOK'
  BY <1>0, <1>1 DEF EventualInv, E!TypeOK
<1>4. ValueSet' /\ ReadyMeansSet'
  BY <1>0, <1>1 DEF EventualInv, ValueSet, ReadyMeansSet
<1>5. E!ValueOfThisRound'
  BY <1>0, <1>1, <1>2 DEF EventualInv, E!ValueOfThisRound
<1>6. QED BY <1>3, <1>4, <1>5 DEF EventualInv

\* A reset begins a round in which nobody has set or waited.
LEMMA ResetInv == EventualInv /\ E!Reset => EventualInv'
<1> SUFFICES ASSUME EventualInv, E!Reset PROVE EventualInv'
  OBVIOUS
<1>1. E!TypeOK'
  <2>1. round' \in 1..Rounds
    BY EventualAssumption DEF E!Reset, EventualInv, E!TypeOK
  <2>0. ready' \in BOOLEAN
    BY DEF E!Reset
  <2>2. /\ value' \in E!Values \cup {E!Default}
        /\ got' \in [Waiter -> E!Values \cup {E!Default}]
        /\ epc' \in [E!Thread -> {"call", "native", "read", "returned", "threw"}]
    BY DEF E!Reset
  <2>3. QED BY <2>0, <2>1, <2>2 DEF E!TypeOK
<1>2. ValueSet' /\ ReadyMeansSet' /\ E!ValueOfThisRound'
  BY DEF E!Reset, ValueSet, ReadyMeansSet, E!ValueOfThisRound, E!Thread
<1>3. QED BY <1>1, <1>2 DEF EventualInv

\* All steps.
LEMMA EventualStepInv == EventualInv /\ [E!Next]_(E!vars) => EventualInv'
<1> SUFFICES ASSUME EventualInv, [E!Next]_(E!vars) PROVE EventualInv'
  OBVIOUS
<1>1. CASE UNCHANGED E!vars
  BY <1>1 DEF E!vars, EventualInv, E!TypeOK, ValueSet, ReadyMeansSet, E!ValueOfThisRound
<1>2. CASE E!Next
  BY <1>2, SetterInv, WaiterInv, ResetInv DEF E!Next
<1>3. QED BY <1>1, <1>2

-----------------------------------------------------------------------------
(* Futures                                                                 *)

\* The objects among the values of a native future: those of the constructor come
\* first.
Objects(a) == {a[i] : i \in 3..Len(a)}

\* The constructor has made its two sets when it ends, and objects come after it.
Filled ==
  /\ built <= 1 => Len(array) = 0
  /\ built = 2 => Len(array) = 1
  /\ built = 3 => Len(array) >= 2 /\ Objects(array) = F!Succeeded
  /\ built < 3 => F!Succeeded = {}

\* The callback is called when the last value is set, with the values.
CalledWithAll ==
  /\ Len(array) < F!NumSlots => given = <<>>
  /\ called /\ Len(array) = F!NumSlots => given = <<F!Collect(array)>> /\ ffun = "deleted"

NobodyEarly == \A w \in Waiter : fpc[w] = "returned" => F!Ready

FutureInv == F!TypeOK /\ Filled /\ CalledWithAll /\ NobodyEarly

\* One more object, when the constructor has set its two values.
LEMMA ObjectsAppend ==
  ASSUME NEW S, NEW a \in Seq(S), NEW v \in S
  PROVE  /\ Append(a, v) \in Seq(S) /\ Len(Append(a, v)) = Len(a) + 1
         /\ Len(a) >= 2 => Objects(Append(a, v)) = Objects(a) \cup {v}
<1>1. /\ Append(a, v) \in Seq(S) /\ Len(Append(a, v)) = Len(a) + 1 /\ Len(a) \in Nat
      /\ \A i \in 1..Len(a) : Append(a, v)[i] = a[i]
      /\ Append(a, v)[Len(a) + 1] = v
  BY AppendProperties, LenProperties
<1>2. ASSUME Len(a) >= 2 PROVE Objects(Append(a, v)) = Objects(a) \cup {v}
  <2>1. 3..Len(Append(a, v)) = (3..Len(a)) \cup {Len(a) + 1}
    BY <1>1, <1>2
  <2>2. \A i \in 3..Len(a) : Append(a, v)[i] = a[i]
    BY <1>1
  <2>3. QED BY <1>1, <2>1, <2>2 DEF Objects
<1>3. QED BY <1>1, <1>2

\* Nothing is built at first.
LEMMA FutureInit == F!Init => FutureInv
<1> SUFFICES ASSUME F!Init PROVE FutureInv
  OBVIOUS
<1>1. array = <<>> /\ Len(array) = 0 /\ F!NumSlots >= 2
  BY FutureAssumption DEF F!Init, F!NumSlots
<1>2. F!TypeOK
  <2>1. array \in Seq(Setter \cup {"function", "n", "null", "this"})
    BY <1>1
  <2>9. Len(array) <= F!NumSlots
    BY <1>1, FutureAssumption DEF F!NumSlots
  <2>2. fpc \in [F!Thread -> {"call", "returned", "threw"}]
    BY DEF F!Init
  <2>3. QED BY <2>1, <2>2, <2>9 DEF F!Init, F!TypeOK
<1>3. Filled /\ CalledWithAll /\ NobodyEarly
  BY <1>1 DEF F!Init, Filled, CalledWithAll, NobodyEarly, F!Succeeded, F!Thread
<1>4. QED BY <1>2, <1>3 DEF FutureInv

\* Whatever is set: the callback is called with all values by the last set.
LEMMA NativeSetInv ==
  ASSUME FutureInv, NEW v \in Setter \cup {"function", "n", "null", "this"}, F!NativeSet(v),
         called' = called
  PROVE  /\ array' \in Seq(Setter \cup {"function", "n", "null", "this"})
         /\ Len(array') = Len(array) + 1 /\ Len(array') <= F!NumSlots
         /\ Len(array) >= 2 => Objects(array') = Objects(array) \cup {v}
         /\ ffun' \in {"none", "held", "deleted"}
         /\ CalledWithAll'
<1>1. /\ array \in Seq(Setter \cup {"function", "n", "null", "this"}) /\ Len(array) \in Nat
      /\ Len(array) < F!NumSlots /\ F!NumSlots \in Nat
      /\ array' = Append(array, v)
      /\ given = <<>>
  BY FutureAssumption DEF F!NativeSet, FutureInv, F!TypeOK, CalledWithAll, F!NumSlots
<1>2. /\ array' \in Seq(Setter \cup {"function", "n", "null", "this"})
      /\ Len(array') = Len(array) + 1
      /\ Len(array) >= 2 => Objects(array') = Objects(array) \cup {v}
  BY <1>1, ObjectsAppend
<1>3. Len(array') <= F!NumSlots
  BY <1>1, <1>2
<1>4. CASE called /\ Len(array) + 1 = F!NumSlots
  <2>1. given' = Append(given, F!Collect(array')) /\ ffun' = "deleted"
    BY <1>1, <1>4 DEF F!NativeSet, F!WhenReady
  <2>2. given' = <<F!Collect(array')>>
    BY <1>1, <2>1
  <2>3. CalledWithAll'
    BY <1>1, <1>2, <1>4, <2>1, <2>2 DEF CalledWithAll, F!Collect, F!NumSlots
  <2>4. QED BY <1>2, <1>3, <2>1, <2>3
<1>5. CASE ~(called /\ Len(array) + 1 = F!NumSlots)
  <2>1. given' = given /\ ffun' = IF v = "function" THEN "held" ELSE ffun
    BY <1>5 DEF F!NativeSet
  <2>2. ffun' \in {"none", "held", "deleted"}
    BY <2>1 DEF FutureInv, F!TypeOK
  <2>3. CalledWithAll'
    BY <1>1, <1>2, <1>5, <2>1 DEF CalledWithAll, F!NumSlots
  <2>4. QED BY <1>2, <1>3, <2>2, <2>3
<1>6. QED BY <1>4, <1>5

\* The constructor: its two values come first, and it lets threads set afterwards.
LEMMA ConstructorInv == FutureInv /\ F!Construct => FutureInv'
<1> SUFFICES ASSUME FutureInv, F!Construct PROVE FutureInv'
  OBVIOUS
<1>1. called' = called /\ fpc' = fpc /\ built' = built + 1 /\ built \in 0..2
  BY DEF F!Construct
<1>2. F!Succeeded' = F!Succeeded /\ F!Succeeded = {}
  BY <1>1 DEF F!Succeeded, FutureInv, Filled
<1>3. /\ called \in BOOLEAN /\ fpc \in [F!Thread -> {"call", "returned", "threw"}]
      /\ Len(array) \in Nat
  BY LenProperties DEF FutureInv, F!TypeOK
<1>4. \A w \in Waiter : fpc[w] # "returned"
  BY <1>1 DEF FutureInv, NobodyEarly, F!Ready
<1>5. CASE built = 0
  <2>1. UNCHANGED <<array, given, ffun>>
    BY <1>5 DEF F!Construct
  <2>2. F!TypeOK'
    BY <1>1, <1>3, <2>1 DEF FutureInv, F!TypeOK
  <2>3. Filled' /\ CalledWithAll' /\ NobodyEarly'
    BY <1>1, <1>2, <1>4, <1>5, <2>1
       DEF FutureInv, Filled, CalledWithAll, NobodyEarly, F!Collect, F!NumSlots
  <2>4. QED BY <2>2, <2>3 DEF FutureInv
<1>6. CASE built \in 1..2
  <2>1. PICK v \in {"function", "n", "null", "this"} : F!NativeSet(v)
    BY <1>6 DEF F!Construct
  <2>2. /\ array' \in Seq(Setter \cup {"function", "n", "null", "this"})
        /\ Len(array') = Len(array) + 1 /\ Len(array') <= F!NumSlots
        /\ ffun' \in {"none", "held", "deleted"}
        /\ CalledWithAll'
    BY <1>1, <2>1, NativeSetInv
  <2>3. F!TypeOK'
    BY <1>1, <1>3, <2>2 DEF F!TypeOK, F!NumSlots
  <2>4. Len(array') = built /\ built' \in 2..3 /\ (built' = 3 => Len(array') = 2)
    <3>1. \/ built = 1 /\ Len(array) = 0
          \/ built = 2 /\ Len(array) = 1
      <4>1. built = 1 \/ built = 2
        BY <1>6
      <4>2. QED BY <4>1 DEF FutureInv, Filled
    <3>2. Len(array') = Len(array) + 1 /\ built' = built + 1
      BY <1>1, <2>2
    <3>3. CASE built = 1 /\ Len(array) = 0
      BY <3>2, <3>3
    <3>4. CASE built = 2 /\ Len(array) = 1
      BY <3>2, <3>4
    <3>5. QED BY <3>1, <3>3, <3>4
  <2>5. Len(array') = 2 => Objects(array') = {}
    BY DEF Objects
  <2>6. Filled'
    BY <1>1, <1>2, <1>6, <2>4, <2>5 DEF Filled
  <2>7. NobodyEarly'
    BY <1>1, <1>4 DEF NobodyEarly
  <2>8. QED BY <2>2, <2>3, <2>6, <2>7 DEF FutureInv
<1>7. QED BY <1>1, <1>5, <1>6

\* A thread sets its object, or is too late.
LEMMA ObjectSetInv ==
  ASSUME FutureInv, NEW s \in F!Thread, F!Set(s)
  PROVE  FutureInv'
<1>1. /\ s \in Setter /\ s \notin Waiter /\ fpc[s] = "call" /\ built = 3
      /\ built' = built /\ called' = called
      /\ called \in BOOLEAN /\ fpc \in [F!Thread -> {"call", "returned", "threw"}]
      /\ Len(array) \in Nat
  BY EventualAssumption, LenProperties DEF F!Set, FutureInv, F!TypeOK
<1>2. CASE F!NativeSet(s) /\ fpc' = [fpc EXCEPT ![s] = "returned"]
  <2>1. /\ array' \in Seq(Setter \cup {"function", "n", "null", "this"})
        /\ Len(array') = Len(array) + 1 /\ Len(array') <= F!NumSlots
        /\ Len(array) >= 2 => Objects(array') = Objects(array) \cup {s}
        /\ ffun' \in {"none", "held", "deleted"}
        /\ CalledWithAll'
    BY <1>1, <1>2, NativeSetInv
  <2>2. F!TypeOK'
    BY <1>1, <1>2, <2>1 DEF F!TypeOK, F!NumSlots
  <2>3. F!Succeeded' = F!Succeeded \cup {s}
    BY <1>1, <1>2 DEF F!Succeeded, F!Thread
  <2>4. Filled'
    BY <1>1, <2>1, <2>3 DEF FutureInv, Filled
  <2>5. Len(array) < F!NumSlots
    BY <1>2 DEF F!NativeSet
  <2>6. \A w \in Waiter : fpc'[w] # "returned"
    BY <1>1, <1>2, <2>5, FutureAssumption DEF FutureInv, NobodyEarly, F!Ready, F!NumSlots, F!Thread
  <2>7. QED BY <2>1, <2>2, <2>4, <2>6 DEF FutureInv, NobodyEarly
<1>3. CASE /\ F!Ready /\ fpc' = [fpc EXCEPT ![s] = "threw"]
           /\ UNCHANGED <<array, given, ffun>>
  <2>1. F!TypeOK'
    BY <1>1, <1>3 DEF FutureInv, F!TypeOK
  <2>2. F!Succeeded' = F!Succeeded
    BY <1>1, <1>3 DEF F!Succeeded, F!Thread
  <2>3. Filled' /\ CalledWithAll'
    BY <1>1, <1>3, <2>2 DEF FutureInv, Filled, CalledWithAll, F!Collect, F!NumSlots
  <2>4. NobodyEarly'
    BY <1>1, <1>3 DEF NobodyEarly, F!Ready, F!NumSlots
  <2>5. QED BY <2>1, <2>3, <2>4 DEF FutureInv
<1>4. QED BY <1>2, <1>3 DEF F!Set

\* A waiter returns.
LEMMA FutureWaitInv ==
  ASSUME FutureInv, NEW w \in F!Thread, F!Wait(w)
  PROVE  FutureInv'
<1>1. /\ F!Ready /\ w \in Waiter /\ w \notin Setter
      /\ fpc' = [fpc EXCEPT ![w] = "returned"]
      /\ UNCHANGED <<built, called, array, given, ffun>>
      /\ fpc \in [F!Thread -> {"call", "returned", "threw"}]
  BY EventualAssumption DEF F!Wait, FutureInv, F!TypeOK
<1>2. F!TypeOK'
  BY <1>1 DEF FutureInv, F!TypeOK
<1>3. F!Succeeded' = F!Succeeded
  BY <1>1 DEF F!Succeeded, F!Thread
<1>4. Filled' /\ CalledWithAll'
  BY <1>1, <1>3 DEF FutureInv, Filled, CalledWithAll, F!Collect, F!NumSlots
<1>5. NobodyEarly'
  BY <1>1 DEF NobodyEarly, F!Ready, F!NumSlots
<1>6. QED BY <1>2, <1>4, <1>5 DEF FutureInv

\* All steps.
LEMMA FutureStepInv == FutureInv /\ [F!Next]_(F!vars) => FutureInv'
<1> SUFFICES ASSUME FutureInv, [F!Next]_(F!vars) PROVE FutureInv'
  OBVIOUS
<1>1. CASE UNCHANGED F!vars
  BY <1>1 DEF F!vars, FutureInv, F!TypeOK, Filled, CalledWithAll, NobodyEarly, F!Ready, F!Succeeded,
              F!Collect, F!NumSlots
<1>2. CASE F!Next
  BY <1>2, ConstructorInv, ObjectSetInv, FutureWaitInv DEF F!Next
<1>3. QED BY <1>1, <1>2

\* The objects of a vector that is long enough are those of the native future.
LEMMA FutureCallback == FutureInv => F!CallbackFirst
<1> SUFFICES ASSUME FutureInv, called, NEW w \in Waiter, fpc[w] = "returned"
             PROVE  /\ Len(given) = 1 /\ ffun = "deleted"
                    /\ {given[1][i] : i \in 1..Compartments} = F!Succeeded
  BY DEF F!CallbackFirst
<1>1. /\ built = 3 /\ Len(array) = Compartments + 2 /\ Compartments \in Nat
      /\ given = <<F!Collect(array)>> /\ ffun = "deleted"
      /\ Objects(array) = F!Succeeded
  BY FutureAssumption DEF FutureInv, NobodyEarly, F!Ready, CalledWithAll, Filled, F!NumSlots
<1>2. Len(given) = 1 /\ given[1] = F!Collect(array)
  BY <1>1
<1>3. \A i \in 1..Compartments : given[1][i] = array[i + 2]
  BY <1>1, <1>2 DEF F!Collect, F!NumSlots
<1>4. {given[1][i] : i \in 1..Compartments} = Objects(array)
  <2>1. \A i \in 1..Compartments : given[1][i] = array[i + 2] /\ i + 2 \in 3..Len(array)
    BY <1>1, <1>3
  <2>2. \A j \in 3..Len(array) : j - 2 \in 1..Compartments /\ given[1][j - 2] = array[j]
    BY <1>1, <1>3
  <2>3. QED BY <2>1, <2>2 DEF Objects
<1>5. QED BY <1>1, <1>2, <1>4

-----------------------------------------------------------------------------
(* Timed callbacks                                                         *)

TimerTypes ==
  /\ alive \subseteq Timed
  /\ timer \in [Timed -> Timer \cup {Null}]
  /\ created \in [Timer -> Nat] /\ calling \in [Timer -> Nat]
  /\ deleted \subseteq Timer /\ listed \subseteq Timer
  /\ starts \in 0..MaxStarts

\* Each timer is that of at most one object, and its function goes with it.
TimersOwned ==
  /\ callback = timer
  /\ \A o, p \in Timed : timer[o] = timer[p] /\ timer[o] # Null => o = p
  /\ \A o \in Timed : timer[o] # Null => o \in alive

\* Nothing is on its way to the function of a timer.
Stopped(t) == t \notin listed /\ created[t] = 0

\* What the user's thread waits for has been taken off Margo's list, and is not
\* started meanwhile.
Waits(o) == o \in Timed /\ (timer[o] \in Timer => Stopped(timer[o]))

OpInv ==
  \/ op = T!NoOp
  \/ \E o \in Timed : op = <<"cancel", o>> /\ Waits(o) /\ timer[o] \in Timer
  \/ \E o, p \in Timed : op = <<"assign", o, p>> /\ Waits(o) /\ o # p /\ {o, p} \subseteq alive
  \/ \E o \in Timed : op = <<"destroy", o>> /\ Waits(o)

\* A function that was deleted is that of no object and will not be called.
DeletedStopped ==
  \A t \in deleted : Stopped(t) /\ calling[t] = 0 /\ \A o \in Timed : timer[o] # t

CancelledStopped == \A t \in cancelled : t \in Timer /\ Stopped(t) /\ calling[t] = 0

\* Every start makes one thread at most.
StartsCounted ==
  \A t \in Timer :
    /\ created[t] + calling[t] <= starts
    /\ t \in listed => created[t] + calling[t] < starts

TimersInv ==
  /\ TimerTypes /\ TimersOwned /\ OpInv
  /\ DestroyWaits => DeletedStopped
  /\ CancelledStopped /\ StartsCounted

\* There are no objects at first.
LEMMA TimersInit == T!Init => TimersInv
<1> SUFFICES ASSUME T!Init PROVE TimersInv
  OBVIOUS
<1>1. starts \in 0..MaxStarts
  BY TimersAssumption DEF T!Init
<1>2. TimerTypes
  BY <1>1 DEF T!Init, TimerTypes
<1>3. TimersOwned /\ OpInv /\ DeletedStopped /\ CancelledStopped /\ StartsCounted
  BY DEF T!Init, TimersOwned, OpInv, DeletedStopped, CancelledStopped, StartsCounted
<1>4. QED BY <1>2, <1>3 DEF TimersInv

\* The quiet timer of an object that is waited for.
LEMMA QuietStops ==
  ASSUME TimersInv, NEW o \in Timed, T!Quiet(timer[o]), timer[o] \in Timer
  PROVE  calling[timer[o]] = 0
BY TimersAssumption DEF T!Quiet, TimersInv, TimerTypes

\* A start lists a timer that was not listed.
LEMMA StartInv ==
  ASSUME TimersInv, NEW o \in Timed, T!Start(o)
  PROVE  TimersInv'
<1>1. /\ op = T!NoOp /\ op' = op /\ starts < MaxStarts /\ starts' = starts + 1
      /\ timer[o] \in Timer /\ timer[o] \notin listed
      /\ listed' = listed \cup {timer[o]} /\ cancelled' = cancelled \ {timer[o]}
      /\ UNCHANGED <<alive, timer, callback, created, calling, deleted>>
  BY TimersAssumption DEF T!Start, TimersInv, TimerTypes
<1>2. TimerTypes'
  BY <1>1, TimersAssumption DEF TimersInv, TimerTypes
<1>3. TimersOwned' /\ OpInv' /\ CancelledStopped'
  BY <1>1 DEF TimersInv, TimersOwned, OpInv, CancelledStopped, Stopped
<1>4. DestroyWaits => DeletedStopped'
  BY <1>1 DEF TimersInv, DeletedStopped, Stopped
<1>5. StartsCounted'
  <2> SUFFICES ASSUME NEW t \in Timer
               PROVE  /\ created[t] + calling[t] <= starts + 1
                      /\ t \in listed' => created[t] + calling[t] < starts + 1
    BY <1>1 DEF StartsCounted
  <2>1. created[t] \in Nat /\ calling[t] \in Nat /\ starts \in Nat
    BY DEF TimersInv, TimerTypes
  <2>2. created[t] + calling[t] <= starts
    BY DEF TimersInv, StartsCounted
  <2>3. QED BY <2>1, <2>2
<1>6. QED BY <1>2, <1>3, <1>4, <1>5 DEF TimersInv

\* What else the user begins: from here on the timer is not listed, until the wait
\* is over.
LEMMA UnlistInv ==
  ASSUME TimersInv, NEW o \in Timed,
         T!Cancel(o) \/ T!Destroy(o) \/ \E p \in Timed : T!Assign(o, p)
  PROVE  TimersInv'
<1>1. /\ op = T!NoOp /\ o \in alive
      /\ listed' = listed \ {timer[o]}
      /\ created' = [u \in Timer |-> IF u = timer[o] THEN 0 ELSE created[u]]
      /\ UNCHANGED <<alive, timer, callback, calling, deleted, starts, cancelled>>
      /\ \/ op' = <<"cancel", o>> /\ timer[o] # Null
         \/ op' = <<"destroy", o>>
         \/ \E p \in Timed : op' = <<"assign", o, p>> /\ {o, p} \subseteq alive /\ o # p
  BY DEF T!Cancel, T!Destroy, T!Assign, T!Unlist
<1>2. TimerTypes' /\ TimersOwned'
  BY <1>1 DEF TimersInv, TimerTypes, TimersOwned
<1>3. OpInv'
  BY <1>1 DEF TimersInv, TimerTypes, OpInv, Waits, Stopped
<1>4. \A t \in Timer : /\ Stopped(t) => Stopped(t)'
                       /\ created'[t] \in {created[t], 0}
  BY <1>1 DEF Stopped
<1>5. DestroyWaits => DeletedStopped'
  BY <1>1, <1>4 DEF TimersInv, TimerTypes, DeletedStopped
<1>6. CancelledStopped'
  BY <1>1, <1>4 DEF TimersInv, CancelledStopped
<1>7. StartsCounted'
  <2> SUFFICES ASSUME NEW t \in Timer
               PROVE  /\ created'[t] + calling[t] <= starts
                      /\ t \in listed' => created'[t] + calling[t] < starts
    BY <1>1 DEF StartsCounted
  <2>1. created[t] \in Nat /\ calling[t] \in Nat /\ starts \in Nat
    BY DEF TimersInv, TimerTypes
  <2>2. /\ created[t] + calling[t] <= starts
        /\ t \in listed => created[t] + calling[t] < starts
    BY DEF TimersInv, StartsCounted
  <2>3. created'[t] \in {created[t], 0} /\ (t \in listed' => t \in listed)
    BY <1>1, <1>4
  <2>4. QED BY <2>1, <2>2, <2>3
<1>8. QED BY <1>2, <1>3, <1>5, <1>6, <1>7 DEF TimersInv

\* A new object gets a timer that nothing else refers to.
LEMMA ConstructInv ==
  ASSUME TimersInv, NEW o \in Timed, NEW t \in Timer, T!Construct(o, t)
  PROVE  TimersInv'
<1>1. /\ op = T!NoOp /\ op' = op /\ o \notin alive /\ timer[o] = Null /\ t \notin deleted
      /\ \A p \in Timed : timer[p] # t
      /\ alive' = alive \cup {o}
      /\ timer' = [timer EXCEPT ![o] = t] /\ callback' = [callback EXCEPT ![o] = t]
      /\ UNCHANGED <<listed, created, calling, deleted, starts, cancelled>>
  BY DEF T!Construct, T!Used, TimersInv, TimersOwned
<1>2. TimerTypes'
  BY <1>1 DEF TimersInv, TimerTypes
<1>3. TimersOwned'
  BY <1>1, TimersAssumption DEF TimersInv, TimerTypes, TimersOwned
<1>4. OpInv' /\ CancelledStopped' /\ StartsCounted'
  BY <1>1 DEF TimersInv, OpInv, CancelledStopped, Stopped, StartsCounted
<1>5. DestroyWaits => DeletedStopped'
  BY <1>1 DEF TimersInv, TimerTypes, DeletedStopped, Stopped
<1>6. QED BY <1>2, <1>3, <1>4, <1>5 DEF TimersInv

\* What the user waited for returns: only a function at rest is deleted, and only
\* a timer at rest is cancelled.
LEMMA ReturnInv ==
  ASSUME TimersInv, T!Return
  PROVE  TimersInv'
<1>0. /\ op # T!NoOp /\ op' = T!NoOp
      /\ UNCHANGED <<listed, created, calling, starts>>
  BY DEF T!Return, T!CancelReturns, T!AssignReturns, T!DestroyReturns
<1>1. StartsCounted' /\ OpInv'
  BY <1>0 DEF TimersInv, StartsCounted, OpInv
<1>2. CASE T!CancelReturns
  <2>1. PICK o \in Timed : op = <<"cancel", o>> /\ Waits(o) /\ timer[o] \in Timer
    BY <1>0, <1>2 DEF T!CancelReturns, TimersInv, OpInv
  <2>2. calling[timer[o]] = 0
    BY <1>2, <2>1, QuietStops DEF T!CancelReturns
  <2>3. /\ cancelled' = cancelled \cup {timer[o]}
        /\ UNCHANGED <<alive, timer, callback, deleted>>
    BY <1>2, <2>1 DEF T!CancelReturns
  <2>4. TimerTypes' /\ TimersOwned' /\ (DestroyWaits => DeletedStopped')
    BY <1>0, <2>3 DEF TimersInv, TimerTypes, TimersOwned, DeletedStopped, Stopped
  <2>5. CancelledStopped'
    BY <1>0, <2>1, <2>2, <2>3 DEF TimersInv, CancelledStopped, Waits, Stopped
  <2>6. QED BY <1>1, <2>4, <2>5 DEF TimersInv
<1>3. CASE T!AssignReturns
  <2>1. PICK o \in Timed, p \in Timed :
          op = <<"assign", o, p>> /\ Waits(o) /\ o # p /\ {o, p} \subseteq alive
    BY <1>0, <1>3 DEF T!AssignReturns, TimersInv, OpInv
  <2>2. timer[o] \in Timer => Stopped(timer[o]) /\ calling[timer[o]] = 0
    BY <1>3, <2>1, QuietStops DEF T!AssignReturns, Waits
  <2>3. /\ timer' = [timer EXCEPT ![o] = timer[p], ![p] = Null]
        /\ callback' = [callback EXCEPT ![o] = callback[p], ![p] = Null]
        /\ deleted' = deleted \cup ({callback[o]} \ {Null})
        /\ UNCHANGED <<alive, cancelled>>
    BY <1>3, <2>1 DEF T!AssignReturns
  <2>4. TimerTypes' /\ TimersOwned'
    BY <1>0, <2>1, <2>3 DEF TimersInv, TimerTypes, TimersOwned
  <2>5. ASSUME DestroyWaits PROVE DeletedStopped'
    <3>1. DeletedStopped /\ callback = timer
      BY <2>5 DEF TimersInv, TimersOwned
    <3>2. deleted' \subseteq deleted \cup ({timer[o]} \cap Timer)
      BY <2>1, <2>3, <3>1 DEF TimersInv, TimerTypes
    <3>3. ASSUME NEW t \in deleted' PROVE Stopped(t) /\ calling[t] = 0
      BY <2>2, <3>1, <3>2 DEF DeletedStopped
    <3>4. ASSUME NEW t \in deleted', NEW q \in Timed PROVE timer'[q] # t
      BY <2>1, <2>3, <3>1, <3>2, TimersAssumption
         DEF TimersInv, TimerTypes, TimersOwned, DeletedStopped
    <3>5. QED BY <1>0, <3>3, <3>4 DEF DeletedStopped, Stopped
  <2>6. CancelledStopped'
    BY <1>0, <2>3 DEF TimersInv, CancelledStopped, Stopped
  <2>7. QED BY <1>1, <2>4, <2>5, <2>6 DEF TimersInv
<1>4. CASE T!DestroyReturns
  <2>1. PICK o \in Timed : op = <<"destroy", o>> /\ Waits(o)
    BY <1>0, <1>4 DEF T!DestroyReturns, TimersInv, OpInv
  <2>2. DestroyWaits /\ timer[o] \in Timer => Stopped(timer[o]) /\ calling[timer[o]] = 0
    BY <1>4, <2>1, QuietStops DEF T!DestroyReturns, Waits
  <2>3. /\ alive' = alive \ {o}
        /\ timer' = [timer EXCEPT ![o] = Null]
        /\ callback' = [callback EXCEPT ![o] = Null]
        /\ deleted' = deleted \cup ({callback[o]} \ {Null})
        /\ UNCHANGED cancelled
    BY <1>4, <2>1 DEF T!DestroyReturns
  <2>4. TimerTypes' /\ TimersOwned'
    BY <1>0, <2>1, <2>3 DEF TimersInv, TimerTypes, TimersOwned
  <2>5. ASSUME DestroyWaits PROVE DeletedStopped'
    <3>1. DeletedStopped /\ callback = timer
      BY <2>5 DEF TimersInv, TimersOwned
    <3>2. deleted' \subseteq deleted \cup ({timer[o]} \cap Timer)
      BY <2>1, <2>3, <3>1 DEF TimersInv, TimerTypes
    <3>3. ASSUME NEW t \in deleted' PROVE Stopped(t) /\ calling[t] = 0
      BY <2>2, <2>5, <3>1, <3>2 DEF DeletedStopped
    <3>4. ASSUME NEW t \in deleted', NEW q \in Timed PROVE timer'[q] # t
      BY <2>1, <2>3, <3>1, <3>2, TimersAssumption
         DEF TimersInv, TimerTypes, TimersOwned, DeletedStopped
    <3>5. QED BY <1>0, <3>3, <3>4 DEF DeletedStopped, Stopped
  <2>6. CancelledStopped'
    BY <1>0, <2>3 DEF TimersInv, CancelledStopped, Stopped
  <2>7. QED BY <1>1, <2>4, <2>5, <2>6 DEF TimersInv
<1>5. QED BY <1>2, <1>3, <1>4 DEF T!Return

\* What Margo does to one timer: a thread comes from its list, or ends.
LEMMA MargoInv ==
  ASSUME TimersInv, NEW t \in Timer, T!MargoStep(t)
  PROVE  TimersInv'
<1>1. UNCHANGED <<alive, timer, callback, deleted, op, starts, cancelled>>
  BY DEF T!MargoStep, T!Expire, T!Call, T!CallReturns
<1>2. \A u \in Timer : Stopped(u) => Stopped(u)' /\ calling'[u] \in {calling[u], calling[u] - 1}
  BY DEF T!MargoStep, T!Expire, T!Call, T!CallReturns, Stopped, TimersInv, TimerTypes
<1>3. TimerTypes' /\ TimersOwned'
  BY <1>1 DEF T!MargoStep, T!Expire, T!Call, T!CallReturns, TimersInv, TimerTypes, TimersOwned
<1>4. OpInv'
  BY <1>1, <1>2 DEF TimersInv, OpInv, Waits
<1>5. (DestroyWaits => DeletedStopped') /\ CancelledStopped'
  BY <1>1, <1>2, <1>3 DEF TimersInv, TimerTypes, DeletedStopped, CancelledStopped
<1>6. StartsCounted'
  <2> SUFFICES ASSUME NEW u \in Timer
               PROVE  /\ created'[u] + calling'[u] <= starts
                      /\ u \in listed' => created'[u] + calling'[u] < starts
    BY <1>1 DEF StartsCounted
  <2>1. created[u] \in Nat /\ calling[u] \in Nat /\ starts \in Nat
    BY DEF TimersInv, TimerTypes
  <2>2. /\ created[u] + calling[u] <= starts
        /\ u \in listed => created[u] + calling[u] < starts
    BY DEF TimersInv, StartsCounted
  <2>3. \/ created'[u] + calling'[u] = created[u] + calling[u] /\ (u \in listed' => u \in listed)
        \/ created'[u] + calling'[u] = created[u] + calling[u] + 1 /\ u \in listed /\ u \notin listed'
        \/ created'[u] + calling'[u] = created[u] + calling[u] - 1 /\ (u \in listed' => u \in listed)
    BY <2>1 DEF T!MargoStep, T!Expire, T!Call, T!CallReturns, TimersInv, TimerTypes
  <2>4. QED BY <2>1, <2>2, <2>3
<1>7. QED BY <1>3, <1>4, <1>5, <1>6 DEF TimersInv

\* All steps.
LEMMA TimersStepInv == TimersInv /\ [T!Next]_(T!vars) => TimersInv'
<1> SUFFICES ASSUME TimersInv, [T!Next]_(T!vars) PROVE TimersInv'
  OBVIOUS
<1>1. CASE UNCHANGED T!vars
  BY <1>1 DEF T!vars, TimersInv, TimerTypes, TimersOwned, OpInv, Waits, Stopped, DeletedStopped,
              CancelledStopped, StartsCounted
<1>2. CASE T!Next
  BY <1>2, StartInv, UnlistInv, ConstructInv, ReturnInv, MargoInv DEF T!Next
<1>3. QED BY <1>1, <1>2

\* The types of timed callbacks, the counts at most the number of starts.
LEMMA TimersTypeOK == TimersInv => T!TypeOK
<1> SUFFICES ASSUME TimersInv PROVE T!TypeOK
  OBVIOUS
<1>1. ASSUME NEW t \in Timer PROVE created[t] \in 0..MaxStarts /\ calling[t] \in 0..MaxStarts
  <2>1. created[t] \in Nat /\ calling[t] \in Nat /\ starts \in 0..MaxStarts /\ MaxStarts \in Nat
    BY TimersAssumption DEF TimersInv, TimerTypes
  <2>2. created[t] + calling[t] <= starts
    BY DEF TimersInv, StartsCounted
  <2>3. QED BY <2>1, <2>2
<1>2. /\ created \in [Timer -> 0..MaxStarts] /\ calling \in [Timer -> 0..MaxStarts]
      /\ cancelled \subseteq Timer
  BY <1>1 DEF TimersInv, TimerTypes, CancelledStopped
<1>3. QED BY <1>2 DEF TimersInv, TimerTypes, TimersOwned, T!TypeOK

-----------------------------------------------------------------------------
(* The lists of pools and streams                                          *)

\* The users that hold a reference through a proxy of n.
Refers(n) == {u \in holds : proxy[u].name = n}

ListsTypes ==
  /\ list \in [L!Kind -> Seq(L!Name)]
  /\ \A k \in L!Kind : Len(list[k]) <= Len(FirstLists[k])
  /\ count \in [L!Name -> Nat]
  /\ proxy \in [User -> L!NamedObjectProxy \cup {Nothing}]
  /\ holds \subseteq User

\* No name comes twice in a list.
NoTwice(s) == \A i, j \in 1..Len(s) : s[i] = s[j] => i = j

Distinct == \A k \in L!Kind : NoTwice(list[k])

\* ReferencesKept, object by object.
Kept(n) ==
  /\ count[n] = Cardinality(Refers(n)) + Cardinality(L!Streams(n))
  /\ Refers(n) # {} => \E k \in L!Kind : n \in L!Members(list[k])

ListsInv == ListsTypes /\ Distinct /\ \A n \in L!Name : Kept(n)

\* The counts of the part are those of the library's cardinality.
LEMMA KeptIsReferencesKept == (\A n \in L!Name : Kept(n)) <=> L!ReferencesKept
<1>1. \A S : L!Cardinality(S) = Cardinality(S)
  BY DEF L!Cardinality, Cardinality
<1>2. QED BY <1>1 DEF Kept, Refers, L!ReferencesKept, L!Kind

\* A list has finitely many members.
LEMMA MembersFinite ==
  ASSUME NEW S, NEW s \in Seq(S)
  PROVE  IsFiniteSet(L!Members(s))
<1> DEFINE f == [i \in 1..Len(s) |-> s[i]]
<1>1. Len(s) \in Nat
  BY LenProperties
<1>2. IsFiniteSet(1..Len(s))
  BY <1>1, FS_Interval
<1>3. f \in Surjection(1..Len(s), L!Members(s))
  BY DEF Surjection, L!Members
<1>4. QED BY <1>2, <1>3, FS_Surjection

\* A list that loses its i-th object.
LEMMA MembersWithout ==
  ASSUME NEW S, NEW s \in Seq(S), NEW i \in 1..Len(s), NoTwice(s)
  PROVE  /\ L!Without(s, i) \in Seq(S) /\ Len(L!Without(s, i)) = Len(s) - 1
         /\ NoTwice(L!Without(s, i))
         /\ L!Members(L!Without(s, i)) = L!Members(s) \ {s[i]}
<1> DEFINE r == L!Without(s, i)
<1>1. L!Without(s, i) = W!Without(s, i)
  BY DEF L!Without, W!Without
<1>2. Len(s) \in Nat /\ DOMAIN s = 1..Len(s)
  BY LenProperties
<1>3. /\ r \in Seq(S) /\ Len(r) = Len(s) - 1
      /\ \A j \in 1..(Len(s) - 1) : r[j] = IF j < i THEN s[j] ELSE s[j + 1]
  BY ZenonT(40), <1>1, <1>2, WithoutProperties
<1> HIDE DEF r
<1>4. NoTwice(r)
  <2> SUFFICES ASSUME NEW j \in 1..(Len(s) - 1), NEW k \in 1..(Len(s) - 1), r[j] = r[k]
               PROVE  j = k
    BY <1>3 DEF NoTwice
  <2> DEFINE old(m) == IF m < i THEN m ELSE m + 1
  <2>1. /\ old(j) \in 1..Len(s) /\ r[j] = s[old(j)]
        /\ old(k) \in 1..Len(s) /\ r[k] = s[old(k)]
    BY <1>2, <1>3
  <2>2. old(j) = old(k)
    BY <2>1 DEF NoTwice
  <2>3. QED BY <1>2, <2>2
<1>5. \A j \in 1..Len(r) : r[j] \in L!Members(s) \ {s[i]}
  <2> SUFFICES ASSUME NEW j \in 1..(Len(s) - 1) PROVE r[j] \in L!Members(s) /\ r[j] # s[i]
    BY <1>3
  <2>1. PICK m \in 1..Len(s) : r[j] = s[m] /\ m # i
    BY <1>2, <1>3
  <2>2. QED BY <2>1 DEF L!Members, NoTwice
<1>6. \A m \in 1..Len(s) : m # i => \E j \in 1..Len(r) : r[j] = s[m]
  <2> SUFFICES ASSUME NEW m \in 1..Len(s), m # i PROVE \E j \in 1..(Len(s) - 1) : r[j] = s[m]
    BY <1>3
  <2>1. CASE m < i
    <3>1. m \in 1..(Len(s) - 1)
      BY <1>2, <2>1
    <3>2. QED BY <1>3, <2>1, <3>1
  <2>2. CASE ~(m < i)
    <3>1. m - 1 \in 1..(Len(s) - 1) /\ ~(m - 1 < i) /\ (m - 1) + 1 = m
      BY <1>2, <2>2
    <3>2. QED BY <1>3, <3>1
  <2>3. QED BY <2>1, <2>2
<1>7. L!Members(r) = L!Members(s) \ {s[i]}
  BY SMTT(20), <1>5, <1>6 DEF L!Members
<1>8. QED BY <1>3, <1>4, <1>7 DEF r

\* An object is referred to finitely often.
LEMMA RefersFinite ==
  ASSUME ListsTypes, NEW n
  PROVE  /\ IsFiniteSet(Refers(n)) /\ Cardinality(Refers(n)) \in Nat
         /\ IsFiniteSet(L!Streams(n)) /\ Cardinality(L!Streams(n)) \in Nat
<1>1. IsFiniteSet(Refers(n))
  BY ListsAssumption, FS_Subset DEF ListsTypes, Refers
<1>2. IsFiniteSet(L!Members(list["xstream"]))
  BY MembersFinite DEF ListsTypes, L!Kind
<1>3. IsFiniteSet(L!Streams(n))
  BY <1>2, FS_Subset DEF L!Streams
<1>4. QED BY <1>1, <1>3, FS_CardinalityType

\* The lists of the configuration, which nobody uses yet.
LEMMA ListsInit == L!Init => ListsInv
<1> SUFFICES ASSUME L!Init PROVE ListsInv
  OBVIOUS
<1>1. /\ list = FirstLists /\ holds = {} /\ proxy = [u \in User |-> Nothing]
      /\ list \in [L!Kind -> Seq(L!Name)]
  BY ListsAssumption DEF L!Init
<1>2. \A k \in L!Kind : Len(list[k]) <= Len(FirstLists[k])
  <2> TAKE k \in L!Kind
  <2>1. Len(list[k]) \in Nat
    BY <1>1, LenProperties
  <2>2. QED BY <1>1, <2>1
<1>3. Distinct
  BY <1>1, ListsAssumption DEF Distinct, NoTwice
<1>4. \A n \in L!Name : count[n] = Cardinality(L!Streams(n))
  <2>1. \A S : L!Cardinality(S) = Cardinality(S)
    BY DEF L!Cardinality, Cardinality
  <2>2. \A n \in L!Name : L!Streams(n) = {x \in DOMAIN PoolsUsed : n \in PoolsUsed[x]}
    BY <1>1, ListsAssumption DEF L!Streams
  <2>3. QED BY <2>1, <2>2 DEF L!Init
<1>5. \A n \in L!Name : Cardinality(L!Streams(n)) \in Nat
  <2>1. IsFiniteSet(L!Members(list["xstream"]))
    BY <1>1, MembersFinite DEF L!Kind
  <2>2. QED BY <2>1, FS_Subset, FS_CardinalityType DEF L!Streams
<1>6. ListsTypes
  BY <1>1, <1>2, <1>4, <1>5 DEF ListsTypes, L!Init
<1>7. ASSUME NEW n \in L!Name PROVE Kept(n)
  <2>1. Refers(n) = {}
    BY <1>1 DEF Refers
  <2>2. Cardinality(Refers(n)) = 0
    BY <2>1, FS_EmptySet
  <2>3. count[n] = Cardinality(L!Streams(n)) /\ Cardinality(L!Streams(n)) \in Nat
    BY <1>4, <1>5
  <2>4. count[n] = Cardinality(Refers(n)) + Cardinality(L!Streams(n))
    BY <2>2, <2>3
  <2>5. QED BY <2>1, <2>4 DEF Kept
<1>8. QED BY <1>3, <1>6, <1>7 DEF ListsInv

\* Without stale indices, a proxy designates what it was taken from, in its list.
LEMMA ReachesOwn ==
  ASSUME ~StaleIndex, ListsTypes, NEW u \in User, NEW key, NEW n, L!Reaches(u, key, n)
  PROVE  /\ proxy[u] \in L!NamedObjectProxy /\ proxy[u].kind \in L!Kind
         /\ n = proxy[u].name /\ n \in L!Members(list[proxy[u].kind])
<1>1. proxy[u] \in L!NamedObjectProxy /\ n # Nothing /\ n = L!Target(proxy[u], key)
  BY DEF L!Reaches, ListsTypes
<1>2. /\ proxy[u].kind \in L!Kind /\ proxy[u].index \in Nat
      /\ list[proxy[u].kind] \in Seq(L!Name)
  BY <1>1 DEF L!NamedObjectProxy, ListsTypes
<1>3. Len(list[proxy[u].kind]) \in Nat
  BY <1>2, LenProperties
<1>4. CASE key = "index"
  <2>1. n = proxy[u].name /\ n = L!Listed(proxy[u].kind, proxy[u].index)
    BY <1>1, <1>4 DEF L!Target
  <2>2. proxy[u].index < Len(list[proxy[u].kind]) /\ n = list[proxy[u].kind][proxy[u].index + 1]
    BY <1>1, <2>1 DEF L!Listed
  <2>3. proxy[u].index + 1 \in 1..Len(list[proxy[u].kind])
    BY <1>2, <1>3, <2>2
  <2>4. QED BY <1>1, <1>2, <2>1, <2>2, <2>3 DEF L!Members
<1>5. CASE key # "index"
  BY <1>1, <1>2, <1>5 DEF L!Target
<1>6. QED BY <1>4, <1>5

\* A proxy is taken by a user that holds no reference.
LEMMA FindInv ==
  ASSUME ListsInv, NEW u \in User, NEW k \in L!Kind, NEW i \in 0..(Len(list[k]) - 1),
         L!Find(u, k, i)
  PROVE  ListsInv'
<1>1. /\ u \notin holds /\ UNCHANGED <<list, count, holds>>
      /\ proxy' = [proxy EXCEPT ![u] = [kind |-> k, name |-> L!Listed(k, i), index |-> i]]
  BY DEF L!Find
<1>2. Len(list[k]) \in Nat /\ list[k] \in Seq(L!Name)
  BY LenProperties DEF ListsInv, ListsTypes
<1>3. L!Listed(k, i) \in L!Name /\ i \in Nat
  <2>1. i < Len(list[k]) /\ i + 1 \in 1..Len(list[k]) /\ i \in Nat
    BY <1>2
  <2>2. L!Listed(k, i) = list[k][i + 1]
    BY <2>1 DEF L!Listed
  <2>3. QED BY <1>2, <2>1, <2>2, ElementOfSeq
<1>4. ListsTypes'
  BY <1>1, <1>3 DEF ListsInv, ListsTypes, L!NamedObjectProxy
<1>5. Distinct'
  BY <1>1 DEF ListsInv, Distinct
<1>6. ASSUME NEW n \in L!Name PROVE Kept(n)'
  <2>1. Refers(n)' = Refers(n)
    BY <1>1 DEF Refers, ListsInv, ListsTypes
  <2>2. L!Streams(n)' = L!Streams(n)
    BY <1>1 DEF L!Streams
  <2>3. QED BY <1>1, <2>1, <2>2 DEF ListsInv, Kept
<1>7. QED BY <1>4, <1>5, <1>6 DEF ListsInv

\* A reference comes with its user.
LEMMA RefIncrInv ==
  ASSUME ~StaleIndex, ListsInv, NEW u \in User, NEW key, NEW n \in L!Name, L!RefIncr(u, key, n)
  PROVE  ListsInv'
<1>1. /\ u \notin holds /\ L!Reaches(u, key, n)
      /\ count' = [count EXCEPT ![n] = @ + 1] /\ holds' = holds \cup {u}
      /\ UNCHANGED <<list, proxy>>
  BY DEF L!RefIncr
<1>2. n = proxy[u].name /\ \E k \in L!Kind : n \in L!Members(list[k])
  BY <1>1, ReachesOwn DEF ListsInv
<1>3. ListsTypes'
  BY <1>1 DEF ListsInv, ListsTypes
<1>4. Distinct'
  BY <1>1 DEF ListsInv, Distinct
<1>5. ASSUME NEW m \in L!Name PROVE Kept(m)'
  <2>1. /\ L!Streams(m)' = L!Streams(m)
        /\ \A k \in L!Kind : L!Members(list[k])' = L!Members(list[k])
    BY <1>1 DEF L!Streams
  <2>2. /\ Kept(m) /\ IsFiniteSet(Refers(m)) /\ Cardinality(Refers(m)) \in Nat
        /\ Cardinality(L!Streams(m)) \in Nat
    BY RefersFinite DEF ListsInv
  <2>3. CASE m = n
    <3>1. Refers(m)' = Refers(m) \cup {u} /\ u \notin Refers(m)
      BY <1>1, <1>2, <2>3 DEF Refers
    <3>2. Cardinality(Refers(m)') = Cardinality(Refers(m)) + 1
      BY <2>2, <3>1, FS_AddElement
    <3>3. count'[m] = count[m] + 1
      BY <1>1, <2>3 DEF ListsInv, ListsTypes
    <3>4. count[m] = Cardinality(Refers(m)) + Cardinality(L!Streams(m))
      BY <2>2 DEF Kept
    <3>5. count'[m] = Cardinality(Refers(m)') + Cardinality(L!Streams(m))
      BY <2>2, <3>2, <3>3, <3>4
    <3>6. QED BY <1>2, <2>1, <2>3, <3>5 DEF Kept
  <2>4. CASE m # n
    <3>1. Refers(m)' = Refers(m) /\ count'[m] = count[m]
      BY <1>1, <1>2, <2>4 DEF Refers, ListsInv, ListsTypes
    <3>2. QED BY <2>1, <2>2, <3>1 DEF Kept
  <2>5. QED BY <2>3, <2>4
<1>6. QED BY <1>3, <1>4, <1>5 DEF ListsInv

\* A reference goes with its user.
LEMMA ReleaseInv ==
  ASSUME ~StaleIndex, ListsInv, NEW u \in User, NEW key, NEW n \in L!Name, L!Release(u, key, n)
  PROVE  ListsInv'
<1>1. /\ u \in holds /\ L!Reaches(u, key, n) /\ count[n] > 0
      /\ count' = [count EXCEPT ![n] = @ - 1] /\ holds' = holds \ {u}
      /\ UNCHANGED <<list, proxy>>
  BY DEF L!Release
<1>2. n = proxy[u].name
  BY <1>1, ReachesOwn DEF ListsInv
<1>3. ListsTypes'
  BY <1>1 DEF ListsInv, ListsTypes
<1>4. Distinct'
  BY <1>1 DEF ListsInv, Distinct
<1>5. ASSUME NEW m \in L!Name PROVE Kept(m)'
  <2>1. /\ L!Streams(m)' = L!Streams(m)
        /\ \A k \in L!Kind : L!Members(list[k])' = L!Members(list[k])
    BY <1>1 DEF L!Streams
  <2>2. /\ Kept(m) /\ IsFiniteSet(Refers(m)) /\ Cardinality(Refers(m)) \in Nat
        /\ Cardinality(L!Streams(m)) \in Nat
    BY RefersFinite DEF ListsInv
  <2>3. CASE m = n
    <3>1. Refers(m)' = Refers(m) \ {u} /\ u \in Refers(m)
      BY <1>1, <1>2, <2>3 DEF Refers
    <3>2. Cardinality(Refers(m)') = Cardinality(Refers(m)) - 1
      BY <2>2, <3>1, FS_RemoveElement
    <3>3. count'[m] = count[m] - 1
      BY <1>1, <2>3 DEF ListsInv, ListsTypes
    <3>4. count[m] = Cardinality(Refers(m)) + Cardinality(L!Streams(m))
      BY <2>2 DEF Kept
    <3>5. count'[m] = Cardinality(Refers(m)') + Cardinality(L!Streams(m))
      BY <2>2, <3>2, <3>3, <3>4
    <3>6. QED BY <2>1, <2>2, <3>1, <3>5 DEF Kept
  <2>4. CASE m # n
    <3>1. Refers(m)' = Refers(m) /\ count'[m] = count[m]
      BY <1>1, <1>2, <2>4 DEF Refers, ListsInv, ListsTypes
    <3>2. QED BY <2>1, <2>2, <3>1 DEF Kept
  <2>5. QED BY <2>3, <2>4
<1>6. QED BY <1>3, <1>4, <1>5 DEF ListsInv

\* What is removed is referred to by nobody, and a stream gives up its pools.
LEMMA RemoveInv ==
  ASSUME ~StaleIndex, ListsInv, NEW u \in User, NEW key, NEW n \in L!Name, L!Remove(u, key, n)
  PROVE  ListsInv'
<1> DEFINE k == proxy[u].kind
<1>1. /\ L!Reaches(u, key, n) /\ count[n] = 0 /\ UNCHANGED <<proxy, holds>>
      /\ count' = [m \in L!Name |->
                     IF k = "xstream" /\ m \in PoolsUsed[n] THEN count[m] - 1 ELSE count[m]]
  BY DEF L!Remove, L!MargoRemove
<1>2. PICK i \in 1..Len(list[k]) : list[k][i] = n /\ list' = [list EXCEPT ![k] = L!Without(@, i)]
  BY DEF L!Remove, L!MargoRemove
<1>3. k \in L!Kind /\ list[k] \in Seq(L!Name) /\ NoTwice(list[k]) /\ Len(list[k]) \in Nat
  <2>1. k \in L!Kind
    BY <1>1, ReachesOwn DEF ListsInv
  <2>2. QED BY <2>1, LenProperties DEF ListsInv, ListsTypes, Distinct
<1>4. /\ L!Without(list[k], i) \in Seq(L!Name) /\ Len(L!Without(list[k], i)) = Len(list[k]) - 1
      /\ NoTwice(L!Without(list[k], i))
      /\ L!Members(L!Without(list[k], i)) = L!Members(list[k]) \ {n}
  BY <1>2, <1>3, MembersWithout
<1>5. list'[k] = L!Without(list[k], i) /\ \A j \in L!Kind : j # k => list'[j] = list[j]
  BY <1>2, <1>3 DEF ListsInv, ListsTypes
<1> HIDE DEF k
<1>6. \A m \in L!Name : /\ Kept(m) /\ IsFiniteSet(L!Streams(m))
                        /\ Cardinality(Refers(m)) \in Nat /\ Cardinality(L!Streams(m)) \in Nat
  BY RefersFinite DEF ListsInv
<1>7. \A m \in L!Name :
        /\ Refers(m)' = Refers(m)
        /\ L!Streams(m)' = IF k = "xstream" THEN L!Streams(m) \ {n} ELSE L!Streams(m)
        /\ k = "xstream" /\ m \in PoolsUsed[n] <=> k = "xstream" /\ n \in L!Streams(m)
  <2>1. \A m \in L!Name : Refers(m)' = Refers(m)
    BY <1>1 DEF Refers
  <2>2. L!Members(list["xstream"])' =
          IF k = "xstream" THEN L!Members(list["xstream"]) \ {n} ELSE L!Members(list["xstream"])
    <3>1. L!Members(list["xstream"])' = L!Members(list'["xstream"])
      BY DEF L!Members
    <3>2. QED BY <1>4, <1>5, <3>1 DEF L!Kind
  <2>3. n \in L!Members(list[k])
    BY <1>2 DEF L!Members
  <2>4. QED BY <2>1, <2>2, <2>3 DEF L!Streams
<1>8. ASSUME NEW m \in L!Name
      PROVE  count'[m] \in Nat /\ Kept(m)'
  <2>1. /\ count[m] = Cardinality(Refers(m)) + Cardinality(L!Streams(m))
        /\ Cardinality(Refers(m)) \in Nat /\ Cardinality(L!Streams(m)) \in Nat
    BY <1>6 DEF Kept
  <2>2. count'[m] = Cardinality(Refers(m)) + Cardinality(L!Streams(m)')
    <3>1. CASE k = "xstream" /\ m \in PoolsUsed[n]
      <4>1. Cardinality(L!Streams(m)') = Cardinality(L!Streams(m)) - 1
        BY <1>6, <1>7, <3>1, FS_RemoveElement
      <4>2. count'[m] = count[m] - 1
        BY <1>1, <3>1
      <4>3. QED BY <2>1, <4>1, <4>2
    <3>2. CASE ~(k = "xstream" /\ m \in PoolsUsed[n])
      <4>1. L!Streams(m)' = L!Streams(m)
        BY <1>7, <3>2
      <4>2. count'[m] = count[m]
        BY <1>1, <3>2
      <4>3. QED BY <2>1, <4>1, <4>2
    <3>3. QED BY <3>1, <3>2
  <2>3. Cardinality(L!Streams(m)') \in Nat
    <3>1. IsFiniteSet(L!Streams(m)')
      BY <1>6, <1>7, FS_Subset
    <3>2. QED BY <3>1, FS_CardinalityType
  <2>4. count'[m] \in Nat
    BY <2>1, <2>2, <2>3
  <2>5. Refers(m) # {} => \E j \in L!Kind : m \in L!Members(list'[j])
    <3> SUFFICES ASSUME Refers(m) # {} PROVE \E j \in L!Kind : m \in L!Members(list'[j])
      OBVIOUS
    <3>1. PICK j \in L!Kind : m \in L!Members(list[j])
      BY <1>6 DEF Kept
    <3>2. m # n
      <4>1. Cardinality(Refers(m)) # 0
        BY RefersFinite, FS_EmptySet DEF ListsInv
      <4>2. QED BY <1>1, <2>1, <4>1
    <3>3. QED BY <1>4, <1>5, <3>1, <3>2
  <2>6. QED BY <1>7, <2>2, <2>4, <2>5 DEF Kept, L!Members
<1>9. ListsTypes'
  <2>1. list' \in [L!Kind -> Seq(L!Name)]
    BY <1>2, <1>3, <1>4 DEF ListsInv, ListsTypes
  <2>2. ASSUME NEW j \in L!Kind PROVE Len(list'[j]) <= Len(FirstLists[j])
    <3>1. Len(list[j]) <= Len(FirstLists[j]) /\ Len(FirstLists[j]) \in Nat
      BY ListsAssumption, LenProperties DEF ListsInv, ListsTypes
    <3>2. j = k \/ list'[j] = list[j]
      BY <1>5
    <3>3. QED BY <1>3, <1>4, <1>5, <3>1, <3>2
  <2>3. count' \in [L!Name -> Nat]
    <3>1. DOMAIN count' = L!Name /\ count' = [m \in L!Name |-> count'[m]]
      BY <1>1
    <3>2. QED BY <1>8, <3>1
  <2>4. QED BY <1>1, <2>1, <2>2, <2>3 DEF ListsInv, ListsTypes
<1>10. Distinct'
  <2>1. \A j \in L!Kind : NoTwice(list'[j])
    BY <1>4, <1>5 DEF ListsInv, Distinct
  <2>2. QED BY <2>1 DEF Distinct, NoTwice
<1>11. QED BY <1>8, <1>9, <1>10 DEF ListsInv

\* All steps.
LEMMA ListsStepInv == ~StaleIndex /\ ListsInv /\ [L!Next]_(L!vars) => ListsInv'
<1> SUFFICES ASSUME ~StaleIndex, ListsInv, [L!Next]_(L!vars) PROVE ListsInv'
  OBVIOUS
<1>1. CASE UNCHANGED L!vars
  BY <1>1 DEF L!vars, ListsInv, ListsTypes, Distinct, Kept, Refers, L!Streams
<1>2. CASE L!Next
  BY <1>2, FindInv, RefIncrInv, ReleaseInv, RemoveInv
     DEF L!Next, L!Xstreams, L!PoolList, L!Change
<1>3. QED BY <1>1, <1>2

\* The types of the lists.
LEMMA ListsTypeOK == ListsInv => L!TypeOK
BY DEF ListsInv, ListsTypes, L!TypeOK

-----------------------------------------------------------------------------
(* The invariants of the parts, in all behaviours of the process           *)

\* Each part's invariant is kept by every step of the process.
LEMMA MonitorAlways == LocalSpec => []MonitorInv
<1>1. LocalInit => MonitorInv
  BY PartInits, MonitorInit
<1>2. MonitorInv /\ [LocalNext]_local => MonitorInv'
  BY PartSteps, MonitorStepInv
<1>3. QED BY <1>1, <1>2, PTL DEF LocalSpec

\* Likewise that of eventuals.
LEMMA EventualAlways == LocalSpec => []EventualInv
<1>1. LocalInit => EventualInv
  BY PartInits, EventualInit
<1>2. EventualInv /\ [LocalNext]_local => EventualInv'
  BY PartSteps, EventualStepInv
<1>3. QED BY <1>1, <1>2, PTL DEF LocalSpec

\* That of futures.
LEMMA FutureAlways == LocalSpec => []FutureInv
<1>1. LocalInit => FutureInv
  BY PartInits, FutureInit
<1>2. FutureInv /\ [LocalNext]_local => FutureInv'
  BY PartSteps, FutureStepInv
<1>3. QED BY <1>1, <1>2, PTL DEF LocalSpec

\* That of timed callbacks.
LEMMA TimersAlways == LocalSpec => []TimersInv
<1>1. LocalInit => TimersInv
  BY PartInits, TimersInit
<1>2. TimersInv /\ [LocalNext]_local => TimersInv'
  BY PartSteps, TimersStepInv
<1>3. QED BY <1>1, <1>2, PTL DEF LocalSpec

\* That of the lists, if no stale index is used.
LEMMA ListsAlways ==
  ASSUME ~StaleIndex
  PROVE  LocalSpec => []ListsInv
<1>1. LocalInit => ListsInv
  BY PartInits, ListsInit
<1>2. ListsInv /\ [LocalNext]_local => ListsInv'
  BY PartSteps, ListsStepInv
<1>3. QED BY <1>1, <1>2, PTL DEF LocalSpec

\* That of work units.
LEMMA UnitsAlways == LocalSpec => []UnitsInv
<1>1. LocalInit => UnitsInv
  BY PartInits, UnitsInit
<1>2. UnitsInv /\ [LocalNext]_local => UnitsInv'
  BY PartSteps, UnitsStep
<1>3. QED BY <1>1, <1>2, PTL DEF LocalSpec

\* And that of native handles, if no timer is moved.
LEMMA ObjectsAlways ==
  ASSUME ~MoveTimers
  PROVE  LocalSpec => []IInv
<1>1. LocalInit => IInv
  BY PartInits, InitInv
<1>2. IInv /\ [LocalNext]_local => IInv'
  BY PartSteps, StepInv
<1>3. QED BY <1>1, <1>2, PTL DEF LocalSpec

-----------------------------------------------------------------------------
(* The theorems                                                            *)

\* The process implements each of its parts: what Local composes behaves, seen by the
\* variables of one part, as the module of that part says, so that what holds of
\* Local holds of each part by itself and of all of them together.
THEOREM PartsImplemented ==
  LocalSpec =>
    /\ Spec /\ M!Spec /\ E!Spec /\ T!Spec
    /\ F!Init /\ [][F!Next]_(F!vars)
    /\ L!Init /\ [][L!Next]_(L!vars)
    /\ W!Init /\ [][W!Next]_(W!vars)
BY PartInits, PartSteps, PTL DEF LocalSpec, Spec, M!Spec, E!Spec, T!Spec

\* The variables of all parts keep their types and bounds: there are never more items
\* than producers, more values than compartments, or more threads of a timer than
\* starts.  The conditions are those of the parts that need them: no moved timer
\* (timed_callback.hpp:45) and no stale index.
THEOREM TypesHold ==
  ASSUME ~MoveTimers, ~StaleIndex
  PROVE  LocalSpec => []TypesOK
<1>1. /\ MonitorInv => M!TypeOK
      /\ EventualInv => E!TypeOK
      /\ FutureInv => F!TypeOK
      /\ TimersInv => T!TypeOK
      /\ ListsInv => L!TypeOK
      /\ UnitsInv => W!TypeOK
      /\ IInv => TypeOK
  BY MonitorTypeOK, TimersTypeOK, ListsTypeOK DEF EventualInv, FutureInv, UnitsInv, IInv
<1>2. /\ MonitorInv /\ EventualInv /\ FutureInv /\ TimersInv
      /\ ListsInv /\ UnitsInv /\ IInv
      => TypesOK
  BY <1>1 DEF TypesOK
<1>3. QED
  BY <1>2, MonitorAlways, EventualAlways, FutureAlways, TimersAlways, ListsAlways, UnitsAlways,
     ObjectsAlways, PTL

\* The references to a native handle are those of its owners, of C code, and those
\* that are known to be lost, also while everything else of the process runs.
THEOREM AccountingInProcess ==
  ASSUME ~MoveTimers
  PROVE  LocalSpec => []Accounting
<1>1. IInv => Accounting
  BY DEF IInv
<1>2. QED BY <1>1, ObjectsAlways, PTL

\* Whoever returns from wait(lock, predicate) has the mutex and finds the predicate
\* true, whichever threads are notified, wake up for no reason, give up at a
\* deadline or take what another was notified of.
THEOREM PredicateAlwaysHolds == LocalSpec => []PredicateHolds
<1>1. MonitorInv => PredicateHolds
  BY DEF MonitorInv, PredicateHolds
<1>2. QED BY <1>1, MonitorAlways, PTL

\* However many waiters of both kinds and producers there are, no signal is lost: while
\* anybody sleeps, for every item a producer is about to notify or a waiter is awake.
THEOREM NoSignalIsLost == LocalSpec => []NoSignalLost
<1>1. MonitorInv => NoSignalLost
  BY SignalsAre DEF MonitorInv, NoSignalLost
<1>2. QED BY <1>1, MonitorAlways, PTL

\* However many threads set an eventual and wait for it, and for any number of
\* rounds: a wait returns a value stored in its own round, because set_value stores
\* before it makes the eventual ready; and one of the setters succeeds at most.
THEOREM RoundsAreApart == LocalSpec => []ValueOfThisRound
<1>1. EventualInv => ValueOfThisRound
  BY DEF EventualInv, ValueOfThisRound
<1>2. QED BY <1>1, EventualAlways, PTL

\* For any number of compartments, none included, and of setters: before a waiter
\* returns the callback of a future has run once, with all the objects that were
\* set, and its function is deleted.
THEOREM CallbackComesFirst == LocalSpec => []CallbackFirst
<1>1. FutureInv => CallbackFirst
  BY FutureCallback DEF CallbackFirst
<1>2. QED BY <1>1, FutureAlways, PTL

\* No thread of a timer is ever in a function that was deleted, provided that
\* margo_timer_destroy waits for these threads as margo_timer_cancel does.
THEOREM FunctionsStayAlive ==
  ASSUME DestroyWaits
  PROVE  LocalSpec => []FunctionAlive
<1>1. TimersInv => FunctionAlive
  BY DEF TimersInv, DeletedStopped, FunctionAlive, T!FunctionAlive
<1>2. QED BY <1>1, TimersAlways, PTL

\* Once cancel has returned, the function is not running and will not be called
\* until the timer is started again, whatever margo_timer_destroy waits for.
THEOREM CancelsHold == LocalSpec => []CancelHolds
<1>1. TimersInv => CancelHolds
  BY DEF TimersInv, TimerTypes, CancelledStopped, Stopped, CancelHolds, T!CancelHolds
<1>2. QED BY <1>1, TimersAlways, PTL

\* Through the proxies of any number of users, and for any lists: the count of a pool
\* or stream is the number of users and of streams that refer to it, and what is
\* referred to stays listed.  The condition is that no index is used after the list
\* has changed.
THEOREM ReferencesAreKept ==
  ASSUME ~StaleIndex
  PROVE  LocalSpec => []ReferencesKept
<1>1. ListsInv => ReferencesKept
  BY KeptIsReferencesKept DEF ListsInv, ReferencesKept
<1>2. QED BY <1>1, ListsAlways, PTL

\* For any numbers of units, pools and streams: a unit that can run is in one pool,
\* once, or in the hands of one scheduler, and any other is in neither, whoever
\* yields, blocks, migrates, is revived or is popped by a stealing scheduler.
THEOREM UnitsStayInOnePlace == LocalSpec => []OnePlace
<1>1. UnitsInv => OnePlace
  BY UnitsInOnePlace DEF OnePlace
<1>2. QED BY <1>1, UnitsAlways, PTL

\* The function of a unit is there as long as the unit may call it, and no longer.
THEOREM FunctionsLiveLongEnough == LocalSpec => []FunctionOnce
<1>1. UnitsInv => FunctionOnce
  BY DEF UnitsInv, FunctionOnce
<1>2. QED BY <1>1, UnitsAlways, PTL

\* Streams and pools may be closed while units are in any state: a unit that is not
\* finished always has a stream that has not stopped and that serves its pool.
THEOREM NobodyIsLeft == LocalSpec => []NobodyLeftBehind
<1>1. UnitsInv => NobodyLeftBehind
  BY UnitsNobodyLeft DEF NobodyLeftBehind
<1>2. QED BY <1>1, UnitsAlways, PTL
=============================================================================
