------------------------------- MODULE Local -------------------------------
(***************************************************************************)
(* What runs inside one process: the objects that wrap native handles, and *)
(* what is built from them above Argobots and Margo's timers.  These parts *)
(* do not share state, so a behaviour exercises one of them, chosen at its *)
(* start; the others stay in their initial states.                         *)
(***************************************************************************)
EXTENDS Wrappers, Sequences

CONSTANTS
  Nobody, Waiter, TimedWaiter, Producer,                          \* Monitor
  Setter, Rounds,                                                 \* Eventual
  Compartments, Garbage,                                          \* Future
  Timed, Timer, MaxStarts, DestroyWaits,                          \* TimedCallback
  FirstLists, PoolsUsed, User, Nothing, StaleIndex,               \* EngineLists
  Unit, Tasks, Stream, Pools, PoolsOf, None, MaxRevivals, MaxPauses  \* WorkUnits

VARIABLES
  part,
  owner, items, mpc,
  ready, value, round, epc, got,
  built, called, array, given, ffun, fpc,
  alive, timer, callback, listed, created, calling, deleted, op, starts, cancelled,
  list, count, proxy, holds,
  state, managed, units, in_pool, home, fun, cut, asked, revivals, pauses, mode, unit, stop, phase

M == INSTANCE Monitor WITH pc <- mpc
E == INSTANCE Eventual WITH pc <- epc
F == INSTANCE Future WITH pc <- fpc, fun <- ffun
T == INSTANCE TimedCallback WITH Object <- Timed
L == INSTANCE EngineLists
W == INSTANCE WorkUnits WITH Task <- Tasks, Pool <- Pools

-----------------------------------------------------------------------------
(* What is assumed of each part's threads, objects and configuration       *)

\* A thread waits with or without a deadline, and is not the free mutex's owner.
ASSUME MonitorAssumption ==
  /\ Nobody \notin M!Thread
  /\ Waiter \cap TimedWaiter = {}
  /\ IsFiniteSet(M!Thread)

\* A thread makes one call in each round: it sets or waits.
ASSUME EventualAssumption == Rounds \in Nat \ {0} /\ Setter \cap Waiter = {}

ASSUME FutureAssumption == Compartments \in Nat

ASSUME TimersAssumption == Null \notin Timer /\ MaxStarts \in Nat

\* Margo accepts no two pools and no two streams of one name, and knows the pools
\* of each stream of its configuration.
ASSUME ListsAssumption ==
  /\ FirstLists \in [L!Kind -> Seq(L!Name)]
  /\ \A k \in L!Kind : \A i, j \in 1..Len(FirstLists[k]) : FirstLists[k][i] = FirstLists[k][j] => i = j
  /\ DOMAIN PoolsUsed = L!Members(FirstLists["xstream"])
  /\ IsFiniteSet(User)

\* A scheduler is made with at least one pool, and every pool for a scheduler.
ASSUME UnitsAssumption ==
  /\ None \notin Unit /\ {"nothing", "cancel"} \cap Pools = {}
  /\ PoolsOf \in [Stream -> Seq(Pools) \ {<<>>}]
  /\ \A p \in Pools : \E e \in Stream : \E i \in 1..Len(PoolsOf[e]) : PoolsOf[e][i] = p
  /\ MaxRevivals \in Nat /\ MaxPauses \in Nat

-----------------------------------------------------------------------------

monitor  == <<owner, items, mpc>>
eventual == <<ready, value, round, epc, got>>
future   == <<built, called, array, given, ffun, fpc>>
timers   == <<alive, timer, callback, listed, created, calling, deleted, op, starts, cancelled>>
lists    == <<list, count, proxy, holds>>
workers  == <<state, managed, units, in_pool, home, fun, cut, asked, revivals, pauses, mode, unit,
              stop, phase>>

local == <<part, vars, monitor, eventual, future, timers, lists, workers>>

LocalInit ==
  /\ part \in {"objects", "monitor", "eventual", "future", "timed_callback", "lists", "work_units"}
  /\ IF part = "objects" THEN Init ELSE class = "mutex" /\ Init
  /\ M!Init /\ E!Init /\ F!Init /\ T!Init /\ L!Init /\ W!Init

OnlyObjects  == part = "objects" /\ UNCHANGED <<part, monitor, eventual, future, timers, lists, workers>>
OnlyMonitor  == part = "monitor" /\ UNCHANGED <<part, vars, eventual, future, timers, lists, workers>>
OnlyEventual == part = "eventual" /\ UNCHANGED <<part, vars, monitor, future, timers, lists, workers>>
OnlyFuture   == part = "future" /\ UNCHANGED <<part, vars, monitor, eventual, timers, lists, workers>>
OnlyTimers   == part = "timed_callback" /\ UNCHANGED <<part, vars, monitor, eventual, future, lists, workers>>
OnlyLists    == part = "lists" /\ UNCHANGED <<part, vars, monitor, eventual, future, timers, workers>>
OnlyUnits    == part = "work_units" /\ UNCHANGED <<part, vars, monitor, eventual, future, timers, lists>>

LocalNext ==
  \/ OnlyObjects /\ Next
  \/ OnlyMonitor /\ M!Next
  \/ OnlyEventual /\ E!Next
  \/ OnlyFuture /\ F!Next
  \/ OnlyTimers /\ T!Next
  \/ OnlyLists /\ L!Next
  \/ OnlyUnits /\ W!Next

LocalSpec == LocalInit /\ [][LocalNext]_local

-----------------------------------------------------------------------------
(* Fairness.  A thread that can go on goes on, also when a mutex is taken  *)
(* and released again and again: Argobots queues those who want it.        *)

MonitorStep(t) == OnlyMonitor /\ M!Step(t)
EventualStep == OnlyEventual /\ E!Next
FutureStep == OnlyFuture /\ F!Next

\* A scheduler keeps polling, a function returns, a blocked thread is resumed by
\* somebody, and the program goes on to its end.
SchedulerStep(e) == OnlyUnits /\ W!Scheduler(e)
ResumeStep(u)    == OnlyUnits /\ W!Resume(u)
ProgramStep      == OnlyUnits /\ W!Program

FairSpec ==
  /\ LocalSpec
  /\ \A t \in Waiter \cup TimedWaiter \cup Producer : SF_local(MonitorStep(t))
  /\ WF_local(EventualStep) /\ WF_local(FutureStep)
  /\ \A e \in Stream : WF_local(SchedulerStep(e))
  /\ \A u \in Unit : WF_local(ResumeStep(u))
  /\ WF_local(ProgramStep)

-----------------------------------------------------------------------------
(* Properties, defined and explained in the modules of the parts           *)

TypesOK == TypeOK /\ M!TypeOK /\ E!TypeOK /\ F!TypeOK /\ T!TypeOK /\ L!TypeOK /\ W!TypeOK

\* wait(lock, predicate) returns with the lock and the predicate.
PredicateHolds == M!PredicateHolds

\* Somebody is on the way to every item, or nobody sleeps.
NoSignalLost == M!NoSignalLost

\* eventual::wait returns the value that was set in its round.
ValueOfThisRound == E!ValueOfThisRound

\* The callback of a future runs once, with the objects, before a waiter returns.
CallbackFirst == F!CallbackFirst

\* The callback of a future receives the objects expected, and nothing else.
VectorIsObjects == F!VectorIsObjects

\* A timer's thread is never in a deleted function.
FunctionAlive == T!FunctionAlive

\* A cancelled timer does not call.
CancelHolds == T!CancelHolds

\* The references to a named pool or stream are those of its users.
ReferencesKept == L!ReferencesKept

\* A unit is in one pool, or run by one stream.
OnePlace == W!OnePlace

\* The function of a unit lives as long as it may be called.
FunctionOnce == W!FunctionOnce

\* Streams go on as long as they have a unit left.
NobodyLeftBehind == W!NobodyLeftBehind

\* Whatever the threads of a part do and however they interleave, all of them get
\* to their end: no signal of a condition variable is lost, every wait for an
\* eventual or a future returns, and so does every join of a unit or a stream.
EveryPartEnds ==
  <>(\/ part = "monitor" /\ M!EveryoneServed
     \/ part = "eventual" /\ E!EveryoneReturned
     \/ part = "future" /\ F!EveryoneReturned
     \/ part = "work_units" /\ W!ProgramEnded
     \/ part \in {"objects", "timed_callback", "lists"})
=============================================================================
