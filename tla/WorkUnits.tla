----------------------------- MODULE WorkUnits -----------------------------
(***************************************************************************)
(* Threads and tasks that run a std::function, the pools they wait in, and *)
(* the schedulers that take them out and run them on an execution stream:  *)
(* pool.hpp, thread.hpp, task.hpp, xstream.hpp and scheduler.hpp, with the *)
(* pool, unit and scheduler classes of examples/14_custom_sched plugged in *)
(* through pool_def and sched_def.  External: what Argobots does with the  *)
(* callbacks.  The program creates units, joins them, stops the streams    *)
(* and destroys the pools, in the order of the example.                    *)
(***************************************************************************)
EXTENDS Naturals, Sequences, FiniteSets

CONSTANTS
  Unit,       \* work units, numbered in the order of their creation
  Task,       \* those that are tasks: they cannot yield, block or migrate
  Stream,     \* execution streams, each with one scheduler
  Pool,
  PoolsOf,    \* the pools of each stream's scheduler, in order
  None,
  MaxRevivals,  \* bound on the calls that revive a unit
  MaxPauses     \* bound on the yields, suspensions and requests

VARIABLES
  state,      \* what Argobots says of each unit
  managed,    \* units that a managed<thread> or managed<task> owns
  units,      \* m_units of each pool
  in_pool,    \* m_in_pool of each unit
  home,       \* the pool each unit was last pushed to
  fun,        \* the std::function of each unit
  cut,        \* (history) units with a life that was cancelled or exited, or that
              \* could not be created or revived
  asked,      \* what was requested of each unit: nothing, cancel, or a pool
  revivals, pauses,  \* counters for the bounds
  mode,       \* where each scheduler's loop is
  unit,       \* the unit each scheduler has in its hands
  stop,       \* streams that are being joined
  phase       \* of the program that uses all this

vars == <<state, managed, units, in_pool, home, fun, cut, asked, revivals, pauses,
          mode, unit, stop, phase>>

TypeOK ==
  /\ state \in [Unit -> {"none", "ready", "running", "blocked", "terminated", "freed"}]
  /\ managed \subseteq Unit /\ cut \subseteq Unit
  /\ units \in [Pool -> Seq(Unit)]
  /\ in_pool \in [Unit -> BOOLEAN]
  /\ home \in [Unit -> Pool \cup {None}]
  /\ fun \in [Unit -> {"none", "held", "called"}]
  /\ asked \in [Unit -> {"nothing", "cancel"} \cup Pool]
  /\ revivals \in 0..MaxRevivals /\ pauses \in 0..MaxPauses
  /\ mode \in [Stream -> {"poll", "steal", "run", "in unit", "check", "stopped"}]
  /\ unit \in [Stream -> Unit \cup {None}]
  /\ stop \subseteq Stream
  /\ phase \in {"work", "join", "close", "done"}

Init ==
  /\ state = [u \in Unit |-> "none"]
  /\ managed = {} /\ cut = {}
  /\ units = [p \in Pool |-> <<>>]
  /\ in_pool = [u \in Unit |-> FALSE]
  /\ home = [u \in Unit |-> None]
  /\ fun = [u \in Unit |-> "none"]
  /\ asked = [u \in Unit |-> "nothing"]
  /\ revivals = 0 /\ pauses = 0
  /\ mode = [e \in Stream |-> "poll"]
  /\ unit = [e \in Stream |-> None]
  /\ stop = {}
  /\ phase = "work"

schedulers == <<mode, unit>>
program == <<stop, phase>>

-----------------------------------------------------------------------------
(* my_pool, called through pool_def; each operation holds the pool's mutex *)

Push(u, p) ==
  /\ units' = [units EXCEPT ![p] = Append(@, u)]
  /\ in_pool' = [in_pool EXCEPT ![u] = TRUE]
  /\ home' = [home EXCEPT ![u] = p]

PopKeeps(p) ==                       \* mutant: front() without pop_front()
  /\ in_pool' = [in_pool EXCEPT ![Head(units[p])] = FALSE]
  /\ UNCHANGED <<units, home>>

\* pop of a pool that is not empty.
Pop(p) ==
  /\ units' = [units EXCEPT ![p] = Tail(@)]
  /\ in_pool' = [in_pool EXCEPT ![Head(units[p])] = FALSE]
  /\ UNCHANGED home

\* remove, of the unit at position i of the pool.
Without(s, i) == SubSeq(s, 1, i - 1) \o SubSeq(s, i + 1, Len(s))

\* Where std::find finds a unit.
Positions(p, u) == {i \in 1..Len(units[p]) : units[p][i] = u}

-----------------------------------------------------------------------------
(* What the program does with threads and tasks                            *)

Creatable(u) == phase = "work" /\ state[u] = "none" /\ \A v \in 1..(u - 1) : state[v] # "none"

\* A new unit, managed or anonymous, in a pool.
Create(u, p) ==
  /\ Creatable(u)
  /\ state' = [state EXCEPT ![u] = "ready"]
  /\ managed' \in {managed, managed \cup {u}}
  /\ fun' = [fun EXCEPT ![u] = "held"]
  /\ Push(u, p)
  /\ UNCHANGED <<cut, asked, revivals, pauses, schedulers, program>>

\* make_thread and make_task of a pool, and of a stream, which uses the first pool
\* of its scheduler.
Make(u, p) == Create(u, p)
MakeOnStream(u, e) == Create(u, PoolsOf[e][1])

ReviveOld(u, p) ==                   \* mutant: no function is allocated
  /\ phase = "work" /\ u \in managed /\ state[u] = "terminated" /\ revivals < MaxRevivals
  /\ state' = [state EXCEPT ![u] = "ready"]
  /\ revivals' = revivals + 1
  /\ Push(u, p)
  /\ UNCHANGED <<managed, fun, cut, asked, pauses, schedulers, program>>

\* revive_thread and revive_task, of a unit that has been joined.
Revive(u, p) ==
  /\ phase = "work" /\ u \in managed /\ state[u] = "terminated" /\ revivals < MaxRevivals
  /\ state' = [state EXCEPT ![u] = "ready"]
  /\ fun' = [fun EXCEPT ![u] = "held"]
  /\ revivals' = revivals + 1
  /\ Push(u, p)
  /\ UNCHANGED <<managed, cut, asked, pauses, schedulers, program>>

\* Argobots fails to create a unit, or to revive one, and the exception leaves the
\* new function to nobody.
CreateFails(u) ==
  /\ Creatable(u)
  /\ state' = [state EXCEPT ![u] = "freed"]
  /\ fun' = [fun EXCEPT ![u] = "held"]
  /\ cut' = cut \cup {u}
  /\ UNCHANGED <<managed, units, in_pool, home, asked, revivals, pauses, schedulers, program>>

ReviveFails(u) ==
  /\ phase = "work" /\ u \in managed /\ state[u] = "terminated" /\ revivals < MaxRevivals
  /\ fun' = [fun EXCEPT ![u] = "held"]
  /\ cut' = cut \cup {u}
  /\ revivals' = revivals + 1
  /\ UNCHANGED <<state, managed, units, in_pool, home, asked, pauses, schedulers, program>>

Unfinished(u) == state[u] \in {"ready", "running", "blocked"}

Request(u, what) ==
  /\ phase = "work" /\ u \in managed /\ Unfinished(u) /\ asked[u] = "nothing"
  /\ pauses < MaxPauses
  /\ asked' = [asked EXCEPT ![u] = what]
  /\ pauses' = pauses + 1
  /\ UNCHANGED <<state, managed, units, in_pool, home, fun, cut, revivals, schedulers, program>>

\* cancel and migrate_to leave a request, which is granted when a scheduler has
\* the unit next.  The errors of migrate_to are not reported.
Cancel(u) == Request(u, "cancel")
MigrateTo(u, p) == u \notin Task /\ Request(u, p)

\* thread::resume, by whoever the blocked thread is waiting for.
Resume(u) ==
  /\ state[u] = "blocked"
  /\ state' = [state EXCEPT ![u] = "ready"]
  /\ Push(u, home[u])
  /\ UNCHANGED <<managed, fun, cut, asked, revivals, pauses, schedulers, program>>

\* join of every managed unit; then their destructors free them.
JoinUnits ==
  /\ \/ phase = "work" /\ phase' = "join" /\ UNCHANGED <<state, managed>>
     \/ /\ phase = "join" /\ \A u \in managed : state[u] = "terminated"
        /\ state' = [u \in Unit |-> IF u \in managed THEN "freed" ELSE state[u]]
        /\ managed' = {}
        /\ phase' = "close"
  /\ UNCHANGED <<units, in_pool, home, fun, cut, asked, revivals, pauses, schedulers, stop>>

\* xstream::join, of one stream after the other.
JoinStream(e) ==
  /\ phase = "close" /\ e \notin stop
  /\ \A f \in stop : mode[f] = "stopped"
  /\ stop' = stop \cup {e}
  /\ UNCHANGED <<state, managed, units, in_pool, home, fun, cut, asked, revivals, pauses,
                 schedulers, phase>>

DestroyPools ==
  /\ phase = "close" /\ \A e \in Stream : mode[e] = "stopped"
  /\ phase' = "done"
  /\ UNCHANGED <<state, managed, units, in_pool, home, fun, cut, asked, revivals, pauses,
                 schedulers, stop>>

-----------------------------------------------------------------------------
(* my_scheduler::run, on stream e                                          *)

Take(e, p) ==
  /\ Pop(p)
  /\ unit' = [unit EXCEPT ![e] = Head(units[p])]
  /\ mode' = [mode EXCEPT ![e] = "run"]

\* The scheduler takes a unit from its first pool; if that is empty, and there are
\* others, it goes on to steal one.
Poll(e) ==
  /\ mode[e] = "poll"
  /\ LET own == PoolsOf[e][1] IN
     IF units[own] # <<>>
     THEN Take(e, own)
     ELSE /\ mode' = [mode EXCEPT ![e] = IF Len(PoolsOf[e]) > 1 THEN "steal" ELSE "check"]
          /\ UNCHANGED <<unit, units, in_pool, home>>
  /\ UNCHANGED <<state, managed, fun, cut, asked, revivals, pauses, program>>

\* It tries one of the others, chosen at random, whatever has come to the first
\* meanwhile.
Steal(e) ==
  /\ mode[e] = "steal"
  /\ \E i \in 2..Len(PoolsOf[e]) :
       IF units[PoolsOf[e][i]] # <<>>
       THEN Take(e, PoolsOf[e][i])
       ELSE /\ mode' = [mode EXCEPT ![e] = "check"]
            /\ UNCHANGED <<unit, units, in_pool, home>>
  /\ UNCHANGED <<state, managed, fun, cut, asked, revivals, pauses, program>>

\* A unit ends: what is anonymous is freed.  Its last pool and the requests that
\* came too late are forgotten.
End(u) ==
  /\ state' = [state EXCEPT ![u] = IF u \in managed THEN "terminated" ELSE "freed"]
  /\ home' = [home EXCEPT ![u] = None]
  /\ asked' = [asked EXCEPT ![u] = "nothing"]

\* The scheduler is done with its unit.
Leave(e) ==
  /\ unit' = [unit EXCEPT ![e] = None]
  /\ mode' = [mode EXCEPT ![e] = "check"]

\* pool::run_unit: requests are granted first.  A cancelled unit ends and its
\* function is not deleted; a migrating one is pushed into its new pool.
RunUnit(e) ==
  /\ mode[e] = "run"
  /\ LET u == unit[e] IN
     \/ /\ asked[u] = "cancel"
        /\ End(u) /\ Leave(e)
        /\ cut' = cut \cup {u}
        /\ UNCHANGED <<units, in_pool, fun>>
     \/ /\ asked[u] \in Pool
        /\ Push(u, asked[u]) /\ Leave(e)
        /\ asked' = [asked EXCEPT ![u] = "nothing"]
        /\ UNCHANGED <<state, cut, fun>>
     \/ /\ asked[u] = "nothing"
        /\ state' = [state EXCEPT ![u] = "running"]
        /\ fun' = [fun EXCEPT ![u] = "called"]
        /\ mode' = [mode EXCEPT ![e] = "in unit"]
        /\ UNCHANGED <<unit, units, in_pool, home, cut, asked>>
  /\ UNCHANGED <<managed, revivals, pauses, program>>

\* yield and yield_to: the thread goes back to its pool, and the scheduler, or
\* the thread that was named, is next.  The named one must be in a pool, and it
\* is assumed that this is one of the pools of the scheduler.
Yield(e) ==
  /\ mode[e] = "in unit"
  /\ LET u == unit[e] IN
     /\ u \notin Task /\ pauses < MaxPauses
     /\ pauses' = pauses + 1
     /\ state' = [state EXCEPT ![u] = "ready"]
     /\ \/ Push(u, home[u]) /\ Leave(e)
        \/ \E v \in Unit \ (Task \cup {u}) :
             /\ in_pool[v] /\ \E i \in 1..Len(PoolsOf[e]) : PoolsOf[e][i] = home[v]
             /\ \E i \in Positions(home[v], v) :
                  units' = LET rest == [units EXCEPT ![home[v]] = Without(@, i)]
                           IN  [rest EXCEPT ![home[u]] = Append(@, u)]
             /\ in_pool' = [in_pool EXCEPT ![v] = FALSE, ![u] = TRUE]
             /\ unit' = [unit EXCEPT ![e] = v]
             /\ mode' = [mode EXCEPT ![e] = "run"]
             /\ UNCHANGED home
  /\ UNCHANGED <<managed, fun, cut, asked, revivals, program>>

\* self::suspend, and every wait of a synchronization object.
Suspend(e) ==
  /\ mode[e] = "in unit"
  /\ LET u == unit[e] IN
     /\ u \notin Task /\ pauses < MaxPauses
     /\ pauses' = pauses + 1
     /\ state' = [state EXCEPT ![u] = "blocked"]
  /\ Leave(e)
  /\ UNCHANGED <<managed, units, in_pool, home, fun, cut, asked, revivals, program>>

\* forward_work_unit: when the function has returned, it is deleted.
Return(e) ==
  /\ mode[e] = "in unit"
  /\ fun' = [fun EXCEPT ![unit[e]] = "none"]
  /\ End(unit[e]) /\ Leave(e)
  /\ UNCHANGED <<managed, units, in_pool, cut, revivals, pauses, program>>

\* thread::exit does not come back to forward_work_unit.
Exit(e) ==
  /\ mode[e] = "in unit" /\ unit[e] \notin Task
  /\ cut' = cut \cup {unit[e]}
  /\ End(unit[e]) /\ Leave(e)
  /\ UNCHANGED <<managed, units, in_pool, fun, revivals, pauses, program>>

StopsEarly(e) ==                     \* mutant: only the ready units of the first pool count
  e \in stop /\ units[PoolsOf[e][1]] = <<>>

\* has_to_stop: the stream is being joined, and the pools of its scheduler hold
\* no unit, not even one that is blocked or on its way to them.
HasToStop(e) ==
  /\ e \in stop
  /\ \A i \in 1..Len(PoolsOf[e]) : LET p == PoolsOf[e][i] IN
       /\ units[p] = <<>>
       /\ \A u \in Unit : Unfinished(u) => asked[u] # p /\ (state[u] = "blocked" => home[u] # p)

\* The end of the loop; otherwise check_events, and again.
Check(e) ==
  /\ mode[e] = "check"
  /\ mode' = [mode EXCEPT ![e] = IF HasToStop(e) THEN "stopped" ELSE "poll"]
  /\ UNCHANGED <<state, managed, units, in_pool, home, fun, cut, asked, revivals, pauses, unit,
                 program>>

Scheduler(e) == Poll(e) \/ Steal(e) \/ RunUnit(e) \/ Return(e) \/ Check(e)

Program == JoinUnits \/ DestroyPools \/ \E e \in Stream : JoinStream(e)

Next ==
  \/ Program
  \/ \E u \in Unit, p \in Pool : Make(u, p) \/ Revive(u, p) \/ MigrateTo(u, p)
  \/ \E u \in Unit, e \in Stream : MakeOnStream(u, e)
  \/ \E u \in Unit : CreateFails(u) \/ ReviveFails(u) \/ Cancel(u) \/ Resume(u)
  \/ \E e \in Stream : Scheduler(e) \/ Yield(e) \/ Suspend(e) \/ Exit(e)

-----------------------------------------------------------------------------
(* Properties                                                              *)

Places(u) == (UNION {{p} \X Positions(p, u) : p \in Pool}) \cup {e \in Stream : unit[e] = u}

\* A unit that can run is in one place: one position of one pool, or the hands of
\* one scheduler, however units are yielded to, stolen, migrated and revived; a
\* unit that is blocked or has ended is in none; and its flag tells which.
OnePlace ==
  \A u \in Unit :
    /\ Cardinality(Places(u)) = IF state[u] \in {"ready", "running"} THEN 1 ELSE 0
    /\ in_pool[u] <=> \E p \in Pool : Positions(p, u) # {}
    /\ in_pool[u] => Positions(home[u], u) # {}

\* The function of a unit is there as long as the unit may call it, and is deleted
\* when the unit has ended, unless it was cancelled, called thread::exit or could
\* not be created or revived.
FunctionOnce ==
  \A u \in Unit :
    /\ state[u] \in {"ready", "running", "blocked"} => fun[u] # "none"
    /\ state[u] \in {"terminated", "freed"} => fun[u] = "none" \/ u \in cut

\* As long as a unit is not finished, be it in a pool, blocked, migrating or in the
\* hands of a scheduler, the pool it comes back to is that of a stream that has not
\* stopped.  So streams are joined and pools destroyed when no unit is left behind.
NobodyLeftBehind ==
  \A u \in Unit : Unfinished(u) =>
    \E e \in Stream : mode[e] # "stopped" /\ \E i \in 1..Len(PoolsOf[e]) : PoolsOf[e][i] = home[u]

\* What every behaviour comes to: each join of a thread, a task or a stream returns,
\* and the program ends.
ProgramEnded == phase = "done"
=============================================================================
