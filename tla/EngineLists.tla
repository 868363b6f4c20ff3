----------------------------- MODULE EngineLists -----------------------------
(***************************************************************************)
(* engine::pools() and engine::xstreams(): proxies of the lists of named   *)
(* objects that a Margo instance keeps, in which an object is found,       *)
(* counted, released and removed by its name, its index or its handle, and *)
(* named_object_proxy, which remembers the name and the index of what was  *)
(* found.  External, Margo's part: it counts references, does not remove   *)
(* what is referred to, moves up what follows a removed object, and an     *)
(* execution stream refers to its pools.                                   *)
(***************************************************************************)
EXTENDS Naturals, Sequences, FiniteSets

CONSTANTS
  FirstLists,   \* the names in each list of the configuration, in order
  PoolsUsed,    \* the pools of each execution stream
  User,         \* threads that use the lists
  Nothing,
  StaleIndex    \* may an index be used although the list has changed since?

VARIABLES
  list,         \* Margo's two lists
  count,        \* Margo's reference counts
  proxy,        \* the named_object_proxy each user has
  holds         \* users that have added a reference through theirs

vars == <<list, count, proxy, holds>>

Kind == {"pool", "xstream"}
Members(s) == {s[i] : i \in 1..Len(s)}
Name == Members(FirstLists["pool"]) \cup Members(FirstLists["xstream"])
NamedObjectProxy == [kind : Kind, name : Name, index : Nat]

TypeOK ==
  /\ \A k \in Kind : list[k] \in Seq(Name) /\ Len(list[k]) <= Len(FirstLists[k])
  /\ count \in [Name -> Nat]
  /\ proxy \in [User -> NamedObjectProxy \cup {Nothing}]
  /\ holds \subseteq User

Streams(n) == {x \in Members(list["xstream"]) : n \in PoolsUsed[x]}

Init ==
  /\ list = FirstLists
  /\ count = [n \in Name |-> Cardinality({x \in DOMAIN PoolsUsed : n \in PoolsUsed[x]})]
  /\ proxy = [u \in User |-> Nothing]
  /\ holds = {}

Listed(k, i) == IF i < Len(list[k]) THEN list[k][i + 1] ELSE Nothing

\* What a key stands for when it is used.  Handles and names go on to designate
\* what they were taken from; an index is looked up anew.
Target(p, key) ==
  CASE key = "index" -> IF StaleIndex \/ Listed(p.kind, p.index) = p.name
                        THEN Listed(p.kind, p.index) ELSE Nothing
    [] OTHER -> IF p.name \in Members(list[p.kind]) THEN p.name ELSE Nothing

Keys == {"name", "index", "handle"}

\* An operation through the proxy of u; a key that designates nothing makes it
\* throw, and nothing changes.
Reaches(u, key, n) == proxy[u] # Nothing /\ n # Nothing /\ n = Target(proxy[u], key)

-----------------------------------------------------------------------------

\* operator[], with any of the keys of what is in the list.
Find(u, k, i) ==
  /\ u \notin holds /\ Listed(k, i) # Nothing
  /\ proxy' = [proxy EXCEPT ![u] = [kind |-> k, name |-> Listed(k, i), index |-> i]]
  /\ UNCHANGED <<list, count, holds>>

RefIncr(u, key, n) ==
  /\ u \notin holds /\ Reaches(u, key, n)
  /\ count' = [count EXCEPT ![n] = @ + 1]
  /\ holds' = holds \cup {u}
  /\ UNCHANGED <<list, proxy>>

ReleaseIncrements(u, key, n) ==      \* mutant: the lambda of ref_incr in its place
  /\ u \in holds /\ Reaches(u, key, n)
  /\ count' = [count EXCEPT ![n] = @ + 1]
  /\ holds' = holds \ {u}
  /\ UNCHANGED <<list, proxy>>

Release(u, key, n) ==
  /\ u \in holds /\ Reaches(u, key, n) /\ count[n] > 0
  /\ count' = [count EXCEPT ![n] = @ - 1]
  /\ holds' = holds \ {u}
  /\ UNCHANGED <<list, proxy>>

\* The list s without its i-th object: what follows moves up.
Without(s, i) == SubSeq(s, 1, i - 1) \o SubSeq(s, i + 1, Len(s))

\* margo_remove_pool_by_..., margo_remove_xstream_by_...
MargoRemove(k, n) ==
  /\ count[n] = 0
  /\ \E i \in 1..Len(list[k]) : list[k][i] = n /\ list' = [list EXCEPT ![k] = Without(@, i)]
  /\ count' = [m \in Name |-> IF k = "xstream" /\ m \in PoolsUsed[n] THEN count[m] - 1 ELSE count[m]]

Remove(u, key, n) ==
  /\ u \notin holds /\ Reaches(u, key, n)
  /\ MargoRemove(proxy[u].kind, n)
  /\ UNCHANGED <<proxy, holds>>

Change(u, key, n) == RefIncr(u, key, n) \/ Release(u, key, n) \/ Remove(u, key, n)

Xstreams(u, key, n) == Reaches(u, key, n) /\ proxy[u].kind = "xstream" /\ Change(u, key, n)
PoolList(u, key, n) == Reaches(u, key, n) /\ proxy[u].kind = "pool" /\ Change(u, key, n)

Next ==
  \E u \in User :
    \/ \E k \in Kind : \E i \in 0..(Len(list[k]) - 1) : Find(u, k, i)
    \/ \E key \in Keys, n \in Name : Xstreams(u, key, n) \/ PoolList(u, key, n)

-----------------------------------------------------------------------------
(* Properties                                                              *)

\* Whichever key each of several threads uses for each of its calls, an object is
\* referred to by the threads that hold its proxy and by the streams that use it,
\* and by nothing else; and what is referred to stays in its list.
ReferencesKept ==
  \A n \in Name :
    LET users == {u \in holds : proxy[u].name = n} IN
    /\ count[n] = Cardinality(users) + Cardinality(Streams(n))
    /\ users # {} => n \in Members(list["pool"]) \cup Members(list["xstream"])
=============================================================================
