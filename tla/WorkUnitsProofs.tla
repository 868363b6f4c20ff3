---------------------------- MODULE WorkUnitsProofs ----------------------------
(***************************************************************************)
(* Proofs about WorkUnits, as a part of Local: for any numbers of units,   *)
(* pools and streams, a unit is in one place, its function lives as long   *)
(* as it may be called, and streams stop when no unit is left.             *)
(***************************************************************************)
EXTENDS Local, FiniteSetTheorems, SequenceTheorems, TLAPS

\* The scheduler of e takes units from pool p.
Uses(e, p) == \E i \in 1..Len(PoolsOf[e]) : PoolsOf[e][i] = p

\* Of pools, flags and last pools: a unit is once in the pool it was last pushed to,
\* if its flag is set, and in no other.
PoolsOK(us, ip, h) ==
  /\ \A p \in Pools : \A i \in 1..Len(us[p]) : ip[us[p][i]] /\ h[us[p][i]] = p
  /\ \A p \in Pools : \A i, j \in 1..Len(us[p]) : us[p][i] = us[p][j] => i = j
  /\ \A u \in Unit : ip[u] => h[u] \in Pools /\ \E i \in 1..Len(us[h[u]]) : us[h[u]][i] = u

Placed == PoolsOK(units, in_pool, home)

\* What a scheduler has in its hands is in no pool and nobody else's, and would go
\* back to one of its pools.
Hand(e) ==
  \/ mode[e] \notin {"run", "in unit"} /\ unit[e] = None
  \/ /\ mode[e] \in {"run", "in unit"} /\ unit[e] \in Unit
     /\ state[unit[e]] = IF mode[e] = "run" THEN "ready" ELSE "running"
     /\ ~in_pool[unit[e]] /\ Uses(e, home[unit[e]])
     /\ \A f \in Stream : unit[f] = unit[e] => f = e

Hands == \A e \in Stream : Hand(e)

\* A unit that can run is in a pool or in somebody's hands, and ready in the former.
Found ==
  \A u \in Unit :
    /\ state[u] \in {"ready", "running"} => in_pool[u] \/ \E e \in Stream : unit[e] = u
    /\ in_pool[u] => state[u] = "ready"

\* Requests are made of managed units, and forgotten when these end.
Requests == \A u \in Unit : asked[u] # "nothing" => u \in managed /\ W!Unfinished(u)

\* Streams stop after all managed units were joined.
Phases ==
  /\ phase \in {"work", "join"} => stop = {}
  /\ phase \in {"close", "done"} => managed = {}
  /\ \A e \in Stream : mode[e] = "stopped" => e \in stop

\* The pool that a unit is in, or would be pushed to, is that of a stream that goes on.
Covered ==
  \A u \in Unit : W!Unfinished(u) => \E e \in Stream : mode[e] # "stopped" /\ Uses(e, home[u])

UnitsInv ==
  /\ W!TypeOK
  /\ Placed /\ Hands /\ Found
  /\ W!FunctionOnce
  /\ Requests /\ Phases /\ Covered

-----------------------------------------------------------------------------
(* Pools                                                                   *)

\* A pool without the unit at position i.
LEMMA WithoutProperties ==
  ASSUME NEW S, NEW s \in Seq(S), NEW i \in DOMAIN s
  PROVE  /\ W!Without(s, i) \in Seq(S)
         /\ Len(W!Without(s, i)) = Len(s) - 1
         /\ \A j \in 1..(Len(s) - 1) : W!Without(s, i)[j] = IF j < i THEN s[j] ELSE s[j + 1]
<1> DEFINE n == Len(s)
           a == SubSeq(s, 1, i - 1)
           b == SubSeq(s, i + 1, n)
<1>1. n \in Nat /\ DOMAIN s = 1..n /\ i \in 1..n /\ \A j \in 1..n : s[j] \in S
  BY LenProperties
<1>2. a \in Seq(S) /\ Len(a) = i - 1 /\ \A j \in 1..(i - 1) : a[j] = s[j]
  <2>1. \A j \in 1..(i - 1) : s[j] \in S
    BY <1>1
  <2> QED
    BY <1>1, <2>1, SubSeqProperties
<1>3. b \in Seq(S) /\ Len(b) = n - i /\ \A j \in 1..(n - i) : b[j] = s[i + j]
  <2>1. \A j \in (i + 1)..n : s[j] \in S
    BY <1>1
  <2>2. /\ b \in Seq(S) /\ Len(b) = (IF i + 1 <= n THEN n - (i + 1) + 1 ELSE 0)
        /\ \A j \in 1..(n - (i + 1) + 1) : b[j] = s[i + 1 + j - 1]
    BY <1>1, <2>1, SubSeqProperties
  <2>3. Len(b) = n - i
    BY <1>1, <2>2
  <2>4. ASSUME NEW j \in 1..(n - i) PROVE b[j] = s[i + j]
    <3>1. j \in 1..(n - (i + 1) + 1) /\ i + 1 + j - 1 = i + j
      BY <1>1
    <3>2. b[j] = s[i + 1 + j - 1]
      BY <2>2, <3>1
    <3> QED
      BY <3>1, <3>2
  <2> HIDE DEF b
  <2> QED
    BY <2>2, <2>3, <2>4
<1>4. W!Without(s, i) = a \o b
  BY DEF W!Without
<1> HIDE DEF a, b
<1>5. /\ a \o b \in Seq(S) /\ Len(a \o b) = Len(a) + Len(b)
      /\ \A j \in 1..(Len(a) + Len(b)) :
           (a \o b)[j] = IF j <= Len(a) THEN a[j] ELSE b[j - Len(a)]
  BY <1>2, <1>3, ConcatProperties
<1>6. \A j \in 1..(n - 1) : (a \o b)[j] = IF j < i THEN s[j] ELSE s[j + 1]
  <2> SUFFICES ASSUME NEW j \in 1..(n - 1)
               PROVE  (a \o b)[j] = IF j < i THEN s[j] ELSE s[j + 1]
    OBVIOUS
  <2>1. (a \o b)[j] = IF j <= i - 1 THEN a[j] ELSE b[j - (i - 1)]
    BY SMTT(20), <1>1, <1>2, <1>3, <1>5
  <2>2. CASE j < i
    BY <1>1, <1>2, <2>1, <2>2
  <2>3. CASE ~(j < i)
    <3>1. j - (i - 1) \in 1..(n - i) /\ i + (j - (i - 1)) = j + 1
      BY <1>1, <2>3
    <3>2. b[j - (i - 1)] = s[j + 1]
      BY <1>3, <3>1
    <3> QED
      BY <1>1, <2>1, <2>3, <3>2
  <2> QED
    BY <2>2, <2>3
<1> QED
  BY SMTT(20), <1>1, <1>2, <1>3, <1>4, <1>5, <1>6

\* The elements of a pool are units.
LEMMA PoolElements ==
  ASSUME NEW us \in [Pools -> Seq(Unit)], NEW p \in Pools
  PROVE  /\ us[p] \in Seq(Unit) /\ Len(us[p]) \in Nat
         /\ \A i \in 1..Len(us[p]) : us[p][i] \in Unit
<1>1. us[p] \in Seq(Unit)
  OBVIOUS
<1>2. QED BY <1>1, LenProperties, ElementOfSeq

\* A unit that is in no pool is pushed into one.
LEMMA PushedOK ==
  ASSUME NEW us \in [Pools -> Seq(Unit)], NEW ip \in [Unit -> BOOLEAN],
         NEW h \in [Unit -> Pools \cup {None}], PoolsOK(us, ip, h),
         NEW u \in Unit, NEW p \in Pools, ~ip[u]
  PROVE  /\ [us EXCEPT ![p] = Append(@, u)] \in [Pools -> Seq(Unit)]
         /\ PoolsOK([us EXCEPT ![p] = Append(@, u)], [ip EXCEPT ![u] = TRUE], [h EXCEPT ![u] = p])
<1> DEFINE s  == Append(us[p], u)
           us2 == [us EXCEPT ![p] = Append(@, u)]
           ip2 == [ip EXCEPT ![u] = TRUE]
           h2  == [h EXCEPT ![u] = p]
<1>1. /\ us[p] \in Seq(Unit) /\ Len(us[p]) \in Nat
      /\ \A q \in Pools : Len(us[q]) \in Nat /\ \A i \in 1..Len(us[q]) : us[q][i] \in Unit
  BY PoolElements
<1>2. /\ s \in Seq(Unit) /\ Len(s) = Len(us[p]) + 1
      /\ \A i \in 1..Len(us[p]) : s[i] = us[p][i]
      /\ s[Len(us[p]) + 1] = u
  BY <1>1, AppendProperties
<1>3. us2 \in [Pools -> Seq(Unit)] /\ us2[p] = s /\ \A q \in Pools : q # p => us2[q] = us[q]
  BY <1>2
<1>4. /\ ip2 \in [Unit -> BOOLEAN] /\ ip2[u] /\ \A v \in Unit : v # u => ip2[v] = ip[v]
      /\ h2 \in [Unit -> Pools \cup {None}] /\ h2[u] = p /\ \A v \in Unit : v # u => h2[v] = h[v]
  OBVIOUS
<1> HIDE DEF s, us2, ip2, h2
<1>5. \A q \in Pools : \A i \in 1..Len(us[q]) : us[q][i] # u
  BY DEF PoolsOK
<1>6. \A q \in Pools : \A i \in 1..Len(us2[q]) :
        \/ i \in 1..Len(us[q]) /\ us2[q][i] = us[q][i]
        \/ q = p /\ i = Len(us[q]) + 1 /\ us2[q][i] = u
  BY SMTT(20), <1>1, <1>2, <1>3
<1>7. \A q \in Pools : \A i \in 1..Len(us[q]) : i \in 1..Len(us2[q]) /\ us2[q][i] = us[q][i]
  BY <1>1, <1>2, <1>3
<1>8. ASSUME NEW q \in Pools, NEW i \in 1..Len(us2[q])
      PROVE  ip2[us2[q][i]] /\ h2[us2[q][i]] = q
  <2>1. CASE i \in 1..Len(us[q]) /\ us2[q][i] = us[q][i]
    <3>1. us[q][i] \in Unit /\ us[q][i] # u
      BY <1>1, <1>5, <2>1
    <3>2. ip[us[q][i]] /\ h[us[q][i]] = q
      BY <2>1 DEF PoolsOK
    <3>3. QED BY <1>4, <2>1, <3>1, <3>2
  <2>2. CASE q = p /\ us2[q][i] = u
    BY <1>4, <2>2
  <2>3. QED BY <1>6, <2>1, <2>2
<1>9. ASSUME NEW q \in Pools, NEW i \in 1..Len(us2[q]), NEW j \in 1..Len(us2[q]),
             us2[q][i] = us2[q][j]
      PROVE  i = j
  <2>1. CASE i = Len(us[q]) + 1 /\ j = Len(us[q]) + 1
    BY <2>1
  <2>2. CASE i \in 1..Len(us[q]) /\ j \in 1..Len(us[q])
    <3>1. Len(us[q]) + 1 \notin 1..Len(us[q])
      BY <1>1
    <3>2. us2[q][i] = us[q][i] /\ us2[q][j] = us[q][j]
      BY <1>6, <2>2, <3>1
    <3>3. us[q][i] = us[q][j]
      BY <1>9, <3>2
    <3>4. QED BY <2>2, <3>3 DEF PoolsOK
  <2>3. CASE us2[q][i] = u /\ j \in 1..Len(us[q])
    <3>1. Len(us[q]) + 1 \notin 1..Len(us[q])
      BY <1>1
    <3>2. us2[q][j] = us[q][j]
      BY <1>6, <2>3, <3>1
    <3>3. QED BY <1>5, <1>9, <2>3, <3>2
  <2>4. CASE us2[q][j] = u /\ i \in 1..Len(us[q])
    <3>1. Len(us[q]) + 1 \notin 1..Len(us[q])
      BY <1>1
    <3>2. us2[q][i] = us[q][i]
      BY <1>6, <2>4, <3>1
    <3>3. QED BY <1>5, <1>9, <2>4, <3>2
  <2>5. QED BY <1>6, <2>1, <2>2, <2>3, <2>4
<1>10. ASSUME NEW v \in Unit, ip2[v]
       PROVE  h2[v] \in Pools /\ \E i \in 1..Len(us2[h2[v]]) : us2[h2[v]][i] = v
  <2>1. CASE v = u
    <3>1. Len(s) \in 1..Len(s)
      BY <1>1, <1>2
    <3>2. QED BY <1>2, <1>3, <1>4, <2>1, <3>1
  <2>2. CASE v # u
    <3>1. h[v] \in Pools /\ h2[v] = h[v]
      BY <1>4, <1>10, <2>2 DEF PoolsOK
    <3>2. PICK i \in 1..Len(us[h[v]]) : us[h[v]][i] = v
      BY <1>4, <1>10, <2>2 DEF PoolsOK
    <3>3. QED BY <1>7, <3>1, <3>2
  <2>3. QED BY <2>1, <2>2
<1>11. PoolsOK(us2, ip2, h2)
  BY <1>8, <1>9, <1>10 DEF PoolsOK
<1>12. QED BY <1>3, <1>11 DEF us2, ip2, h2

\* A unit is taken out of a pool, wherever it is.
LEMMA ErasedOK ==
  ASSUME NEW us \in [Pools -> Seq(Unit)], NEW ip \in [Unit -> BOOLEAN], NEW h,
         PoolsOK(us, ip, h),
         NEW p \in Pools, NEW k \in 1..Len(us[p])
  PROVE  /\ [us EXCEPT ![p] = W!Without(@, k)] \in [Pools -> Seq(Unit)]
         /\ PoolsOK([us EXCEPT ![p] = W!Without(@, k)], [ip EXCEPT ![us[p][k]] = FALSE], h)
         /\ us[p][k] \in Unit
<1> DEFINE s  == W!Without(us[p], k)
           u  == us[p][k]
           us2 == [us EXCEPT ![p] = W!Without(@, k)]
           ip2 == [ip EXCEPT ![u] = FALSE]
<1>1. /\ us[p] \in Seq(Unit) /\ Len(us[p]) \in Nat
      /\ \A q \in Pools : Len(us[q]) \in Nat /\ \A i \in 1..Len(us[q]) : us[q][i] \in Unit
  BY PoolElements
<1>2. /\ s \in Seq(Unit) /\ Len(s) = Len(us[p]) - 1
      /\ \A j \in 1..(Len(us[p]) - 1) : s[j] = IF j < k THEN us[p][j] ELSE us[p][j + 1]
  <2>1. DOMAIN us[p] = 1..Len(us[p])
    BY <1>1, LenProperties
  <2>2. k \in DOMAIN us[p]
    BY <2>1
  <2>3. /\ W!Without(us[p], k) \in Seq(Unit)
        /\ Len(W!Without(us[p], k)) = Len(us[p]) - 1
        /\ \A j \in 1..(Len(us[p]) - 1) :
             W!Without(us[p], k)[j] = IF j < k THEN us[p][j] ELSE us[p][j + 1]
    BY <1>1, <2>2, WithoutProperties
  <2>4. QED BY <2>3
<1>3. us2 \in [Pools -> Seq(Unit)] /\ us2[p] = s /\ \A q \in Pools : q # p => us2[q] = us[q]
  BY <1>2
<1>4. u \in Unit
  BY <1>1
<1>5. ip2 \in [Unit -> BOOLEAN] /\ ~ip2[u] /\ \A v \in Unit : v # u => ip2[v] = ip[v]
  BY <1>4
<1> HIDE DEF s, us2, ip2
<1>6. \A q \in Pools : \A i \in 1..Len(us2[q]) :
        IF q = p THEN IF i < k THEN i \in 1..Len(us[q]) /\ us2[q][i] = us[q][i]
                               ELSE i + 1 \in 1..Len(us[q]) /\ us2[q][i] = us[q][i + 1]
                 ELSE us2[q] = us[q]
  BY <1>1, <1>2, <1>3
<1>7. \A q \in Pools : \A i \in 1..Len(us[q]) : us[q][i] = u => q = p /\ i = k
  <2> SUFFICES ASSUME NEW q \in Pools, NEW i \in 1..Len(us[q]), us[q][i] = u
               PROVE  q = p /\ i = k
    OBVIOUS
  <2>1. h[us[q][i]] = q /\ h[us[p][k]] = p
    BY DEF PoolsOK
  <2>2. q = p
    BY <2>1
  <2>3. QED BY <2>2 DEF PoolsOK
<1>8. ASSUME NEW q \in Pools, NEW i \in 1..Len(us2[q])
      PROVE  us2[q][i] \in Unit /\ us2[q][i] # u /\ ip[us2[q][i]] /\ h[us2[q][i]] = q
  <2>1. PICK m \in 1..Len(us[q]) : us2[q][i] = us[q][m] /\ (q = p => m # k)
    <3>1. i \in Nat /\ k \in Nat
      BY <1>1, <1>2, <1>3
    <3>2. QED BY SMTT(20), <1>1, <1>6, <3>1
  <2>2. us[q][m] \in Unit /\ us[q][m] # u
    BY <1>1, <1>7, <2>1
  <2>3. ip[us[q][m]] /\ h[us[q][m]] = q
    BY <2>1 DEF PoolsOK
  <2>4. QED BY <2>1, <2>2, <2>3
<1>9. ASSUME NEW q \in Pools, NEW i \in 1..Len(us2[q]), NEW j \in 1..Len(us2[q]),
             us2[q][i] = us2[q][j]
      PROVE  i = j
  <2>1. CASE q # p
    BY <1>6, <1>9, <2>1 DEF PoolsOK
  <2>2. CASE q = p
    <3>1. i \in Nat /\ j \in Nat /\ k \in Nat
      BY <1>1, <1>2, <1>3
    <3>2. QED BY SMTT(20), <1>1, <1>6, <1>9, <2>2, <3>1 DEF PoolsOK
  <2>3. QED BY <2>1, <2>2
<1>10. ASSUME NEW v \in Unit, ip2[v]
       PROVE  h[v] \in Pools /\ \E i \in 1..Len(us2[h[v]]) : us2[h[v]][i] = v
  <2>1. v # u /\ ip[v]
    BY <1>5, <1>10
  <2>2. h[v] \in Pools
    BY <2>1 DEF PoolsOK
  <2>3. PICK m \in 1..Len(us[h[v]]) : us[h[v]][m] = v
    BY <2>1 DEF PoolsOK
  <2>4. CASE h[v] # p
    BY <1>3, <2>2, <2>3, <2>4
  <2>5. CASE h[v] = p
    <3>1. m # k /\ m \in 1..Len(us[p])
      BY <2>1, <2>3, <2>5
    <3>2. CASE m < k
      <4>1. m \in 1..Len(s) /\ s[m] = v
        BY <1>1, <1>2, <2>3, <2>5, <3>1, <3>2
      <4>2. QED BY <1>3, <2>2, <2>5, <4>1
    <3>3. CASE m > k
      <4>1. m - 1 \in 1..Len(s) /\ s[m - 1] = v
        BY <1>1, <1>2, <2>3, <2>5, <3>1, <3>3
      <4>2. QED BY <1>3, <2>2, <2>5, <4>1
    <3>4. QED BY <1>1, <3>1, <3>2, <3>3
  <2>6. QED BY <2>2, <2>4, <2>5
<1>11. PoolsOK(us2, ip2, h)
  <2>1. \A q \in Pools : \A i \in 1..Len(us2[q]) : ip2[us2[q][i]] /\ h[us2[q][i]] = q
    BY <1>5, <1>8
  <2>2. QED BY <1>9, <1>10, <2>1 DEF PoolsOK
<1>12. QED BY <1>3, <1>4, <1>11 DEF us2, ip2

\* The front of a pool is erased by pop.
LEMMA TailOfPool ==
  ASSUME NEW s \in Seq(Unit), s # <<>>
  PROVE  Tail(s) = W!Without(s, 1) /\ Head(s) = s[1] /\ 1 \in 1..Len(s)
<1>1. Len(s) \in Nat /\ Len(s) # 0
  BY LenProperties, EmptySeq
<1>2. Tail(s) = SubSeq(s, 2, Len(s)) /\ Tail(s) \in Seq(Unit)
  BY TailIsSubSeq, HeadTailProperties
<1>3. SubSeq(s, 1, 0) = <<>>
  BY SubSeqEmpty
<1>4. <<>> \o Tail(s) = Tail(s)
  BY <1>2, ConcatEmptySeq
<1>5. Head(s) = s[1]
  BY <1>1
<1>6. W!Without(s, 1) = SubSeq(s, 1, 0) \o SubSeq(s, 2, Len(s))
  BY DEF W!Without
<1>7. QED BY <1>1, <1>2, <1>3, <1>4, <1>5, <1>6

\* The last pool of a unit that is in none does not matter.
LEMMA ForgottenOK ==
  ASSUME NEW us \in [Pools -> Seq(Unit)], NEW ip \in [Unit -> BOOLEAN],
         NEW h \in [Unit -> Pools \cup {None}], PoolsOK(us, ip, h),
         NEW u \in Unit, NEW q, ~ip[u]
  PROVE  PoolsOK(us, ip, [h EXCEPT ![u] = q])
<1>1. \A p \in Pools : \A i \in 1..Len(us[p]) : us[p][i] # u
  BY DEF PoolsOK
<1>2. \A p \in Pools : \A i \in 1..Len(us[p]) : us[p][i] \in Unit
  BY PoolElements
<1>3. \A v \in Unit : v # u => [h EXCEPT ![u] = q][v] = h[v]
  OBVIOUS
<1>4. QED BY <1>1, <1>2, <1>3 DEF PoolsOK

-----------------------------------------------------------------------------
(* What the program does                                                   *)

\* At first there are no units.
LEMMA UnitsInit == W!Init => UnitsInv
<1> SUFFICES ASSUME W!Init PROVE UnitsInv
  OBVIOUS
<1> USE DEF W!Init
<1>1. W!TypeOK
  BY UnitsAssumption, EmptySeq DEF W!TypeOK
<1>2. Placed
  BY EmptySeq DEF Placed, PoolsOK
<1>3. Hands /\ Found /\ W!FunctionOnce /\ Requests /\ Phases /\ Covered
  BY DEF Hands, Hand, Found, W!FunctionOnce, Requests, Phases, Covered, W!Unfinished
<1>4. QED BY <1>1, <1>2, <1>3 DEF UnitsInv

\* While the program works, every pool is that of a stream that goes on.
LEMMA PoolsServed ==
  ASSUME UnitsInv, phase \in {"work", "join"}, NEW p \in Pools
  PROVE  \E e \in Stream : mode[e] # "stopped" /\ Uses(e, p)
<1>1. PICK e \in Stream : Uses(e, p)
  BY UnitsAssumption DEF Uses
<1>2. mode[e] # "stopped"
  BY DEF UnitsInv, Phases
<1>3. QED BY <1>1, <1>2

\* A stream's scheduler has pools, and only pools.
LEMMA UsesPools ==
  ASSUME NEW e \in Stream
  PROVE  /\ PoolsOf[e][1] \in Pools /\ Uses(e, PoolsOf[e][1])
         /\ \A i \in 1..Len(PoolsOf[e]) : PoolsOf[e][i] \in Pools
         /\ \A p : Uses(e, p) => p \in Pools
<1>1. PoolsOf[e] \in Seq(Pools) /\ PoolsOf[e] # <<>>
  BY UnitsAssumption
<1>2. 1 \in 1..Len(PoolsOf[e])
  BY <1>1, EmptySeq
<1>3. \A i \in 1..Len(PoolsOf[e]) : PoolsOf[e][i] \in Pools
  BY <1>1, ElementOfSeq
<1>4. QED BY <1>2, <1>3 DEF Uses

\* What each variable is.
LEMMA UnitTypes ==
  ASSUME UnitsInv
  PROVE  /\ state \in [Unit -> {"none", "ready", "running", "blocked", "terminated", "freed"}]
         /\ units \in [Pools -> Seq(Unit)] /\ in_pool \in [Unit -> BOOLEAN]
         /\ home \in [Unit -> Pools \cup {None}]
         /\ fun \in [Unit -> {"none", "held", "called"}]
         /\ mode \in [Stream -> {"poll", "steal", "run", "in unit", "check", "stopped"}]
         /\ unit \in [Stream -> Unit \cup {None}]
BY DEF UnitsInv, W!TypeOK

\* A unit that is in no pool and in nobody's hands becomes ready.
LEMMA EnterInv ==
  ASSUME UnitsInv, NEW u \in Unit, NEW p \in Pools, state[u] \notin {"ready", "running"},
         W!Push(u, p), state' = [state EXCEPT ![u] = "ready"], UNCHANGED <<mode, unit>>
  PROVE  /\ units' \in [Pools -> Seq(Unit)] /\ in_pool' \in [Unit -> BOOLEAN]
         /\ home' \in [Unit -> Pools \cup {None}]
         /\ Placed' /\ Hands' /\ Found'
<1>1. /\ state \in [Unit -> {"none", "ready", "running", "blocked", "terminated", "freed"}]
      /\ units \in [Pools -> Seq(Unit)] /\ in_pool \in [Unit -> BOOLEAN]
      /\ home \in [Unit -> Pools \cup {None}]
      /\ mode \in [Stream -> {"poll", "steal", "run", "in unit", "check", "stopped"}]
      /\ unit \in [Stream -> Unit \cup {None}]
  BY UnitTypes
<1>2. ~in_pool[u] /\ \A e \in Stream : unit[e] # u
  <2>1. ~in_pool[u]
    BY DEF UnitsInv, Found
  <2>2. ASSUME NEW e \in Stream, unit[e] = u PROVE FALSE
    <3>1. unit[e] # None
      BY <2>2, UnitsAssumption
    <3>2. Hand(e)
      BY DEF UnitsInv, Hands
    <3>3. QED BY <2>2, <3>1, <3>2 DEF Hand
  <2>3. QED BY <2>1, <2>2
<1>3. /\ units' = [units EXCEPT ![p] = Append(@, u)]
      /\ in_pool' = [in_pool EXCEPT ![u] = TRUE]
      /\ home' = [home EXCEPT ![u] = p]
  BY DEF W!Push
<1>4. PoolsOK(units, in_pool, home)
  BY DEF UnitsInv, Placed
<1>5. units' \in [Pools -> Seq(Unit)] /\ PoolsOK(units', in_pool', home')
  BY <1>1, <1>2, <1>3, <1>4, PushedOK
<1>6. in_pool' \in [Unit -> BOOLEAN] /\ home' \in [Unit -> Pools \cup {None}]
  BY <1>1, <1>3
<1>7. \A v \in Unit : v # u => in_pool'[v] = in_pool[v] /\ home'[v] = home[v] /\ state'[v] = state[v]
  BY <1>1, <1>3
<1>8. in_pool'[u] /\ state'[u] = "ready"
  BY <1>1, <1>3
<1>9. Hands'
  <2> SUFFICES ASSUME NEW e \in Stream PROVE Hand(e)'
    BY DEF Hands
  <2>1. Hand(e) /\ mode' = mode /\ unit' = unit /\ unit[e] # u
    BY <1>2 DEF UnitsInv, Hands
  <2>2. QED BY ZenonT(40), <1>7, <2>1 DEF Hand
<1>10. Found'
  BY <1>7, <1>8 DEF UnitsInv, Found
<1>11. QED BY <1>5, <1>6, <1>9, <1>10 DEF Placed

\* Units are created and revived while all streams go on.
LEMMA CreateInv ==
  ASSUME UnitsInv, NEW u \in Unit, NEW p \in Pools, W!Create(u, p) \/ W!Revive(u, p)
  PROVE  UnitsInv'
<1>1. /\ state[u] \in {"none", "terminated"} /\ state' = [state EXCEPT ![u] = "ready"]
      /\ fun' = [fun EXCEPT ![u] = "held"]
      /\ W!Push(u, p) /\ phase = "work"
      /\ managed \subseteq managed' /\ managed' \subseteq Unit
      /\ revivals' \in 0..MaxRevivals
      /\ UNCHANGED <<cut, asked, pauses, mode, unit, stop, phase>>
  <2>1. managed \subseteq Unit /\ revivals \in 0..MaxRevivals /\ MaxRevivals \in Nat
    BY UnitsAssumption DEF UnitsInv, W!TypeOK
  <2>2. CASE W!Create(u, p)
    BY <2>1, <2>2 DEF W!Create, W!Creatable, W!schedulers, W!program
  <2>3. CASE W!Revive(u, p)
    BY <2>1, <2>3 DEF W!Revive, W!schedulers, W!program
  <2>4. QED BY <2>2, <2>3
<1>2. /\ units' \in [Pools -> Seq(Unit)] /\ in_pool' \in [Unit -> BOOLEAN]
      /\ home' \in [Unit -> Pools \cup {None}]
      /\ Placed' /\ Hands' /\ Found'
  BY <1>1, EnterInv
<1>3. /\ state \in [Unit -> {"none", "ready", "running", "blocked", "terminated", "freed"}]
      /\ fun \in [Unit -> {"none", "held", "called"}]
      /\ home \in [Unit -> Pools \cup {None}]
  BY UnitTypes
<1>4. /\ state'[u] = "ready" /\ fun'[u] = "held" /\ home'[u] = p
      /\ \A v \in Unit : v # u => state'[v] = state[v] /\ fun'[v] = fun[v] /\ home'[v] = home[v]
  BY <1>1, <1>3 DEF W!Push
<1>5. W!TypeOK'
  BY <1>1, <1>2 DEF UnitsInv, W!TypeOK
<1>6. W!FunctionOnce' /\ Requests' /\ Phases'
  BY <1>1, <1>4 DEF UnitsInv, W!FunctionOnce, Requests, Phases, W!Unfinished
<1>7. Covered'
  <2>1. \E e \in Stream : mode[e] # "stopped" /\ Uses(e, p)
    BY <1>1, PoolsServed
  <2>2. QED BY <1>1, <1>4, <2>1 DEF UnitsInv, Covered, W!Unfinished
<1>8. QED BY <1>2, <1>5, <1>6, <1>7 DEF UnitsInv

\* A blocked unit goes back to its pool, whose stream is still there.
LEMMA ResumeInv ==
  ASSUME UnitsInv, NEW u \in Unit, W!Resume(u)
  PROVE  UnitsInv'
<1>1. /\ state[u] = "blocked" /\ state' = [state EXCEPT ![u] = "ready"]
      /\ W!Push(u, home[u])
      /\ UNCHANGED <<managed, fun, cut, asked, revivals, pauses, mode, unit, stop, phase>>
  BY DEF W!Resume, W!schedulers, W!program
<1>2. PICK e \in Stream : mode[e] # "stopped" /\ Uses(e, home[u])
  BY <1>1 DEF UnitsInv, Covered, W!Unfinished
<1>3. home[u] \in Pools
  BY <1>2, UsesPools
<1>4. /\ units' \in [Pools -> Seq(Unit)] /\ in_pool' \in [Unit -> BOOLEAN]
      /\ home' \in [Unit -> Pools \cup {None}]
      /\ Placed' /\ Hands' /\ Found'
  BY <1>1, <1>3, EnterInv
<1>5. /\ state \in [Unit -> {"none", "ready", "running", "blocked", "terminated", "freed"}]
      /\ home \in [Unit -> Pools \cup {None}]
  BY UnitTypes
<1>6. /\ state'[u] = "ready" /\ home' = home
      /\ \A v \in Unit : v # u => state'[v] = state[v]
  BY <1>1, <1>5 DEF W!Push
<1>7. W!TypeOK'
  BY <1>1, <1>4 DEF UnitsInv, W!TypeOK
<1>8. W!FunctionOnce' /\ Requests' /\ Phases' /\ Covered'
  BY <1>1, <1>6 DEF UnitsInv, W!FunctionOnce, Requests, Phases, Covered, W!Unfinished
<1>9. QED BY <1>4, <1>7, <1>8 DEF UnitsInv

\* A request is made of a managed unit that has not ended.
LEMMA RequestInv ==
  ASSUME UnitsInv, NEW u \in Unit, NEW what \in {"cancel"} \cup Pools, W!Request(u, what)
  PROVE  UnitsInv'
<1>1. /\ u \in managed /\ W!Unfinished(u)
      /\ asked' = [asked EXCEPT ![u] = what] /\ pauses' \in 0..MaxPauses
      /\ UNCHANGED <<state, managed, units, in_pool, home, fun, cut, revivals, mode, unit, stop, phase>>
  <2>1. pauses \in 0..MaxPauses /\ MaxPauses \in Nat
    BY UnitsAssumption DEF UnitsInv, W!TypeOK
  <2>2. QED BY <2>1 DEF W!Request, W!schedulers, W!program
<1>2. W!TypeOK'
  BY <1>1 DEF UnitsInv, W!TypeOK
<1>3. asked \in [Unit -> {"nothing", "cancel"} \cup Pools]
  BY DEF UnitsInv, W!TypeOK
<1>4. Requests'
  BY <1>1, <1>3 DEF UnitsInv, Requests, W!Unfinished
<1>5. Placed' /\ Hands' /\ Found'
  <2>1. Placed'
    BY <1>1 DEF UnitsInv, Placed
  <2>2. Hands'
    BY <1>1 DEF UnitsInv, Hands, Hand
  <2>3. Found'
    BY <1>1 DEF UnitsInv, Found
  <2>4. QED BY <2>1, <2>2, <2>3
<1>6. W!FunctionOnce' /\ Phases' /\ Covered'
  BY <1>1 DEF UnitsInv, W!FunctionOnce, Phases, Covered, W!Unfinished
<1>7. QED BY <1>2, <1>4, <1>5, <1>6 DEF UnitsInv

\* The program joins its units, then the streams one after the other, and destroys
\* the pools.
LEMMA ProgramInv ==
  ASSUME UnitsInv, W!Program
  PROVE  UnitsInv'
<1>1. UNCHANGED <<units, in_pool, home, fun, cut, asked, revivals, pauses, mode, unit>>
  BY DEF W!Program, W!JoinUnits, W!JoinStream, W!DestroyPools, W!schedulers
<1>2. Placed'
  BY <1>1 DEF UnitsInv, Placed
<1>3. CASE W!JoinUnits /\ phase = "join"
  <2>1. /\ \A u \in managed : state[u] = "terminated"
        /\ state' = [u \in Unit |-> IF u \in managed THEN "freed" ELSE state[u]]
        /\ managed' = {} /\ phase' = "close" /\ stop' = stop
    BY <1>3 DEF W!JoinUnits
  <2>2. W!TypeOK'
    BY <1>1, <2>1 DEF UnitsInv, W!TypeOK
  <2>3. \A u \in Unit : state'[u] = state[u] \/ (state[u] = "terminated" /\ state'[u] = "freed")
    <3> SUFFICES ASSUME NEW u \in Unit
                 PROVE  state'[u] = state[u] \/ (state[u] = "terminated" /\ state'[u] = "freed")
      OBVIOUS
    <3>1. state'[u] = IF u \in managed THEN "freed" ELSE state[u]
      BY <2>1
    <3>2. QED BY <2>1, <3>1
  <2>4. Hands'
    <3> SUFFICES ASSUME NEW e \in Stream PROVE Hand(e)'
      BY DEF Hands
    <3>1. Hand(e) /\ mode' = mode /\ unit' = unit /\ in_pool' = in_pool /\ home' = home
      BY <1>1 DEF UnitsInv, Hands
    <3>2. QED BY <2>3, <3>1 DEF Hand
  <2>5. Found' /\ W!FunctionOnce' /\ Covered'
    BY <1>1, <2>3 DEF UnitsInv, Found, W!FunctionOnce, Covered, W!Unfinished
  <2>6. Requests'
    BY <1>1, <2>1 DEF UnitsInv, Requests, W!Unfinished
  <2>7. Phases'
    BY <1>1, <2>1 DEF UnitsInv, Phases
  <2>8. QED BY <1>2, <2>2, <2>4, <2>5, <2>6, <2>7 DEF UnitsInv
<1>4. CASE ~(W!JoinUnits /\ phase = "join")
  <2>1. /\ state' = state /\ managed' = managed
        /\ stop \subseteq stop' /\ stop' \subseteq Stream
        /\ phase' \in {"work", "join", "close", "done"}
        /\ phase' \in {"work", "join"} => stop' = stop /\ phase \in {"work", "join"}
        /\ phase' \in {"close", "done"} => phase \in {"close", "done"}
    BY <1>4 DEF W!Program, W!JoinUnits, W!JoinStream, W!DestroyPools, UnitsInv, W!TypeOK
  <2>2. W!TypeOK'
    BY <1>1, <2>1 DEF UnitsInv, W!TypeOK
  <2>3. Hands' /\ Found'
    <3>1. Hands'
      BY <1>1, <2>1 DEF UnitsInv, Hands, Hand
    <3>2. Found'
      BY <1>1, <2>1 DEF UnitsInv, Found
    <3>3. QED BY <3>1, <3>2
  <2>4. W!FunctionOnce' /\ Requests' /\ Phases' /\ Covered'
    BY <1>1, <2>1 DEF UnitsInv, W!FunctionOnce, Requests, Phases, Covered, W!Unfinished
  <2>5. QED BY <1>2, <2>2, <2>3, <2>4 DEF UnitsInv
<1>5. QED BY <1>3, <1>4

-----------------------------------------------------------------------------
(* What schedulers and the threads they run do                             *)

\* What a busy scheduler has in its hands.
LEMMA InHand ==
  ASSUME UnitsInv, NEW e \in Stream, mode[e] \in {"run", "in unit"}
  PROVE  /\ unit[e] \in Unit
         /\ state[unit[e]] = IF mode[e] = "run" THEN "ready" ELSE "running"
         /\ ~in_pool[unit[e]] /\ Uses(e, home[unit[e]]) /\ home[unit[e]] \in Pools
         /\ \A f \in Stream : f # e => unit[f] # unit[e]
<1>1. Hand(e)
  BY DEF UnitsInv, Hands
<1>2. QED BY <1>1, UsesPools DEF Hand

\* When Argobots fails to create or to revive a unit, only its function is new, and
\* the unit counts among those that leave one behind.
LEMMA FailInv ==
  ASSUME UnitsInv, NEW u \in Unit, W!CreateFails(u) \/ W!ReviveFails(u)
  PROVE  UnitsInv'
<1>1. /\ state[u] \in {"none", "terminated"}
      /\ state' = state \/ state' = [state EXCEPT ![u] = "freed"]
      /\ fun' = [fun EXCEPT ![u] = "held"] /\ cut' = cut \cup {u}
      /\ revivals' \in 0..MaxRevivals
      /\ UNCHANGED <<managed, units, in_pool, home, asked, pauses, mode, unit, stop, phase>>
  <2>1. revivals \in 0..MaxRevivals /\ MaxRevivals \in Nat
    BY UnitsAssumption DEF UnitsInv, W!TypeOK
  <2>2. CASE W!CreateFails(u)
    BY <2>1, <2>2 DEF W!CreateFails, W!Creatable, W!schedulers, W!program
  <2>3. CASE W!ReviveFails(u)
    BY <2>1, <2>3 DEF W!ReviveFails, W!schedulers, W!program
  <2>4. QED BY <2>2, <2>3
<1>2. /\ state \in [Unit -> {"none", "ready", "running", "blocked", "terminated", "freed"}]
      /\ fun \in [Unit -> {"none", "held", "called"}]
  BY UnitTypes
<1>3. /\ state'[u] \in {"none", "terminated", "freed"}
      /\ \A v \in Unit : v # u => state'[v] = state[v] /\ fun'[v] = fun[v]
  BY <1>1, <1>2
<1>4. \A e \in Stream : mode[e] \in {"run", "in unit"} => unit[e] # u
  BY <1>1, InHand
<1>5. ASSUME NEW e \in Stream PROVE Hand(e)'
  <2>1. Hand(e) /\ mode' = mode /\ unit' = unit /\ in_pool' = in_pool /\ home' = home
    BY <1>1 DEF UnitsInv, Hands
  <2>2. QED BY ZenonT(40), <1>3, <1>4, <2>1 DEF Hand
<1>6. W!TypeOK'
  BY <1>1, <1>2 DEF UnitsInv, W!TypeOK
<1>7. Placed' /\ Phases'
  BY <1>1 DEF UnitsInv, Placed, Phases
<1>8. Found'
  BY <1>1, <1>3 DEF UnitsInv, Found
<1>9. W!FunctionOnce'
  BY <1>1, <1>3 DEF UnitsInv, W!FunctionOnce
<1>10. Requests' /\ Covered'
  BY <1>1, <1>3 DEF UnitsInv, Requests, Covered, W!Unfinished
<1>11. QED BY <1>5, <1>6, <1>7, <1>8, <1>9, <1>10 DEF UnitsInv, Hands

\* When a scheduler lets go of its unit, and what happens to others does not
\* concern it, the hands are right.
LEMMA LeaveHands ==
  ASSUME UnitsInv, NEW e \in Stream, mode[e] \in {"run", "in unit"}, W!Leave(e),
         \A u \in Unit : u # unit[e] =>
           state'[u] = state[u] /\ in_pool'[u] = in_pool[u] /\ home'[u] = home[u]
  PROVE  /\ Hands'
         /\ unit' \in [Stream -> Unit \cup {None}]
         /\ mode' \in [Stream -> {"poll", "steal", "run", "in unit", "check", "stopped"}]
         /\ \A f \in Stream : mode'[f] = "stopped" <=> mode[f] = "stopped"
         /\ unit'[e] = None /\ \A f \in Stream : f # e => unit'[f] = unit[f]
<1>1. /\ mode \in [Stream -> {"poll", "steal", "run", "in unit", "check", "stopped"}]
      /\ unit \in [Stream -> Unit \cup {None}]
  BY UnitTypes
<1>2. /\ unit' = [unit EXCEPT ![e] = None] /\ mode' = [mode EXCEPT ![e] = "check"]
  BY DEF W!Leave
<1>3. /\ unit'[e] = None /\ mode'[e] = "check"
      /\ \A f \in Stream : f # e => unit'[f] = unit[f] /\ mode'[f] = mode[f]
  BY <1>1, <1>2
<1>4. ASSUME NEW f \in Stream PROVE Hand(f)'
  <2>1. CASE f = e
    BY <1>3, <2>1 DEF Hand
  <2>2. CASE f # e
    <3>1. Hand(f) /\ unit'[f] = unit[f] /\ mode'[f] = mode[f]
      BY <1>3, <2>2 DEF UnitsInv, Hands
    <3>2. CASE mode[f] \notin {"run", "in unit"}
      BY <3>1, <3>2 DEF Hand
    <3>3. CASE mode[f] \in {"run", "in unit"}
      <4>1. unit[f] \in Unit /\ unit[f] # unit[e]
        BY <2>2, <3>3, InHand
      <4>2. \A g \in Stream : unit'[g] = unit'[f] => g = f
        <5> SUFFICES ASSUME NEW g \in Stream, g # f PROVE unit'[g] # unit'[f]
          OBVIOUS
        <5>1. unit[g] # unit[f]
          BY <3>3, InHand
        <5>2. unit'[g] \in {unit[g], None} /\ unit'[f] = unit[f] /\ unit[f] # None
          BY <1>3, <3>1, <4>1, UnitsAssumption
        <5>3. QED BY <5>1, <5>2
      <4>3. QED BY <3>1, <3>3, <4>1, <4>2 DEF Hand
    <3>4. QED BY <3>2, <3>3
  <2>3. QED BY <2>1, <2>2
<1>5. QED BY <1>1, <1>2, <1>3, <1>4 DEF Hands

\* A unit ends: it returns, exits or is cancelled.
LEMMA EndInv ==
  ASSUME UnitsInv, NEW e \in Stream, mode[e] \in {"run", "in unit"},
         W!End(unit[e]), W!Leave(e),
         UNCHANGED <<units, in_pool, managed, revivals, pauses, stop, phase>>,
         \/ cut' = cut \cup {unit[e]} /\ fun' = fun
         \/ cut' = cut /\ fun' = [fun EXCEPT ![unit[e]] = "none"]
  PROVE  UnitsInv'
<1>1. PICK u \in Unit : u = unit[e]
  BY InHand
<1>2. /\ state[u] \in {"ready", "running"} /\ ~in_pool[u]
      /\ \A f \in Stream : f # e => unit[f] # u
  BY <1>1, InHand
<1>3. /\ state \in [Unit -> {"none", "ready", "running", "blocked", "terminated", "freed"}]
      /\ units \in [Pools -> Seq(Unit)] /\ in_pool \in [Unit -> BOOLEAN]
      /\ home \in [Unit -> Pools \cup {None}]
      /\ fun \in [Unit -> {"none", "held", "called"}]
      /\ asked \in [Unit -> {"nothing", "cancel"} \cup Pools]
  BY UnitTypes DEF UnitsInv, W!TypeOK
<1>4. /\ state' = [state EXCEPT ![u] = IF u \in managed THEN "terminated" ELSE "freed"]
      /\ home' = [home EXCEPT ![u] = None]
      /\ asked' = [asked EXCEPT ![u] = "nothing"]
  BY <1>1 DEF W!End
<1>5. /\ state'[u] \in {"terminated", "freed"} /\ asked'[u] = "nothing"
      /\ \A v \in Unit : v # u =>
           state'[v] = state[v] /\ home'[v] = home[v] /\ asked'[v] = asked[v]
  BY <1>3, <1>4
<1>6. /\ Hands'
      /\ unit' \in [Stream -> Unit \cup {None}]
      /\ mode' \in [Stream -> {"poll", "steal", "run", "in unit", "check", "stopped"}]
      /\ \A f \in Stream : mode'[f] = "stopped" <=> mode[f] = "stopped"
      /\ unit'[e] = None /\ \A f \in Stream : f # e => unit'[f] = unit[f]
  BY <1>1, <1>5, LeaveHands
<1>7. /\ fun' \in [Unit -> {"none", "held", "called"}] /\ cut' \subseteq Unit
      /\ fun'[u] = "none" \/ u \in cut'
      /\ cut \subseteq cut' /\ \A v \in Unit : v # u => fun'[v] = fun[v]
  BY <1>1, <1>3 DEF UnitsInv, W!TypeOK
<1>8. W!TypeOK'
  BY <1>3, <1>4, <1>6, <1>7 DEF UnitsInv, W!TypeOK
<1>9. Placed'
  <2>1. PoolsOK(units, in_pool, [home EXCEPT ![u] = None])
    BY <1>2, <1>3, ForgottenOK DEF UnitsInv, Placed
  <2>2. QED BY <1>4, <2>1 DEF Placed
<1>10. Found'
  <2>1. \A v \in Unit : v # u => ((\E f \in Stream : unit[f] = v) => \E f \in Stream : unit'[f] = v)
    BY <1>1, <1>6
  <2>2. ASSUME NEW v \in Unit
        PROVE  /\ state'[v] \in {"ready", "running"} => in_pool[v] \/ \E f \in Stream : unit'[f] = v
               /\ in_pool[v] => state'[v] = "ready"
    <3>1. /\ state[v] \in {"ready", "running"} => in_pool[v] \/ \E f \in Stream : unit[f] = v
          /\ in_pool[v] => state[v] = "ready"
      BY DEF UnitsInv, Found
    <3>2. CASE v = u
      BY <1>2, <1>5, <3>2
    <3>3. CASE v # u
      <4>1. state'[v] = state[v]
        BY <1>5, <3>3
      <4>2. QED BY <2>1, <3>1, <3>3, <4>1
    <3>4. QED BY <3>2, <3>3
  <2>3. QED BY <2>2 DEF Found
<1>11. W!FunctionOnce'
  BY <1>5, <1>7 DEF UnitsInv, W!FunctionOnce
<1>12. Requests' /\ Phases' /\ Covered'
  <2>1. Requests' /\ Covered'
    BY <1>5, <1>6 DEF UnitsInv, Requests, Covered, W!Unfinished
  <2>2. Phases'
    BY <1>6 DEF UnitsInv, Phases
  <2>3. QED BY <2>1, <2>2
<1>13. QED BY <1>6, <1>8, <1>9, <1>10, <1>11, <1>12 DEF UnitsInv

\* A unit blocks.
LEMMA SuspendInv ==
  ASSUME UnitsInv, NEW e \in Stream, W!Suspend(e)
  PROVE  UnitsInv'
<1>1. PICK u \in Unit : u = unit[e]
  BY InHand DEF W!Suspend
<1>2. /\ mode[e] = "in unit" /\ W!Leave(e) /\ state' = [state EXCEPT ![u] = "blocked"]
      /\ pauses' \in 0..MaxPauses
      /\ UNCHANGED <<managed, units, in_pool, home, fun, cut, asked, revivals, stop, phase>>
  <2>1. pauses \in 0..MaxPauses /\ MaxPauses \in Nat
    BY UnitsAssumption DEF UnitsInv, W!TypeOK
  <2>2. pauses' \in 0..MaxPauses
    <3>1. pauses < MaxPauses /\ pauses' = pauses + 1
      BY DEF W!Suspend
    <3>2. QED BY <2>1, <3>1
  <2>3. mode[e] = "in unit" /\ W!Leave(e) /\ state' = [state EXCEPT ![u] = "blocked"]
    BY <1>1 DEF W!Suspend
  <2>4. UNCHANGED <<managed, units, in_pool, home, fun, cut, asked, revivals, stop, phase>>
    BY DEF W!Suspend, W!program
  <2>5. QED BY <2>2, <2>3, <2>4
<1>3. state[u] = "running" /\ ~in_pool[u]
  BY <1>1, <1>2, InHand
<1>4. state \in [Unit -> {"none", "ready", "running", "blocked", "terminated", "freed"}]
  BY UnitTypes
<1>5. state'[u] = "blocked" /\ \A v \in Unit : v # u => state'[v] = state[v]
  BY <1>2, <1>4
<1>6. /\ Hands'
      /\ unit' \in [Stream -> Unit \cup {None}]
      /\ mode' \in [Stream -> {"poll", "steal", "run", "in unit", "check", "stopped"}]
      /\ \A f \in Stream : mode'[f] = "stopped" <=> mode[f] = "stopped"
      /\ unit'[e] = None /\ \A f \in Stream : f # e => unit'[f] = unit[f]
  BY <1>1, <1>2, <1>5, LeaveHands
<1>7. W!TypeOK'
  BY <1>2, <1>4, <1>6 DEF UnitsInv, W!TypeOK
<1>8. Placed'
  BY <1>2 DEF UnitsInv, Placed
<1>9. Found'
  <2>1. \A v \in Unit : v # u => ((\E f \in Stream : unit[f] = v) => \E f \in Stream : unit'[f] = v)
    BY <1>1, <1>6
  <2>2. QED BY <1>2, <1>3, <1>5, <2>1 DEF UnitsInv, Found
<1>10. W!FunctionOnce'
  BY <1>2, <1>3, <1>5 DEF UnitsInv, W!FunctionOnce
<1>11. Requests' /\ Phases' /\ Covered'
  BY <1>2, <1>3, <1>5, <1>6 DEF UnitsInv, Requests, Phases, Covered, W!Unfinished
<1>12. QED BY <1>6, <1>7, <1>8, <1>9, <1>10, <1>11 DEF UnitsInv

\* The end of the loop: a stream stops if nothing is left for it.
LEMMA CheckInv ==
  ASSUME UnitsInv, NEW e \in Stream, W!Check(e)
  PROVE  UnitsInv'
<1>1. /\ mode[e] = "check"
      /\ mode' = [mode EXCEPT ![e] = IF W!HasToStop(e) THEN "stopped" ELSE "poll"]
      /\ UNCHANGED <<state, managed, units, in_pool, home, fun, cut, asked, revivals, pauses,
                     unit, stop, phase>>
  BY DEF W!Check, W!program
<1>2. /\ mode \in [Stream -> {"poll", "steal", "run", "in unit", "check", "stopped"}]
      /\ units \in [Pools -> Seq(Unit)]
      /\ asked \in [Unit -> {"nothing", "cancel"} \cup Pools]
  BY UnitTypes DEF UnitsInv, W!TypeOK
<1>3. /\ mode'[e] \in {"stopped", "poll"} /\ (mode'[e] = "stopped" => W!HasToStop(e))
      /\ \A f \in Stream : f # e => mode'[f] = mode[f]
  BY <1>1, <1>2
<1>4. W!TypeOK'
  BY <1>1, <1>2 DEF UnitsInv, W!TypeOK
<1>5. Placed'
  BY <1>1 DEF UnitsInv, Placed
<1>6. ASSUME NEW f \in Stream PROVE Hand(f)'
  <2>1. Hand(f)
    BY DEF UnitsInv, Hands
  <2>2. CASE f = e
    BY <1>1, <1>3, <2>1, <2>2 DEF Hand
  <2>3. CASE f # e
    BY <1>1, <1>3, <2>1, <2>3 DEF Hand
  <2>4. QED BY <2>2, <2>3
<1>7. Found' /\ W!FunctionOnce' /\ Requests'
  BY <1>1 DEF UnitsInv, Found, W!FunctionOnce, Requests, W!Unfinished
<1>8. Phases'
  BY <1>1, <1>3 DEF UnitsInv, Phases, W!HasToStop
<1>9. ASSUME NEW u \in Unit, W!Unfinished(u)
      PROVE  \E f \in Stream : mode'[f] # "stopped" /\ Uses(f, home[u])
  <2>1. PICK f \in Stream : mode[f] # "stopped" /\ Uses(f, home[u])
    BY <1>9 DEF UnitsInv, Covered
  <2>2. CASE f # e \/ ~W!HasToStop(e)
    BY <1>3, <2>1, <2>2
  <2>3. CASE f = e /\ W!HasToStop(e)
    <3>1. home[u] \in Pools /\ units[home[u]] = <<>> /\ state[u] # "blocked"
      BY <1>9, <2>1, <2>3, UsesPools DEF W!HasToStop, Uses
    <3>2. ~in_pool[u]
      <4>1. ASSUME in_pool[u] PROVE FALSE
        <5>1. PICK i \in 1..Len(units[home[u]]) : units[home[u]][i] = u
          BY <4>1 DEF UnitsInv, Placed, PoolsOK
        <5>2. QED BY <3>1, <5>1, EmptySeq
      <4>2. QED BY <4>1
    <3>3. state[u] \in {"ready", "running"}
      BY <1>9, <3>1 DEF W!Unfinished
    <3>4. PICK g \in Stream : unit[g] = u
      BY <3>2, <3>3 DEF UnitsInv, Found
    <3>5. Hand(g) /\ unit[g] # None
      BY <3>4, UnitsAssumption DEF UnitsInv, Hands
    <3>6. mode[g] \in {"run", "in unit"} /\ Uses(g, home[u])
      BY <3>4, <3>5 DEF Hand
    <3>7. g # e
      BY <1>1, <3>6
    <3>8. QED BY <1>3, <3>6, <3>7
  <2>4. QED BY <2>2, <2>3
<1>10. Covered'
  BY <1>1, <1>9 DEF Covered, W!Unfinished
<1>11. QED BY <1>4, <1>5, <1>6, <1>7, <1>8, <1>10 DEF UnitsInv, Hands

\* A scheduler takes the unit at the front of a pool of its own, or of another's.
LEMMA TakeInv ==
  ASSUME UnitsInv, NEW e \in Stream, mode[e] \in {"poll", "steal"}, NEW p \in Pools, Uses(e, p),
         units[p] # <<>>, W!Take(e, p),
         UNCHANGED <<state, managed, fun, cut, asked, revivals, pauses, stop, phase>>
  PROVE  UnitsInv'
<1>1. /\ state \in [Unit -> {"none", "ready", "running", "blocked", "terminated", "freed"}]
      /\ units \in [Pools -> Seq(Unit)] /\ in_pool \in [Unit -> BOOLEAN]
      /\ mode \in [Stream -> {"poll", "steal", "run", "in unit", "check", "stopped"}]
      /\ unit \in [Stream -> Unit \cup {None}]
  BY UnitTypes
<1>2. Tail(units[p]) = W!Without(units[p], 1) /\ Head(units[p]) = units[p][1] /\ 1 \in 1..Len(units[p])
  BY <1>1, TailOfPool
<1>3. PICK u : u = units[p][1]
  OBVIOUS
<1>4. /\ units' = [units EXCEPT ![p] = W!Without(@, 1)]
      /\ in_pool' = [in_pool EXCEPT ![u] = FALSE]
      /\ home' = home
      /\ unit' = [unit EXCEPT ![e] = u] /\ mode' = [mode EXCEPT ![e] = "run"]
  BY <1>1, <1>2, <1>3 DEF W!Take, W!Pop
<1>5. /\ units' \in [Pools -> Seq(Unit)] /\ PoolsOK(units', in_pool', home') /\ u \in Unit
  <2>1. /\ [units EXCEPT ![p] = W!Without(@, 1)] \in [Pools -> Seq(Unit)]
        /\ PoolsOK([units EXCEPT ![p] = W!Without(@, 1)], [in_pool EXCEPT ![units[p][1]] = FALSE], home)
        /\ units[p][1] \in Unit
    BY <1>1, <1>2, ErasedOK DEF UnitsInv, Placed
  <2>2. QED BY <1>3, <1>4, <2>1
<1>6. in_pool[u] /\ home[u] = p /\ state[u] = "ready"
  <2>1. in_pool[u] /\ home[u] = p
    BY <1>2, <1>3 DEF UnitsInv, Placed, PoolsOK
  <2>2. QED BY <1>5, <2>1 DEF UnitsInv, Found
<1>7. /\ in_pool' \in [Unit -> BOOLEAN] /\ unit' \in [Stream -> Unit \cup {None}]
      /\ mode' \in [Stream -> {"poll", "steal", "run", "in unit", "check", "stopped"}]
      /\ ~in_pool'[u] /\ \A v \in Unit : v # u => in_pool'[v] = in_pool[v]
      /\ unit'[e] = u /\ mode'[e] = "run"
      /\ \A f \in Stream : f # e => unit'[f] = unit[f] /\ mode'[f] = mode[f]
  BY <1>1, <1>4, <1>5
<1>8. \A f \in Stream : unit[f] # u
  <2> SUFFICES ASSUME NEW f \in Stream, unit[f] = u PROVE FALSE
    OBVIOUS
  <2>1. Hand(f) /\ u # None
    BY <1>5, UnitsAssumption DEF UnitsInv, Hands
  <2>2. QED BY <1>6, <2>1 DEF Hand
<1>9. ASSUME NEW f \in Stream PROVE Hand(f)'
  <2>1. CASE f = e
    BY <1>4, <1>5, <1>6, <1>7, <1>8, <2>1 DEF Hand
  <2>2. CASE f # e
    <3>1. Hand(f) /\ unit[e] = None
      <4>1. Hand(f) /\ Hand(e)
        BY DEF UnitsInv, Hands
      <4>2. QED BY <4>1 DEF Hand
    <3>2. CASE mode[f] \notin {"run", "in unit"}
      BY <1>7, <2>2, <3>1, <3>2 DEF Hand
    <3>3. CASE mode[f] \in {"run", "in unit"}
      <4>1. unit[f] \in Unit /\ unit[f] # u /\ \A g \in Stream : unit[g] = unit[f] => g = f
        BY <1>8, <3>1, <3>3 DEF Hand
      <4>2. \A g \in Stream : unit'[g] = unit'[f] => g = f
        BY <1>7, <2>2, <4>1
      <4>3. QED BY <1>4, <1>7, <2>2, <3>1, <3>3, <4>1, <4>2 DEF Hand
    <3>4. QED BY <3>2, <3>3
  <2>3. QED BY <2>1, <2>2
<1>10. Found'
  <2>1. unit[e] = None
    <3>1. Hand(e)
      BY DEF UnitsInv, Hands
    <3>2. QED BY <3>1 DEF Hand
  <2>2. \A v \in Unit : (\E f \in Stream : unit[f] = v) => \E f \in Stream : unit'[f] = v
    <3> SUFFICES ASSUME NEW v \in Unit, NEW f \in Stream, unit[f] = v
                 PROVE  \E g \in Stream : unit'[g] = v
      OBVIOUS
    <3>1. f # e
      BY <2>1, UnitsAssumption
    <3>2. QED BY <1>7, <3>1
  <2>3. ASSUME NEW v \in Unit
        PROVE  /\ state'[v] \in {"ready", "running"} => in_pool'[v] \/ \E f \in Stream : unit'[f] = v
               /\ in_pool'[v] => state'[v] = "ready"
    <3>1. /\ state[v] \in {"ready", "running"} => in_pool[v] \/ \E f \in Stream : unit[f] = v
          /\ in_pool[v] => state[v] = "ready"
      BY DEF UnitsInv, Found
    <3>2. CASE v = u
      BY <1>7, <3>2
    <3>3. CASE v # u
      BY <1>7, <2>2, <3>1, <3>3
    <3>4. QED BY <3>2, <3>3
  <2>4. QED BY <2>3 DEF Found
<1>11. W!TypeOK'
  BY <1>4, <1>5, <1>7 DEF UnitsInv, W!TypeOK
<1>12. W!FunctionOnce' /\ Requests'
  BY DEF UnitsInv, W!FunctionOnce, Requests, W!Unfinished
<1>13. Phases'
  BY <1>7 DEF UnitsInv, Phases
<1>14. Covered'
  BY <1>4, <1>7 DEF UnitsInv, Covered, W!Unfinished
<1>15. QED BY <1>5, <1>9, <1>10, <1>11, <1>12, <1>13, <1>14 DEF UnitsInv, Placed, Hands

\* A scheduler goes on with nothing in its hands.
LEMMA GoesOnInv ==
  ASSUME UnitsInv, NEW e \in Stream, mode[e] \in {"poll", "steal"},
         NEW m \in {"steal", "check"}, mode' = [mode EXCEPT ![e] = m],
         UNCHANGED <<unit, units, in_pool, home>>,
         UNCHANGED <<state, managed, fun, cut, asked, revivals, pauses, stop, phase>>
  PROVE  UnitsInv'
<1>1. mode \in [Stream -> {"poll", "steal", "run", "in unit", "check", "stopped"}]
  BY UnitTypes
<1>2. mode'[e] = m /\ \A f \in Stream : f # e => mode'[f] = mode[f]
  BY <1>1
<1>3. W!TypeOK'
  BY <1>1 DEF UnitsInv, W!TypeOK
<1>4. ASSUME NEW f \in Stream PROVE Hand(f)'
  <2>1. Hand(f)
    BY DEF UnitsInv, Hands
  <2>2. CASE f = e
    BY <1>2, <2>1, <2>2 DEF Hand
  <2>3. CASE f # e
    BY <1>2, <2>1, <2>3 DEF Hand
  <2>4. QED BY <2>2, <2>3
<1>5. Placed'
  BY DEF UnitsInv, Placed
<1>6. Found' /\ W!FunctionOnce' /\ Requests'
  BY DEF UnitsInv, Found, W!FunctionOnce, Requests, W!Unfinished
<1>7. Phases'
  BY <1>2 DEF UnitsInv, Phases
<1>8. Covered'
  BY <1>2 DEF UnitsInv, Covered, W!Unfinished
<1>9. QED BY <1>3, <1>4, <1>5, <1>6, <1>7, <1>8 DEF UnitsInv, Hands

\* Polling and stealing take a unit, or find nothing.
LEMMA PollInv ==
  ASSUME UnitsInv, NEW e \in Stream, W!Poll(e) \/ W!Steal(e)
  PROVE  UnitsInv'
<1>1. /\ mode[e] \in {"poll", "steal"}
      /\ UNCHANGED <<state, managed, fun, cut, asked, revivals, pauses, stop, phase>>
  BY DEF W!Poll, W!Steal, W!program
<1>2. PICK p \in Pools, m \in {"steal", "check"} :
        /\ Uses(e, p)
        /\ IF units[p] # <<>>
           THEN W!Take(e, p)
           ELSE /\ mode' = [mode EXCEPT ![e] = m]
                /\ UNCHANGED <<unit, units, in_pool, home>>
  <2>1. PoolsOf[e][1] \in Pools /\ Uses(e, PoolsOf[e][1])
    BY UsesPools
  <2>2. \A i \in 2..Len(PoolsOf[e]) : PoolsOf[e][i] \in Pools /\ Uses(e, PoolsOf[e][i])
    <3>1. Len(PoolsOf[e]) \in Nat
      BY UnitsAssumption, LenProperties
    <3>2. QED BY <3>1, UsesPools DEF Uses
  <2>3. CASE W!Poll(e)
    BY <2>1, <2>3 DEF W!Poll
  <2>4. CASE W!Steal(e)
    BY <2>2, <2>4 DEF W!Steal
  <2>5. QED BY <2>3, <2>4
<1>3. CASE units[p] # <<>>
  BY <1>1, <1>2, <1>3, TakeInv
<1>4. CASE units[p] = <<>>
  <2>1. /\ mode' = [mode EXCEPT ![e] = m]
        /\ UNCHANGED <<unit, units, in_pool, home>>
    BY <1>2, <1>4
  <2>2. QED BY <1>1, <2>1, GoesOnInv
<1>5. QED BY <1>3, <1>4

\* A unit goes from the hands of a scheduler to a pool of a stream that goes on.
LEMMA BackInv ==
  ASSUME UnitsInv, NEW e \in Stream, mode[e] \in {"run", "in unit"}, NEW p \in Pools,
         W!Push(unit[e], p), W!Leave(e), state' = [state EXCEPT ![unit[e]] = "ready"],
         asked' = asked \/ asked' = [asked EXCEPT ![unit[e]] = "nothing"],
         pauses' \in 0..MaxPauses,
         UNCHANGED <<managed, fun, cut, revivals, stop, phase>>,
         \E f \in Stream : mode[f] # "stopped" /\ Uses(f, p)
  PROVE  UnitsInv'
<1>1. PICK u \in Unit : u = unit[e]
  BY InHand
<1>2. /\ state[u] \in {"ready", "running"} /\ ~in_pool[u]
      /\ \A f \in Stream : f # e => unit[f] # u
  BY <1>1, InHand
<1>3. /\ state \in [Unit -> {"none", "ready", "running", "blocked", "terminated", "freed"}]
      /\ units \in [Pools -> Seq(Unit)] /\ in_pool \in [Unit -> BOOLEAN]
      /\ home \in [Unit -> Pools \cup {None}]
      /\ asked \in [Unit -> {"nothing", "cancel"} \cup Pools]
  BY UnitTypes DEF UnitsInv, W!TypeOK
<1>4. /\ units' = [units EXCEPT ![p] = Append(@, u)]
      /\ in_pool' = [in_pool EXCEPT ![u] = TRUE]
      /\ home' = [home EXCEPT ![u] = p]
      /\ state' = [state EXCEPT ![u] = "ready"]
      /\ asked' = asked \/ asked' = [asked EXCEPT ![u] = "nothing"]
  BY <1>1 DEF W!Push
<1>5. units' \in [Pools -> Seq(Unit)] /\ PoolsOK(units', in_pool', home')
  <2>1. /\ [units EXCEPT ![p] = Append(@, u)] \in [Pools -> Seq(Unit)]
        /\ PoolsOK([units EXCEPT ![p] = Append(@, u)], [in_pool EXCEPT ![u] = TRUE],
                   [home EXCEPT ![u] = p])
    BY <1>2, <1>3, PushedOK DEF UnitsInv, Placed
  <2>2. QED BY <1>4, <2>1
<1>6. /\ state'[u] = "ready" /\ in_pool'[u] /\ home'[u] = p
      /\ \A v \in Unit : v # u =>
           state'[v] = state[v] /\ in_pool'[v] = in_pool[v] /\ home'[v] = home[v]
      /\ \A v \in Unit : asked'[v] \in {asked[v], "nothing"}
  BY <1>3, <1>4
<1>7. /\ Hands'
      /\ unit' \in [Stream -> Unit \cup {None}]
      /\ mode' \in [Stream -> {"poll", "steal", "run", "in unit", "check", "stopped"}]
      /\ \A f \in Stream : mode'[f] = "stopped" <=> mode[f] = "stopped"
      /\ unit'[e] = None /\ \A f \in Stream : f # e => unit'[f] = unit[f]
  <2>1. \A v \in Unit : v # unit[e] =>
          state'[v] = state[v] /\ in_pool'[v] = in_pool[v] /\ home'[v] = home[v]
    BY <1>1, <1>6
  <2>2. QED BY <2>1, LeaveHands
<1>8. W!TypeOK'
  <2>1. /\ state' \in [Unit -> {"none", "ready", "running", "blocked", "terminated", "freed"}]
        /\ in_pool' \in [Unit -> BOOLEAN] /\ home' \in [Unit -> Pools \cup {None}]
        /\ asked' \in [Unit -> {"nothing", "cancel"} \cup Pools]
    BY <1>3, <1>4
  <2>2. QED BY <1>5, <1>7, <2>1 DEF UnitsInv, W!TypeOK
<1>9. Found'
  <2>1. \A v \in Unit : v # u => ((\E f \in Stream : unit[f] = v) => \E f \in Stream : unit'[f] = v)
    BY <1>1, <1>7
  <2>2. ASSUME NEW v \in Unit
        PROVE  /\ state'[v] \in {"ready", "running"} => in_pool'[v] \/ \E f \in Stream : unit'[f] = v
               /\ in_pool'[v] => state'[v] = "ready"
    <3>1. /\ state[v] \in {"ready", "running"} => in_pool[v] \/ \E f \in Stream : unit[f] = v
          /\ in_pool[v] => state[v] = "ready"
      BY DEF UnitsInv, Found
    <3>2. CASE v = u
      BY <1>6, <3>2
    <3>3. CASE v # u
      BY <1>6, <2>1, <3>1, <3>3
    <3>4. QED BY <3>2, <3>3
  <2>3. QED BY <2>2 DEF Found
<1>10. W!FunctionOnce'
  BY ZenonT(40), <1>2, <1>6 DEF UnitsInv, W!FunctionOnce
<1>11. Requests'
  BY <1>2, <1>6 DEF UnitsInv, Requests, W!Unfinished
<1>12. Phases'
  BY <1>7 DEF UnitsInv, Phases
<1>13. Covered'
  BY <1>6, <1>7 DEF UnitsInv, Covered, W!Unfinished
<1>14. QED BY <1>5, <1>7, <1>8, <1>9, <1>10, <1>11, <1>12, <1>13 DEF UnitsInv, Placed

\* A scheduler runs what it took, if nothing was requested of it.
Runs(e) ==
  /\ state' = [state EXCEPT ![unit[e]] = "running"]
  /\ fun' = [fun EXCEPT ![unit[e]] = "called"]
  /\ mode' = [mode EXCEPT ![e] = "in unit"]
  /\ UNCHANGED <<unit, units, in_pool, home, cut, asked, managed, revivals, pauses, stop, phase>>

\* A unit that runs stays in the hands of its scheduler.
LEMMA RunInv ==
  ASSUME UnitsInv, NEW e \in Stream, mode[e] = "run", Runs(e)
  PROVE  UnitsInv'
<1>0. unit' = unit /\ in_pool' = in_pool /\ home' = home /\ asked' = asked /\ stop' = stop
      /\ units' = units /\ managed' = managed /\ cut' = cut /\ phase' = phase
      /\ revivals' = revivals /\ pauses' = pauses
  BY DEF Runs
<1>1. PICK u \in Unit : u = unit[e]
  BY InHand
<1>2. /\ state[u] = "ready" /\ ~in_pool[u] /\ Uses(e, home[u])
      /\ \A f \in Stream : f # e => unit[f] # u
  BY <1>1, InHand
<1>3. /\ state \in [Unit -> {"none", "ready", "running", "blocked", "terminated", "freed"}]
      /\ fun \in [Unit -> {"none", "held", "called"}]
      /\ mode \in [Stream -> {"poll", "steal", "run", "in unit", "check", "stopped"}]
  BY UnitTypes
<1>4. /\ state'[u] = "running" /\ fun'[u] = "called"
      /\ \A v \in Unit : v # u => state'[v] = state[v] /\ fun'[v] = fun[v]
      /\ mode'[e] = "in unit" /\ \A f \in Stream : f # e => mode'[f] = mode[f]
  BY <1>1, <1>3 DEF Runs
<1>5. W!TypeOK'
  <2>1. /\ state' \in [Unit -> {"none", "ready", "running", "blocked", "terminated", "freed"}]
        /\ fun' \in [Unit -> {"none", "held", "called"}]
        /\ mode' \in [Stream -> {"poll", "steal", "run", "in unit", "check", "stopped"}]
    BY <1>1, <1>3 DEF Runs
  <2>2. QED BY <1>0, <2>1 DEF UnitsInv, W!TypeOK
<1>6. ASSUME NEW f \in Stream PROVE Hand(f)'
  <2>1. Hand(f)
    BY DEF UnitsInv, Hands
  <2>2. CASE f = e
    BY <1>0, <1>1, <1>2, <1>4, <2>1, <2>2 DEF Hand
  <2>3. CASE f # e
    BY <1>0, <1>2, <1>4, <2>1, <2>3 DEF Hand
  <2>4. QED BY <2>2, <2>3
<1>7. Placed'
  BY <1>0 DEF UnitsInv, Placed
<1>8. Found'
  BY ZenonT(40), <1>0, <1>1, <1>2, <1>4 DEF UnitsInv, Found
<1>9. W!FunctionOnce'
  BY <1>0, <1>4 DEF UnitsInv, W!FunctionOnce
<1>10. Requests' /\ Covered'
  BY <1>0, <1>2, <1>4 DEF UnitsInv, Requests, Covered, W!Unfinished
<1>11. Phases'
  BY <1>0, <1>4 DEF UnitsInv, Phases
<1>12. QED BY <1>5, <1>6, <1>7, <1>8, <1>9, <1>10, <1>11 DEF UnitsInv, Hands

\* run_unit: a request is granted, or the unit runs.
LEMMA RunUnitInv ==
  ASSUME UnitsInv, NEW e \in Stream, W!RunUnit(e)
  PROVE  UnitsInv'
<1>1. /\ mode[e] = "run" /\ unit[e] \in Unit
      /\ UNCHANGED <<managed, revivals, pauses, stop, phase>>
  <2>1. mode[e] = "run" /\ UNCHANGED <<managed, revivals, pauses, stop, phase>>
    BY DEF W!RunUnit, W!program
  <2>2. QED BY <2>1, InHand
<1>2. CASE /\ asked[unit[e]] = "cancel" /\ W!End(unit[e]) /\ W!Leave(e)
           /\ cut' = cut \cup {unit[e]}
           /\ UNCHANGED <<units, in_pool, fun>>
  BY <1>1, <1>2, EndInv
<1>3. CASE /\ asked[unit[e]] \in Pools
           /\ W!Push(unit[e], asked[unit[e]]) /\ W!Leave(e)
           /\ asked' = [asked EXCEPT ![unit[e]] = "nothing"]
           /\ UNCHANGED <<state, cut, fun>>
  <2>1. PICK u \in Unit, p \in Pools : u = unit[e] /\ p = asked[u]
    BY <1>1, <1>3
  <2>2. state[u] = "ready" /\ state \in [Unit -> {"none", "ready", "running", "blocked", "terminated", "freed"}]
    BY <1>1, <2>1, InHand, UnitTypes
  <2>3. state' = [state EXCEPT ![u] = "ready"]
    BY <1>3, <2>2
  <2>4. u \in managed
    BY <2>1, UnitsAssumption DEF UnitsInv, Requests
  <2>5. phase \in {"work", "join"}
    BY <2>4 DEF UnitsInv, Phases, W!TypeOK
  <2>6. \E f \in Stream : mode[f] # "stopped" /\ Uses(f, p)
    BY <2>5, PoolsServed
  <2>7. pauses' \in 0..MaxPauses
    BY <1>1 DEF UnitsInv, W!TypeOK
  <2>8. /\ W!Push(unit[e], p) /\ W!Leave(e) /\ state' = [state EXCEPT ![unit[e]] = "ready"]
        /\ asked' = asked \/ asked' = [asked EXCEPT ![unit[e]] = "nothing"]
        /\ mode[e] \in {"run", "in unit"}
        /\ UNCHANGED <<managed, fun, cut, revivals, stop, phase>>
    BY <1>1, <1>3, <2>1, <2>3
  <2>9. QED BY <2>6, <2>7, <2>8, BackInv
<1>4. CASE /\ asked[unit[e]] = "nothing"
           /\ state' = [state EXCEPT ![unit[e]] = "running"]
           /\ fun' = [fun EXCEPT ![unit[e]] = "called"]
           /\ mode' = [mode EXCEPT ![e] = "in unit"]
           /\ UNCHANGED <<unit, units, in_pool, home, cut, asked>>
  <2>1. Runs(e)
    BY <1>1, <1>4 DEF Runs
  <2>2. QED BY <1>1, <2>1, RunInv
<1>5. QED BY <1>2, <1>3, <1>4 DEF W!RunUnit

\* yield_to: v, at position i of its pool, takes the place of u in the hands of e.
YieldsTo(e, u, v, i) ==
  /\ units' = [[units EXCEPT ![home[v]] = W!Without(@, i)] EXCEPT ![home[u]] = Append(@, u)]
  /\ in_pool' = [in_pool EXCEPT ![v] = FALSE, ![u] = TRUE]
  /\ unit' = [unit EXCEPT ![e] = v] /\ mode' = [mode EXCEPT ![e] = "run"]
  /\ state' = [state EXCEPT ![u] = "ready"] /\ pauses' \in 0..MaxPauses
  /\ UNCHANGED <<home, managed, fun, cut, asked, revivals, stop, phase>>

\* The two units change places.
LEMMA YieldToInv ==
  ASSUME UnitsInv, NEW e \in Stream, NEW u \in Unit, NEW v \in Unit, u = unit[e], v # u,
         mode[e] = "in unit", in_pool[v], Uses(e, home[v]),
         NEW i \in 1..Len(units[home[v]]), units[home[v]][i] = v,
         YieldsTo(e, u, v, i)
  PROVE  UnitsInv'
<1>0. /\ home' = home /\ fun' = fun /\ cut' = cut /\ managed' = managed /\ asked' = asked
      /\ revivals' = revivals /\ stop' = stop /\ phase' = phase /\ pauses' \in 0..MaxPauses
  BY DEF YieldsTo
<1>1. /\ state[u] = "running" /\ ~in_pool[u] /\ home[u] \in Pools /\ Uses(e, home[u])
      /\ \A f \in Stream : f # e => unit[f] # u
  BY InHand
<1>2. /\ state \in [Unit -> {"none", "ready", "running", "blocked", "terminated", "freed"}]
      /\ units \in [Pools -> Seq(Unit)] /\ in_pool \in [Unit -> BOOLEAN]
      /\ home \in [Unit -> Pools \cup {None}]
      /\ mode \in [Stream -> {"poll", "steal", "run", "in unit", "check", "stopped"}]
      /\ unit \in [Stream -> Unit \cup {None}]
  BY UnitTypes
<1>3. home[v] \in Pools /\ state[v] = "ready"
  BY UsesPools DEF UnitsInv, Found
<1>4. \A f \in Stream : unit[f] # v
  <2> SUFFICES ASSUME NEW f \in Stream, unit[f] = v PROVE FALSE
    OBVIOUS
  <2>1. Hand(f) /\ v # None
    BY UnitsAssumption DEF UnitsInv, Hands
  <2>2. QED BY <2>1 DEF Hand
<1>5. units' \in [Pools -> Seq(Unit)] /\ PoolsOK(units', in_pool', home')
  <2> DEFINE us == [units EXCEPT ![home[v]] = W!Without(@, i)]
             ip == [in_pool EXCEPT ![v] = FALSE]
  <2>1. us \in [Pools -> Seq(Unit)] /\ PoolsOK(us, ip, home)
    <3>1. /\ [units EXCEPT ![home[v]] = W!Without(@, i)] \in [Pools -> Seq(Unit)]
          /\ PoolsOK([units EXCEPT ![home[v]] = W!Without(@, i)],
                     [in_pool EXCEPT ![units[home[v]][i]] = FALSE], home)
      BY <1>2, <1>3, ErasedOK DEF UnitsInv, Placed
    <3>2. QED BY <3>1
  <2>2. ip \in [Unit -> BOOLEAN] /\ ~ip[u]
    BY <1>1, <1>2
  <2>3. units' = [us EXCEPT ![home[u]] = Append(@, u)] /\ in_pool' = [ip EXCEPT ![u] = TRUE]
    BY <1>2 DEF YieldsTo
  <2> HIDE DEF us, ip
  <2>4. /\ [us EXCEPT ![home[u]] = Append(@, u)] \in [Pools -> Seq(Unit)]
        /\ PoolsOK([us EXCEPT ![home[u]] = Append(@, u)], [ip EXCEPT ![u] = TRUE],
                   [home EXCEPT ![u] = home[u]])
    BY <1>1, <1>2, <2>1, <2>2, PushedOK
  <2>5. home' = [home EXCEPT ![u] = home[u]]
    BY <1>2 DEF YieldsTo
  <2>6. QED BY <2>3, <2>4, <2>5
<1>6. /\ in_pool' \in [Unit -> BOOLEAN] /\ in_pool'[u] /\ ~in_pool'[v]
      /\ state' \in [Unit -> {"none", "ready", "running", "blocked", "terminated", "freed"}]
      /\ state'[u] = "ready"
      /\ \A w \in Unit : w # u => state'[w] = state[w] /\ (w # v => in_pool'[w] = in_pool[w])
  BY <1>2 DEF YieldsTo
<1>7. /\ unit' \in [Stream -> Unit \cup {None}] /\ unit'[e] = v /\ mode'[e] = "run"
      /\ mode' \in [Stream -> {"poll", "steal", "run", "in unit", "check", "stopped"}]
      /\ \A f \in Stream : f # e => unit'[f] = unit[f] /\ mode'[f] = mode[f]
  BY <1>2 DEF YieldsTo
<1>8. ASSUME NEW f \in Stream PROVE Hand(f)'
  <2>1. CASE f = e
    BY ZenonT(40), <1>0, <1>3, <1>4, <1>6, <1>7, <2>1 DEF Hand
  <2>2. CASE f # e
    <3>1. Hand(f)
      BY DEF UnitsInv, Hands
    <3>2. CASE mode[f] \notin {"run", "in unit"}
      BY <1>7, <2>2, <3>1, <3>2 DEF Hand
    <3>3. CASE mode[f] \in {"run", "in unit"}
      <4>1. /\ unit[f] \in Unit /\ unit[f] # u /\ unit[f] # v
            /\ \A g \in Stream : unit[g] = unit[f] => g = f
        BY <1>1, <1>4, <2>2, <3>1, <3>3 DEF Hand
      <4>2. \A g \in Stream : unit'[g] = unit'[f] => g = f
        BY <1>7, <2>2, <4>1
      <4>3. /\ unit'[f] = unit[f] /\ mode'[f] = mode[f] /\ state'[unit[f]] = state[unit[f]]
            /\ in_pool'[unit[f]] = in_pool[unit[f]] /\ home'[unit[f]] = home[unit[f]]
        BY <1>0, <1>6, <1>7, <2>2, <4>1
      <4>4. QED BY <3>1, <3>3, <4>2, <4>3 DEF Hand
    <3>4. QED BY <3>2, <3>3
  <2>3. QED BY <2>1, <2>2
<1>9. Found'
  <2>1. ASSUME NEW w \in Unit
        PROVE  /\ state'[w] \in {"ready", "running"} => in_pool'[w] \/ \E f \in Stream : unit'[f] = w
               /\ in_pool'[w] => state'[w] = "ready"
    <3>1. /\ state[w] \in {"ready", "running"} => in_pool[w] \/ \E f \in Stream : unit[f] = w
          /\ in_pool[w] => state[w] = "ready"
      BY DEF UnitsInv, Found
    <3>2. CASE w = u
      BY <1>6, <3>2
    <3>3. CASE w = v
      BY <1>6, <1>7, <3>3
    <3>4. CASE w # u /\ w # v
      <4>1. (\E f \in Stream : unit[f] = w) => \E f \in Stream : unit'[f] = w
        BY <1>7, <3>4
      <4>2. QED BY <1>6, <3>1, <3>4, <4>1
    <3>5. QED BY <3>2, <3>3, <3>4
  <2>2. QED BY <2>1 DEF Found
<1>10. W!TypeOK'
  BY <1>0, <1>5, <1>6, <1>7 DEF UnitsInv, W!TypeOK
<1>11. W!FunctionOnce'
  BY <1>0, <1>1, <1>6 DEF UnitsInv, W!FunctionOnce
<1>12. Requests'
  BY <1>0, <1>1, <1>6 DEF UnitsInv, Requests, W!Unfinished
<1>13. Phases'
  BY <1>0, <1>7 DEF UnitsInv, Phases
<1>14. Covered'
  BY ZenonT(40), <1>0, <1>1, <1>6, <1>7 DEF UnitsInv, Covered, W!Unfinished
<1>15. QED BY <1>5, <1>8, <1>9, <1>10, <1>11, <1>12, <1>13, <1>14 DEF UnitsInv, Placed, Hands

\* yield and yield_to.
LEMMA YieldInv ==
  ASSUME UnitsInv, NEW e \in Stream, W!Yield(e)
  PROVE  UnitsInv'
<1>1. mode[e] = "in unit"
  BY DEF W!Yield
<1>2. PICK u \in Unit : u = unit[e]
  BY <1>1, InHand
<1>3. home[u] \in Pools /\ Uses(e, home[u]) /\ mode[e] # "stopped"
  BY <1>1, <1>2, InHand
<1>4. pauses' \in 0..MaxPauses
  <2>1. pauses \in 0..MaxPauses /\ MaxPauses \in Nat
    BY UnitsAssumption DEF UnitsInv, W!TypeOK
  <2>2. pauses < MaxPauses /\ pauses' = pauses + 1
    BY DEF W!Yield
  <2>3. QED BY <2>1, <2>2
<1>5. /\ state' = [state EXCEPT ![u] = "ready"]
      /\ UNCHANGED <<managed, fun, cut, asked, revivals, stop, phase>>
  BY <1>2 DEF W!Yield, W!program
<1>6. CASE W!Push(u, home[u]) /\ W!Leave(e)
  <2>1. /\ W!Push(unit[e], home[u]) /\ W!Leave(e) /\ state' = [state EXCEPT ![unit[e]] = "ready"]
        /\ asked' = asked /\ mode[e] \in {"run", "in unit"}
        /\ UNCHANGED <<managed, fun, cut, revivals, stop, phase>>
    BY <1>1, <1>2, <1>5, <1>6
  <2>2. \E f \in Stream : mode[f] # "stopped" /\ Uses(f, home[u])
    BY <1>3
  <2>3. QED BY <1>3, <1>4, <2>1, <2>2, BackInv
<1>7. ASSUME NEW v \in Unit \ (Tasks \cup {u}),
             in_pool[v], \E i \in 1..Len(PoolsOf[e]) : PoolsOf[e][i] = home[v],
             NEW i \in W!Positions(home[v], v),
             units' = [[units EXCEPT ![home[v]] = W!Without(@, i)] EXCEPT ![home[u]] = Append(@, u)],
             in_pool' = [in_pool EXCEPT ![v] = FALSE, ![u] = TRUE],
             unit' = [unit EXCEPT ![e] = v], mode' = [mode EXCEPT ![e] = "run"],
             home' = home
      PROVE  UnitsInv'
  <2>1. /\ v \in Unit /\ v # u /\ Uses(e, home[v])
        /\ i \in 1..Len(units[home[v]]) /\ units[home[v]][i] = v
    BY <1>7 DEF W!Positions, Uses
  <2>2. YieldsTo(e, u, v, i)
    BY <1>4, <1>5, <1>7 DEF YieldsTo
  <2>3. QED BY <1>1, <1>2, <1>7, <2>1, <2>2, YieldToInv
<1>8. QED BY <1>2, <1>6, <1>7 DEF W!Yield

\* Each step of a unit's scheduler, or of the unit it runs.
LEMMA StreamInv ==
  ASSUME UnitsInv, NEW e \in Stream,
         W!Scheduler(e) \/ W!Yield(e) \/ W!Suspend(e) \/ W!Exit(e)
  PROVE  UnitsInv'
<1>1. CASE W!Return(e)
  BY <1>1, EndInv DEF W!Return, W!program
<1>2. CASE W!Exit(e)
  BY <1>2, EndInv DEF W!Exit, W!program
<1>3. QED
  BY <1>1, <1>2, PollInv, RunUnitInv, CheckInv, YieldInv, SuspendInv DEF W!Scheduler

\* Each step of the program's units.
LEMMA UnitInv ==
  ASSUME UnitsInv, NEW u \in Unit,
         \/ \E p \in Pools : W!Make(u, p) \/ W!Revive(u, p) \/ W!MigrateTo(u, p)
         \/ \E e \in Stream : W!MakeOnStream(u, e)
         \/ W!CreateFails(u) \/ W!ReviveFails(u) \/ W!Cancel(u) \/ W!Resume(u)
  PROVE  UnitsInv'
<1>1. ASSUME NEW p \in Pools, W!Make(u, p) \/ W!Revive(u, p) PROVE UnitsInv'
  BY <1>1, CreateInv DEF W!Make
<1>2. ASSUME NEW p \in Pools, W!MigrateTo(u, p) PROVE UnitsInv'
  BY <1>2, RequestInv DEF W!MigrateTo
<1>3. ASSUME NEW e \in Stream, W!MakeOnStream(u, e) PROVE UnitsInv'
  BY <1>3, UsesPools, CreateInv DEF W!MakeOnStream
<1>4. CASE W!Cancel(u)
  BY <1>4, RequestInv DEF W!Cancel
<1>5. QED BY <1>1, <1>2, <1>3, <1>4, FailInv, ResumeInv

\* The invariant is inductive.
LEMMA UnitsStep == UnitsInv /\ [W!Next]_(W!vars) => UnitsInv'
<1> SUFFICES ASSUME UnitsInv, [W!Next]_(W!vars) PROVE UnitsInv'
  OBVIOUS
<1>1. CASE W!Next
  BY <1>1, ProgramInv, UnitInv, StreamInv DEF W!Next
<1>2. CASE UNCHANGED W!vars
  <2>1. UNCHANGED <<state, managed, units, in_pool, home, fun, cut, asked, revivals, pauses,
                    mode, unit, stop, phase>>
    BY <1>2 DEF W!vars
  <2>2. W!TypeOK'
    BY <2>1 DEF UnitsInv, W!TypeOK
  <2>3. Placed' /\ Hands'
    BY <2>1 DEF UnitsInv, Placed, Hands, Hand
  <2>4. Found' /\ W!FunctionOnce' /\ Requests' /\ Phases' /\ Covered'
    BY <2>1 DEF UnitsInv, Found, W!FunctionOnce, Requests, Phases, Covered, W!Unfinished
  <2>5. QED BY <2>2, <2>3, <2>4 DEF UnitsInv
<1>3. QED BY <1>1, <1>2

-----------------------------------------------------------------------------
(* What the invariant implies                                              *)

\* A unit is once in one pool, or in one scheduler's hands, if it can run; and in
\* no place otherwise.
LEMMA UnitsInOnePlace == UnitsInv => W!OnePlace
<1> SUFFICES ASSUME UnitsInv PROVE W!OnePlace
  OBVIOUS
<1> SUFFICES ASSUME NEW u \in Unit
             PROVE  /\ Cardinality(W!Places(u)) = IF state[u] \in {"ready", "running"} THEN 1 ELSE 0
                    /\ in_pool[u] <=> \E p \in Pools : W!Positions(p, u) # {}
                    /\ in_pool[u] => W!Positions(home[u], u) # {}
  BY DEF W!OnePlace, W!Cardinality, Cardinality
<1>1. \A p \in Pools : \A i \in W!Positions(p, u) :
        /\ i \in 1..Len(units[p]) /\ units[p][i] = u
        /\ in_pool[u] /\ home[u] = p
  BY DEF W!Positions, UnitsInv, Placed, PoolsOK
<1>2. in_pool[u] => home[u] \in Pools /\ W!Positions(home[u], u) # {}
  BY DEF W!Positions, UnitsInv, Placed, PoolsOK
<1>3. \A e \in Stream : unit[e] = u =>
        /\ ~in_pool[u] /\ state[u] \in {"ready", "running"}
        /\ \A f \in Stream : unit[f] = u => f = e
  <2> SUFFICES ASSUME NEW e \in Stream, unit[e] = u
               PROVE  /\ ~in_pool[u] /\ state[u] \in {"ready", "running"}
                      /\ \A f \in Stream : unit[f] = u => f = e
    OBVIOUS
  <2>1. Hand(e) /\ u # None
    BY UnitsAssumption DEF UnitsInv, Hands
  <2>2. QED BY <2>1 DEF Hand
<1>4. CASE in_pool[u]
  <2>1. PICK i : i \in W!Positions(home[u], u)
    BY <1>2, <1>4
  <2>2. \A j \in W!Positions(home[u], u) : j = i
    BY <1>1, <1>2, <1>4, <2>1 DEF UnitsInv, Placed, PoolsOK
  <2>3. W!Places(u) = {<<home[u], i>>}
    <3>1. \A p \in Pools : p # home[u] => W!Positions(p, u) = {}
      BY <1>1
    <3>2. W!Positions(home[u], u) = {i}
      BY <2>1, <2>2
    <3>3. {e \in Stream : unit[e] = u} = {}
      BY <1>3, <1>4
    <3>4. UNION {{p} \X W!Positions(p, u) : p \in Pools} = {home[u]} \X {i}
      BY <1>2, <1>4, <3>1, <3>2
    <3>5. QED BY <3>3, <3>4 DEF W!Places
  <2>4. Cardinality(W!Places(u)) = 1
    BY <2>3, FS_Singleton
  <2>5. state[u] = "ready"
    BY <1>4 DEF UnitsInv, Found
  <2>6. QED BY <1>1, <1>2, <1>4, <2>4, <2>5
<1>5. CASE ~in_pool[u]
  <2>1. \A p \in Pools : W!Positions(p, u) = {}
    BY <1>1, <1>5
  <2>2. W!Places(u) = {e \in Stream : unit[e] = u}
    <3>1. UNION {{p} \X W!Positions(p, u) : p \in Pools} = {}
      BY <2>1
    <3>2. QED BY <3>1 DEF W!Places
  <2>3. CASE \E e \in Stream : unit[e] = u
    <3>1. PICK e \in Stream : unit[e] = u
      BY <2>3
    <3>2. W!Places(u) = {e}
      BY <1>3, <2>2, <3>1
    <3>3. QED BY <1>3, <1>5, <2>1, <3>1, <3>2, FS_Singleton
  <2>4. CASE ~\E e \in Stream : unit[e] = u
    <3>1. W!Places(u) = {}
      BY <2>2, <2>4
    <3>2. state[u] \notin {"ready", "running"}
      BY <1>5, <2>4 DEF UnitsInv, Found
    <3>3. QED BY <1>5, <2>1, <3>1, <3>2, FS_EmptySet
  <2>5. QED BY <2>3, <2>4
<1>6. QED BY <1>4, <1>5

\* The pool of an unfinished unit is served.
LEMMA UnitsNobodyLeft == UnitsInv => W!NobodyLeftBehind
BY DEF UnitsInv, Covered, Uses, W!NobodyLeftBehind
=============================================================================
