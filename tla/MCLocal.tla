------------------------------ MODULE MCLocal ------------------------------
(* Small instances of Local for TLC. *)
EXTENDS Local

CONSTANTS a1, m1, m2, n1, n2, w1, w2, t1, p1, p2, p3,
          s1, s2, s3, o1, o2, k1, k2, es1, es2, q1, q2

ThreeObjects == {a1, m1, m2}
ManagedObjects == {m1, m2}
TwoHandles == {n1, n2}
TwoWaiters == {w1, w2}
OneTimed == {t1}
ThreeProducers == {p1, p2, p3}
ThreeSetters == {s1, s2, s3}
TwoTimed == {o1, o2}
TwoTimers == {k1, k2}
TwoUnits == 1..2
NoTask == {}
TwoStreams == {es1, es2}
TwoPools == {q1, q2}
TwoUsers == {w1, w2}

\* The lists of the instance, in which the first stream uses one pool, the second both.
Lists == [k \in {"pool", "xstream"} |-> IF k = "pool" THEN <<q1, q2>> ELSE <<es1, es2>>]
Used == [e \in TwoStreams |-> IF e = es1 THEN {q1} ELSE {q1, q2}]

\* The second stream steals from the first one's pool.
Stealing == [e \in TwoStreams |-> IF e = es1 THEN <<q1>> ELSE <<q2, q1>>]
=============================================================================
