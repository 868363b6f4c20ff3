---------------------------- MODULE MCRpcHandle ----------------------------
(* Small instances of RpcHandle for TLC. *)
EXTENDS RpcHandle, TLC

CONSTANTS h1, h2, c1, c2, r1, r2, p1, p2, q1, q2

HandlesDef   == {h1, h2}
CallablesDef == {c1, c2}
ResponsesDef == {r1, r2}
PackedDef    == {p1, p2}
RequestsDef  == {q1, q2}

\* Handles are interchangeable, and so are the variables of each type.
Symmetry ==
  Permutations(HandlesDef) \cup Permutations(CallablesDef)
    \cup Permutations(ResponsesDef) \cup Permutations(PackedDef)
    \cup Permutations(RequestsDef)
=============================================================================
