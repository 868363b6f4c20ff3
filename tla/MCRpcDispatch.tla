--------------------------- MODULE MCRpcDispatch ---------------------------
(* Small instances of RpcDispatch for TLC. *)
EXTENDS RpcDispatch, TLC

CONSTANTS i1, i2, f1, f2, f3, p1, p2, r1, r2

TwoIds         == {i1, i2}
ThreeFunctions == {f1, f2, f3}
OneProvider    == {p1}
TwoProviders   == {p1, p2}
TwoRpcs        == {r1, r2}

\* The members of each set are alike.
Symmetry ==
  Permutations(TwoIds) \cup Permutations(ThreeFunctions) \cup Permutations(TwoProviders)
    \cup Permutations(TwoRpcs)
=============================================================================
