----------------------------- MODULE MCRpcCall -----------------------------
(* Small instances of RpcCall for TLC. *)
EXTENDS RpcCall

CONSTANTS k1, k2, h1, h2

TwoCalls    == {k1, k2}
TwoHandles  == {h1, h2}
ZeroAndFive == {0, 5}
OnlyFive    == {5}
=============================================================================
