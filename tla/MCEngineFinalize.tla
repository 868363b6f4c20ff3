-------------------------- MODULE MCEngineFinalize --------------------------
(* Small instances of EngineFinalize for TLC. *)
EXTENDS EngineFinalize

CONSTANTS c1, c2, c3, o1, t1, t2, e1, e2

ThreeCallbacks == {c1, c2, c3}
OneOwner       == {o1}
TwoThreads     == {t1, t2}
TwoHolders     == {e1, e2}
=============================================================================
