--------------------------- MODULE MCBulkTransfer ---------------------------
(* Small instances of BulkTransfer for TLC. *)
EXTENDS BulkTransfer

CONSTANTS a1, a2

TwoObjects == {a1, a2}
=============================================================================
