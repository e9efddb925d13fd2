--------------------------- MODULE MCKitLifecycle ---------------------------
(***************************************************************************)
(* Instances of KitLifecycle for TLC: two callers of initDatabase and a    *)
(* master with one slave.                                                  *)
(***************************************************************************)
EXTENDS KitLifecycle

CONSTANTS c1, c2

MCCallers == {c1, c2}
=============================================================================
