-------------------------- MODULE MCPostgreNotify --------------------------
(***************************************************************************)
(* Instances of PostgreNotify for TLC: two listenNotify calls of the       *)
(* application on the same channel.                                        *)
(***************************************************************************)
EXTENDS PostgreNotify

CONSTANTS u1, u2

MCUsers == {u1, u2}
=============================================================================
