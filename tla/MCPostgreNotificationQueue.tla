--------------------- MODULE MCPostgreNotificationQueue ---------------------
(***************************************************************************)
(* Instances of PostgreNotificationQueue for TLC.                          *)
(***************************************************************************)
EXTENDS PostgreNotificationQueue

CONSTANTS k1, k2, k3, q1, q2, q3

MCClients == {k1, k2, k3}
MCQueues  == {q1, q2, q3}
=============================================================================
