--------------------------- MODULE MCTransactions ---------------------------
(* Two calls over the connections of one pool.                             *)
EXTENDS Transactions

CONSTANTS k1, k2, c1

MCCalls == {k1, k2}
MCConns == {c1}
\* Any call next to, before or after the simplest one.
MCMixes == {[k \in MCCalls |-> IF k = k1 THEN any ELSE "execute"] :
              any \in {"execute", "configured", "manager", "persist"}}
MCWork == MCCalls \X (1..MaxWork)

=============================================================================
