--------------------------- MODULE MCOracleNotify ---------------------------
(* The connections of a listenNotify call with a few operations.           *)
EXTENDS OracleNotify

CONSTANTS a, b, c, d

MCConns == {a, b, c, d}

=============================================================================
