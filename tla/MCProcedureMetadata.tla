------------------------ MODULE MCProcedureMetadata ------------------------
(***************************************************************************)
(* Instances of ProcedureMetadata for TLC.                                 *)
(***************************************************************************)
EXTENDS ProcedureMetadata
CONSTANTS p1, p2, r1, r2, r3

MCPackages == {p1, p2}
MCRuns     == {r1, r2, r3}
=============================================================================
