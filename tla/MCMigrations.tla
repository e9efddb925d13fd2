---------------------------- MODULE MCMigrations ----------------------------
(* The units of work of the migrations.                                    *)
EXTENDS Migrations

MCWork == {"up", "record", "down", "erase"} \X (1..LastMigration)

=============================================================================
