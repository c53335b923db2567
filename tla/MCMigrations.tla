---------------------------- MODULE MCMigrations ----------------------------
(***************************************************************************)
(* Model values and bounds for checking Migrations on the five revisions   *)
(* of alembic/versions.                                                    *)
(***************************************************************************)
EXTENDS Migrations, SchemaRevisions
=============================================================================
