----------------------------- MODULE MCMigration -----------------------------
(* Migration on small instances. *)
EXTENDS Migration

CONSTANTS h1
=============================================================================
