------------------------- MODULE MCMigrateDatabase --------------------------
(* Migrations of SmallDatabases.                                           *)
EXTENDS MigrateDatabaseProofs, SmallDatabases
=============================================================================
