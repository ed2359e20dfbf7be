----------------------------- MODULE MCMigrations ------------------------------
(* Small instances of Migrations.                                          *)
EXTENDS MigrationProperties, TLC

CONSTANTS c1, c2, s, t, n, m, i, j

Symmetric == Permutations(Commands) \cup Permutations(Servers) \cup Permutations(Ids) \cup Permutations(Names)
=============================================================================
