---------------------------- MODULE MCMigrations ----------------------------
(* Migrations for TLC: a deploy from a release with one file to the one  *)
(* with two, of which more than one instance is started.                   *)
EXTENDS Migrations

MCInstances == {"old", "new-1", "new-2"}
MCFilesOf == [i \in MCInstances |-> IF i = "old" THEN 1 ELSE 2]
=============================================================================
