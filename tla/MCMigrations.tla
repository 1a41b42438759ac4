---------------------------- MODULE MCMigrations ----------------------------
(* A small instance of Migrations.                                         *)
EXTENDS Migrations

HandMadeRows == {[slug |-> "wnba", sport |-> "basketball"],
                 [slug |-> "mls", sport |-> "soccer"],
                 [slug |-> "milb", sport |-> "baseball"]}
=============================================================================
