----------------------------- MODULE MigrationMC -----------------------------
(***************************************************************************)
(* The migration of the roles on a small table, for TLC: users, addresses  *)
(* and instances are interchangeable.                                      *)
(***************************************************************************)
EXTENDS Migration, TLC

Symmetric == Permutations(User) \cup Permutations(Address) \cup Permutations(Instance)
=============================================================================
