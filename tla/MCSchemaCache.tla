---------------------------- MODULE MCSchemaCache ----------------------------
(* Instances of SchemaCache for TLC. *)
EXTENDS SchemaCache, TLC

Symmetric == Permutations(Loaders) \cup Permutations(Databases)
=============================================================================
