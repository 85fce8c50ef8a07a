-------------------------- MODULE MCCredentialVault --------------------------
(* An instance of CredentialVault for TLC. *)
EXTENDS CredentialVault, TLC

CONSTANTS a1, a2, s1, r1, r2

Symmetric == Permutations(Apps) \cup Permutations(References)
=============================================================================
