---------------------------- MODULE MCLoginProof ----------------------------
(* One handle, a few challenges, very short lifetimes. *)
EXTENDS LoginProof, TLC

ShortTtl == [register |-> 2, login |-> 2]

\* Not of the ids IsFresh chooses from.
Symmetry == Permutations(Handlers) \cup Permutations(VaultIds) \cup Permutations(Secrets)
=============================================================================
