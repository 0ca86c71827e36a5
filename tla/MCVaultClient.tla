--------------------------- MODULE MCVaultClient ---------------------------
(* Small browsers: a few tabs, functions per tab and changes.               *)
EXTENDS VaultClient, FiniteSets, TLC

MCWriters == Tabs \X Slots

Chains == UNION { [1..n -> Change] : n \in 0..MaxChain }

MCCheckpoints == { HeadOf(c) : c \in Chains }

Symmetry == Permutations(Revs) \cup Permutations(Tabs) \cup Permutations(Slots)

=============================================================================
