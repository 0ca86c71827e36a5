------------------------ MODULE MCSessionLifecycle ------------------------
(* A session with very short lifetimes and a few concurrent requests. *)
EXTENDS SessionLifecycle, TLC

Symmetry == Permutations(Requests) \cup Permutations(CsrfTokens)

=============================================================================
