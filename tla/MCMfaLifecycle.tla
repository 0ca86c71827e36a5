-------------------------- MODULE MCMfaLifecycle ---------------------------
(* A small account.  The codes of steps two apart coincide, so a code can    *)
(* match two of the three steps that are tried.                              *)
EXTENDS MfaLifecycle, TLC

MCTotpCodes == {"even", "odd", "wrong"}

MCHotp == [f \in Factors, n \in 0..(MaxStep + 1) |-> IF n % 2 = 0 THEN "even" ELSE "odd"]

Symmetry ==
  Permutations(Handlers) \cup Permutations(Logins) \cup Permutations(Challenges)
  \cup Permutations(Sessions) \cup Permutations(Factors) \cup Permutations(RecoveryCodes)

=============================================================================
