-------------------------- MODULE MCSignedRequests --------------------------
(* Model values, bounds and symmetry for SignedRequests.                   *)
EXTENDS SignedRequests, TLC

Symmetry == Permutations(Nonce) \cup Permutations(Handler)
=============================================================================
