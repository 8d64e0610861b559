----------------------------- MODULE MCOwnerAuth -----------------------------
(* Browsers, addresses and requests are interchangeable (no liveness is checked). *)
EXTENDS OwnerAuth, TLC

Symmetry == Permutations(Browser) \cup Permutations(Client) \cup Permutations(Request)
=============================================================================
