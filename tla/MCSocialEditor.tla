--------------------------- MODULE MCSocialEditor ---------------------------
(* Two posts, which differ in nothing. *)
EXTENDS SocialEditor, TLC
Symmetry == Permutations(Posts)
=============================================================================
