----------------------------- MODULE MCSettings -----------------------------
(* Requests are alike: they are chosen what to do when they come in. *)
EXTENDS Settings, TLC

Symmetric == Permutations(Requests)

=============================================================================
