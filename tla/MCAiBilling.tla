----------------------------- MODULE MCAiBilling -----------------------------
(* Symmetry for TLC: instances and deliveries are interchangeable.         *)
EXTENDS AiBillingProps, TLC

Symmetry == Permutations(Handlers) \union Permutations(Checkers)
=============================================================================
