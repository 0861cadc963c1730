---------------------------- MODULE MCPluginRuns ----------------------------
(* One process for TLC, and what is interchangeable then.                  *)
EXTENDS PluginRunsProps, TLC

CONSTANT h

OneHost  == [c \in Calls |-> h]
Symmetry == Permutations(Calls) \union Permutations(Events)
=============================================================================
