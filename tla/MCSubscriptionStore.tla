------------------------ MODULE MCSubscriptionStore ------------------------
(* Small instances of SubscriptionStore for TLC.  Neither the processes nor *)
(* the ids are told apart by anything.                                      *)
EXTENDS SubscriptionStore, FiniteSets, TLC

CONSTANT MaxUnsure   \* bound: values left by operations that did not end well

Symmetry == Permutations(Procs) \cup Permutations(Ids)

FewUnsure == Cardinality({u \in Ids \X (Gids \cup {None}) : u[2] \in unsure[u[1]]}) <= MaxUnsure
=============================================================================
