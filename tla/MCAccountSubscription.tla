------------------------ MODULE MCAccountSubscription ------------------------
(* Instances of AccountSubscription for TLC.                               *)
EXTENDS AccountSubscription

ErSymmetry == Permutations(Ers)

MCBudget == [change |-> 3, fault |-> 1]

=============================================================================
