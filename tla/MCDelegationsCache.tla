------------------------- MODULE MCDelegationsCache -------------------------
EXTENDS DelegationsCache, TLC

CONSTANTS Evictions, Cancels, Interrupts, Terminations, Exhaustions

MCBudget == [evict |-> Evictions, cancel |-> Cancels,
             interrupt |-> Interrupts, terminate |-> Terminations,
             exhaust |-> Exhaustions]

CallSymmetry == Permutations(Calls)
=============================================================================
