--------------------------- MODULE MCBackpressure ---------------------------
(* Instances of Backpressure for TLC.                                      *)
EXTENDS Backpressure, TLC

CONSTANTS h1, i1, i2, i3, i4

\* A handler whose account moves: the subscription on the chain and three more
\* on ER nodes.  All connections wait for its mailbox, and it waits for any of
\* them.
MCOwner == [id \in {i1, i2, i3, i4} |-> h1]

=============================================================================
