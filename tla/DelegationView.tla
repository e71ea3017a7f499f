--------------------------- MODULE DelegationView ---------------------------
(***************************************************************************)
(* What the delegation cache promises, with neither fills nor streams: for *)
(* every address it knows nothing, or the delegation record that the base  *)
(* chain held at some past slot.  It may learn the record of a later slot  *)
(* and may forget what it knows; it never goes back to an earlier slot and *)
(* never changes its mind about a slot.                                    *)
(***************************************************************************)
EXTENDS Integers, Sequences

CONSTANTS Pdas, Data, Unknown,
          Decode(_)    \* the record that account data stands for

VARIABLES chain,       \* chain[s][p]: account data of p at slot s
          view         \* view[p]: Unknown, or [slot, record]

vars == <<chain, view>>

Init ==
  /\ chain \in {<<c>> : c \in [Pdas -> Data]}
  /\ view = [p \in Pdas |-> Unknown]

Produce ==
  /\ \E c \in [Pdas -> Data] : chain' = Append(chain, c)
  /\ UNCHANGED view

Learn(p, s) ==
  /\ view[p] = Unknown \/ view[p].slot < s
  /\ view' = [view EXCEPT ![p] = [slot |-> s, record |-> Decode(chain[s][p])]]
  /\ UNCHANGED chain

Forget(p) ==
  /\ view' = [view EXCEPT ![p] = Unknown]
  /\ UNCHANGED chain

Next ==
  \/ Produce
  \/ \E p \in Pdas : Forget(p) \/ \E s \in 1 .. Len(chain) : Learn(p, s)

Spec == Init /\ [][Next]_vars

=============================================================================
