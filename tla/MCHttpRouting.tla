---------------------------- MODULE MCHttpRouting ----------------------------
(* Instances of HttpRouting for TLC.                                       *)
EXTENDS HttpRouting

CONSTANTS a1, a2, e1, e2, b1, b2, t1, t2, h1, h2

CallSymmetry == Permutations(Calls)

MCBaseChain == <<b1, b2>>
W(pk) == [pk |-> pk, writable |-> TRUE]
R(pk) == [pk |-> pk, writable |-> FALSE]

\* t1 writes both accounts, t2 writes one and reads the other.
MCKeys == (t1 :> <<W(a1), W(a2), W(a1)>>) @@ (t2 :> <<R(a1), W(a2)>>)

\* The base chain's endpoints know one hash, the ER nodes another.
MCIssuers == (h1 :> {b1, b2}) @@ (h2 :> {e1, e2})

\* No account, and one of them twice around the other.
MCPubkeyLists == {<<>>, <<a1, a2, a1>>}
MCSignatureLists == {<<>>, <<t1>>, <<t2, t1>>}

=============================================================================
