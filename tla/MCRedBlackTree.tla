---------------------------- MODULE MCRedBlackTree ----------------------------
(***************************************************************************)
(* RedBlackTree on small sets of nodes.                                    *)
(***************************************************************************)
EXTENDS RedBlackTreeProps, TLC

\* The shape of the tree: what is left of a state when the nodes lose their
\* names.  A node keeps its colour, the roles it has in the running call, and
\* whether its children point back at it.
\* The rest of a state, the links of nodes outside the tree and the arguments
\* of a finished call, is read by no action, and neither an action nor the
\* fairness nor a property tells one node from another, so that states with one
\* shape have the same behaviours up to a renaming of the nodes.
Shape ==
  LET mark(n) == <<t.red[n], Connected(t, n),
                   n = cur, ~ Idle /\ n = req.at, ~ Idle /\ n = req.node>>
      below[n \in NodeOrNull, k \in 0..Cardinality(Nodes)] ==
        IF n = NULL \/ k = 0 THEN <<>>
        ELSE <<mark(n), below[t.child[n][0], k - 1], below[t.child[n][1], k - 1]>>
  IN  <<below[t.root, Cardinality(Nodes)],
        t.root = NULL \/ t.parent[t.root] = NULL, t.size, Size, pc, side,
        IF Idle THEN "none" ELSE req.op>>

=============================================================================
