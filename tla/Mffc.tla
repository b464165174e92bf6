-------------------------------- MODULE Mffc --------------------------------
(***************************************************************************)
(* The maximal fanout-free cone of a gate: the gates that serve no other    *)
(* purpose.  Rewriting, refactoring and mapping count it to know what a     *)
(* replacement of the gate would save (algorithms/detail/mffc_utils.hpp);   *)
(* mffc_view (views/mffc_view.hpp) presents it as a network.  Both take     *)
(* references back, on the way down, from the values of the nodes or from   *)
(* the reference counts themselves, and restore them afterwards.            *)
(***************************************************************************)
EXTENDS Aig

CONSTANT MffcLimit (* _limit of mffc_view, 100 in the code *)

ASSUME MffcLimitAssumption == MffcLimit \in Nat

-----------------------------------------------------------------------------
(* mffc_size; v.value are the values of the nodes and v.sum is the number   *)
(* that the recursion returns.                                              *)

\* Slip: an input of the cone stands for a gate.
EndsNever(n) == n = 0

\* Where the recursion ends.
Ends(n) == ~IsGate(n)

RECURSIVE RecursiveDeref(_, _), RecursiveRef(_, _)

\* A fanin loses a reference; without any it belongs to the cone.
Dereferenced(v, c) ==
  LET w == [v EXCEPT !.value[c] = @ - 1]
  IN  IF w.value[c] = 0 THEN RecursiveDeref(w, c) ELSE w
RecursiveDeref(v, n) ==
  IF Ends(n) THEN v
  ELSE LET w == Dereferenced([v EXCEPT !.sum = @ + 1], child[n][1].node)
       IN  Dereferenced(w, child[n][2].node)

\* Slip: the value is asked for after it has been incremented.
ReferencedLate(v, c) ==
  LET w == [v EXCEPT !.value[c] = @ + 1]
  IN  IF w.value[c] = 0 THEN RecursiveRef(w, c) ELSE w

\* A fanin gets a reference; if it had none it belonged to the cone.
Referenced(v, c) ==
  LET w == [v EXCEPT !.value[c] = @ + 1]
  IN  IF v.value[c] = 0 THEN RecursiveRef(w, c) ELSE w
RecursiveRef(v, n) ==
  IF Ends(n) THEN v
  ELSE LET w == Referenced([v EXCEPT !.sum = @ + 1], child[n][1].node)
       IN  Referenced(w, child[n][2].node)

\* initialize_values_with_fanout, and the two recursions of mffc_size.
InitialValues == [n \in Nodes |-> FanoutSize(n)]
Down(n) == RecursiveDeref([value |-> InitialValues, sum |-> 0], n)
Up(n) == RecursiveRef([value |-> Down(n).value, sum |-> 0], n)

-----------------------------------------------------------------------------
(* mffc_view; c.count are the reference counts, c.nodes is _nodes, and c.ok *)
(* the value that collect returns.                                          *)

RECURSIVE Collect(_, _)

\* One fanin of the loop in collect, which ends at the first that fails.
CollectFanin(c, f) ==
  LET d == [c EXCEPT !.count[f] = @ - 1, !.nodes = Append(@, f)]
  IN  IF ~c.ok THEN c
      ELSE IF d.count[f] # 0 THEN d
      ELSE IF Len(d.nodes) > MffcLimit THEN [d EXCEPT !.ok = FALSE]
      ELSE Collect(d, f)
Collect(c, n) ==
  IF ~IsGate(n) THEN c
  ELSE CollectFanin(CollectFanin(c, child[n][1].node), child[n][2].node)

Collected(n) == Collect([count |-> InitialValues, nodes |-> <<>>, ok |-> TRUE], n)

\* Slip: what is still referenced counts as inner.
IsLeafInput(c, n) == isCi[n]

\* compute_sets: nodes are leaves or inner.
IsLeaf(c, n) == c.count[n] > 0 \/ isCi[n]
Collecteds(c) == {c.nodes[i] : i \in DOMAIN c.nodes} \ {0}
Leaves(c) == {n \in Collecteds(c) : IsLeaf(c, n)}
Inner(c, root) == (Collecteds(c) \ Leaves(c)) \cup {root}

\* topo_sort_rec.
RECURSIVE TopoSort(_, _, _)
TopoSort(inner, order, n) ==
  IF n \notin inner \/ n \in {order[i] : i \in DOMAIN order} THEN order
  ELSE LET first == TopoSort(inner, order, child[n][1].node)
           second == TopoSort(inner, first, child[n][2].node)
       IN  Append(second, n)

\* The counts when the view has been constructed.
Restored(c) ==
  [n \in Nodes |-> c.count[n] + Cardinality({i \in DOMAIN c.nodes : c.nodes[i] = n})]

-----------------------------------------------------------------------------
(* What it should be.                                                      *)

\* The nodes that gates outside the cone of n, or outputs, are computed from
\* without passing n.
Outside(n) ==
  LET roots == (LiveGates \ Cone(n)) \cup {outputs[i].node : i \in DOMAIN outputs}
      reached[k \in 0 .. MaxNodes] ==
        IF k = 0 THEN roots \ {n}
        ELSE LET last == reached[k - 1]
             IN  last \cup (UNION {FaninNodes(m) : m \in {g \in last : IsGate(g)}} \ {n})
  IN  reached[MaxNodes]
MaximalCone(n) == ({m \in Cone(n) : IsGate(m)} \ Outside(n)) \cup {n}

\* mffc_size counts the cone, and the second recursion undoes the first: it
\* counts the same, as is asserted, and every value is the fanout size again.
SizeExact ==
  Idle => \A n \in LiveGates :
     LET down == Down(n)
         up == Up(n)
     IN  /\ down.sum = Cardinality(MaximalCone(n))
         /\ up.sum = down.sum
         /\ up.value = InitialValues

\* The view shows the cone, its leaves and an order from the leaves up, or
\* nothing, which only happens to large cones; and either way the reference
\* counts, which are those of the network, are what they were.
ViewExact ==
  Idle => \A n \in LiveGates :
     LET c == Collected(n)
         inner == Inner(c, n)
         order == TopoSort(inner, <<>>, n)
         place(m) == CHOOSE i \in DOMAIN order : order[i] = m
     IN  /\ Restored(c) = InitialValues
         /\ IF c.ok
            THEN /\ inner = MaximalCone(n)
                 /\ Leaves(c) = UNION {FaninNodes(m) : m \in inner} \ (inner \cup {0})
                 /\ Len(order) = Cardinality(inner)
                 /\ \A m \in inner : \A f \in FaninNodes(m) \cap inner : place(f) < place(m)
            ELSE 2 * Cardinality(MaximalCone(n)) > MffcLimit
=============================================================================
