------------------------------ MODULE TopoView ------------------------------
(***************************************************************************)
(* The order in which topo_view (views/topo_view.hpp) visits an AIG.  The   *)
(* indices of an AIG are no such order once a substitution has given a gate *)
(* a younger fanin, and every algorithm that goes through the gates from    *)
(* the inputs up relies on this view.                                       *)
(***************************************************************************)
EXTENDS Aig

\* What update_topo keeps: the order so far, the nodes with the temporary
\* mark, and whether create_topo_rec has met none of them again.
Visited(t) == {t.order[i] : i \in DOMAIN t.order}

\* Slip: a node is visited before its fanins.
Marked(t, n) == [t EXCEPT !.order = Append(@, n), !.temp = @ \cup {n}]

\* The temporary mark.
MarkedTemp(t, n) == [t EXCEPT !.temp = @ \cup {n}]

\* The permanent mark; the node is visited.
MarkedFor(t, n) ==
  IF n \in Visited(t) THEN t ELSE [t EXCEPT !.order = Append(@, n), !.temp = @ \ {n}]

RECURSIVE CreateTopo(_, _)
CreateTopo(t, n) ==
  IF n \in Visited(t) THEN t
  ELSE IF n \in t.temp THEN [t EXCEPT !.acyclic = FALSE]
  ELSE LET marked == MarkedTemp(t, n)
           first == CreateTopo(marked, child[n][1].node)
           second == CreateTopo(first, child[n][2].node)
       IN  MarkedFor(second, n)

\* Constant, inputs, and then what the outputs are computed from.
UpdateTopo ==
  LET inputs == SelectSeq([i \in 1 .. size - 1 |-> i], LAMBDA n : isCi[n])
      upTo[i \in 0 .. Len(outputs)] ==
        IF i = 0 THEN [order |-> <<0>> \o inputs, temp |-> {}, acyclic |-> TRUE]
        ELSE LET last == upTo[i - 1] IN CreateTopo(last, outputs[i].node)
  IN  upTo[Len(outputs)]

\* num_gates of the view.
TopoGates(order) == Len(order) - 1 - Cardinality({n \in Nodes : isCi[n]})

\* Between operations, whatever substitution has made of the network, the view
\* visits the gates that outputs are computed from, each once and after its
\* fanins; it meets no cycle, which it would assert.
TopoSorted ==
  Idle =>
    LET t == UpdateTopo
        reachable == UNION {Cone(outputs[i].node) : i \in DOMAIN outputs}
        place(n) == CHOOSE i \in DOMAIN t.order : t.order[i] = n
        gates == {n \in Visited(t) : IsGate(n)}
    IN  /\ t.acyclic
        /\ gates = {n \in reachable : IsGate(n)}
        /\ TopoGates(t.order) = Cardinality(gates)
        /\ \A g \in gates : ~Dead(g) /\ \A c \in FaninNodes(g) : place(c) < place(g)
=============================================================================
