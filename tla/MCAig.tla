------------------------------- MODULE MCAig -------------------------------
(***************************************************************************)
(* Instances of Aig for TLC.                                                *)
(***************************************************************************)
EXTENDS Aig

\* The network of two lists, all that a client leaves behind who creates the
\* inputs, then the gates (pairs of uncomplemented fanins), then the outputs.
Built(pis, gates, pos) ==
  LET fanins(n) == gates[n - pis]
      isBuilt(n) == n \in pis + 1 .. pis + Len(gates)
      plain(n) == [node |-> n, neg |-> FALSE]
      key(n) == <<plain(fanins(n)[1]), plain(fanins(n)[2])>>
  IN  /\ size = 1 + pis + Len(gates)
      /\ isCi = [n \in Index |-> n \in 1 .. pis]
      /\ child = [n \in Index |-> IF isBuilt(n) THEN key(n) ELSE <<Const0, Const0>>]
      /\ hash = [p \in {key(n) : n \in {m \in Index : isBuilt(m)}} |->
                   CHOOSE n \in Index : isBuilt(n) /\ key(n) = p]
      /\ outputs = [i \in DOMAIN pos |-> plain(pos[i])]
      /\ h1 = [n \in Index |->
                 Cardinality({g \in Index : isBuilt(g) /\ fanins(g)[1] = n}) +
                 Cardinality({g \in Index : isBuilt(g) /\ fanins(g)[2] = n}) +
                 Cardinality({i \in DOMAIN pos : pos[i] = n})]

AtRest ==
  /\ pc = "idle"
  /\ restrash = TRUE
  /\ todo = <<>>
  /\ sub = [old |-> 0, new |-> Const0]
  /\ renamed = <<>>
  /\ scan = {}
  /\ calls = <<>>

\* All inputs but one are there before the first gate, which saves the orders
\* in which inputs and gates can be created.
InputsInit == Built(MaxPis - 1, <<>>, <<>>) /\ AtRest

\* Three networks with deep cascades, two of them from test/networks/aig.cpp:
\* issue #545 (line 942), re-strashing case 2 (line 982), where a new node
\* has to be revived, and one where gate 7 is what gate 5 becomes and is
\* replaced first, once gate 4 is gone, so that old_to_new has to be followed.
CascadeInit ==
  /\ \/ Built(3, << <<2, 3>>, <<1, 2>>, <<4, 5>>, <<1, 5>> >>, <<6>>)
     \/ Built(3, << <<2, 3>>, <<1, 4>>, <<3, 5>>, <<1, 6>> >>, <<7>>)
     \/ Built(2, << <<1, 2>>, <<2, 3>>, <<3, 4>>, <<1, 3>>, <<1, 6>> >>, <<5>>)
  /\ AtRest

\* From the networks of CascadeInit the clients substitute live gates by live
\* signals only, so that every call leaves fewer gates.
MCCascadeNext ==
  \/ \E o \in Nodes, s \in LiveSignals : SubstituteNode(o, s)
  \/ Unwind
  \/ Substitute
MCCascadeSpec == CascadeInit /\ [][MCCascadeNext]_vars /\ Fairness

MCSpec == InputsInit /\ [][Next]_vars

\* Clients that do without structural hashing: any of them, and those that
\* never make the two fanins of a gate the same node.
MCTwinSpec == InputsInit /\ [][Next \/ SomeNoRestrash]_vars
NoTwin(o, s) == \A g \in LiveGates : ~({o, s.node} \subseteq FaninNodes(g))
SomeNoTwin ==
  \E o \in Nodes, s \in Signals : NoTwin(o, s) /\ SubstituteNodeNoRestrash(o, s)

\* The latter while the network has at most MaxPlain nodes.
MaxPlain == 5
MCMixedSpec == InputsInit /\ [][Next \/ (size <= MaxPlain /\ SomeNoTwin)]_vars

\* A client that builds and restructures one network, call by call: x and y
\* are inputs, g is made before a, on which it depends after the first
\* substitution, and the second one replaces o by x.  What gate 8 was made
\* for, to be what g becomes, is taken out before g is replaced.
Pos(n) == [node |-> n, neg |-> FALSE]
Neg(n) == [node |-> n, neg |-> TRUE]
Steps ==
  << <<Pos(1), Pos(2)>>, <<Pos(2), Pos(3)>>, <<Pos(4), Pos(5)>>, <<Pos(1), Pos(4)>>,
     <<Pos(1), Pos(7)>>, <<Neg(1), Pos(4)>>, <<Pos(8), Pos(9)>> >>
MCRevivedNext ==
  \/ CreatePi
  \/ /\ size - 3 \in DOMAIN Steps
     /\ size = 8 => Dead(5)
     /\ CreateAnd(Steps[size - 3][1], Steps[size - 3][2])
  \/ size = 8 /\ SubstituteNode(5, Pos(7))
  \/ size = 11 /\ CreatePo(Pos(IF outputs = <<>> THEN 10 ELSE 6))
  \/ Len(outputs) = MaxPos /\ SubstituteNode(4, Pos(1))
  \/ Unwind
  \/ Substitute
MCRevivedSpec == Init /\ [][MCRevivedNext]_vars
=============================================================================
