------------------------- MODULE MCSubstituteNodes -------------------------
(* Instances of WindowLevels, and of SubstituteNodes below it, for TLC. *)
EXTENDS WindowLevels

\* A network of inputs and gates, as a client leaves it behind who creates the
\* inputs, then the gates, then the outputs.
Built(pis, gates, pos) ==
  LET isBuilt(n) == n \in pis + 1 .. pis + Len(gates)
      key(n) == gates[n - pis]
      uses(n) == {u \in (DOMAIN gates) \X {1, 2} : gates[u[1]][u[2]].node = n}
  IN  /\ size = 1 + pis + Len(gates)
      /\ isCi = [n \in Index |-> n \in 1 .. pis]
      /\ child = [n \in Index |-> IF isBuilt(n) THEN key(n) ELSE <<Const0, Const0>>]
      /\ hash = [p \in {gates[i] : i \in DOMAIN gates} |->
                   pis + (CHOOSE i \in DOMAIN gates : gates[i] = p)]
      /\ outputs = pos
      /\ h1 = [n \in Index |-> Cardinality(uses(n)) +
                               Cardinality({i \in DOMAIN pos : pos[i].node = n})]

P(n) == [node |-> n, neg |-> FALSE]
N(n) == [node |-> n, neg |-> TRUE]

\* The network of test/networks/aig.cpp:895; one in which 7 collapses to 6 when
\* 5 becomes 4; one in which 6 collapses to the complement of 5 when 4 becomes
\* the constant; and a chain with short equivalents.
Start ==
  \/ Built(3, << <<N(1), P(2)>>, <<P(1), P(4)>>, <<P(3), P(5)>>, <<P(2), P(4)>>,
                 <<N(5), N(7)>>, <<P(4), N(8)>> >>, <<P(6), P(9)>>)
  \/ Built(3, << <<P(1), P(2)>>, <<P(1), P(4)>>, <<P(3), P(4)>>, <<P(3), P(5)>>,
                 <<P(2), P(3)>>, <<P(1), P(8)>> >>, <<P(6), P(7), P(9)>>)
  \/ Built(2, << <<P(1), P(2)>>, <<N(1), P(3)>>, <<P(1), P(3)>>, <<N(4), N(5)>> >>,
           <<P(6)>>)
  \/ Built(3, << <<P(1), P(2)>>, <<P(1), P(4)>>, <<P(2), P(5)>>, <<P(3), P(6)>>,
                 <<P(5), P(7)>> >>, <<P(8), N(5)>>)

AtRest ==
  /\ pc = "idle"
  /\ restrash = TRUE
  /\ todo = <<>>
  /\ sub = [old |-> 0, new |-> Const0]
  /\ renamed = <<>>
  /\ scan = {}
  /\ calls = <<>>
  /\ cleans = <<>>
  /\ promise = Functions

MCInit == Start /\ AtRest /\ LInit

\* Networks with one node left get one more gate.
MCNext ==
  \/ size = MaxNodes - 1 /\ LBuild
  \/ LCall
  \/ LReturn
  \/ LVisit
  \/ LTakeOut
  \/ LOther
MCSpec == MCInit /\ [][MCNext]_<<vars, subVars, levelVars>> /\ SFairness

\* Clients that only see to it that no cycle arises, on a network in which
\* gate 7 becomes equal to gate 6 when gate 5 is replaced by gate 4.
MCCycleSpec ==
  /\ Built(3, << <<P(1), P(2)>>, <<P(1), P(4)>>, <<P(3), P(4)>>, <<P(3), P(5)>> >>,
           <<P(6), P(7)>>)
  /\ AtRest /\ LInit
  /\ [][(SomeNoCycle /\ UNCHANGED levelVars) \/ LRun]_<<vars, subVars, levelVars>>

\* Lists of three pairs, on a network in which gate 7 becomes equal to gate 6
\* when gate 5 is replaced, and both go with gate 10.
ThreePairs ==
  LET pairs == {s \in Candidates : s.old \in {5, 6, 10} /\ s.new.node \in {4, 9}}
  IN  Idle /\ \E list \in [1 .. 3 -> pairs] : Apart(list) /\ SubstituteList(list)
MCErasedSpec ==
  /\ Built(3, << <<P(1), P(2)>>, <<P(1), P(4)>>, <<P(3), P(4)>>, <<P(3), P(5)>>,
                 <<P(2), P(3)>>, <<P(1), P(8)>>, <<P(6), P(7)>> >>, <<P(10)>>)
  /\ AtRest /\ LInit
  /\ [][(ThreePairs /\ UNCHANGED levelVars) \/ LRun]_<<vars, subVars, levelVars>>
=============================================================================
