--------------------------- MODULE MCAigFunction ---------------------------
(* Instances of AigFunction for TLC. *)
EXTENDS AigFunction, MCAig

\* Clients that build a network and complement nodes of it.
MCComplementSpec ==
  FInit /\ [][FBuild \/ (\E o \in Nodes : FSubstituteComplement(o)) \/ FRun]_<<vars, promise>>

\* Networks that clients build who also replace inputs, back and forth.
\* take_out_node never releases what an input was referenced by, so that the
\* counts of the inputs drift upwards; these clients stop when one passes
\* MaxDrift.
MaxBuilt == 6
MaxDrift == 3
Undrifted == Idle => \A n \in Nodes : FanoutSize(n) <= MaxDrift

\* The larger networks of CascadeInit, in which they replace live gates by
\* live signals of either polarity.
MCInit == (Init \/ CascadeInit) /\ promise = FunctionsOf(Tables)
MCGate(o, n, c) == IsGate(o) /\ ~Dead(n) /\ FSubstituteNode(o, [node |-> n, neg |-> c])

MCNext ==
  \/ size <= MaxBuilt /\ Undrifted /\ FNext /\ size' <= MaxBuilt
  \/ size > MaxBuilt /\ \E o, n \in Nodes, c \in BOOLEAN : MCGate(o, n, c)
  \/ size > MaxBuilt /\ FRun
MCFunctionSpec == MCInit /\ [][MCNext]_<<vars, promise>>
=============================================================================
