---------------------------- MODULE MCFanoutView ----------------------------
(* Instances of FanoutView for TLC. *)
EXTENDS FanoutView

MCInit ==
  /\ size = 1 + MaxPis
  /\ isCi = [n \in Index |-> n \in 1 .. MaxPis]
  /\ child = [n \in Index |-> <<Const0, Const0>>]
  /\ h1 = [n \in Index |-> 0]
  /\ hash = <<>>
  /\ outputs = <<>>
  /\ pc = "idle"
  /\ restrash = TRUE
  /\ todo = <<>>
  /\ sub = [old |-> 0, new |-> Const0]
  /\ renamed = <<>>
  /\ scan = {}
  /\ calls = <<>>
  /\ fanout = [n \in Index |-> <<>>]
  /\ parents = <<>>
  /\ views = 1

\* Two kinds of clients: those that never complement a node, and those that
\* do and create no output.  Complementing leaves references counted that are
\* gone; the latter stop when a count passes MaxDrift.
MaxDrift == 3
Undrifted == \A n \in Nodes : Dead(n) \/ FanoutSize(n) = References(n)
MCNext ==
  /\ VNext \/ (outputs = <<>> /\ views = 1 /\ VSomeComplement)
  /\ views' > 1 => outputs' = <<>> /\ restrash'
  /\ Idle => /\ \A n \in Nodes : FanoutSize(n) <= MaxDrift
             /\ outputs' = <<>> \/ Undrifted
MCSpec == MCInit /\ [][MCNext]_<<vars, viewVars>>
=============================================================================
