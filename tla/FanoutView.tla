----------------------------- MODULE FanoutView -----------------------------
(***************************************************************************)
(* fanout_view over an aig_network (views/fanout_view.hpp): a list of the   *)
(* fanouts of every node, kept current by three handlers registered with    *)
(* the network's events, and a substitute_node of its own that visits these *)
(* lists where the network scans all nodes.                                 *)
(*                                                                          *)
(* A handler runs inside the step of Aig that fires its event.  The view    *)
(* copies a list before it visits it, and asks neither whether a node of it *)
(* is still alive nor whether it still is a fanout.                         *)
(*                                                                          *)
(* A copy of a view shares the network and the lists but registers handlers *)
(* of its own: from then on every event changes the lists twice.            *)
(***************************************************************************)
EXTENDS Aig

CONSTANT MaxViews  (* bound on the view and its copies *)

ASSUME MaxViewsAssumption == MaxViews \in Nat \ {0}

VARIABLES
  fanout,  (* _fanout: the fanouts of every node, in order                 *)
  parents, (* the part of the copy of _fanout[_old] still to be visited    *)
  views    (* the view and its copies, each with its handlers              *)

viewVars == <<fanout, parents, views>>

\* The list without n.
Without(list, n) ==
  LET upTo[i \in 0 .. Len(list)] ==
        IF i = 0 THEN <<>>
        ELSE IF list[i] = n THEN upTo[i - 1] ELSE Append(upTo[i - 1], list[i])
  IN  upTo[Len(list)]

\* The lists after n was pushed to those of its fanins, one after the other.
Pushed(lists, n, fanins) ==
  LET first == [lists EXCEPT ![fanins[1].node] = Append(@, n)]
  IN  [first EXCEPT ![fanins[2].node] = Append(@, n)]
\* The lists after n was removed from those of its fanins.
Removed(lists, n, fanins) ==
  [m \in DOMAIN lists |->
     IF m \in {fanins[1].node, fanins[2].node} THEN Without(lists[m], n) ELSE lists[m]]

\* Slip: only the node's own list is cleared.
OnDeleteClears(n) == fanout' = [fanout EXCEPT ![n] = <<>>]
\* Slip: a revived node is not noted.
OnAddNew(n) == fanout' = IF n = size THEN Pushed(fanout, n, child'[n]) ELSE fanout

\* The handlers of on_add, on_modified and on_delete, of one view after the
\* other; n has the fanins p now and had the fanins q before.
Added(n, p) ==
  LET after[v \in 0 .. views] == IF v = 0 THEN fanout ELSE Pushed(after[v - 1], n, p)
  IN  after[views]
Modified(n, q, p) ==
  LET after[v \in 0 .. views] ==
        IF v = 0 THEN fanout ELSE Pushed(Removed(after[v - 1], n, q), n, p)
  IN  after[views]
Deleted(n, q) ==
  LET after[v \in 0 .. views] ==
        IF v = 0 THEN fanout ELSE Removed([after[v - 1] EXCEPT ![n] = <<>>], n, q)
  IN  after[views]

OnAdd(n) == fanout' = Added(n, child'[n])
OnModified(n) == fanout' = Modified(n, child[n], child'[n])
OnDelete(n) == fanout' = Deleted(n, child[n])

\* fanout_view() of an empty network.
VInit == Init /\ fanout = [n \in Index |-> <<>>] /\ parents = <<>> /\ views = 1

\* The copy constructor; lists and network are shared.
VCopy ==
  /\ Idle
  /\ views < MaxViews
  /\ views' = views + 1
  /\ UNCHANGED <<vars, fanout, parents>>

\* compute_fanout: every live gate is listed once per fanin node, in the
\* order of the gates.
Computed ==
  LET below[k \in 0 .. size] ==
        IF k = 0 THEN [m \in Index |-> <<>>]
        ELSE [m \in Index |->
                IF k - 1 \in LiveGates /\ m \in FaninNodes(k - 1)
                THEN Append(below[k - 1][m], k - 1) ELSE below[k - 1][m]]
  IN  below[size]
UpdateFanout ==
  /\ Idle
  /\ fanout' = Computed
  /\ UNCHANGED <<vars, parents, views>>

VCreateAnd(a, b) == CreateAnd(a, b) /\ OnAdd(size) /\ UNCHANGED <<parents, views>>

VUnwind ==
  /\ \/ (TakeOutIgnored \/ TakeOutFanin \/ ReviveFanin) /\ UNCHANGED fanout
     \/ TakeOutEnter /\ OnDelete(Head(calls).node)
     \/ ReviveEnter /\ OnAdd(Head(calls).node)
  /\ UNCHANGED <<parents, views>>

\* substitute_node: the new node is revived before the worklist starts.
VSubstituteNode(o, s) ==
  /\ MaySubstitute(o, s)
  /\ todo' = <<[old |-> o, new |-> s]>>
  /\ pc' = "pop"
  /\ restrash' = TRUE
  /\ calls' = IF Dead(s.node) THEN <<Call("revive", s.node)>> ELSE <<>>
  /\ UNCHANGED <<netVars, sub, renamed, scan, viewVars>>

VSubstituteNodeNoRestrash(o, s) ==
  SubstituteNodeNoRestrash(o, s) /\ UNCHANGED viewVars

\* A pair that has become the substitution of a node by itself is dropped:
\* two gates that differ in the polarity of a fanin become each other when
\* that fanin is complemented.
Drop ==
  /\ pc = "begin" /\ calls = <<>>
  /\ restrash
  /\ sub.new = [node |-> sub.old, neg |-> FALSE]
  /\ pc' = "pop"
  /\ UNCHANGED <<netVars, restrash, todo, sub, renamed, scan, calls, viewVars>>

VBegin ==
  /\ pc = "begin" /\ calls = <<>>
  /\ ~(restrash /\ sub.new = [node |-> sub.old, neg |-> FALSE])
  /\ parents' = fanout[sub.old]
  /\ pc' = "scan"
  /\ UNCHANGED <<netVars, restrash, todo, sub, renamed, scan, calls, fanout, views>>

\* replace_in_node of the next node of the copy.
VVisit ==
  /\ pc = "scan"
  /\ parents # <<>>
  /\ LET n == Head(parents)
     IN  \/ /\ sub.old \notin FaninNodes(n)
            /\ UNCHANGED <<netVars, todo, fanout>>
         \/ /\ sub.old \in FaninNodes(n)
            /\ CollapseNode(n)
            /\ UNCHANGED fanout
         \/ /\ sub.old \in FaninNodes(n)
            /\ RestrashNode(n) \/ RewireNode(n)
            /\ OnModified(n)
  /\ parents' = Tail(parents)
  /\ UNCHANGED <<pc, restrash, sub, renamed, scan, calls, views>>

VFinishPair == parents = <<>> /\ FinishPair /\ UNCHANGED viewVars

VSubstitute ==
  \/ (Return \/ Pop \/ Follow \/ Resolved) /\ UNCHANGED viewVars
  \/ Drop \/ VBegin \/ VVisit \/ VFinishPair

\* A gate with the same node twice, which substitute_node_no_restrash may
\* make: once compute_fanout has listed it only once, a later substitution
\* leaves one of the two fanins.  Clients recompute the lists only without.
Twin == \E g \in LiveGates : child[g][1].node = child[g][2].node

VNext ==
  \/ (CreatePi \/ \E f \in LiveSignals : CreatePo(f)) /\ UNCHANGED viewVars
  \/ \E a, b \in LiveSignals : VCreateAnd(a, b)
  \/ (\E n \in Nodes : TakeOut(n)) /\ UNCHANGED viewVars
  \/ \E o \in Nodes, s \in Signals :
        VSubstituteNode(o, s) \/ VSubstituteNodeNoRestrash(o, s)
  \/ VUnwind
  \/ VSubstitute
  \/ VCopy
  \/ ~Twin /\ UpdateFanout

VSpec == VInit /\ [][VNext]_<<vars, viewVars>>

\* Other clients replace a node by its own complement.
VSomeComplement ==
  \E o \in Nodes : SubstituteComplement(o) /\ UNCHANGED viewVars

VAnySpec == VInit /\ [][VNext \/ VSomeComplement]_<<vars, viewVars>>

-----------------------------------------------------------------------------
(* Safety.                                                                 *)

VTypeOK ==
  /\ TypeOK
  /\ fanout \in [Index -> Seq(Index)]
  /\ parents \in Seq(Index)
  /\ views \in 1 .. MaxViews

\* How often a live gate n has m as a fanin.
Uses(n, m) ==
  IF n \in LiveGates THEN Cardinality({i \in {1, 2} : child[n][i].node = m}) ELSE 0

\* Between operations the list of every live node holds every live fanout
\* and no other node, and holds it once per fanin as long as there is one
\* view: what foreach_fanout promises, though on_delete empties a list that
\* revive_node may need again, and copies push to lists that they share.
FanoutExact ==
  Idle => \A m \in Nodes : ~Dead(m) =>
            \A n \in Index :
               LET listed == Cardinality({i \in DOMAIN fanout[m] : fanout[m][i] = n})
               IN  /\ (listed = 0) = (Uses(n, m) = 0)
                   /\ views = 1 => listed = Uses(n, m)

\* At every step, in the middle of any recursion and of any substitution, a
\* list holds live gates only, and each has the list's node as a fanin: what
\* foreach_fanout visits without asking.  The copy that substitute_node visits
\* holds live gates as long as it is visited, while the lists change.
NoStaleFanout ==
  /\ \A m \in Index : \A i \in DOMAIN fanout[m] :
        fanout[m][i] \in LiveGates /\ m \in FaninNodes(fanout[m][i])
  /\ pc = "scan" => \A i \in DOMAIN parents : parents[i] \in LiveGates

\* When a node is about to be taken out nothing alive still has it as a
\* fanin, except gates that are to be replaced themselves: visiting the copy
\* of the list is as good as the network's scan of all nodes.
NoFanoutMissed ==
  pc = "scan" /\ parents = <<>> /\ sub.old # sub.new.node =>
     \A g \in LiveGates : sub.old \in FaninNodes(g) =>
        \E i \in DOMAIN todo : todo[i].old = g
=============================================================================
