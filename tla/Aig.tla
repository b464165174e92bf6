-------------------------------- MODULE Aig --------------------------------
(***************************************************************************)
(* The AND-inverter graph of mockturtle (networks/aig.hpp): the node array, *)
(* the structural hash table, the reference counts with their dead bit, the *)
(* outputs, and the restructuring operations on them.                       *)
(*                                                                          *)
(* substitute_node is a loop over a worklist that calls replace_in_node,    *)
(* replace_in_outputs, take_out_node and revive_node.  The last two recurse *)
(* and call back into registered observers, so each of their activations    *)
(* is a frame on an explicit call stack and each step of this module is the *)
(* code between two such points.  A step that fires an event of             *)
(* networks/events.hpp says so: OnAdd in CreateAnd and ReviveEnter,         *)
(* OnModified in RestrashNode and RewireNode, OnDelete in            *)
(* TakeOutEnter.                                                            *)
(***************************************************************************)
EXTENDS Naturals, Sequences, FiniteSets

CONSTANTS
  MaxNodes,  (* bound on nodes.size(): constant, inputs, gates, dead gates *)
  MaxPis,    (* bound on inputs.size()                                     *)
  MaxPos,    (* bound on outputs.size()                                    *)
  DeadBit,   (* the weight of the dead bit of data[0].h1, 2^31 in the code *)
  Polarity,  (* the complement bits clients put on the signals they pass   *)
  OldInputs  (* the inputs that clients replace, as they replace gates     *)

ASSUME MaxNodesAssumption == MaxNodes \in Nat \ {0}
ASSUME BoundsAssumption == MaxPis \in Nat /\ MaxPos \in Nat
ASSUME DeadBitAssumption == DeadBit \in Nat \ {0}
ASSUME PolarityAssumption == Polarity \subseteq BOOLEAN

VARIABLES
  size,     (* nodes.size()                                                *)
  isCi,     (* data[1].h2 = 1: the node is a primary input                 *)
  child,    (* children[0] and children[1] of every node                   *)
  h1,       (* data[0].h1: the dead bit and the reference count            *)
  hash,     (* the structural hash table: pairs of fanins to nodes         *)
  outputs   (* the primary outputs                                         *)

VARIABLES
  pc,       (* the point substitute_node has reached, "idle" outside of it *)
  restrash, (* FALSE in substitute_node_no_restrash                        *)
  todo,     (* to_substitute: the stack of pending substitutions           *)
  sub,      (* _old and _new, the substitution being carried out           *)
  renamed,  (* old_to_new: what every substituted node became              *)
  scan,     (* the fanouts of _old that the inner loop has still to visit  *)
  calls     (* activations of take_out_node and revive_node, innermost     *)
            (* first                                                       *)

netVars == <<size, isCi, child, h1, hash, outputs>>
ctlVars == <<pc, restrash, todo, sub, renamed, scan>>
vars == <<netVars, ctlVars, calls>>

-----------------------------------------------------------------------------
(* Signals, fanin pairs and the type invariant.                            *)

Index == 0 .. MaxNodes - 1
Signal == [node : Index, neg : BOOLEAN]
Pair == Signal \X Signal
Substitution == [old : Index, new : Signal]
Frame == [op : {"take_out", "revive"}, node : Index, at : 0 .. 2]

\* Negation of a signal under a condition: signal::operator^.
Xor(s, c) == [s EXCEPT !.neg = (@ # c)]
Const0 == [node |-> 0, neg |-> FALSE]

TypeOK ==
  /\ size \in 1 .. MaxNodes
  /\ isCi \in [Index -> BOOLEAN]
  /\ child \in [Index -> Pair]
  /\ h1 \in [Index -> 0 .. 2 * DeadBit - 1]
  /\ DOMAIN hash \subseteq Pair
  /\ hash \in [DOMAIN hash -> Index]
  /\ outputs \in Seq(Signal)
  /\ pc \in {"idle", "pop", "resolve", "begin", "scan"}
  /\ restrash \in BOOLEAN
  /\ todo \in Seq(Substitution)
  /\ sub \in Substitution
  /\ DOMAIN renamed \subseteq Index
  /\ renamed \in [DOMAIN renamed -> Signal]
  /\ scan \subseteq Index
  /\ calls \in Seq(Frame)

-----------------------------------------------------------------------------
(* Reading the network.                                                    *)

Nodes == 0 .. size - 1
Dead(n) == h1[n] >= DeadBit
FanoutSize(n) == h1[n] % DeadBit
IsGate(n) == n # 0 /\ ~isCi[n]
LiveGates == {n \in Nodes : IsGate(n) /\ ~Dead(n)}
FaninNodes(n) == {child[n][1].node, child[n][2].node}

\* The order create_and and replace_in_node give the two fanins.
Ordered(a, b) == IF a.node > b.node THEN <<b, a>> ELSE <<a, b>>

\* The conjunctions that need no node, and what they reduce to.
IsTrivial(p) == p[1].node = p[2].node \/ p[1].node = 0
TrivialAnd(p) ==
  IF p[1].node = p[2].node
  THEN IF p[1].neg = p[2].neg THEN p[1] ELSE Const0
  ELSE IF p[1].neg THEN p[2] ELSE Const0

-----------------------------------------------------------------------------
(* Writing the network.                                                    *)

\* Slip: the old entry stays.
EraseNothing(table, p) == table

Erase(table, p) == [q \in DOMAIN table \ {p} |-> table[q]]
Insert(table, p, n) ==
  [q \in DOMAIN table \cup {p} |-> IF q = p THEN n ELSE table[q]]

\* Slip: the reference is not released.
DecrNothing(count, n) == count

\* ++data[0].h1 and --data[0].h1, a 32-bit field in the code.
Incr(count, n) == [count EXCEPT ![n] = (@ + 1) % (2 * DeadBit)]
Decr(count, n) == [count EXCEPT ![n] = (@ + 2 * DeadBit - 1) % (2 * DeadBit)]

Idle == pc = "idle" /\ calls = <<>>

\* storage::storage(): node 0 is the constant.
Init ==
  /\ size = 1
  /\ isCi = [n \in Index |-> FALSE]
  /\ child = [n \in Index |-> <<Const0, Const0>>]
  /\ h1 = [n \in Index |-> 0]
  /\ hash = [p \in {} |-> 0]
  /\ outputs = <<>>
  /\ pc = "idle"
  /\ restrash = TRUE
  /\ todo = <<>>
  /\ sub = [old |-> 0, new |-> Const0]
  /\ renamed = [n \in {} |-> Const0]
  /\ scan = {}
  /\ calls = <<>>

CreatePi ==
  /\ Idle
  /\ size < MaxNodes
  /\ Cardinality({n \in Nodes : isCi[n]}) < MaxPis
  /\ isCi' = [isCi EXCEPT ![size] = TRUE]
  /\ size' = size + 1
  /\ UNCHANGED <<child, h1, hash, outputs, ctlVars, calls>>

CreatePo(f) ==
  /\ Idle
  /\ Len(outputs) < MaxPos
  /\ h1' = Incr(h1, f.node)
  /\ outputs' = Append(outputs, f)
  /\ UNCHANGED <<size, isCi, child, hash, ctlVars, calls>>

\* create_and, when neither a trivial case nor the hash table answers.
CreateAnd(a, b) ==
  LET p == Ordered(a, b)
  IN  /\ Idle
      /\ size < MaxNodes
      /\ ~IsTrivial(p)
      /\ p \notin DOMAIN hash
      /\ child' = [child EXCEPT ![size] = p]
      /\ hash' = Insert(hash, p, size)
      /\ h1' = Incr(Incr(h1, a.node), b.node)
      /\ size' = size + 1
      /\ UNCHANGED <<isCi, outputs, ctlVars, calls>>

-----------------------------------------------------------------------------
(* take_out_node and revive_node, one step per activation and per fanin.   *)

Call(op, n) == [op |-> op, node |-> n, at |-> 0]

\* Slip: one fanin too many.
AdvanceTooFar ==
  LET f == Head(calls)
  IN  IF f.at < 3 THEN <<[f EXCEPT !.at = @ + 1]>> \o Tail(calls)
                  ELSE Tail(calls)

\* The stack once the innermost frame has dealt with the fanin it is at.
Advance ==
  LET f == Head(calls)
  IN  IF f.at < 2 THEN <<[f EXCEPT !.at = @ + 1]>> \o Tail(calls)
                  ELSE Tail(calls)

\* A client discards a node that nothing refers to.
TakeOut(n) ==
  /\ Idle
  /\ n \in LiveGates
  /\ FanoutSize(n) = 0
  /\ calls' = <<Call("take_out", n)>>
  /\ UNCHANGED <<netVars, ctlVars>>

InCall(op, at) == calls # <<>> /\ Head(calls).op = op /\ Head(calls).at \in at

\* Constants, inputs and dead nodes are left alone.
TakeOutIgnored ==
  /\ InCall("take_out", {0})
  /\ LET n == Head(calls).node IN ~IsGate(n) \/ Dead(n)
  /\ calls' = Tail(calls)
  /\ UNCHANGED <<netVars, ctlVars>>

\* The node dies whatever its reference count; on_delete fires.
TakeOutEnter ==
  /\ InCall("take_out", {0})
  /\ LET n == Head(calls).node
     IN  /\ IsGate(n) /\ ~Dead(n)
         /\ h1' = [h1 EXCEPT ![n] = DeadBit]
         /\ hash' = Erase(hash, child[n])
  /\ calls' = Advance
  /\ UNCHANGED <<size, isCi, child, outputs, ctlVars>>

\* One fanin is released, and taken out if that was its last reference.
TakeOutFanin ==
  /\ InCall("take_out", {1, 2})
  /\ LET f == Head(calls)
         c == child[f.node][f.at].node
         released == Decr(h1, c)
     IN  IF FanoutSize(c) = 0
         THEN h1' = h1 /\ calls' = Advance
         ELSE /\ h1' = released
              /\ calls' = IF released[c] % DeadBit = 0
                          THEN <<Call("take_out", c)>> \o Advance
                          ELSE Advance
  /\ UNCHANGED <<size, isCi, child, hash, outputs, ctlVars>>

\* The node is alive again, with no reference yet; on_add fires.
ReviveEnter ==
  /\ InCall("revive", {0})
  /\ LET n == Head(calls).node
     IN  /\ h1' = [h1 EXCEPT ![n] = 0]
         /\ hash' = Insert(hash, child[n], n)
  /\ calls' = Advance
  /\ UNCHANGED <<size, isCi, child, outputs, ctlVars>>

\* One fanin is referenced, after it has been revived if it was dead.
ReviveFanin ==
  /\ InCall("revive", {1, 2})
  /\ LET f == Head(calls)
         c == child[f.node][f.at].node
     IN  IF Dead(c)
         THEN h1' = h1 /\ calls' = <<Call("revive", c)>> \o calls
         ELSE h1' = Incr(h1, c) /\ calls' = Advance
  /\ UNCHANGED <<size, isCi, child, hash, outputs, ctlVars>>

-----------------------------------------------------------------------------
(* substitute_node.                                                        *)

\* n and every node its function is computed from.
Cone(n) ==
  LET reached[k \in 0 .. MaxNodes] ==
        IF k = 0 THEN {n}
        ELSE LET last == reached[k - 1]
             IN  last \cup UNION {FaninNodes(m) : m \in {g \in last : IsGate(g)}}
  IN  reached[MaxNodes]

\* A client replaces an input or a live gate by a signal of another node that
\* does not depend on it and may have been taken out.
MaySubstitute(o, s) ==
  /\ Idle
  /\ o \in LiveGates \cup OldInputs
  /\ s.node \in Nodes \ {o}
  /\ o \notin Cone(s.node)

SubstituteNode(o, s) ==
  /\ MaySubstitute(o, s)
  /\ todo' = <<[old |-> o, new |-> s]>>
  /\ pc' = "pop"
  /\ restrash' = TRUE
  /\ UNCHANGED <<netVars, sub, renamed, scan, calls>>

\* substitute_node_no_restrash: one substitution, and no worklist.
SubstituteNodeNoRestrash(o, s) ==
  /\ MaySubstitute(o, s)
  /\ sub' = [old |-> o, new |-> s]
  /\ pc' = "begin"
  /\ restrash' = FALSE
  /\ calls' = IF Dead(s.node) THEN <<Call("revive", s.node)>> ELSE <<>>
  /\ UNCHANGED <<netVars, todo, renamed, scan>>

\* A node replaced by its own complement.
SubstituteComplement(o) ==
  /\ Idle
  /\ o \in LiveGates
  /\ todo' = <<[old |-> o, new |-> [node |-> o, neg |-> TRUE]]>>
  /\ pc' = "pop"
  /\ restrash' = TRUE
  /\ UNCHANGED <<netVars, sub, renamed, scan, calls>>

\* The worklist is empty: substitute_node returns.
Return ==
  /\ pc = "pop" /\ calls = <<>>
  /\ todo = <<>>
  /\ pc' = "idle"
  /\ restrash' = TRUE
  /\ sub' = [old |-> 0, new |-> Const0]
  /\ renamed' = [n \in {} |-> Const0]
  /\ UNCHANGED <<netVars, todo, scan, calls>>

Pop ==
  /\ pc = "pop" /\ calls = <<>>
  /\ todo # <<>>
  /\ sub' = Head(todo)
  /\ todo' = Tail(todo)
  /\ pc' = IF Dead(sub'.new.node) THEN "resolve" ELSE "begin"
  /\ UNCHANGED <<netVars, restrash, renamed, scan, calls>>

\* Slip: the search starts from the same node every time.
FollowInPlace ==
  /\ pc = "resolve"
  /\ sub.new.node \in DOMAIN renamed
  /\ sub' = [sub EXCEPT !.new = Xor(@, renamed[@.node].neg)]
  /\ UNCHANGED <<netVars, pc, restrash, todo, renamed, scan, calls>>

\* The new node was itself replaced: follow old_to_new one step.
Follow ==
  /\ pc = "resolve"
  /\ sub.new.node \in DOMAIN renamed
  /\ sub' = [sub EXCEPT !.new = Xor(renamed[@.node], @.neg)]
  /\ UNCHANGED <<netVars, pc, restrash, todo, renamed, scan, calls>>

\* Slip: a dead node is revived before old_to_new is asked.
ResolvedEarly ==
  /\ pc = "resolve"
  /\ pc' = "begin"
  /\ calls' = IF Dead(sub.new.node) THEN <<Call("revive", sub.new.node)>> ELSE <<>>
  /\ UNCHANGED <<netVars, restrash, todo, sub, renamed, scan>>

\* The end of the old_to_new chain; a node found dead there is revived.
Resolved ==
  /\ pc = "resolve"
  /\ sub.new.node \notin DOMAIN renamed
  /\ pc' = "begin"
  /\ calls' = IF Dead(sub.new.node) THEN <<Call("revive", sub.new.node)>> ELSE <<>>
  /\ UNCHANGED <<netVars, restrash, todo, sub, renamed, scan>>

\* Slip: the last node is forgotten.
FanoutsShort(o) == {n \in LiveGates \ {size - 1} : o \in FaninNodes(n)}

Fanouts(o) == {n \in LiveGates : o \in FaninNodes(n)}

\* The loop over all nodes starts; replace_in_node does something only at
\* the live fanouts of _old.
Begin ==
  /\ pc = "begin" /\ calls = <<>>
  /\ scan' = Fanouts(sub.old)
  /\ pc' = "scan"
  /\ UNCHANGED <<netVars, restrash, todo, sub, renamed, calls>>

\* The fanins replace_in_node gives n: the first of the two that is _old
\* becomes _new, and the pair is ordered again.
Rewired(n) ==
  LET i == IF child[n][1].node = sub.old THEN 1 ELSE 2
  IN  Ordered(child[n][3 - i], Xor(sub.new, child[n][i].neg))

\* Slip: _old counts as equal too, although it is about to go.
IsEqualToAny(p) == IsTrivial(p) \/ p \in DOMAIN hash

\* What replace_in_node finds these fanins to be equal to, if anything.
IsEqual(p) == IsTrivial(p) \/ (p \in DOMAIN hash /\ hash[p] # sub.old)
Equal(p) == IF IsTrivial(p) THEN TrivialAnd(p)
                            ELSE [node |-> hash[p], neg |-> FALSE]

\* n will be replaced in its turn; its fanins stay as they are until then.
CollapseNode(n) ==
  /\ restrash
  /\ IsEqual(Rewired(n))
  /\ todo' = <<[old |-> n, new |-> Equal(Rewired(n))]>> \o todo
  /\ UNCHANGED netVars

\* n gets its new fanins; on_modified fires.
RestrashNode(n) ==
  /\ restrash
  /\ ~IsEqual(Rewired(n))
  /\ hash' = Insert(Erase(hash, child[n]), Rewired(n), n)
  /\ child' = [child EXCEPT ![n] = Rewired(n)]
  /\ h1' = Incr(h1, sub.new.node)
  /\ UNCHANGED <<size, isCi, outputs, todo>>

\* replace_in_node_no_restrash: n gets its new fanins whatever they are, and
\* an entry of the table only if no other node holds it.
RewireNode(n) ==
  LET erased == Erase(hash, child[n])
  IN  /\ ~restrash
      /\ hash' = IF Rewired(n) \in DOMAIN erased
                 THEN erased ELSE Insert(erased, Rewired(n), n)
      /\ child' = [child EXCEPT ![n] = Rewired(n)]
      /\ h1' = Incr(h1, sub.new.node)
      /\ UNCHANGED <<size, isCi, outputs, todo>>

ReplaceInNode(n) == CollapseNode(n) \/ RestrashNode(n) \/ RewireNode(n)

\* The loop visits the nodes in the order of their indices.
Visit ==
  /\ pc = "scan"
  /\ \E n \in scan :
        /\ \A m \in scan : n <= m
        /\ ReplaceInNode(n)
        /\ scan' = scan \ {n}
  /\ UNCHANGED <<pc, restrash, sub, renamed, calls>>

\* Slips: the outputs stay, or are not counted.
OutputsStay == outputs
NoneRedirected == {}

\* replace_in_outputs: nothing when _old is dead.
RedirectedOutputs ==
  [i \in DOMAIN outputs |->
     IF ~Dead(sub.old) /\ outputs[i].node = sub.old
     THEN Xor(sub.new, outputs[i].neg) ELSE outputs[i]]
Redirected ==
  IF Dead(sub.old) \/ sub.new.node = sub.old THEN {}
  ELSE {i \in DOMAIN outputs : outputs[i].node = sub.old}

\* The outputs follow; then _old is recorded, unless that was done before,
\* and taken out.
FinishPair ==
  /\ pc = "scan"
  /\ scan = {}
  /\ outputs' = RedirectedOutputs
  /\ h1' = [h1 EXCEPT ![sub.new.node] =
              (@ + Cardinality(Redirected)) % (2 * DeadBit)]
  /\ renamed' = IF restrash /\ sub.old \notin DOMAIN renamed \cup {sub.new.node}
                THEN Insert(renamed, sub.old, sub.new) ELSE renamed
  /\ calls' = IF sub.old # sub.new.node
              THEN <<Call("take_out", sub.old)>> ELSE <<>>
  /\ pc' = "pop"
  /\ UNCHANGED <<size, isCi, child, hash, restrash, todo, sub, scan>>

-----------------------------------------------------------------------------
(* The specification.                                                      *)

\* The signals a client can name; it builds on live nodes only.
Signals == [node : Nodes, neg : Polarity]
LiveSignals == {f \in Signals : ~Dead(f.node)}

Build ==
  \/ CreatePi
  \/ \E f \in LiveSignals : CreatePo(f)
  \/ \E a, b \in LiveSignals : CreateAnd(a, b)

Unwind == TakeOutIgnored \/ TakeOutEnter \/ TakeOutFanin
          \/ ReviveEnter \/ ReviveFanin

Substitute == Return \/ Pop \/ Follow \/ Resolved \/ Begin \/ Visit \/ FinishPair

Next ==
  \/ Build
  \/ \E n \in Nodes : TakeOut(n)
  \/ \E o \in Nodes, s \in Signals : SubstituteNode(o, s)
  \/ Unwind
  \/ Substitute

Spec == Init /\ [][Next]_vars

\* Other clients do without structural hashing, or complement a node.
SomeNoRestrash ==
  \E o \in Nodes, s \in Signals : SubstituteNodeNoRestrash(o, s)
SomeComplement == \E o \in Nodes : SubstituteComplement(o)

AnyNext == Next \/ SomeNoRestrash \/ SomeComplement
AnySpec == Init /\ [][AnyNext]_vars

\* A call that has been made runs on until it returns.
Fairness == WF_vars(Unwind) /\ WF_vars(Substitute)

-----------------------------------------------------------------------------
(* Safety.                                                                 *)

\* An entry of the hash table leads to a live gate that has the fanins of
\* the key: what create_and asserts and relies on when it returns the entry
\* (aig.hpp:267), whatever erased, moved or overwrote entries before.
HashSound ==
  \A p \in DOMAIN hash :
     /\ hash[p] \in LiveGates
     /\ child[hash[p]] = p

References(n) ==
  Cardinality({g \in LiveGates : child[g][1].node = n}) +
  Cardinality({g \in LiveGates : child[g][2].node = n}) +
  Cardinality({i \in DOMAIN outputs : outputs[i].node = n})

\* Between operations nothing alive refers to a dead node: what
\* count_reachable_dead_nodes and count_nodes_with_dead_fanins of
\* debugging_utils.hpp look for.
NoDeadReference == Idle => \A n \in Nodes : Dead(n) => References(n) = 0

\* Fanins that the activations of op still have to visit and that are n.
FaninsAhead(op, n) ==
  Cardinality({u \in (DOMAIN calls) \X {1, 2} :
                 LET f == calls[u[1]]
                 IN  /\ f.op = op
                     /\ f.at \in 1 .. u[2]
                     /\ child[f.node][u[2]].node = n})

\* _old from the first rewired fanout to its removal: its count is stale.
BeingReplaced ==
  IF \/ pc = "scan"
     \/ calls # <<>> /\ calls[Len(calls)] = Call("take_out", sub.old)
  THEN {sub.old} ELSE {}

\* At every step, in the middle of any recursion, the reference count of a
\* live node is the number of its references, but for the fanins that the
\* running calls are about to release or to count.  take_out_node decides
\* by this count what else to remove.
RefCountExact ==
  \A n \in Nodes \ BeingReplaced :
     ~Dead(n) => FanoutSize(n) + FaninsAhead("revive", n)
                   = References(n) + FaninsAhead("take_out", n)

\* What take_out_node removes on its way down is referenced by nothing,
\* although it never looks at who the remaining references are.
OnlyUnreferencedDies ==
  \A i \in 1 .. Len(calls) - 1 :
     calls[i].op = "take_out" /\ calls[i].at = 0 => References(calls[i].node) = 0

\* No operation closes a cycle through live gates (network_is_acyclic).
Acyclic == Idle => \A g \in LiveGates : \A c \in FaninNodes(g) : g \notin Cone(c)

\* A live gate loses a fanin under its feet only if its own substitution is
\* pending or under way, or a call is about to deal with it.
DeadFaninPending ==
  \A g \in LiveGates : (\E c \in FaninNodes(g) : Dead(c)) =>
     \/ \E i \in DOMAIN todo : todo[i].old = g
     \/ pc \in {"resolve", "begin", "scan"} /\ sub.old = g
     \/ \E i \in DOMAIN calls : calls[i].node = g

\* When a substitution returns, no node it replaced is referenced, and the
\* fanout size of each is 0 (interface.hpp:301).
Replaced == IF restrash THEN DOMAIN renamed ELSE {sub.old}
OldIsGone ==
  pc = "pop" /\ todo = <<>> /\ calls = <<>> =>
     \A n \in Replaced : References(n) = 0 /\ FanoutSize(n) = 0

\* Between operations num_gates, the size of the hash table, is the number
\* of live gates (interface.hpp:403).
NumGates == Idle => Cardinality(DOMAIN hash) = Cardinality(LiveGates)

\* No increment reaches the dead bit.
NoOverflow == \A n \in Index : ~Dead(n) => h1[n] + Len(outputs) + 1 < DeadBit

\* No pair of a cascade makes a node its own replacement, whatever hashing
\* and old_to_new lead its new signal to: replace_in_node would rewire the
\* fanouts to the node itself, and count them twice.
NotSelf == pc = "scan" => sub.new.node # sub.old

\* revive_node sets a count to 0 and counts one reference for each activation
\* that led to the node: nothing else alive may refer to it, although gates
\* that await their own substitution do refer to dead nodes.
RevivedUnreferenced ==
  InCall("revive", {0}) =>
    LET n == Head(calls).node IN References(n) = FaninsAhead("revive", n)

\* What the counts rely on while substitutions cascade.
CascadeSound == NotSelf /\ RevivedUnreferenced

\* A node that a substitution replaced stays out of the network until the
\* substitution returns: revive_node never brings it back as the new node of
\* a later pair, nor as a node in the cone of one.
ReplacedStaysDead ==
  [][ReviveEnter => Head(calls).node \notin DOMAIN renamed]_vars

-----------------------------------------------------------------------------
(* Liveness.                                                               *)

\* Every operation returns: the worklist runs empty although replacing a
\* node may push any number of its fanouts, and old_to_new has no cycle.
Terminates == ~Idle ~> Idle
=============================================================================
