-------------------------- MODULE FanoutLimitView --------------------------
(***************************************************************************)
(* fanout_limit_view (views/fanout_limit_view.hpp) on a majority-inverter   *)
(* graph (networks/mig.hpp): a gate that is referenced as often as the      *)
(* limit allows is not referenced again, but replaced by a replica, whose   *)
(* fanins are replaced by replicas in their turn if they are full.          *)
(*                                                                          *)
(* A replica has the fanins of a gate that exists, or of a replica of it,   *)
(* and takes its place in the structural hash table.  Only the last replica *)
(* of each gate is remembered.                                              *)
(*                                                                          *)
(* Through the view a network only grows, and no call is interrupted: each  *)
(* action is a whole call.                                                  *)
(***************************************************************************)
EXTENDS Naturals, SequencesExt

CONSTANTS
  Limits,   (* the limits a view may be given                              *)
  MaxNodes, (* bound on the nodes, without the constant, before a call     *)
  MaxPis,   (* bound on the inputs                                         *)
  MaxPos,   (* bound on the outputs                                        *)
  Polarity  (* the complement bits clients put on the signals they pass    *)

\* assert( ps.fanout_limit > 0u ), and bounds.
ASSUME LimitAssumption == Limits \subseteq Nat \ {0}
ASSUME LimitBoundsAssumption == MaxNodes \in Nat /\ MaxPis \in Nat /\ MaxPos \in Nat

VARIABLES
  ntk,     (* the storage of the network and the data of the view:         *)
           (* limit: ps.fanout_limit;                                      *)
           (* child: the fanins of nodes 1, 2, ..., none at an input;      *)
           (* fanoutSize: their references; hash: triples of fanins to     *)
           (* nodes; replicas: gates to their last replicas; overwrites:   *)
           (* count_hash_overwrites                                        *)
  outputs, (* the outputs                                                  *)
  promise  (* the functions the clients expect of them                     *)

vars == <<ntk, outputs, promise>>

-----------------------------------------------------------------------------
(* Reading the network.                                                    *)

Plain(n) == [node |-> n, neg |-> FALSE]
Xor(s, c) == [s EXCEPT !.neg = (@ # c)]

Nodes == 1 .. Len(ntk.child)
IsGate(net, n) == n # 0 /\ net.child[n] # <<>>
Gates == {n \in Nodes : IsGate(ntk, n)}
Pis == Nodes \ Gates
FaninNodes(n) == {ntk.child[n][i].node : i \in DOMAIN ntk.child[n]} \ {0}

\* The functions of the nodes, each the set of the input assignments that make
\* it true, an assignment being the set of the inputs that are true.
Assignments == SUBSET Pis
Tables ==
  LET upTo[k \in 0 .. Len(ntk.child)] ==
        IF k = 0 THEN <<>>
        ELSE LET lower == upTo[k - 1]
                 holds(s, a) == s.neg # (s.node # 0 /\ a \in lower[s.node])
                 f == ntk.child[k]
             IN  Append(lower,
                   IF f = <<>> THEN {a \in Assignments : k \in a}
                   ELSE {a \in Assignments :
                           Cardinality({i \in 1 .. 3 : holds(f[i], a)}) >= 2})
  IN  upTo[Len(ntk.child)]
Literal(table, s) ==
  LET t == IF s.node = 0 THEN {} ELSE table[s.node]
  IN  IF s.neg THEN Assignments \ t ELSE t

-----------------------------------------------------------------------------
(* create_maj of the network, and create_maj_overwrite_strash of the view;  *)
(* each results in a network and a signal.                                  *)

Result(net, s) == [net |-> net, signal |-> s]

\* The fanins in the order of their nodes; two of them the same.
Sorted(f) == SortSeq(f, LAMBDA s, t : s.node < t.node)
IsTrivial(f) == f[1].node = f[2].node \/ f[2].node = f[3].node
TrivialMaj(f) ==
  IF f[1].node = f[2].node THEN IF f[1] = f[2] THEN f[1] ELSE f[3]
                           ELSE IF f[2] = f[3] THEN f[2] ELSE f[1]

\* Complemented edges minimization.
IsFlipped(f) == Cardinality({i \in 1 .. 3 : f[i].neg}) >= 2
Key(f) == [i \in 1 .. 3 |-> Xor(f[i], IsFlipped(f))]

Put(map, key, value) ==
  [k \in DOMAIN map \cup {key} |-> IF k = key THEN value ELSE map[k]]

Referenced(fanoutSize, n) ==
  IF n = 0 THEN fanoutSize ELSE [fanoutSize EXCEPT ![n] = @ + 1]

\* Slip: the entry that is overwritten is not counted.
AddedUncounted(net, k) ==
  [net EXCEPT
     !.child = Append(@, k),
     !.hash = Put(@, k, Len(net.child) + 1),
     !.fanoutSize =
        Append(FoldLeft(LAMBDA count, s : Referenced(count, s.node), @, k), 0)]

\* A new node with these fanins; it takes the place of one that has them.
Added(net, k) ==
  [net EXCEPT
     !.child = Append(@, k),
     !.hash = Put(@, k, Len(net.child) + 1),
     !.fanoutSize =
        Append(FoldLeft(LAMBDA count, s : Referenced(count, s.node), @, k), 0),
     !.overwrites = IF k \in DOMAIN net.hash THEN @ + 1 ELSE @]

Maj(net, fanins, overwrite) ==
  LET f == Sorted(fanins)
      n == IF ~overwrite /\ Key(f) \in DOMAIN net.hash
           THEN net.hash[Key(f)] ELSE Len(net.child) + 1
  IN  IF IsTrivial(f) THEN Result(net, TrivialMaj(f))
      ELSE Result(IF n \in DOMAIN net.child THEN net ELSE Added(net, Key(f)),
                  Xor(Plain(n), IsFlipped(f)))

-----------------------------------------------------------------------------
(* replicate_node.                                                         *)

\* Slip: one reference too many.
FullLate(net, n) == IsGate(net, n) /\ net.fanoutSize[n] > net.limit

\* A gate that takes no further reference.
Full(net, n) == IsGate(net, n) /\ net.fanoutSize[n] >= net.limit

\* The replica is remembered without its polarity.
Remember(net, n, r) == [net EXCEPT !.replicas = Put(@, n, r.node)]

\* Slip: the complement of a full signal is lost.
PolarityLost(r, s) == r

\* A replica takes the polarity of the signal it stands for.
Polarized(r, s) == Result(r.net, Xor(r.signal, s.neg))

RECURSIVE Ready(_, _)

\* Three fanins, the full ones replaced, one after the other.
AllReady(net, f) ==
  LET a == Ready(net, f[1])
      b == Ready(a.net, f[2])
      c == Ready(b.net, f[3])
  IN  [net |-> c.net, fanins |-> <<a.signal, b.signal, c.signal>>]

\* replicate_node of a gate.
Replicate(net, n) ==
  IF n \in DOMAIN net.replicas /\ net.fanoutSize[net.replicas[n]] < net.limit
  THEN Result(net, Plain(net.replicas[n]))
  ELSE LET ready == AllReady(net, net.child[n])
           new == Maj(ready.net, ready.fanins, TRUE)
       IN  Result(Remember(new.net, n, new.signal), new.signal)

\* A signal as fanin: it, or a replica if it is full.
Ready(net, s) ==
  IF Full(net, s.node) THEN Polarized(Replicate(net, s.node), s) ELSE Result(net, s)

-----------------------------------------------------------------------------
(* The specification.                                                      *)

Init ==
  /\ ntk \in [limit : Limits, child : {<<>>}, fanoutSize : {<<>>},
              hash : {[k \in {} |-> 0]}, replicas : {[n \in {} |-> 0]}, overwrites : {0}]
  /\ outputs = <<>>
  /\ promise = <<>>

Signals == [node : {0} \cup Nodes, neg : Polarity]

CreatePi ==
  /\ Gates = {} /\ outputs = <<>>
  /\ Len(ntk.child) < MaxPis
  /\ ntk' = [ntk EXCEPT !.child = Append(@, <<>>), !.fanoutSize = Append(@, 0)]
  /\ UNCHANGED <<outputs, promise>>

CreateMaj(f) ==
  LET ready == AllReady(ntk, f)
  IN  /\ Len(ntk.child) < MaxNodes
      /\ ntk' = Maj(ready.net, ready.fanins, FALSE).net
      /\ UNCHANGED <<outputs, promise>>

CreatePo(s) ==
  LET ready == Ready(ntk, s)
      r == ready.signal
  IN  /\ Len(outputs) < MaxPos
      /\ outputs' = Append(outputs, r)
      /\ ntk' = [ready.net EXCEPT !.fanoutSize = Referenced(@, r.node)]
      /\ promise' = Append(promise, Literal(Tables, s))

\* Clients pass any fanins, in any order, also equal ones; two complements are
\* the same as none or one, but for the polarity of the signal returned.
Fanins == {f \in [1 .. 3 -> Signals] : ~IsFlipped(f)}

Next ==
  \/ CreatePi
  \/ \E f \in Fanins : CreateMaj(f)
  \/ \E s \in Signals : CreatePo(s)

Spec == Init /\ [][Next]_vars

-----------------------------------------------------------------------------
(* Safety.                                                                 *)

\* Every output computes what the signal passed to create_po computed,
\* through however many replicas of replicas it has been led, which are found by
\* their nodes, without a polarity.
OutputsKept == LET t == Tables IN [i \in DOMAIN outputs |-> Literal(t, outputs[i])] = promise

\* num_gates, the entries of the hash table and those overwritten, is the
\* number of gates.
NumGates == Cardinality(DOMAIN ntk.hash) + ntk.overwrites = Cardinality(Gates)

\* No gate is referenced more often than the limit, as
\* test/views/fanout_limit_view.cpp checks of all gates.
LimitKept == \A n \in Gates : ntk.fanoutSize[n] <= ntk.limit

\* n and the nodes it is computed from.
Cone(n) ==
  LET below[k \in 0 .. MaxNodes] ==
        IF k = 0 THEN {n}
        ELSE LET last == below[k - 1] IN last \cup UNION {FaninNodes(m) : m \in last}
  IN  below[MaxNodes]

\* The limit is kept at least as long as no gate has a fanin that computes
\* what occurs in the cone of another of its fanins, so that replicating one
\* fanin refers to another that has been examined already.
SeparateFanins ==
  LET t == Tables
  IN  \A g \in Gates : \A c, d \in FaninNodes(g) \cap Gates :
         c # d => \A m \in Cone(d) : t[m] # t[c]
LimitKeptIfSeparate == SeparateFanins => LimitKept
=============================================================================
