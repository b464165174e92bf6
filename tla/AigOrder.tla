------------------------------ MODULE AigOrder ------------------------------
(***************************************************************************)
(* Proof that the restructuring of Aig closes no cycle, however a           *)
(* substitution cascades, for every value of its constants.                 *)
(***************************************************************************)
EXTENDS AigGuarantees, Paths

-----------------------------------------------------------------------------
(* What Cone computes.                                                     *)

\* The references of gates as a graph.  Nodes yet to be created have none.
Child == {e \in Nodes \X Index : IsGate(e[1]) /\ e[2] \in FaninNodes(e[1])}

\* One step of Cone, and its steps.
Deeper(S) == S \cup UNION {FaninNodes(m) : m \in {g \in S : IsGate(g)}}
IsSteps(c, n, last) ==
  c = [k \in 0 .. last |-> IF k = 0 THEN {n} ELSE Deeper(c[k - 1])]
Steps(n) == CHOOSE c : IsSteps(c, n, MaxNodes)

\* The recursion is well founded.
LEMMA StepsExist ==
  ASSUME NEW n
  PROVE  IsSteps(Steps(n), n, MaxNodes) /\ Cone(n) = Steps(n)[MaxNodes]
<1> DEFINE T == {j \in Nat : \E c : IsSteps(c, n, j)}
<1>1. 0 \in T
  <2>1. IsSteps([k \in 0 .. 0 |-> {n}], n, 0)
    BY DEF IsSteps
  <2>2. QED
    BY <2>1
<1>2. ASSUME NEW j \in Nat, j \in T PROVE j + 1 \in T
  <2>1. PICK c : IsSteps(c, n, j)
    BY <1>2
  <2> DEFINE d == [k \in 0 .. j + 1 |-> IF k = j + 1 THEN Deeper(c[j]) ELSE c[k]]
             e == [k \in 0 .. j + 1 |-> IF k = 0 THEN {n} ELSE Deeper(d[k - 1])]
  <2>2. ASSUME NEW k \in 0 .. j + 1 PROVE d[k] = e[k]
    <3>1. CASE k = j + 1
      BY <3>1
    <3>2. CASE k = 0
      <4>1. d[k] = c[0] /\ c[0] = {n}
        BY <3>2, <2>1 DEF IsSteps
      <4>2. QED
        BY <3>2, <4>1
    <3>3. CASE k \in 1 .. j
      <4>1. d[k] = c[k] /\ d[k - 1] = c[k - 1] /\ k \in 0 .. j /\ k # 0
        BY <3>3
      <4>2. c[k] = Deeper(c[k - 1])
        BY <2>1, <4>1 DEF IsSteps
      <4>3. QED
        BY <4>1, <4>2
    <3>4. QED
      BY <3>1, <3>2, <3>3
  <2>3. d = e
    BY <2>2
  <2>4. IsSteps(d, n, j + 1)
    BY <2>3 DEF IsSteps
  <2>5. QED
    BY <2>4
<1>3. MaxNodes \in T
  <2> HIDE DEF T
  <2>1. Nat \subseteq T
    BY <1>1, <1>2, AllNumbers
  <2>2. QED
    BY <2>1, MaxNodesAssumption
<1>4. IsSteps(Steps(n), n, MaxNodes)
  BY <1>3 DEF Steps
<1>5. QED
  BY <1>4 DEF Cone, Steps, IsSteps, Deeper

\* One step at a time.
LEMMA StepsUnfold ==
  ASSUME NEW n
  PROVE  /\ Cone(n) = Steps(n)[MaxNodes] /\ Steps(n)[0] = {n}
         /\ \A k \in 0 .. MaxNodes - 1 : Steps(n)[k + 1] = Deeper(Steps(n)[k])
<1>1. IsSteps(Steps(n), n, MaxNodes) /\ Cone(n) = Steps(n)[MaxNodes] /\ MaxNodes \in Nat
  BY StepsExist, MaxNodesAssumption
<1> DEFINE c == Steps(n)
<1>2. c = [k \in 0 .. MaxNodes |-> IF k = 0 THEN {n} ELSE Deeper(c[k - 1])]
  BY <1>1 DEF IsSteps
<1> HIDE DEF c
<1>3. c[0] = {n}
  BY <1>1, <1>2
<1>4. ASSUME NEW k \in 0 .. MaxNodes - 1 PROVE c[k + 1] = Deeper(c[k])
  <2>1. k + 1 \in 0 .. MaxNodes /\ k + 1 # 0 /\ (k + 1) - 1 = k
    BY <1>1
  <2>2. QED
    BY <1>2, <2>1
<1>5. QED
  BY <1>1, <1>3, <1>4 DEF c

\* What follows a node closed under fanins has its cone.
LEMMA ConeLeast ==
  ASSUME NEW n, NEW S, n \in S, \A g \in S : IsGate(g) => FaninNodes(g) \subseteq S
  PROVE  Cone(n) \subseteq S
<1> DEFINE T == {k \in Nat : k <= MaxNodes => Steps(n)[k] \subseteq S}
<1>0. MaxNodes \in Nat
  BY MaxNodesAssumption
<1>1. 0 \in T
  BY StepsUnfold
<1>2. ASSUME NEW k \in Nat, k \in T PROVE k + 1 \in T
  <2> SUFFICES ASSUME k + 1 <= MaxNodes PROVE Steps(n)[k + 1] \subseteq S
    OBVIOUS
  <2>1. k \in 0 .. MaxNodes - 1 /\ k <= MaxNodes
    BY <1>0
  <2>2. Steps(n)[k + 1] = Deeper(Steps(n)[k]) /\ Steps(n)[k] \subseteq S
    BY <1>2, <2>1, StepsUnfold
  <2>3. QED
    BY <2>2 DEF Deeper
<1>3. MaxNodes \in T
  <2> HIDE DEF T
  <2>1. Nat \subseteq T
    BY <1>1, <1>2, AllNumbers
  <2>2. QED
    BY <2>1, <1>0
<1>4. QED
  BY <1>0, <1>3, StepsUnfold

\* The cone of a node is closed under fanins, because the network has fewer
\* nodes than Cone takes steps.
LEMMA ConeClosed ==
  ASSUME TypeOK, NEW n \in Index
  PROVE  n \in Cone(n) /\ \A g \in Cone(n) : IsGate(g) => FaninNodes(g) \subseteq Cone(n)
<1> DEFINE C(k) == Steps(n)[k]
           T == {k \in Nat : k <= MaxNodes =>
                   /\ n \in C(k) /\ C(k) \subseteq Index
                   /\ Deeper(C(k)) = C(k) \/ Cardinality(C(k)) >= k + 1}
<1>0. MaxNodes \in Nat /\ IsFiniteSet(Index) /\ Cardinality(Index) = MaxNodes
  <2>1. MaxNodes \in Nat /\ 0 \in Int /\ MaxNodes - 1 \in Int /\ MaxNodes > 0
    BY MaxNodesAssumption
  <2>2. IsFiniteSet(0 .. MaxNodes - 1)
        /\ Cardinality(0 .. MaxNodes - 1) = IF 0 > MaxNodes - 1 THEN 0 ELSE MaxNodes - 1 - 0 + 1
    BY ONLY <2>1, FS_Interval
  <2>3. QED
    BY <2>1, <2>2 DEF Index
<1>1. 0 \in T
  <2>1. C(0) = {n} /\ Cardinality({n}) = 1
    BY StepsUnfold, FS_Singleton
  <2>2. QED
    BY <2>1
<1>2. ASSUME NEW k \in Nat, k \in T PROVE k + 1 \in T
  <2> SUFFICES ASSUME k + 1 <= MaxNodes
               PROVE  /\ n \in C(k + 1) /\ C(k + 1) \subseteq Index
                      /\ Deeper(C(k + 1)) = C(k + 1) \/ Cardinality(C(k + 1)) >= (k + 1) + 1
    OBVIOUS
  <2>1. k \in 0 .. MaxNodes - 1 /\ k <= MaxNodes
    BY <1>0
  <2>2. /\ C(k + 1) = Deeper(C(k)) /\ n \in C(k) /\ C(k) \subseteq Index
        /\ Deeper(C(k)) = C(k) \/ Cardinality(C(k)) >= k + 1
    BY <1>2, <2>1, StepsUnfold
  <2> HIDE DEF C
  <2>3. C(k) \subseteq C(k + 1) /\ C(k + 1) \subseteq Index
    <3>1. \A g \in Index : FaninNodes(g) \subseteq Index
      BY DEF TypeOK, FaninNodes, Pair, Signal
    <3>2. QED
      BY <2>2, <3>1 DEF Deeper
  <2>4. CASE C(k + 1) = C(k)
    BY <2>2, <2>4
  <2>5. CASE C(k + 1) # C(k)
    <3>1. IsFiniteSet(C(k + 1)) /\ IsFiniteSet(C(k))
      BY <1>0, <2>3, FS_Subset
    <3>2. Cardinality(C(k)) <= Cardinality(C(k + 1)) /\ Cardinality(C(k)) # Cardinality(C(k + 1))
      BY ONLY <2>3, <2>5, <3>1, FS_Subset
    <3>3. Cardinality(C(k)) \in Nat /\ Cardinality(C(k + 1)) \in Nat
      BY ONLY <3>1, FS_CardinalityType
    <3>4. Cardinality(C(k)) >= k + 1
      BY <2>2, <2>5
    <3>5. QED
      BY <2>2, <2>3, <3>2, <3>3, <3>4
  <2>6. QED
    BY <2>4, <2>5
<1>3. MaxNodes \in T
  <2> HIDE DEF T
  <2>1. Nat \subseteq T
    BY <1>1, <1>2, AllNumbers
  <2>2. QED
    BY <2>1, <1>0
<1>4. n \in Cone(n) /\ Cone(n) \subseteq Index
      /\ (Deeper(Cone(n)) = Cone(n) \/ Cardinality(Cone(n)) >= MaxNodes + 1)
  BY <1>0, <1>3, StepsUnfold
<1>5. Cardinality(Cone(n)) <= MaxNodes /\ Cardinality(Cone(n)) \in Nat
  BY <1>0, <1>4, FS_Subset, FS_CardinalityType
<1>6. Deeper(Cone(n)) = Cone(n)
  BY <1>0, <1>4, <1>5
<1>7. QED
  BY <1>4, <1>6 DEF Deeper

\* The cone of a node is what its references lead to.
LEMMA ConeReach ==
  ASSUME IInv, NEW n \in Nodes
  PROVE  Cone(n) = Reach(Index, Child, n)
<1>1. /\ TypeOK /\ n \in Index /\ Nodes \subseteq Index
      /\ \A g \in Index : FaninNodes(g) \subseteq Nodes
  BY AllocatedParts DEF IInv, FaninNodes
<1>2. Cone(n) \subseteq Index
  BY <1>1, ConeLeast
<1>3. Reach(Index, Child, n) \subseteq Cone(n)
  <2>1. Closed(Index, Child, Cone(n)) /\ n \in Cone(n)
    BY <1>1, ConeClosed DEF Closed, Child
  <2>2. QED
    BY <1>1, <1>2, <2>1, ReachLeast
<1>4. Cone(n) \subseteq Reach(Index, Child, n)
  <2> DEFINE S == Reach(Index, Child, n) \cap Nodes
  <2>1. n \in S
    BY <1>1, ReachClosed
  <2>2. ASSUME NEW g \in S, IsGate(g), NEW c \in FaninNodes(g) PROVE c \in S
    <3>1. c \in Nodes /\ <<g, c>> \in Child
      BY <1>1, <2>2 DEF Child
    <3>2. QED
      BY <1>1, <3>1, ReachEdge
  <2> HIDE DEF S
  <2>3. Cone(n) \subseteq S
    BY <2>1, <2>2, ConeLeast
  <2>4. QED
    BY <2>3 DEF S
<1>5. QED
  BY <1>3, <1>4

\* No cycle of references, dead nodes included, is more than network_is_acyclic
\* asks for.
LEMMA ChildAcyclic ==
  ASSUME IInv, NoCycle(Index, Child)
  PROVE  Acyclic
<1> SUFFICES ASSUME NEW g \in LiveGates, NEW c \in FaninNodes(g) PROVE g \notin Cone(c)
  BY DEF Acyclic
<1>1. c \in Nodes /\ g \in Nodes /\ Nodes \subseteq Index /\ <<g, c>> \in Child
  BY AllocatedParts DEF LiveGates, FaninNodes, Child
<1>2. QED
  BY <1>1, ConeReach DEF NoCycle

-----------------------------------------------------------------------------
(* The inductive invariant.                                                *)

Busy == pc \in {"resolve", "begin", "scan"}

\* What has been replaced in this call, or is being replaced.
Retired == DOMAIN renamed \cup (IF pc = "scan" THEN {sub.old} ELSE {})

\* rep leads from every node to what it has become in this call.
Represents(rep) ==
  /\ rep \in [Index -> Index]
  /\ \A n \in Index : rep[n] \notin Retired /\ (n \notin Retired => rep[n] = n)
  /\ \A n \in DOMAIN renamed : rep[n] = rep[renamed[n].node]
  /\ pc = "scan" /\ sub.old \notin DOMAIN renamed => rep[sub.old] = sub.new.node
  /\ pc \in {"begin", "scan"} => sub.new.node \notin DOMAIN renamed
  /\ pc = "idle" => DOMAIN renamed = {}

Members(s) == {s[i] : i \in DOMAIN s}

\* The pairs still to be dealt with, as edges between what nodes have become.
Pairs == Members(todo) \cup (IF Busy THEN {sub} ELSE {})
Arcs(rep) == {<<p.old, rep[p.new.node]>> : p \in Pairs}

\* What the fanins of n have become.
Up(rep, n) == {rep[c] : c \in FaninNodes(n)}

\* The network as it will be: references to what nodes have become, and those
\* that the pending pairs will lead to.
Quotient(rep) ==
  {e \in Index \X Index :
     /\ e[1] \notin Retired
     /\ \/ e[1] \in Nodes /\ IsGate(e[1]) /\ e[2] \in Up(rep, e[1])
        \/ e \in Arcs(rep)}

\* The earlier a node was replaced, the heavier it is: heavier than two that
\* were replaced after it.
Weights(w) ==
  /\ w \in [Index -> Nat]
  /\ \A n \in Index \ Retired : w[n] = 0
  /\ pc = "scan" /\ sub.old \notin DOMAIN renamed => w[sub.old] = 1
Weight(w, n) == w[child[n][1].node] + w[child[n][2].node]
Margin(n) == IF pc = "scan" /\ n \in scan THEN 1 ELSE 0

\* A pending pair leads to a fanin of its old node, or to a node with the
\* same fanins whose fanins were replaced later.
Covered(rep, w, u, v) ==
  \/ v \in Up(rep, u) \cup {0}
  \/ /\ Up(rep, v) \subseteq Up(rep, u) \cup {0}
     /\ Weight(w, v) + Margin(u) < Weight(w, u)
Covers(rep, w) ==
  Retired # {} =>
    \A u, v \in Index : <<u, v>> \in Arcs(rep) /\ u \notin Retired => Covered(rep, w, u, v)

\* Only the pair of the client is there before anything was replaced.
Alone ==
  /\ Busy /\ Retired = {} => todo = <<>>
  /\ pc = "pop" /\ Retired = {} => Len(todo) <= 1

\* A node that has been replaced has no fanouts left.
NoDouble == pc = "scan" /\ sub.old \in DOMAIN renamed => scan = {}

Order(rep, w) ==
  /\ NoCycle(Index, Child) /\ NoCycle(Index, Quotient(rep))
  /\ Represents(rep) /\ Weights(w) /\ Covers(rep, w)
  /\ Alone /\ NoDouble

\* References that stay until the gates that hold them are replaced.
Trail ==
  {e \in Child : e[2] \in Retired /\ ~(pc = "scan" /\ e[2] = sub.old /\ e[1] \in scan)}
Over(u, r) == \E c \in Index : <<u, c>> \in Trail /\ r \in Reach(Index, Trail, c)
Queued(n, r) ==
  \E i \in DOMAIN todo : todo[i].old = n /\ \A j \in 1 .. i : Over(todo[j].old, r)
Reviving(n, r) ==
  \E i \in DOMAIN calls :
     /\ calls[i].op = "revive" /\ calls[i].node = n
     /\ \E k \in {1, 2} : child[n][k].node = r /\ calls[i].at <= k

\* A live gate that still refers to a node that was replaced waits for its own
\* pair, and everything that is dealt with before depends on that node too; or
\* it is about to be taken out, or is being revived.
Waits ==
  \A n \in LiveGates : \A r \in Index :
    <<n, r>> \in Trail =>
      \/ /\ Queued(n, r)
         /\ Busy => (pc = "scan" /\ r = sub.old) \/ Over(sub.old, r)
      \/ Busy /\ sub.old = n
      \/ calls = <<Call("take_out", n)>>
      \/ Reviving(n, r)

OInv == \E rep, w : Order(rep, w) /\ Waits

\* What the earlier invariants say of the parts of these definitions.
Sound == AllInv /\ Hashed
Parts ==
  /\ TypeOK /\ IInv /\ CInv /\ Nodes \subseteq Index /\ 0 \in Nodes
  /\ \A n \in Index : /\ child[n][1].node \in Nodes /\ child[n][2].node \in Nodes
                      /\ FaninNodes(n) \subseteq Nodes
  /\ \A g \in Nodes : IsGate(g) => child[g][1].node # child[g][2].node
  /\ sub.old \in Nodes /\ sub.new.node \in Nodes
  /\ Busy => IsGate(sub.old)
  /\ \A i \in DOMAIN todo : /\ todo[i].old \in Nodes /\ IsGate(todo[i].old)
                            /\ todo[i].new.node \in Nodes
  /\ \A p \in Pairs : p.old \in Nodes /\ IsGate(p.old) /\ p.new.node \in Nodes
  /\ \A n \in DOMAIN renamed : n \in Nodes /\ IsGate(n) /\ renamed[n].node \in Nodes
  /\ Retired \subseteq Nodes /\ \A n \in Retired : IsGate(n)
  /\ LiveGates \subseteq Nodes
\* They allocate what they name.
LEMMA SoundParts == Sound => Parts
<1> SUFFICES ASSUME Sound PROVE Parts
  OBVIOUS
<1>1. TypeOK /\ IInv /\ CInv /\ Nodes \subseteq Index /\ 0 \in Nodes /\ LiveGates \subseteq Nodes
  BY AllocatedParts DEF Sound, AllInv, CInv, IInv, LiveGates
<1>2. \A n \in Index : /\ child[n][1].node \in Nodes /\ child[n][2].node \in Nodes
                       /\ FaninNodes(n) \subseteq Nodes
  BY <1>1, AllocatedParts DEF FaninNodes
<1>3. \A g \in Nodes : IsGate(g) => child[g][1].node # child[g][2].node
  BY DEF Sound, Hashed
<1>4. /\ sub.old \in Nodes /\ sub.new.node \in Nodes
      /\ Busy => IsGate(sub.old)
  BY <1>1, AllocatedParts DEF CInv, OldGates, GatePair, Busy
<1>5. \A i \in DOMAIN todo : /\ todo[i].old \in Nodes /\ IsGate(todo[i].old)
                             /\ todo[i].new.node \in Nodes
  <2> DEFINE S == [old : Nodes, new : NodeSignal]
  <2>1. todo \in Seq(S) /\ todo \in Seq(GatePair)
    BY <1>1 DEF IInv, Allocated, CInv, OldGates
  <2> HIDE DEF S
  <2>2. \A i \in DOMAIN todo : todo[i] \in S /\ todo[i] \in GatePair
    BY ONLY <2>1
  <2>3. QED
    BY ONLY <2>2 DEF GatePair, NodeSignal, S
<1>6. \A p \in Pairs : p.old \in Nodes /\ IsGate(p.old) /\ p.new.node \in Nodes
  BY <1>4, <1>5 DEF Pairs, Members
<1>7. \A n \in DOMAIN renamed : n \in Nodes /\ IsGate(n) /\ renamed[n].node \in Nodes
  <2>1. Buried /\ renamed \in [DOMAIN renamed -> NodeSignal]
    BY <1>1 DEF Sound, AllInv, IInv, Allocated
  <2>2. QED
    BY <2>1 DEF Buried, NodeSignal
<1>8. Retired \subseteq Nodes /\ \A n \in Retired : IsGate(n)
  BY <1>4, <1>7 DEF Retired, Busy
<1>9. QED
  BY <1>1, <1>2, <1>3, <1>4, <1>5, <1>6, <1>7, <1>8 DEF Parts

Ident == [n \in Index |-> n]
Weightless == [n \in Index |-> 0]

\* Before anything is replaced the invariant asks for no cycle of references,
\* and that the client replaces no node by its own cone.
NothingReplaced ==
  /\ Parts /\ NoCycle(Index, Child)
  /\ pc \in {"idle", "pop"} /\ DOMAIN renamed = {}
  /\ \/ todo = <<>>
     \/ \E o \in Nodes, s \in Signal :
           /\ todo = <<[old |-> o, new |-> s]>>
           /\ o \notin Reach(Index, Child, s.node)
StartsOrdered == NothingReplaced => OInv
\* Every node is what it was.
LEMMA NothingReplacedYet == StartsOrdered
<1> SUFFICES ASSUME NothingReplaced PROVE OInv
  BY DEF StartsOrdered
<1>1. /\ Parts /\ NoCycle(Index, Child) /\ pc \in {"idle", "pop"}
      /\ Retired = {} /\ DOMAIN renamed = {} /\ ~Busy /\ Trail = {}
  BY DEF NothingReplaced, Retired, Busy, Trail
<1>2. Ident \in [Index -> Index] /\ \A n \in Index : Ident[n] = n
  BY DEF Ident
<1>3. \A n \in Nodes : Up(Ident, n) = FaninNodes(n)
  <2>1. \A n \in Nodes : FaninNodes(n) \subseteq Index
    BY <1>1 DEF Parts
  <2>2. QED
    BY <1>2, <2>1 DEF Up
<1>4. NoCycle(Index, Quotient(Ident))
  <2>1. ASSUME Arcs(Ident) = {}
        PROVE  NoCycle(Index, Quotient(Ident))
    <3>1. \A x, y \in Index : <<x, y>> \in Quotient(Ident) => <<x, y>> \in Child
      BY <1>3, <2>1 DEF Quotient, Child
    <3>2. QED
      BY <1>1, <3>1, FewerEdges
  <2>2. CASE todo = <<>>
    <3>1. Pairs = {}
      BY <1>1, <2>2 DEF Pairs, Members
    <3>2. QED
      BY <2>1, <3>1 DEF Arcs
  <2>3. ASSUME NEW o \in Nodes, NEW s \in Signal, todo = <<[old |-> o, new |-> s]>>,
               o \notin Reach(Index, Child, s.node)
        PROVE  NoCycle(Index, Quotient(Ident))
    <3>1. Pairs = {[old |-> o, new |-> s]}
      BY <1>1, <2>3 DEF Pairs, Members
    <3>2. s.node \in Index /\ o \in Index
      BY <1>1 DEF Parts, Signal
    <3>3. Arcs(Ident) = {<<o, s.node>>}
      BY <1>2, <3>1, <3>2 DEF Arcs
    <3>4. \A x, y \in Index : <<x, y>> \in Quotient(Ident) =>
            <<x, y>> \in Child \/ (x = o /\ y = s.node)
      BY <1>3, <3>3 DEF Quotient, Child
    <3>5. QED
      BY <1>1, <2>3, <3>2, <3>4, NewEdge
  <2>4. QED
    BY <2>2, <2>3 DEF NothingReplaced
<1>5. Represents(Ident)
  BY <1>1, <1>2 DEF Represents
<1>6. Weights(Weightless)
  BY <1>1 DEF Weights, Weightless
<1>7. Covers(Ident, Weightless) /\ NoDouble
  BY <1>1 DEF Covers, NoDouble
<1>8. Alone
  <2>1. Len(todo) <= 1
    <3>1. CASE todo = <<>>
      BY <3>1
    <3>2. ASSUME NEW p, todo = <<p>> PROVE Len(todo) <= 1
      BY <3>2
    <3>3. QED
      BY <3>1, <3>2 DEF NothingReplaced
  <2>2. QED
    BY ONLY <1>1, <2>1 DEF Alone
<1>9. Waits
  BY <1>1 DEF Waits
<1>10. QED
  BY <1>1, <1>4, <1>5, <1>6, <1>7, <1>8, <1>9 DEF OInv, Order

\* Dropping pairs, or following old_to_new, disturbs nothing.
LEMMA FewerArcs ==
  ASSUME NEW rep, NEW w, Order(rep, w), UNCHANGED <<size, isCi, child>>,
         Retired' = Retired, Arcs(rep)' \subseteq Arcs(rep),
         \A n \in Index : Margin(n)' = Margin(n)
  PROVE  /\ NoCycle(Index, Child)' /\ NoCycle(Index, Quotient(rep))'
         /\ Covers(rep, w)'
<1>1. NoCycle(Index, Child) /\ NoCycle(Index, Quotient(rep)) /\ Covers(rep, w)
  BY DEF Order
<1>2. Child' = Child /\ Nodes' = Nodes /\ \A n : IsGate(n)' <=> IsGate(n)
  BY DEF Child, Nodes, IsGate, FaninNodes
<1>3. \A n : Up(rep, n)' = Up(rep, n) /\ Weight(w, n)' = Weight(w, n)
  BY DEF Up, Weight, FaninNodes
<1>4. \A x, y \in Index : <<x, y>> \in Quotient(rep)' => <<x, y>> \in Quotient(rep)
  BY <1>2, <1>3 DEF Quotient
<1>5. NoCycle(Index, Quotient(rep)')
  BY <1>1, <1>4, FewerEdges
<1>6. \A u, v \in Index : Covered(rep, w, u, v) => Covered(rep, w, u, v)'
  BY <1>3 DEF Covered
<1>7. Covers(rep, w)'
  BY <1>1, <1>6 DEF Covers
<1>8. QED
  BY <1>1, <1>2, <1>5, <1>7

\* The pairs after one is taken from the worklist.
LEMMA PairsOf ==
  ASSUME NEW S, NEW s \in Seq(S), s # <<>>
  PROVE  Members(s) = {Head(s)} \cup Members(Tail(s))
<1>1. /\ Len(s) \in Nat /\ Len(s) # 0 /\ DOMAIN s = 1 .. Len(s) /\ Head(s) = s[1]
      /\ DOMAIN Tail(s) = 1 .. Len(s) - 1
      /\ \A i \in 1 .. Len(s) - 1 : Tail(s)[i] = s[i + 1]
  OBVIOUS
<1>2. \A i \in 1 .. Len(s) : i = 1 \/ (i - 1 \in 1 .. Len(s) - 1 /\ (i - 1) + 1 = i)
  BY <1>1
<1>3. \A i \in 1 .. Len(s) - 1 : i + 1 \in 1 .. Len(s)
  BY <1>1
<1>4. 1 \in 1 .. Len(s)
  BY <1>1
<1>5. ASSUME NEW x \in Members(s) PROVE x \in {Head(s)} \cup Members(Tail(s))
  <2>1. PICK i \in 1 .. Len(s) : x = s[i]
    BY <1>1, <1>5 DEF Members
  <2>2. i # 1 => i - 1 \in DOMAIN Tail(s) /\ x = Tail(s)[i - 1]
    BY <1>1, <1>2, <2>1
  <2>3. QED
    BY <1>1, <2>1, <2>2 DEF Members
<1>6. Head(s) \in Members(s) /\ Members(Tail(s)) \subseteq Members(s)
  BY <1>1, <1>3, <1>4 DEF Members
<1>7. QED
  BY <1>5, <1>6

\* The pairs after one is pushed.
LEMMA PairsPushed ==
  ASSUME NEW S, NEW s \in Seq(S), NEW x
  PROVE  LET t == <<x>> \o s
         IN  /\ Members(t) = {x} \cup Members(s)
             /\ DOMAIN t = 1 .. Len(s) + 1 /\ t[1] = x
             /\ \A i \in DOMAIN s : i + 1 \in DOMAIN t /\ t[i + 1] = s[i]
             /\ \A i \in DOMAIN t : i = 1 \/ i - 1 \in DOMAIN s
<1> DEFINE t == <<x>> \o s
<1>1. /\ Len(s) \in Nat /\ DOMAIN s = 1 .. Len(s)
      /\ DOMAIN t = 1 .. Len(s) + 1 /\ t[1] = x
      /\ \A i \in 1 .. Len(s) + 1 : i # 1 => t[i] = s[i - 1]
  OBVIOUS
<1> HIDE DEF t
<1>2. \A i \in 1 .. Len(s) : i + 1 \in 1 .. Len(s) + 1 /\ i + 1 # 1 /\ (i + 1) - 1 = i
  BY <1>1
<1>3. \A i \in 1 .. Len(s) + 1 : i # 1 => i - 1 \in 1 .. Len(s)
  BY <1>1
<1>4. 1 \in 1 .. Len(s) + 1
  BY <1>1
<1>5. \A i \in DOMAIN s : i + 1 \in DOMAIN t /\ t[i + 1] = s[i]
  BY <1>1, <1>2
<1>6. Members(t) = {x} \cup Members(s)
  BY <1>1, <1>3, <1>4, <1>5 DEF Members
<1>7. QED
  BY <1>1, <1>3, <1>5, <1>6 DEF t

\* A node that has been replaced is not what anything has become.
LEMMA OrderedNotSelf ==
  ASSUME Sound, OInv
  PROVE  NotSelf
<1> SUFFICES ASSUME pc = "scan", sub.new.node = sub.old PROVE FALSE
  BY DEF NotSelf
<1>1. PICK rep, w : Order(rep, w)
  BY DEF OInv
<1>2. sub.old \in Retired /\ sub.old \in Index /\ Represents(rep)
  BY <1>1, SoundParts DEF Retired, Parts, Order
<1>3. sub.old \notin DOMAIN renamed
  BY <1>2 DEF Represents
<1>4. QED
  BY <1>2, <1>3 DEF Represents

-----------------------------------------------------------------------------
(* Steps that leave the references and the pairs alone.                    *)

\* No part of Order reads more of the state.
LEMMA SameOrder ==
  ASSUME UNCHANGED <<size, isCi, child, pc, todo, sub, renamed, scan>>, NEW rep, NEW w
  PROVE  /\ Order(rep, w)' <=> Order(rep, w)
         /\ Trail' = Trail /\ Retired' = Retired /\ (Busy' <=> Busy)
         /\ \A n, r : (Queued(n, r)' <=> Queued(n, r)) /\ (Over(n, r)' <=> Over(n, r))
<1>1. /\ Child' = Child /\ Nodes' = Nodes /\ \A n : IsGate(n)' <=> IsGate(n)
      /\ \A n : FaninNodes(n)' = FaninNodes(n)
  BY DEF Child, Nodes, IsGate, FaninNodes
<1>2. Retired' = Retired /\ (Busy' <=> Busy)
  BY DEF Retired, Busy
<1>3. Pairs' = Pairs
  BY <1>2 DEF Pairs
<1>4. /\ Arcs(rep)' = Arcs(rep) /\ \A n : Up(rep, n)' = Up(rep, n)
      /\ \A n : Weight(w, n)' = Weight(w, n) /\ Margin(n)' = Margin(n)
  BY <1>1, <1>3 DEF Arcs, Up, Weight, Margin
<1>5. Quotient(rep)' = Quotient(rep)
  BY <1>1, <1>2, <1>4 DEF Quotient
<1>6. \A u, v : Covered(rep, w, u, v)' <=> Covered(rep, w, u, v)
  BY <1>4 DEF Covered
<1>7. Covers(rep, w)' <=> Covers(rep, w)
  BY <1>2, <1>4, <1>6 DEF Covers
<1>8. /\ Represents(rep)' <=> Represents(rep)
      /\ Weights(w)' <=> Weights(w)
      /\ (Alone' <=> Alone) /\ (NoDouble' <=> NoDouble)
  BY <1>2 DEF Represents, Weights, Alone, NoDouble, Busy
<1>9. Order(rep, w)' <=> Order(rep, w)
  BY <1>1, <1>5, <1>7, <1>8 DEF Order
<1>10. Trail' = Trail
  BY <1>1, <1>2 DEF Trail
<1>11. \A n, r : Over(n, r)' <=> Over(n, r)
  BY <1>10 DEF Over
<1>12. \A n, r : Queued(n, r)' <=> Queued(n, r)
  BY <1>11 DEF Queued
<1>13. QED
  BY <1>2, <1>9, <1>10, <1>11, <1>12

\* The activations once the innermost one has advanced.
LEMMA AdvancedMembers ==
  ASSUME TypeOK, calls # <<>>
  PROVE  LET f == Head(calls)
         IN  /\ Members(calls) = {f} \cup Members(Tail(calls))
             /\ f.at < 2 =>
                  Members(Advance) = {[f EXCEPT !.at = @ + 1]} \cup Members(Tail(calls))
             /\ f.at >= 2 => Members(Advance) = Members(Tail(calls))
<1> DEFINE f == Head(calls)
<1>1. calls \in Seq(Frame) /\ Tail(calls) \in Seq(Frame) /\ f \in Frame /\ f.at \in Nat
  BY CallsSplit DEF TypeOK, Frame
<1>2. Members(calls) = {f} \cup Members(Tail(calls))
  BY <1>1, PairsOf
<1>3. Members(<<[f EXCEPT !.at = @ + 1]>> \o Tail(calls))
        = {[f EXCEPT !.at = @ + 1]} \cup Members(Tail(calls))
  BY <1>1, PairsPushed
<1>4. QED
  BY <1>1, <1>2, <1>3 DEF Advance

\* take_out_node and revive_node let nothing go that waits.
LEMMA WaitsUnwind ==
  ASSUME Sound, Sound', NoOverflow, StaysDead, Unwind, Waits
  PROVE  Waits'
<1> DEFINE f == Head(calls)
           c == child[f.node][f.at].node
<1>1. /\ CInv /\ TypeOK /\ Buried /\ UNCHANGED <<size, isCi, child, outputs, ctlVars>>
      /\ [AnyNext]_vars /\ calls # <<>> /\ f \in Frame /\ f.node \in Nodes
  BY UnwindFrame, UnwindCalls, FrameParts, CallsSplit
  DEF Sound, AllInv, CInv, IInv, AnyNext, Next
<1>2. /\ Trail' = Trail /\ Retired' = Retired /\ (Busy' <=> Busy)
      /\ \A n, r : (Queued(n, r)' <=> Queued(n, r)) /\ (Over(n, r)' <=> Over(n, r))
  BY <1>1, SameOrder DEF ctlVars
<1> SUFFICES ASSUME NEW n \in LiveGates', NEW r \in Index, <<n, r>> \in Trail
             PROVE  \/ /\ Queued(n, r)
                       /\ Busy => (pc = "scan" /\ r = sub.old) \/ Over(sub.old, r)
                    \/ Busy /\ sub.old = n
                    \/ calls' = <<Call("take_out", n)>>
                    \/ Reviving(n, r)'
  BY <1>1, <1>2 DEF Waits, ctlVars
<1>3. Reviving(n, r) <=>
        \E g \in Members(calls) : /\ g.op = "revive" /\ g.node = n
                                  /\ \E k \in {1, 2} : child[n][k].node = r /\ g.at <= k
  BY DEF Reviving, Members
<1>4. Reviving(n, r)' <=>
        \E g \in Members(calls') : /\ g.op = "revive" /\ g.node = n
                                   /\ \E k \in {1, 2} : child[n][k].node = r /\ g.at <= k
  BY <1>1 DEF Reviving, Members
<1>5. n \in Nodes /\ IsGate(n) /\ \E k \in {1, 2} : child[n][k].node = r
  BY <1>1 DEF LiveGates, Nodes, IsGate, Trail, Child, FaninNodes
<1>6. CASE n \in LiveGates
  <2>1. CASE calls = <<Call("take_out", n)>>
    <3>1. f = Call("take_out", n) /\ ~Dead(n)
      BY <1>6, <2>1, TailOfOne DEF LiveGates
    <3>2. TakeOutEnter
      <4>1. f.op = "take_out" /\ f.node = n /\ f.at = 0
        BY <3>1 DEF Call
      <4>2. ~TakeOutIgnored
        BY <1>5, <3>1, <4>1 DEF TakeOutIgnored
      <4>3. ~InCall("take_out", {1, 2}) /\ ~InCall("revive", {0}) /\ ~InCall("revive", {1, 2})
        BY <4>1 DEF InCall
      <4>4. QED
        BY <4>2, <4>3 DEF Unwind, TakeOutFanin, ReviveEnter, ReviveFanin
    <3>3. Dead(n)'
      <4>1. h1' = [h1 EXCEPT ![n] = DeadBit] /\ n \in Index
        <5>1. f.node = n /\ n \in Index
          BY <1>5, <3>1, SoundParts DEF Call, Parts
        <5>2. QED
          BY <3>2, <5>1 DEF TakeOutEnter
      <4>2. h1'[n] = DeadBit
        BY <1>1, <4>1 DEF TypeOK
      <4>3. QED
        BY <4>2, DeadBitAssumption DEF Dead
    <3>4. QED
      BY <3>3 DEF LiveGates
  <2>2. CASE Reviving(n, r)
    <3>1. PICK g \in Members(calls), k \in {1, 2} :
            /\ g.op = "revive" /\ g.node = n /\ child[n][k].node = r /\ g.at <= k
      BY <1>3, <2>2
    <3>2. calls \in Seq(OfKind("revive")) /\ f.op = "revive"
      <4>1. \A i \in DOMAIN calls : calls[i].op = f.op
        BY <1>1, KindOfRest DEF OfKind
      <4>2. f.op = "revive"
        BY <3>1, <4>1 DEF Members
      <4>3. QED
        BY <1>1, <4>2, KindOfRest
    <3>3. Dead(r) /\ r \in DOMAIN renamed
      <4>1. pc # "scan"
        BY <1>1 DEF CInv, IInv, Scanning
      <4>2. r \in DOMAIN renamed
        BY <4>1 DEF Trail, Retired
      <4>3. calls # <<Call("take_out", r)>>
        BY <3>2, TailOfOne DEF Call
      <4>4. QED
        BY <1>1, <4>2, <4>3 DEF Buried
    <3>4. CASE ReviveEnter
      <4>1. calls' = Advance /\ f.at = 0
        BY <3>4 DEF ReviveEnter, InCall
      <4>2. Members(calls') = {[f EXCEPT !.at = @ + 1]} \cup Members(Tail(calls))
        BY <1>1, <4>1, AdvancedMembers
      <4>3. CASE g = f
        <5> DEFINE h == [f EXCEPT !.at = @ + 1]
        <5>1. h.op = "revive" /\ h.node = n /\ h.at = 1
          BY <1>1, <3>1, <4>1, <4>3 DEF Frame
        <5>2. h.at <= k /\ h \in Members(calls')
          BY <4>2, <5>1
        <5>3. QED
          BY <1>4, <3>1, <5>1, <5>2
      <4>4. CASE g # f
        BY <1>1, <1>4, <3>1, <4>2, <4>4, AdvancedMembers
      <4>5. QED
        BY <4>3, <4>4
    <3>5. CASE ReviveFanin /\ Dead(c)
      <4>1. calls' = <<Call("revive", c)>> \o calls
        BY <3>5 DEF ReviveFanin
      <4>2. Members(calls') = {Call("revive", c)} \cup Members(calls)
        BY <1>1, <4>1, PairsPushed DEF TypeOK
      <4>3. QED
        BY <1>4, <3>1, <4>2
    <3>6. CASE ReviveFanin /\ ~Dead(c)
      <4>1. calls' = Advance /\ f.at \in {1, 2}
        BY <3>6 DEF ReviveFanin, InCall
      <4>2. CASE g = f
        <5> DEFINE h == [f EXCEPT !.at = @ + 1]
        <5>1. f.at # k
          BY <3>1, <3>3, <3>6, <4>2
        <5>2. f.at = 1 /\ k = 2
          BY <3>1, <4>1, <4>2, <5>1
        <5>3. h.op = "revive" /\ h.node = n /\ h.at = 2
          BY <1>1, <3>1, <4>2, <5>2 DEF Frame
        <5>4. h \in Members(calls') /\ h.at <= k
          BY <1>1, <4>1, <5>2, <5>3, AdvancedMembers
        <5>5. QED
          BY <1>4, <3>1, <5>3, <5>4
      <4>3. CASE g # f
        <5>1. g \in Members(calls')
          BY <1>1, <3>1, <4>1, <4>3, AdvancedMembers
        <5>2. QED
          BY <1>4, <3>1, <5>1
      <4>4. QED
        BY <4>2, <4>3
    <3>7. QED
      BY <3>2, <3>4, <3>5, <3>6
      DEF Unwind, TakeOutIgnored, TakeOutEnter, TakeOutFanin, InCall
  <2>3. QED
    BY <1>6, <2>1, <2>2 DEF Waits
<1>7. CASE n \notin LiveGates
  <2>1. Dead(n) /\ ~Dead(n)'
    BY <1>5, <1>7 DEF LiveGates
  <2>2. h1'[n] # h1[n]
    BY <2>1 DEF Dead
  <2>3. ReviveEnter /\ n = f.node
    BY <1>1, <1>5, <2>1, <2>2, DeadStep
  <2>4. calls' = Advance /\ f.at = 0 /\ f.op = "revive"
    BY <2>3 DEF ReviveEnter, InCall
  <2> DEFINE h == [f EXCEPT !.at = @ + 1]
  <2>5. h.op = "revive" /\ h.node = n /\ h.at = 1
    BY <1>1, <2>3, <2>4 DEF Frame
  <2>6. h \in Members(calls')
    BY <1>1, <2>4, AdvancedMembers
  <2>7. \A k \in {1, 2} : h.at <= k
    BY <2>5
  <2> HIDE DEF h
  <2>8. QED
    BY <1>4, <1>5, <2>5, <2>6, <2>7
<1>8. QED
  BY <1>6, <1>7

-----------------------------------------------------------------------------
(* Building, and the start and the end of a substitution.                  *)

\* A new gate has fanins but no fanouts.
LEMMA BuildOrder ==
  ASSUME Sound, Sound', NoCycle(Index, Child), Build
  PROVE  NoCycle(Index, Child)'
<1>1. /\ TypeOK /\ TypeOK' /\ Parts
  BY SoundParts DEF Sound, AllInv, CInv, IInv
<1>2. CASE CreatePi
  <2>1. /\ size' = size + 1 /\ child' = child /\ isCi' = [isCi EXCEPT ![size] = TRUE]
    BY <1>2 DEF CreatePi
  <2>2. size \in Index /\ Nodes' = Nodes \cup {size} /\ size \notin Nodes
    BY <1>1, <2>1, NodesOneMore
  <2>3. isCi'[size] /\ \A n \in Nodes : isCi'[n] = isCi[n]
    BY <1>1, <2>1, <2>2 DEF TypeOK, Parts
  <2>4. Child' = Child
    BY <2>1, <2>2, <2>3 DEF Child, IsGate, FaninNodes
  <2>5. QED
    BY <2>4
<1>3. CASE \E f \in LiveSignals : CreatePo(f)
  <2>1. UNCHANGED <<size, isCi, child>>
    BY <1>3 DEF CreatePo
  <2>2. Child' = Child
    BY <2>1 DEF Child, IsGate, FaninNodes, Nodes
  <2>3. QED
    BY <2>2
<1>4. CASE \E a, b \in LiveSignals : CreateAnd(a, b)
  <2>1. PICK a \in LiveSignals, b \in LiveSignals : CreateAnd(a, b)
    BY <1>4
  <2>2. /\ size' = size + 1 /\ isCi' = isCi
        /\ child' = [child EXCEPT ![size] = Ordered(a, b)]
        /\ a.node \in Nodes /\ b.node \in Nodes
    BY <2>1 DEF CreateAnd, LiveSignals, Signals
  <2>3. PICK k \in Index : k = size /\ Nodes' = Nodes \cup {k} /\ k \notin Nodes
    BY <1>1, <2>2, NodesOneMore
  <2>4. child'[k] = Ordered(a, b) /\ \A n \in Nodes : child'[n] = child[n]
    BY <1>1, <2>2, <2>3 DEF TypeOK, Parts
  <2>5. FaninNodes(k)' = {a.node, b.node}
    BY <2>4 DEF FaninNodes, Ordered
  <2>6. \A n \in Nodes : FaninNodes(n)' = FaninNodes(n) /\ (IsGate(n)' <=> IsGate(n))
    BY <2>2, <2>4 DEF FaninNodes, IsGate
  <2>7. \A x, y \in Index :
           <<x, y>> \in Child' => (<<x, y>> \in Child \/ x = k) /\ y # k
    <3> SUFFICES ASSUME NEW x \in Index, NEW y \in Index, <<x, y>> \in Child'
                 PROVE  (<<x, y>> \in Child \/ x = k) /\ y # k
      OBVIOUS
    <3>1. x \in Nodes' /\ IsGate(x)' /\ y \in FaninNodes(x)'
      BY DEF Child
    <3>2. CASE x = k
      BY <2>2, <2>3, <2>5, <3>1, <3>2
    <3>3. CASE x # k
      <4>1. x \in Nodes /\ IsGate(x) /\ y \in FaninNodes(x)
        BY <2>3, <2>6, <3>1, <3>3
      <4>2. y \in Nodes
        BY <1>1, <4>1 DEF Parts
      <4>3. QED
        BY <2>3, <4>1, <4>2 DEF Child
    <3>4. QED
      BY <3>2, <3>3
  <2>8. NoCycle(Index, Child')
    BY <2>3, <2>7, NewSource
  <2>9. QED
    BY <2>8
<1>5. QED
  BY <1>2, <1>3, <1>4 DEF Build

\* The client replaces no node by what depends on it, and there is nothing to
\* represent when the substitution returns.
LEMMA StartsStep ==
  ASSUME Sound, Sound', OInv,
         \/ Build \/ Return
         \/ \E n \in Nodes : TakeOut(n)
         \/ \E o \in Nodes, s \in Signals : SubstituteNode(o, s)
  PROVE  OInv'
<1>1. Parts /\ TypeOK /\ IInv /\ QuietIdle
  BY SoundParts DEF Sound, AllInv, CInv, IInv, DInv
<1>2. Parts'
  <2>1. (Sound => Parts)'
    BY SoundParts, PTL
  <2>2. QED
    BY <2>1
<1>3. PICK rep, w : Order(rep, w)
  BY DEF OInv
<1>4. NoCycle(Index, Child) /\ (pc = "idle" => DOMAIN renamed = {} /\ todo = <<>>)
  BY <1>1, <1>3 DEF Order, Represents, QuietIdle
<1>5. UNCHANGED <<size, isCi, child>> => NoCycle(Index, Child)'
  BY <1>4 DEF Child, IsGate, FaninNodes, Nodes
<1>6. NothingReplaced'
  <2>1. CASE Build
    <3>1. NoCycle(Index, Child)'
      BY <1>4, <2>1, BuildOrder
    <3>2. pc = "idle" /\ UNCHANGED ctlVars
      BY <2>1 DEF Build, CreatePi, CreatePo, CreateAnd, Idle
    <3>3. QED
      BY <1>2, <1>4, <3>1, <3>2 DEF NothingReplaced, ctlVars
  <2>2. CASE Return
    <3>1. /\ todo' = <<>> /\ pc' = "idle" /\ DOMAIN renamed' = {}
          /\ UNCHANGED <<size, isCi, child>>
      BY <2>2 DEF Return, netVars
    <3>2. QED
      BY <1>2, <1>5, <3>1 DEF NothingReplaced
  <2>3. CASE \E n \in Nodes : TakeOut(n)
    <3>1. pc = "idle" /\ UNCHANGED ctlVars /\ UNCHANGED <<size, isCi, child>>
      BY <2>3 DEF TakeOut, Idle, netVars
    <3>2. QED
      BY <1>2, <1>4, <1>5, <3>1 DEF NothingReplaced, ctlVars
  <2>4. ASSUME NEW o \in Nodes, NEW s \in Signals, SubstituteNode(o, s)
        PROVE  NothingReplaced'
    <3>1. /\ pc = "idle" /\ pc' = "pop" /\ todo' = <<[old |-> o, new |-> s]>>
          /\ renamed' = renamed /\ UNCHANGED <<size, isCi, child>>
          /\ s.node \in Nodes /\ o \notin Cone(s.node)
      BY <2>4 DEF SubstituteNode, MaySubstitute, Idle, netVars
    <3>2. o \notin Reach(Index, Child, s.node)
      BY <1>1, <3>1, ConeReach
    <3>3. Child' = Child /\ Nodes' = Nodes
      BY <3>1 DEF Child, IsGate, FaninNodes, Nodes
    <3>4. s \in Signal
      BY <1>1, NodesType
    <3>5. \E p \in Nodes', t \in Signal :
             /\ todo' = <<[old |-> p, new |-> t]>>
             /\ p \notin Reach(Index, Child', t.node)
      BY <3>1, <3>2, <3>3, <3>4
    <3>6. QED
      BY <1>2, <1>4, <1>5, <3>1, <3>5 DEF NothingReplaced
  <2>5. QED
    BY <2>1, <2>2, <2>3, <2>4
<1>7. StartsOrdered'
  BY NothingReplacedYet, PTL
<1>8. QED
  BY <1>6, <1>7 DEF StartsOrdered

-----------------------------------------------------------------------------
(* Taking a pair, and following old_to_new.                                *)

\* Nothing is being visited, and what has been replaced stays the same.
LEMMA SameTrail ==
  ASSUME UNCHANGED <<size, isCi, child>>, Retired' = Retired,
         pc = "scan" => scan = {}, pc' = "scan" => scan' = {}
  PROVE  /\ Trail' = Trail /\ \A n, r : Over(n, r)' <=> Over(n, r)
         /\ \A n \in Index : Margin(n)' = Margin(n)
<1>1. Child' = Child
  BY DEF Child, Nodes, IsGate, FaninNodes
<1>2. Trail = {e \in Child : e[2] \in Retired} /\ Trail' = {e \in Child' : e[2] \in Retired'}
  BY DEF Trail
<1>3. Trail' = Trail
  BY <1>1, <1>2
<1>4. \A n, r : Over(n, r)' <=> Over(n, r)
  BY <1>3 DEF Over
<1>5. QED
  BY <1>3, <1>4 DEF Margin

\* The pair at the front becomes the one that is dealt with.
LEMMA PopOrder ==
  ASSUME Sound, OInv, Pop
  PROVE  OInv'
<1>1. PICK rep, w : Order(rep, w) /\ Waits
  BY DEF OInv
<1>2. /\ pc = "pop" /\ calls = <<>> /\ todo # <<>> /\ pc' \in {"resolve", "begin"}
      /\ pc' = "begin" => ~Dead(sub'.new.node)
      /\ sub' = Head(todo) /\ todo' = Tail(todo)
      /\ UNCHANGED <<size, isCi, child, h1, renamed, scan, calls>>
  BY DEF Pop, netVars
<1>3. /\ todo \in Seq(Substitution) /\ Len(todo) \in Nat /\ Len(todo) # 0
      /\ DOMAIN todo = 1 .. Len(todo) /\ DOMAIN todo' = 1 .. Len(todo) - 1
      /\ sub' = todo[1] /\ \A i \in 1 .. Len(todo) - 1 : todo'[i] = todo[i + 1]
  <2>1. todo \in Seq(Substitution)
    BY DEF Sound, AllInv, CInv, IInv, TypeOK
  <2>2. QED
    BY ONLY <1>2, <2>1
<1>4. Retired' = Retired /\ ~Busy /\ Busy'
  BY <1>2 DEF Retired, Busy
<1>5. Pairs' = Pairs
  <2>1. Members(todo) = {Head(todo)} \cup Members(Tail(todo))
    BY <1>2, <1>3, PairsOf
  <2>2. Members(todo)' = Members(Tail(todo))
    BY <1>2 DEF Members
  <2>3. QED
    BY <1>2, <1>4, <2>1, <2>2 DEF Pairs
<1>6. Trail' = Trail /\ (\A n, r : Over(n, r)' <=> Over(n, r))
      /\ \A n \in Index : Margin(n)' = Margin(n)
  BY <1>2, <1>4, SameTrail
<1>7. Order(rep, w)'
  <2>1. Arcs(rep)' = Arcs(rep)
    BY <1>5 DEF Arcs
  <2>2. NoCycle(Index, Child)' /\ NoCycle(Index, Quotient(rep))' /\ Covers(rep, w)'
    BY <1>1, <1>2, <1>4, <1>6, <2>1, FewerArcs
  <2>3. Represents(rep)'
    <3>1. pc' = "begin" => sub'.new.node \notin DOMAIN renamed
      BY <1>2 DEF Sound, AllInv, Buried
    <3>2. QED
      BY <1>1, <1>2, <1>4, <3>1 DEF Order, Represents
  <2>4. Weights(w)' /\ NoDouble'
    BY <1>1, <1>2, <1>4 DEF Order, Weights, NoDouble
  <2>5. Alone'
    <3>1. Retired = {} => Len(todo) <= 1
      BY <1>1, <1>2 DEF Order, Alone
    <3>2. Len(todo) = 1 => todo' = <<>>
      BY <1>2, <1>3
    <3>3. QED
      BY <1>2, <1>3, <1>4, <3>1, <3>2 DEF Alone
  <2>6. QED
    BY <2>2, <2>3, <2>4, <2>5 DEF Order
<1>8. Waits'
  <2> SUFFICES ASSUME NEW n \in LiveGates, NEW r \in Index, <<n, r>> \in Trail,
                      sub'.old # n
               PROVE  Queued(n, r)' /\ Over(sub'.old, r)
    <3>1. LiveGates' = LiveGates
      BY <1>2 DEF LiveGates, Nodes, IsGate, Dead
    <3>2. QED
      BY <1>4, <1>6, <3>1 DEF Waits
  <2>1. Queued(n, r)
    BY <1>1, <1>2, <1>4 DEF Waits, Reviving
  <2>2. PICK i \in 1 .. Len(todo) : todo[i].old = n /\ \A j \in 1 .. i : Over(todo[j].old, r)
    BY <1>3, <2>1 DEF Queued
  <2>3. i - 1 \in 1 .. Len(todo) - 1 /\ (i - 1) + 1 = i
    BY <1>3, <2>2
  <2>4. todo'[i - 1].old = n
    BY <1>3, <2>2, <2>3
  <2>5. ASSUME NEW j \in 1 .. i - 1 PROVE Over(todo'[j].old, r)
    <3>1. j \in 1 .. Len(todo) - 1 /\ j + 1 \in 1 .. i
      BY <1>3, <2>2
    <3>2. QED
      BY <1>3, <2>2, <3>1
  <2>6. Queued(n, r)'
    BY <1>3, <1>6, <2>3, <2>4, <2>5 DEF Queued
  <2>7. 1 \in 1 .. i
    BY <2>2
  <2>8. QED
    BY <1>3, <2>2, <2>6, <2>7
<1>9. QED
  BY <1>7, <1>8 DEF OInv

\* old_to_new leads to what the node has become.
LEMMA ResolveOrder ==
  ASSUME Sound, OInv, Follow \/ Resolved
  PROVE  OInv'
<1>1. PICK rep, w : Order(rep, w) /\ Waits
  BY DEF OInv
<1>2. /\ pc = "resolve" /\ pc' \in {"resolve", "begin"} /\ sub'.old = sub.old
      /\ pc' = "begin" => sub'.new.node \notin DOMAIN renamed
      /\ rep[sub'.new.node] = rep[sub.new.node]
      /\ UNCHANGED <<size, isCi, child, h1, todo, renamed, scan>>
      /\ calls = <<>>
  <2>1. CASE Follow
    <3>1. /\ pc = "resolve" /\ sub.new.node \in DOMAIN renamed
          /\ sub' = [sub EXCEPT !.new = Xor(renamed[sub.new.node], @.neg)]
          /\ UNCHANGED <<size, isCi, child, h1, pc, todo, renamed, scan>>
      BY <2>1 DEF Follow, netVars
    <3>2. sub \in [old : Nodes, new : NodeSignal] /\ renamed[sub.new.node] \in NodeSignal
      BY <3>1 DEF Sound, AllInv, CInv, IInv, Allocated
    <3>3. sub.new.neg \in BOOLEAN
      BY <3>2 DEF NodeSignal
    <3>4. Xor(renamed[sub.new.node], sub.new.neg).node = renamed[sub.new.node].node
      BY <3>2, <3>3, XorType DEF NodeSignal
    <3>5. sub'.old = sub.old /\ sub'.new.node = renamed[sub.new.node].node
      BY <3>1, <3>2, <3>4
    <3>6. QED
      BY <1>1, <3>1, <3>5 DEF Order, Represents, Sound, AllInv, CInv, Phases
  <2>2. CASE Resolved
    BY <2>2 DEF Resolved, netVars, Sound, AllInv, CInv, Phases
  <2>3. QED
    BY <2>1, <2>2
<1>3. Retired' = Retired /\ Busy /\ Busy'
  BY <1>2 DEF Retired, Busy
<1>4. Trail' = Trail /\ (\A n, r : Over(n, r)' <=> Over(n, r))
      /\ \A n \in Index : Margin(n)' = Margin(n)
  BY <1>2, <1>3, SameTrail
<1>5. Order(rep, w)'
  <2>1. Arcs(rep)' = Arcs(rep)
    <3>1. Pairs = Members(todo) \cup {sub} /\ Pairs' = Members(todo) \cup {sub'}
      BY <1>2, <1>3 DEF Pairs, Members
    <3>2. QED
      BY <1>2, <3>1 DEF Arcs
  <2>2. NoCycle(Index, Child)' /\ NoCycle(Index, Quotient(rep))' /\ Covers(rep, w)'
    BY <1>1, <1>2, <1>3, <1>4, <2>1, FewerArcs
  <2>3. Represents(rep)'
    BY <1>1, <1>2, <1>3 DEF Order, Represents
  <2>4. Weights(w)' /\ NoDouble' /\ Alone'
    BY <1>1, <1>2, <1>3 DEF Order, Weights, NoDouble, Alone
  <2>5. QED
    BY <2>2, <2>3, <2>4 DEF Order
<1>6. Waits'
  <2> SUFFICES ASSUME NEW n \in LiveGates, NEW r \in Index, <<n, r>> \in Trail,
                      sub.old # n
               PROVE  Queued(n, r)' /\ Over(sub.old, r)
    <3>1. LiveGates' = LiveGates
      BY <1>2 DEF LiveGates, Nodes, IsGate, Dead
    <3>2. QED
      BY <1>2, <1>3, <1>4, <3>1 DEF Waits
  <2>1. Queued(n, r) /\ Over(sub.old, r)
    BY <1>1, <1>2, <1>3 DEF Waits, Reviving
  <2>2. QED
    BY <1>2, <1>4, <2>1 DEF Queued
<1>7. QED
  BY <1>5, <1>6 DEF OInv

\* _old has been replaced, and is about to be taken out.
LEMMA FinishOrder ==
  ASSUME Sound, NoOverflow, OInv, FinishPair
  PROVE  OInv'
<1>1. PICK rep, w : Order(rep, w) /\ Waits
  BY DEF OInv
<1>2. /\ pc = "scan" /\ pc' = "pop" /\ scan = {} /\ calls = <<>>
      /\ UNCHANGED <<size, isCi, child, todo, sub, scan>>
  BY DEF FinishPair, Sound, AllInv, CInv, IInv, Scanning
<1>3. /\ sub.new.node # sub.old /\ calls' = <<Call("take_out", sub.old)>>
      /\ sub.old \notin DOMAIN renamed => renamed' = Insert(renamed, sub.old, sub.new)
      /\ sub.old \in DOMAIN renamed => renamed' = renamed
  BY <1>2, OrderedNotSelf DEF FinishPair, NotSelf, Sound, Hashed
<1>4. Retired' = Retired /\ Busy /\ ~Busy'
  BY <1>2, <1>3 DEF Retired, Busy, Insert
<1>5. Trail' = Trail /\ (\A n, r : Over(n, r)' <=> Over(n, r))
      /\ \A n \in Index : Margin(n)' = Margin(n)
  BY <1>2, <1>4, SameTrail
<1>6. Order(rep, w)'
  <2>1. Arcs(rep)' \subseteq Arcs(rep)
    BY <1>2, <1>4 DEF Arcs, Pairs, Members
  <2>2. NoCycle(Index, Child)' /\ NoCycle(Index, Quotient(rep))' /\ Covers(rep, w)'
    BY <1>1, <1>2, <1>4, <1>5, <2>1, FewerArcs
  <2>3. Represents(rep)'
    <3>1. Represents(rep) /\ sub.new.node \in Index
      BY <1>1, SoundParts DEF Order, Parts
    <3>2. ASSUME NEW n \in DOMAIN renamed' PROVE rep[n] = rep[renamed'[n].node]
      <4>1. CASE n \in DOMAIN renamed
        BY <1>3, <3>1, <3>2, <4>1 DEF Represents, Insert
      <4>2. CASE n \notin DOMAIN renamed
        <5>1. n = sub.old /\ renamed'[n] = sub.new
          BY <1>3, <3>2, <4>2 DEF Insert
        <5>2. rep[n] = sub.new.node /\ n \in Index
          BY <1>2, <3>1, <4>2, <5>1, SoundParts DEF Represents, Parts
        <5>3. rep[sub.new.node] = sub.new.node
          BY <3>1, <5>2 DEF Represents
        <5>4. QED
          BY <5>1, <5>2, <5>3
      <4>3. QED
        BY <4>1, <4>2
    <3>3. QED
      BY <1>2, <1>4, <3>1, <3>2 DEF Represents
  <2>4. Weights(w)' /\ NoDouble'
    BY <1>1, <1>2, <1>4 DEF Order, Weights, NoDouble
  <2>5. Alone'
    BY <1>2, <1>4 DEF Alone, Retired
  <2>6. QED
    BY <2>2, <2>3, <2>4, <2>5 DEF Order
<1>7. Waits'
  <2> SUFFICES ASSUME NEW n \in LiveGates', NEW r \in Index, <<n, r>> \in Trail,
                      sub.old # n
               PROVE  Queued(n, r)'
    BY <1>3, <1>4, <1>5 DEF Waits
  <2>1. n \in LiveGates
    <3>1. CInv /\ [AnyNext]_vars /\ ~TakeOutEnter /\ ~ReviveEnter
      BY <1>2 DEF AnyNext, Next, Substitute, TakeOutEnter, ReviveEnter, InCall, Sound, AllInv
    <3>2. QED
      BY <1>2, <3>1, SameLive
  <2>2. Queued(n, r)
    BY <1>1, <1>2, <2>1 DEF Waits, Reviving
  <2>3. QED
    BY <1>2, <1>5, <2>2 DEF Queued
<1>8. QED
  BY <1>6, <1>7 DEF OInv

-----------------------------------------------------------------------------
(* The loop over the fanouts starts.                                       *)

\* A node that was replaced before has no fanouts: they would all wait for
\* it, and it depends on none of them.
LEMMA NothingToVisit ==
  ASSUME Sound, OInv, pc = "begin", calls = <<>>, sub.old \in DOMAIN renamed
  PROVE  Fanouts(sub.old) = {}
<1> SUFFICES ASSUME NEW n \in Fanouts(sub.old) PROVE FALSE
  OBVIOUS
<1>1. PICK rep, w : Order(rep, w) /\ Waits
  BY DEF OInv
<1>2. PICK o \in Index : o = sub.old
  BY SoundParts DEF Parts
<1>3. /\ n \in LiveGates /\ n \in Index /\ <<n, o>> \in Child /\ <<n, o>> \in Trail
      /\ NoCycle(Index, Child) /\ Busy
  BY <1>1, <1>2, SoundParts
  DEF Fanouts, LiveGates, Child, Trail, Retired, Parts, Order, Busy
<1>4. Over(o, o) \/ n = o
  BY <1>1, <1>2, <1>3 DEF Waits, Reviving
<1>5. CASE Over(o, o)
  <2>1. PICK c \in Index : <<o, c>> \in Trail /\ o \in Reach(Index, Trail, c)
    BY <1>5 DEF Over
  <2>2. Trail \subseteq Child
    BY DEF Trail
  <2>3. o \in Reach(Index, Child, c) /\ <<o, c>> \in Child
    BY <2>1, <2>2, ReachGrows
  <2>4. QED
    BY <1>2, <1>3, <2>3 DEF NoCycle
<1>6. CASE n = o
  BY <1>2, <1>3, <1>6, ReachClosed DEF NoCycle
<1>7. QED
  BY <1>4, <1>5, <1>6

\* Such a pair moves the outputs only.
LEMMA BeginAgainOrder ==
  ASSUME Sound, OInv, Begin, sub.old \in DOMAIN renamed
  PROVE  OInv'
<1>1. PICK rep, w : Order(rep, w) /\ Waits
  BY DEF OInv
<1>2. /\ pc = "begin" /\ pc' = "scan" /\ calls = <<>> /\ scan' = {}
      /\ UNCHANGED <<size, isCi, child, h1, todo, sub, renamed, calls>>
  BY NothingToVisit DEF Begin, netVars
<1>3. Retired' = Retired /\ Busy /\ Busy' /\ Retired # {}
  BY <1>2 DEF Retired, Busy
<1>4. Trail' = Trail /\ (\A n, r : Over(n, r)' <=> Over(n, r))
      /\ \A n \in Index : Margin(n)' = Margin(n)
  BY <1>2, <1>3, SameTrail
<1>5. Order(rep, w)'
  <2>1. Arcs(rep)' = Arcs(rep)
    BY <1>2, <1>3 DEF Arcs, Pairs, Members
  <2>2. NoCycle(Index, Child)' /\ NoCycle(Index, Quotient(rep))' /\ Covers(rep, w)'
    BY <1>1, <1>2, <1>3, <1>4, <2>1, FewerArcs
  <2>3. Represents(rep)' /\ Weights(w)' /\ NoDouble' /\ Alone'
    BY <1>1, <1>2, <1>3 DEF Order, Represents, Weights, NoDouble, Alone
  <2>4. QED
    BY <2>2, <2>3 DEF Order
<1>6. Waits'
  <2> SUFFICES ASSUME NEW n \in LiveGates, NEW r \in Index, <<n, r>> \in Trail,
                      sub.old # n
               PROVE  Queued(n, r)' /\ Over(sub.old, r)
    <3>1. LiveGates' = LiveGates
      BY <1>2 DEF LiveGates, Nodes, IsGate, Dead
    <3>2. QED
      BY <1>2, <1>3, <1>4, <3>1 DEF Waits
  <2>1. Queued(n, r) /\ Over(sub.old, r)
    BY <1>1, <1>2, <1>3 DEF Waits, Reviving
  <2>2. QED
    BY <1>2, <1>4, <2>1 DEF Queued
<1>7. QED
  BY <1>5, <1>6 DEF OInv

\* What had become o becomes s, and is lighter than all before it.
Redirect(rep, o, s) == [n \in Index |-> IF rep[n] = o THEN s ELSE rep[n]]
Heavier(w, o) == [n \in Index |-> IF n = o THEN 1 ELSE 3 * w[n]]

\* A gate that was heavier stays heavier, even if it is to lose that fanin.
LEMMA HeavierWeights ==
  ASSUME Parts, NEW w \in [Index -> Nat], NEW o \in Index, w[o] = 0,
         NEW u \in Nodes, IsGate(u), NEW v \in Index, Weight(w, v) < Weight(w, u),
         NEW m \in {0, 1}, m = 1 => o \in FaninNodes(u)
  PROVE  Weight(Heavier(w, o), v) + m < Weight(Heavier(w, o), u)
<1>1. \A n \in Index : child[n][1].node \in Index /\ child[n][2].node \in Index
  BY DEF Parts
<1>2. u \in Index
  BY DEF Parts
<1>3. \A c \in Index : w[c] \in Nat /\ Heavier(w, o)[c] = 3 * w[c] + (IF c = o THEN 1 ELSE 0)
  BY DEF Heavier
<1> DEFINE v1 == child[v][1].node
           v2 == child[v][2].node
           u1 == child[u][1].node
           u2 == child[u][2].node
<1>4. /\ Weight(w, v) = w[v1] + w[v2] /\ Weight(w, u) = w[u1] + w[u2]
      /\ Weight(Heavier(w, o), v) = Heavier(w, o)[v1] + Heavier(w, o)[v2]
      /\ Weight(Heavier(w, o), u) = Heavier(w, o)[u1] + Heavier(w, o)[u2]
      /\ m = 1 => o = u1 \/ o = u2
  BY DEF Weight, FaninNodes
<1>5. v1 \in Index /\ v2 \in Index /\ u1 \in Index /\ u2 \in Index
  BY <1>1, <1>2
<1> HIDE DEF v1, v2, u1, u2
<1>6. /\ Heavier(w, o)[v1] <= 3 * w[v1] + 1 /\ Heavier(w, o)[v2] <= 3 * w[v2] + 1
      /\ Heavier(w, o)[v1] \in Nat /\ Heavier(w, o)[v2] \in Nat
      /\ w[v1] \in Nat /\ w[v2] \in Nat
  <2>1. \A c \in Index : Heavier(w, o)[c] \in Nat /\ Heavier(w, o)[c] <= 3 * w[c] + 1
    BY ONLY <1>3
  <2>2. QED
    BY ONLY <1>3, <1>5, <2>1
<1>7. /\ Heavier(w, o)[u1] + Heavier(w, o)[u2] >= 3 * w[u1] + 3 * w[u2] + m
      /\ Heavier(w, o)[u1] \in Nat /\ Heavier(w, o)[u2] \in Nat
      /\ w[u1] \in Nat /\ w[u2] \in Nat
  <2>1. /\ w[u1] \in Nat /\ Heavier(w, o)[u1] = 3 * w[u1] + (IF u1 = o THEN 1 ELSE 0)
        /\ w[u2] \in Nat /\ Heavier(w, o)[u2] = 3 * w[u2] + (IF u2 = o THEN 1 ELSE 0)
    BY ONLY <1>3, <1>5
  <2>2. m \in {0, 1} /\ (m = 1 => o = u1 \/ o = u2)
    BY ONLY <1>4
  <2>3. QED
    BY ONLY <2>1, <2>2
<1>8. QED
  BY <1>4, <1>6, <1>7

\* More references that wait lead further.
LEMMA OverGrows ==
  ASSUME Trail \subseteq Trail', NEW u, NEW r, Over(u, r)
  PROVE  Over(u, r)'
<1>1. PICK c \in Index : <<u, c>> \in Trail /\ r \in Reach(Index, Trail, c)
  BY DEF Over
<1>2. r \in Reach(Index, Trail', c)
  BY <1>1, ReachGrows
<1>3. QED
  BY <1>1, <1>2 DEF Over

\* The pair of the node that is replaced is carried out in advance.
LEMMA BeginOrder ==
  ASSUME Sound, OInv, Begin, sub.old \notin DOMAIN renamed
  PROVE  OInv'
<1>1. PICK rep, w : Order(rep, w) /\ Waits
  BY DEF OInv
<1>2. PICK o \in Index, s \in Index : o = sub.old /\ s = sub.new.node
  BY SoundParts DEF Parts
<1>3. /\ pc = "begin" /\ pc' = "scan" /\ calls = <<>> /\ scan' = Fanouts(o)
      /\ UNCHANGED <<size, isCi, child, h1, todo, sub, renamed, calls>>
      /\ o = sub'.old /\ s = sub'.new.node
  BY <1>2 DEF Begin, netVars
<1>4. /\ Parts /\ o \in Nodes /\ IsGate(o) /\ o # 0 /\ Busy /\ Busy'
  BY <1>2, <1>3, SoundParts DEF Parts, Busy, IsGate
<1>5. Retired = DOMAIN renamed /\ Retired' = Retired \cup {o} /\ o \notin Retired
  BY <1>2, <1>3 DEF Retired
<1>6. /\ Represents(rep) /\ Weights(w) /\ Covers(rep, w) /\ Alone
      /\ NoCycle(Index, Child) /\ NoCycle(Index, Quotient(rep))
  BY <1>1 DEF Order
<1>7. /\ rep \in [Index -> Index] /\ w \in [Index -> Nat] /\ w[o] = 0
      /\ s \notin DOMAIN renamed /\ rep[s] = s /\ rep[o] = o
  BY <1>2, <1>3, <1>5, <1>6 DEF Represents, Weights
<1> DEFINE after == Redirect(rep, o, s)
           heavy == Heavier(w, o)
<1>8. /\ after \in [Index -> Index] /\ heavy \in [Index -> Nat] /\ heavy[o] = 1
      /\ \A n \in Index : after[n] = IF rep[n] = o THEN s ELSE rep[n]
  BY <1>7 DEF Redirect, Heavier
<1>9. /\ Child' = Child /\ Nodes' = Nodes /\ LiveGates' = LiveGates /\ Pairs' = Pairs
      /\ \A n : /\ IsGate(n)' <=> IsGate(n)
                /\ FaninNodes(n)' = FaninNodes(n)
  BY <1>3, <1>4 DEF Child, Nodes, IsGate, FaninNodes, LiveGates, Dead, Pairs, Members
<1>10. <<o, s>> \in Arcs(rep) /\ <<o, s>> \in Quotient(rep) /\ s # o
  <2>1. sub \in Pairs /\ rep[sub.new.node] = s
    BY <1>2, <1>4, <1>7 DEF Pairs
  <2>2. <<o, s>> \in Arcs(rep)
    BY <1>2, <2>1 DEF Arcs
  <2>3. <<o, s>> \in Quotient(rep)
    BY <1>5, <2>2 DEF Quotient
  <2>4. QED
    BY <1>6, <2>2, <2>3, ReachClosed DEF NoCycle
<1>11. NoCycle(Index, Quotient(after)')
  <2> DEFINE Now(z) == IF z = o THEN s ELSE z
  <2>1. ASSUME NEW x \in Index, NEW y \in Index, <<x, y>> \in Quotient(after)'
        PROVE  \E z \in Index : <<x, z>> \in Quotient(rep) /\ y = Now(z)
    <3>1. x \notin Retired
      BY <1>5, <2>1 DEF Quotient
    <3>2. CASE x \in Nodes /\ IsGate(x) /\ y \in Up(after, x)'
      <4>1. PICK c \in FaninNodes(x) : y = after[c]
        BY <1>9, <3>2 DEF Up
      <4>2. c \in Index
        BY <1>4, <4>1 DEF Parts
      <4>3. <<x, rep[c]>> \in Quotient(rep) /\ y = Now(rep[c]) /\ rep[c] \in Index
        BY <1>7, <1>8, <3>1, <3>2, <4>1, <4>2 DEF Quotient, Up
      <4>4. QED
        BY <4>3
    <3>3. CASE <<x, y>> \in Arcs(after)'
      <4>1. PICK p \in Pairs : x = p.old /\ y = after[p.new.node]
        BY <1>9, <3>3 DEF Arcs
      <4>2. p.new.node \in Index
        BY <1>4 DEF Parts
      <4>3. <<x, rep[p.new.node]>> \in Quotient(rep) /\ y = Now(rep[p.new.node])
            /\ rep[p.new.node] \in Index
        BY <1>7, <1>8, <3>1, <4>1, <4>2 DEF Quotient, Arcs
      <4>4. QED
        BY <4>3
    <3>4. QED
      BY <1>9, <2>1, <3>2, <3>3 DEF Quotient
  <2>2. ASSUME NEW x \in Index, NEW y \in Index, <<x, y>> \in Quotient(after)'
        PROVE  \E z \in Index : <<x, z>> \in Quotient(rep) /\ y \in Reach(Index, Quotient(rep), z)
    <3>1. PICK z \in Index : <<x, z>> \in Quotient(rep) /\ y = Now(z)
      BY <2>1, <2>2
    <3>2. y \in Reach(Index, Quotient(rep), z)
      <4>1. z \in Reach(Index, Quotient(rep), z)
        BY ReachClosed
      <4>2. z = o => s \in Reach(Index, Quotient(rep), z)
        BY <1>10, <4>1, ReachEdge
      <4>3. QED
        BY <3>1, <4>1, <4>2
    <3>3. QED
      BY <3>1, <3>2
  <2> HIDE DEF after
  <2>3. QED
    BY <1>6, <2>2, ImpliedEdges
<1>12. Represents(after)'
  <2>1. ASSUME NEW n \in Index
        PROVE  after[n] \notin Retired' /\ (n \notin Retired' => after[n] = n)
    BY <1>5, <1>6, <1>7, <1>8, <1>10 DEF Represents
  <2>2. ASSUME NEW n \in DOMAIN renamed PROVE after[n] = after[renamed[n].node]
    <3>1. n \in Index /\ renamed[n].node \in Index /\ rep[n] = rep[renamed[n].node]
      BY <1>4, <1>6 DEF Parts, Represents
    <3>2. QED
      BY <1>8, <3>1
  <2> HIDE DEF after
  <2>3. after[o] = s
    BY <1>7, <1>8
  <2>4. QED
    BY <1>3, <1>7, <1>8, <2>1, <2>2, <2>3 DEF Represents
<1>13. Weights(heavy)'
  <2>1. \A n \in Index \ Retired' : heavy[n] = 0
    BY <1>5, <1>6 DEF Weights, Heavier
  <2> HIDE DEF heavy
  <2>2. QED
    BY <1>3, <1>8, <2>1 DEF Weights
<1>14. Covers(after, heavy)'
  <2>1. \A n \in Index : /\ Up(after, n)' = {IF z = o THEN s ELSE z : z \in Up(rep, n)}
                         /\ Weight(heavy, n)' = Weight(heavy, n)
    <3>1. \A n \in Index : Up(after, n)' = {after[c] : c \in FaninNodes(n)}
                           /\ FaninNodes(n) \subseteq Index
      BY <1>4, <1>9 DEF Up, Parts
    <3>2. \A n \in Index : Weight(heavy, n)' = Weight(heavy, n)
      BY <1>3 DEF Weight
    <3> HIDE DEF after, heavy
    <3>3. ASSUME NEW n \in Index
          PROVE  {after[c] : c \in FaninNodes(n)}
                   = {IF z = o THEN s ELSE z : z \in {rep[c] : c \in FaninNodes(n)}}
      <4>1. \A c \in FaninNodes(n) : after[c] = IF rep[c] = o THEN s ELSE rep[c]
        BY ONLY <1>8, <3>1, <3>3
      <4>2. QED
        BY ONLY <4>1
    <3>4. QED
      BY ONLY <3>1, <3>2, <3>3 DEF Up
  <2> HIDE DEF after, heavy
  <2>2. ASSUME NEW u \in Nodes, IsGate(u), u \in Index, NEW v \in Index, v # o,
               Covered(rep, w, u, v)
        PROVE  Covered(after, heavy, u, v)'
    <3>1. CASE v \in Up(rep, u) \cup {0}
      <4>1. v \in Up(after, u)' \cup {0}
        BY <2>1, <2>2, <3>1
      <4>2. QED
        BY <4>1 DEF Covered
    <3>2. CASE Up(rep, v) \subseteq Up(rep, u) \cup {0} /\ Weight(w, v) + Margin(u) < Weight(w, u)
      <4>1. Margin(u) = 0 /\ Margin(u)' \in {0, 1} /\ (Margin(u)' = 1 => o \in FaninNodes(u))
        BY <1>3 DEF Margin, Fanouts
      <4>2. Weight(w, v) \in Nat /\ Weight(w, u) \in Nat
        BY <1>4, <1>7, <2>2 DEF Weight, Parts
      <4>3. Weight(w, v) < Weight(w, u)
        BY <3>2, <4>1, <4>2
      <4>4. PICK m \in {0, 1} : m = Margin(u)'
        BY <4>1
      <4>5. Weight(heavy, v) + m < Weight(heavy, u)
        BY <1>4, <1>7, <2>2, <4>1, <4>3, <4>4, HeavierWeights DEF heavy
      <4>6. Weight(heavy, v)' + Margin(u)' < Weight(heavy, u)'
        BY <2>1, <2>2, <4>4, <4>5
      <4>7. Up(after, v)' \subseteq Up(after, u)' \cup {0}
        BY <1>4, <2>1, <2>2, <3>2
      <4>8. QED
        BY <4>6, <4>7 DEF Covered
    <3>3. QED
      BY <2>2, <3>1, <3>2 DEF Covered
  <2>3. ASSUME NEW u \in Index, NEW v \in Index, <<u, v>> \in Arcs(after)', u \notin Retired'
        PROVE  Covered(after, heavy, u, v)'
    <3>1. PICK p \in Pairs : u = p.old /\ v = after[p.new.node]
      BY <1>9, <2>3 DEF Arcs
    <3>2. PICK z \in Index : z = rep[p.new.node] /\ v = IF z = o THEN s ELSE z
      <4>1. p.new.node \in Index
        BY <1>4 DEF Parts
      <4>2. rep[p.new.node] \in Index
        BY <1>7, <4>1
      <4>3. QED
        BY <1>8, <3>1, <4>1, <4>2
    <3>3. u \in Nodes /\ IsGate(u) /\ <<u, z>> \in Arcs(rep) /\ u \notin Retired /\ u # o
      BY <1>4, <1>5, <2>3, <3>1, <3>2 DEF Parts, Arcs
    <3>4. Retired # {}
      <4>1. p # sub /\ p \in Members(todo)
        BY <1>2, <3>1, <3>3 DEF Pairs
      <4>2. todo # <<>>
        BY <4>1 DEF Members
      <4>3. QED
        BY <1>4, <1>6, <4>2 DEF Alone
    <3>5. Covered(rep, w, u, z) /\ Covered(rep, w, o, s)
      BY <1>5, <1>6, <1>10, <3>3, <3>4 DEF Covers
    <3>6. CASE z # o
      BY <2>2, <3>2, <3>3, <3>5, <3>6
    <3>7. CASE z = o /\ o \in Up(rep, u)
      <4>1. s \in Up(after, u)'
        BY <2>1, <3>7
      <4>2. QED
        BY <3>2, <3>7, <4>1 DEF Covered
    <3>8. CASE z = o /\ o \notin Up(rep, u)
      <4>1. /\ Up(rep, o) \subseteq Up(rep, u) \cup {0}
            /\ Weight(w, o) + Margin(u) < Weight(w, u)
        BY <1>4, <3>5, <3>8 DEF Covered
      <4>2. Covered(rep, w, u, s)
        <5>1. CASE s \in Up(rep, o) \cup {0}
          BY <4>1, <5>1 DEF Covered
        <5>2. CASE /\ Up(rep, s) \subseteq Up(rep, o) \cup {0}
                   /\ Weight(w, s) + Margin(o) < Weight(w, o)
          <6>1. Margin(o) = 0 /\ Margin(u) = 0
            BY <1>3 DEF Margin
          <6>2. Weight(w, s) \in Nat /\ Weight(w, o) \in Nat /\ Weight(w, u) \in Nat
            BY <1>4, <1>7 DEF Weight, Parts
          <6>3. Weight(w, s) + Margin(u) < Weight(w, u)
            BY <4>1, <5>2, <6>1, <6>2
          <6>4. QED
            BY <4>1, <5>2, <6>3 DEF Covered
        <5>3. QED
          BY <3>5, <5>1, <5>2 DEF Covered
      <4>3. QED
        BY <1>10, <2>2, <3>2, <3>3, <3>8, <4>2
    <3>9. QED
      BY <3>6, <3>7, <3>8
  <2>4. QED
    BY <2>3 DEF Covers
<1>15. Order(after, heavy)'
  <2> HIDE DEF after, heavy
  <2>1. Alone' /\ NoDouble'
    BY <1>3, <1>5 DEF Alone, NoDouble
  <2>2. QED
    BY <1>6, <1>9, <1>11, <1>12, <1>13, <1>14, <2>1 DEF Order
<1>16. Waits'
  <2>1. Trail \subseteq Trail'
    BY <1>2, <1>3, <1>5, <1>9 DEF Trail
  <2> SUFFICES ASSUME NEW n \in LiveGates, NEW r \in Index, <<n, r>> \in Trail', o # n
               PROVE  Queued(n, r)' /\ Over(o, r)'
    BY <1>3, <1>4, <1>9 DEF Waits
  <2>2. <<n, r>> \in Trail
    <3>1. <<n, r>> \in Child /\ r \in Retired' /\ ~(r = o /\ n \in Fanouts(o))
      BY <1>3, <1>9 DEF Trail
    <3>2. r # o
      BY <3>1 DEF Child, Fanouts
    <3>3. QED
      BY <1>3, <1>5, <3>1, <3>2 DEF Trail
  <2>3. Queued(n, r) /\ Over(o, r)
    BY <1>1, <1>2, <1>3, <1>4, <2>2 DEF Waits, Reviving
  <2>4. Queued(n, r)'
    BY <1>3, <2>1, <2>3, OverGrows DEF Queued
  <2>5. QED
    BY <2>1, <2>3, <2>4, OverGrows
<1>17. QED
  <2> HIDE DEF after, heavy
  <2>1. QED
    BY <1>15, <1>16 DEF OInv

-----------------------------------------------------------------------------
(* The loop visits a fanout.                                               *)

\* g is visited: o is being replaced by s, and c is the other fanin of g.
VisitOf(rep, w, g, o, s, c) ==
  /\ o = sub.old /\ s = sub.new.node /\ o # s /\ c # o /\ calls = <<>>
  /\ Retired = DOMAIN renamed \cup {o} /\ o \notin DOMAIN renamed
  /\ s \notin Retired /\ ~Dead(s) /\ s \in Nodes /\ o \in Nodes /\ IsGate(o)
  /\ rep[o] = s /\ rep[s] = s /\ w[o] = 1 /\ w[s] = 0
  /\ g \in LiveGates /\ g \in Nodes /\ IsGate(g) /\ g \notin Retired /\ <<g, o>> \in Child
  /\ \A n \in DOMAIN renamed : Dead(n)
  /\ FaninNodes(g) = {c, o} /\ Up(rep, g) = {rep[c], s}
  /\ Weight(w, g) = w[c] + 1 /\ w[c] \in Nat
  /\ LET p == Rewired(g)
     IN  \/ p[1].node = c /\ p[2].node = s
         \/ p[1].node = s /\ p[2].node = c

\* The fanins of a fanout are _old and one that is kept.
LEMMA RewiredFanins ==
  ASSUME TypeOK, NEW n \in Index, NEW o, o = sub.old, o \in FaninNodes(n),
         child[n][1].node # child[n][2].node
  PROVE  \E c \in Index :
            /\ c # o
            /\ \/ child[n][1].node = c /\ child[n][2].node = o
               \/ child[n][1].node = o /\ child[n][2].node = c
            /\ LET p == Rewired(n)
                   s == sub.new.node
               IN  \/ p[1].node = c /\ p[2].node = s
                   \/ p[1].node = s /\ p[2].node = c
<1> DEFINE i == IF child[n][1].node = o THEN 1 ELSE 2
           a == child[n][3 - i]
           b == Xor(sub.new, child[n][i].neg)
<1>1. /\ i \in {1, 2} /\ child[n][i].node = o /\ a.node # o
      /\ i = 1 => child[n][1].node = o /\ child[n][2].node = a.node
      /\ i = 2 => child[n][2].node = o /\ child[n][1].node = a.node
  BY DEF FaninNodes
<1>2. child[n] \in Pair /\ sub.new \in Signal
  BY DEF TypeOK, Substitution
<1>3. b.node = sub.new.node
  <2>1. child[n][i].neg \in BOOLEAN
    BY <1>1, <1>2 DEF Pair, Signal
  <2>2. QED
    BY <1>2, <2>1, XorType DEF Signal
<1>4. Rewired(n) = Ordered(a, b)
  BY DEF Rewired
<1>5. a.node \in Index
  BY <1>1, <1>2 DEF Pair, Signal
<1> HIDE DEF a, b, i
<1>6. \/ Rewired(n)[1].node = a.node /\ Rewired(n)[2].node = sub.new.node
      \/ Rewired(n)[1].node = sub.new.node /\ Rewired(n)[2].node = a.node
  BY <1>3, <1>4 DEF Ordered
<1>7. QED
  BY <1>1, <1>5, <1>6

\* What holds of every visit.
LEMMA Visits ==
  ASSUME Sound, NEW rep, NEW w, Order(rep, w), pc = "scan", NEW g \in scan
  PROVE  \E o, s, c \in Index : VisitOf(rep, w, g, o, s, c)
<1>1. PICK o \in Index, s \in Index : o = sub.old /\ s = sub.new.node
  BY SoundParts DEF Parts
<1>2. Parts /\ TypeOK /\ Represents(rep) /\ Weights(w) /\ NoCycle(Index, Child)
  BY SoundParts DEF Order, Parts
<1>3. /\ calls = <<>> /\ g \in LiveGates /\ ~Dead(s) /\ o \in FaninNodes(g)
      /\ s \in Nodes /\ o \in Nodes /\ IsGate(o)
  <2>1. calls = <<>> /\ scan \subseteq LiveGates
    BY DEF Sound, AllInv, CInv, IInv, Scanning
  <2>2. ~Dead(s) /\ o \in FaninNodes(g)
    BY <1>1 DEF Sound, AllInv, CInv, Phases
  <2>3. QED
    BY <1>1, <1>2, <2>1, <2>2 DEF Parts, Busy
<1>4. o \notin DOMAIN renamed /\ Retired = DOMAIN renamed \cup {o}
  BY <1>1 DEF Order, NoDouble, Retired
<1>5. /\ rep \in [Index -> Index] /\ w \in [Index -> Nat]
      /\ rep[o] = s /\ w[o] = 1 /\ s \notin Retired
  BY <1>1, <1>2, <1>4 DEF Represents, Weights
<1>6. s # o /\ rep[s] = s /\ w[s] = 0
  BY <1>2, <1>4, <1>5 DEF Represents, Weights
<1>7. \A n \in DOMAIN renamed : Dead(n)
  BY <1>3 DEF Sound, AllInv, Buried
<1>8. /\ g \in Nodes /\ IsGate(g) /\ ~Dead(g) /\ g \in Index
      /\ <<g, o>> \in Child
  BY <1>2, <1>3 DEF LiveGates, Child, Parts
<1>9. g \notin Retired
  <2>1. g # o
    BY <1>2, <1>8, ReachClosed DEF NoCycle
  <2>2. QED
    BY <1>4, <1>7, <1>8, <2>1
<1>10. PICK c \in Index :
          /\ c # o
          /\ \/ child[g][1].node = c /\ child[g][2].node = o
             \/ child[g][1].node = o /\ child[g][2].node = c
          /\ LET p == Rewired(g)
                 t == sub.new.node
             IN  \/ p[1].node = c /\ p[2].node = t
                 \/ p[1].node = t /\ p[2].node = c
  <2>1. child[g][1].node # child[g][2].node
    BY <1>2, <1>8 DEF Parts
  <2>2. QED
    BY <1>1, <1>2, <1>3, <1>8, <2>1, RewiredFanins
<1>11. FaninNodes(g) = {c, o} /\ Up(rep, g) = {rep[c], s}
  BY <1>5, <1>10 DEF FaninNodes, Up
<1>12. Weight(w, g) = w[c] + 1 /\ w[c] \in Nat
  BY <1>5, <1>10 DEF Weight
<1>13. VisitOf(rep, w, g, o, s, c)
  BY ONLY <1>1, <1>3, <1>4, <1>5, <1>6, <1>7, <1>8, <1>9, <1>10, <1>11, <1>12 DEF VisitOf
<1>14. QED
  BY <1>13

\* What g turns out to be equal to is one of its fanins, a constant, or a gate
\* with the same fanins, one of which was replaced later.
LEMMA CollapseCovers ==
  ASSUME Sound, NEW rep, NEW w, Order(rep, w), NEW g \in scan, NEW o, NEW s, NEW c \in Index,
         VisitOf(rep, w, g, o, s, c), IsEqual(Rewired(g)),
         NEW h, h = Equal(Rewired(g)).node
  PROVE  /\ h \in Index
         /\ \/ rep[h] \in Up(rep, g) \cup {0}
            \/ /\ rep[h] = h /\ h \notin Retired /\ Up(rep, h) = Up(rep, g)
               /\ Weight(w, h) + 1 = Weight(w, g)
<1> DEFINE p == Rewired(g)
<1>1. /\ Parts /\ Represents(rep) /\ Weights(w) /\ TypeOK /\ HashSound
      /\ rep \in [Index -> Index]
  BY SoundParts DEF Order, Parts, Sound, AllInv, CInv, IInv, Represents
<1>2. \/ p[1].node = c /\ p[2].node = s
      \/ p[1].node = s /\ p[2].node = c
  BY DEF VisitOf
<1>3. s \in Index /\ 0 \in Index /\ s = rep[s]
  BY <1>1 DEF VisitOf, Parts
<1>4. CASE IsTrivial(p)
  <2>1. h \in {c, s, 0}
    BY <1>2, <1>4 DEF Equal, TrivialAnd, Const0
  <2>2. rep[0] = 0
    <3>1. 0 \notin Retired
      BY <1>1 DEF Parts, IsGate
    <3>2. QED
      BY <1>1, <1>3, <3>1 DEF Represents
  <2>3. Up(rep, g) = {rep[c], rep[s]}
    BY <1>3 DEF VisitOf
  <2>4. QED
    BY <1>3, <2>1, <2>2, <2>3
<1>5. CASE ~IsTrivial(p)
  <2>1. p \in DOMAIN hash /\ h = hash[p] /\ h # o
    BY <1>5 DEF IsEqual, Equal, VisitOf
  <2>2. h \in LiveGates /\ child[h] = p
    BY <1>1, <2>1 DEF HashSound
  <2>3. h \in Index /\ h \notin Retired /\ rep[h] = h
    <3>1. h \in Nodes /\ ~Dead(h)
      BY <2>2 DEF LiveGates
    <3>2. h \notin Retired
      BY <2>1, <3>1 DEF VisitOf
    <3>3. QED
      BY <1>1, <3>1, <3>2 DEF Represents, Parts
  <2>4. FaninNodes(h) = {c, s}
    BY <1>2, <2>2 DEF FaninNodes
  <2>5. Up(rep, h) = {rep[c], rep[s]}
    BY <2>4 DEF Up
  <2>6. Weight(w, h) = w[c] + w[s] /\ w[s] = 0 /\ w[c] \in Nat /\ Weight(w, g) = w[c] + 1
    BY <1>2, <2>2 DEF Weight, VisitOf
  <2>7. QED
    BY <1>3, <2>3, <2>5, <2>6 DEF VisitOf
<1>6. QED
  BY <1>4, <1>5

\* The pair that is pushed closes no cycle: what the new node leads to was
\* reached from the fanins of g, or is lighter than g.
LEMMA CollapseAcyclic ==
  ASSUME Sound, NEW rep, NEW w, Order(rep, w), NEW g \in scan, pc = "scan",
         NEW o, NEW s, NEW c \in Index,
         VisitOf(rep, w, g, o, s, c), NEW h \in Index,
         \/ h \in Up(rep, g) \cup {0}
         \/ /\ h \notin Retired /\ Up(rep, h) = Up(rep, g)
            /\ Weight(w, h) + 1 = Weight(w, g),
         <<g, h>> \notin Quotient(rep)
  PROVE  g \notin Reach(Index, Quotient(rep), h)
<1> DEFINE Q == Quotient(rep)
           S == {0} \cup UNION {Reach(Index, Q, x) : x \in Up(rep, g)}
           W == {x \in Index : /\ x \notin Retired /\ Up(rep, x) \subseteq S
                               /\ Weight(w, x) <= Weight(w, h)}
<1>1. /\ Parts /\ Represents(rep) /\ NoCycle(Index, Q) /\ Covers(rep, w)
      /\ rep \in [Index -> Index] /\ w \in [Index -> Nat]
  BY SoundParts DEF Order, Represents, Weights
<1>2. /\ 0 \in Index /\ g \in Index /\ g \in Nodes /\ IsGate(g) /\ g # 0 /\ g \notin Retired
      /\ Up(rep, g) \subseteq Index /\ Retired # {}
      /\ \A x \in Index : Weight(w, x) \in Nat
  <2>1. /\ 0 \in Index /\ g \in Index /\ g \in Nodes /\ IsGate(g) /\ g \notin Retired
        /\ Retired # {} /\ FaninNodes(g) \subseteq Index
    BY <1>1 DEF VisitOf, Parts
  <2>2. \A x \in Index : Weight(w, x) \in Nat
    BY <1>1 DEF Parts, Weight
  <2>3. Up(rep, g) \subseteq Index
    BY <1>1, <2>1 DEF Up
  <2>4. QED
    BY <2>1, <2>2, <2>3 DEF IsGate
<1>3. \A x \in Index : <<0, x>> \notin Q
  BY <1>1 DEF Quotient, Arcs, Parts, IsGate
<1>4. \A x \in Up(rep, g) : <<g, x>> \in Q
  BY <1>2 DEF Quotient
<1> HIDE DEF Q
<1>5. S \subseteq Index /\ Closed(Index, Q, S) /\ Up(rep, g) \subseteq S
  BY <1>2, <1>3, ReachClosed DEF Closed
<1>6. g \notin S
  BY <1>1, <1>2, <1>4 DEF NoCycle
<1>7. h \notin Up(rep, g)
  BY <1>4 DEF Q
<1>8. CASE h = 0
  <2>1. Closed(Index, Q, {0})
    BY <1>3 DEF Closed
  <2>2. QED
    BY <1>2, <1>8, <2>1, ReachLeast DEF Q
<1>9. CASE /\ h \notin Retired /\ Up(rep, h) = Up(rep, g)
           /\ Weight(w, h) + 1 = Weight(w, g)
  <2> HIDE DEF S
  <2>1. ASSUME NEW x \in Index, NEW y \in Index, x \in W, <<x, y>> \in Q
        PROVE  y \in S \cup W
    <3>1. CASE y \in Up(rep, x)
      BY <2>1, <3>1
    <3>2. CASE <<x, y>> \in Arcs(rep) /\ y \notin Up(rep, x)
      <4>1. Covered(rep, w, x, y)
        BY <1>1, <1>2, <2>1, <3>2 DEF Covers
      <4>2. CASE y = 0
        BY <4>2 DEF S
      <4>3. CASE /\ Up(rep, y) \subseteq Up(rep, x) \cup {0}
                 /\ Weight(w, y) + Margin(x) < Weight(w, x)
        <5>1. 0 \in S
          BY DEF S
        <5>2. Margin(x) \in {0, 1} /\ Weight(w, x) <= Weight(w, h)
              /\ Weight(w, x) \in Nat /\ Weight(w, y) \in Nat /\ Weight(w, h) \in Nat
          BY <1>2, <2>1 DEF Margin
        <5>3. Weight(w, y) <= Weight(w, h)
          BY <4>3, <5>2
        <5>4. y \notin Retired
          <6>1. PICK q \in Pairs : y = rep[q.new.node]
            BY <3>2 DEF Arcs
          <6>2. q.new.node \in Index
            BY <1>1 DEF Parts
          <6>3. QED
            BY <1>1, <6>1, <6>2 DEF Represents
        <5>5. QED
          BY <2>1, <4>3, <5>1, <5>3, <5>4
      <4>4. QED
        BY <3>2, <4>1, <4>2, <4>3 DEF Covered
    <3>3. QED
      BY <2>1, <3>1, <3>2 DEF Q, Quotient
  <2>2. Closed(Index, Q, S \cup W)
    BY <1>5, <2>1 DEF Closed
  <2>3. h \in W
    <3>1. Weight(w, h) <= Weight(w, h)
      BY <1>2
    <3>2. QED
      BY <1>5, <1>9, <3>1
  <2>4. g \notin W
    BY <1>2, <1>9
  <2> HIDE DEF W
  <2>5. S \cup W \in SUBSET Index
    BY <1>5 DEF W
  <2>6. QED
    BY <1>6, <2>2, <2>3, <2>4, <2>5, ReachLeast DEF Q
<1>10. QED
  BY <1>7, <1>8, <1>9

\* A gate that is equal to another node gets a pair of its own.
LEMMA CollapseOrder ==
  ASSUME Sound, OInv, pc = "scan", NEW g \in scan, CollapseNode(g), scan' = scan \ {g},
         UNCHANGED <<pc, restrash, sub, renamed, calls>>
  PROVE  OInv'
<1>1. PICK rep, w : Order(rep, w) /\ Waits
  BY DEF OInv
<1>2. PICK o \in Index, s \in Index, c \in Index : VisitOf(rep, w, g, o, s, c)
  BY <1>1, Visits
<1>3. PICK h : h = Equal(Rewired(g)).node
  OBVIOUS
<1> DEFINE p == [old |-> g, new |-> Equal(Rewired(g))]
<1>4. /\ IsEqual(Rewired(g)) /\ todo' = <<p>> \o todo /\ todo \in Seq(Substitution)
      /\ p.old = g /\ p.new.node = h
      /\ UNCHANGED <<size, isCi, child, h1>>
  BY <1>3 DEF CollapseNode, netVars, Sound, AllInv, CInv, IInv, TypeOK
<1> HIDE DEF p
<1>5. /\ h \in Index
      /\ \/ rep[h] \in Up(rep, g) \cup {0}
         \/ /\ rep[h] = h /\ h \notin Retired /\ Up(rep, h) = Up(rep, g)
            /\ Weight(w, h) + 1 = Weight(w, g)
  BY <1>1, <1>2, <1>3, <1>4, CollapseCovers
<1>6. /\ NoCycle(Index, Child) /\ NoCycle(Index, Quotient(rep)) /\ Represents(rep)
      /\ Weights(w) /\ Covers(rep, w) /\ Parts
      /\ rep \in [Index -> Index] /\ w \in [Index -> Nat] /\ g \in Index /\ rep[h] \in Index
  BY <1>1, <1>2, <1>5, SoundParts DEF Order, Represents, Weights, VisitOf, Parts
<1>7. /\ Retired' = Retired /\ o \in Retired /\ Busy /\ Busy'
      /\ Pairs' = Pairs \cup {p}
      /\ DOMAIN todo' = 1 .. Len(todo) + 1 /\ todo'[1] = p /\ Len(todo) \in Nat
      /\ DOMAIN todo = 1 .. Len(todo)
      /\ \A i \in DOMAIN todo : i + 1 \in DOMAIN todo' /\ todo'[i + 1] = todo[i]
      /\ \A i \in DOMAIN todo' : i = 1 \/ i - 1 \in DOMAIN todo
  <2>1. Retired' = Retired /\ o \in Retired /\ Busy /\ Busy'
    BY <1>2 DEF Retired, Busy, VisitOf
  <2>2. /\ Members(todo') = {p} \cup Members(todo)
        /\ DOMAIN todo' = 1 .. Len(todo) + 1 /\ todo'[1] = p
        /\ \A i \in DOMAIN todo : i + 1 \in DOMAIN todo' /\ todo'[i + 1] = todo[i]
        /\ \A i \in DOMAIN todo' : i = 1 \/ i - 1 \in DOMAIN todo
    BY <1>4, PairsPushed
  <2>3. Pairs' = Members(todo') \cup {sub} /\ Pairs = Members(todo) \cup {sub}
    BY <2>1 DEF Pairs, Members
  <2>4. Len(todo) \in Nat /\ DOMAIN todo = 1 .. Len(todo)
    BY <1>4
  <2>5. QED
    BY <2>1, <2>2, <2>3, <2>4
<1>8. /\ Child' = Child /\ Nodes' = Nodes /\ LiveGates' = LiveGates
      /\ \A n : /\ IsGate(n)' <=> IsGate(n)
                /\ FaninNodes(n)' = FaninNodes(n)
      /\ \A n : Up(rep, n)' = Up(rep, n) /\ Weight(w, n)' = Weight(w, n)
      /\ Arcs(rep)' = Arcs(rep) \cup {<<g, rep[h]>>}
  BY <1>4, <1>7 DEF Child, Nodes, IsGate, FaninNodes, LiveGates, Dead, Up, Weight, Arcs
<1>9. \A x, y \in Index : <<x, y>> \in Quotient(rep)' =>
                             <<x, y>> \in Quotient(rep) \/ (x = g /\ y = rep[h])
  BY <1>7, <1>8 DEF Quotient
<1>10. NoCycle(Index, Quotient(rep)')
  <2>1. CASE <<g, rep[h]>> \in Quotient(rep)
    BY <1>6, <1>9, <2>1, FewerEdges
  <2>2. CASE <<g, rep[h]>> \notin Quotient(rep)
    <3>1. \/ rep[h] \in Up(rep, g) \cup {0}
          \/ /\ rep[h] \notin Retired /\ Up(rep, rep[h]) = Up(rep, g)
             /\ Weight(w, rep[h]) + 1 = Weight(w, g)
      BY <1>5
    <3>2. g \notin Reach(Index, Quotient(rep), rep[h])
      BY <1>1, <1>2, <1>6, <2>2, <3>1, CollapseAcyclic
    <3>3. QED
      BY <1>6, <1>9, <3>2, NewEdge
  <2>3. QED
    BY <2>1, <2>2
<1>11. Covers(rep, w)'
  <2> SUFFICES ASSUME NEW u \in Index, NEW v \in Index, <<u, v>> \in Arcs(rep)', u \notin Retired
               PROVE  Covered(rep, w, u, v)'
    BY <1>7 DEF Covers
  <2>1. \A x \in Index : Weight(w, x) \in Nat
    BY <1>6 DEF Weight, Parts
  <2>2. CASE <<u, v>> \in Arcs(rep)
    <3>1. Covered(rep, w, u, v)
      BY <1>6, <1>7, <2>2 DEF Covers
    <3>2. Margin(u)' \in {0, 1} /\ Margin(u) \in {0, 1} /\ Margin(u)' <= Margin(u)
      BY DEF Margin
    <3>3. Weight(w, v) + Margin(u) < Weight(w, u) => Weight(w, v) + Margin(u)' < Weight(w, u)
      BY <2>1, <3>2
    <3>4. QED
      BY <1>8, <3>1, <3>3 DEF Covered
  <2>3. CASE u = g /\ v = rep[h]
    <3>1. Margin(g)' = 0
      BY DEF Margin
    <3>2. Weight(w, h) + 1 = Weight(w, g) => Weight(w, h) + 0 < Weight(w, g)
      BY <1>5, <1>6, <2>1
    <3>3. QED
      BY <1>5, <1>8, <2>3, <3>1, <3>2 DEF Covered
  <2>4. QED
    BY <1>8, <2>2, <2>3
<1>12. Order(rep, w)'
  <2>1. Represents(rep)' /\ Weights(w)'
    BY <1>6, <1>7 DEF Represents, Weights
  <2>2. Alone' /\ NoDouble'
    BY <1>2, <1>7 DEF Alone, NoDouble, VisitOf
  <2>3. QED
    BY <1>6, <1>8, <1>10, <1>11, <2>1, <2>2 DEF Order
<1>13. Trail' = Trail \cup {<<g, o>>}
  <2>1. o = sub.old /\ <<g, o>> \in Child /\ o \in Retired
    BY <1>2, <1>7 DEF VisitOf
  <2>2. \A e \in Child : (e[2] = o /\ e[1] \in scan /\ ~(e[1] \in scan')) => e = <<g, o>>
    BY DEF Child
  <2>3. QED
    BY <1>7, <1>8, <2>1, <2>2 DEF Trail
<1>14. Over(g, o)'
  BY <1>13, ReachClosed DEF Over
<1>15. ASSUME NEW r, Over(o, r) PROVE Over(g, r)'
  <2>1. Over(o, r)'
    BY <1>13, <1>15, OverGrows
  <2>2. PICK d \in Index : <<o, d>> \in Trail' /\ r \in Reach(Index, Trail', d)
    BY <2>1 DEF Over
  <2>3. d \in Reach(Index, Trail', o)
    BY <2>2, ReachClosed, ReachEdge
  <2>4. r \in Reach(Index, Trail', o)
    BY <2>2, <2>3, ReachTrans
  <2>5. QED
    BY <1>13, <2>4 DEF Over
<1>16. Waits'
  <2> SUFFICES ASSUME NEW n \in LiveGates, NEW r \in Index, <<n, r>> \in Trail', o # n
               PROVE  Queued(n, r)' /\ (r = o \/ Over(o, r)')
    BY <1>2, <1>7, <1>8 DEF Waits, VisitOf
  <2>1. CASE n = g /\ r = o
    <3>1. 1 \in DOMAIN todo' /\ todo'[1].old = g /\ \A j \in 1 .. 1 : j = 1
      BY <1>4, <1>7
    <3>2. QED
      BY <1>14, <2>1, <3>1 DEF Queued
  <2>2. CASE ~(n = g /\ r = o)
    <3>1. Queued(n, r) /\ (r = o \/ Over(o, r))
      BY <1>1, <1>2, <1>7, <1>13, <2>2 DEF Waits, Reviving, VisitOf
    <3>2. PICK i \in DOMAIN todo : todo[i].old = n /\ \A j \in 1 .. i : Over(todo[j].old, r)
      BY <3>1 DEF Queued
    <3>3. i + 1 \in DOMAIN todo' /\ todo'[i + 1].old = n
      BY <1>7, <3>2
    <3>4. ASSUME NEW j \in 1 .. i + 1
          PROVE  \E u : u = todo'[j].old /\ Over(u, r)'
      <4>1. CASE j = 1
        BY <1>4, <1>7, <1>14, <1>15, <3>1, <4>1
      <4>2. CASE j # 1
        <5>1. j - 1 \in 1 .. i /\ j - 1 \in DOMAIN todo /\ (j - 1) + 1 = j
          BY <1>7, <3>2, <4>2
        <5>2. todo'[j] = todo[j - 1] /\ Over(todo[j - 1].old, r)
          BY <1>7, <3>2, <5>1
        <5>3. QED
          BY <1>13, <5>2, OverGrows
      <4>3. QED
        BY <4>1, <4>2
    <3>5. QED
      BY <1>13, <3>1, <3>3, <3>4, OverGrows DEF Queued
  <2>3. QED
    BY <2>1, <2>2
<1>17. QED
  BY <1>12, <1>16 DEF OInv

\* No path of references leads from the new fanin of g to g: through live gates
\* it would be a cycle of what nodes have become, and a live gate that refers
\* to a replaced node waits, so that _old depends on that node.
LEMMA RestrashAcyclic ==
  ASSUME Sound, NEW rep, NEW w, Order(rep, w), Waits, NEW g \in scan, pc = "scan",
         NEW o \in Index, NEW s \in Index, NEW c \in Index, VisitOf(rep, w, g, o, s, c)
  PROVE  g \notin Reach(Index, Child, s)
<1> DEFINE Q == Quotient(rep)
           L == {n \in Nodes : ~Dead(n) /\ n # o /\ n \in Reach(Index, Q, s)}
           S == Reach(Index, Child, o)
<1>1. /\ Parts /\ Represents(rep) /\ NoCycle(Index, Q) /\ NoCycle(Index, Child)
      /\ rep \in [Index -> Index] /\ g \in Index /\ CInv /\ Forgotten
  BY SoundParts DEF Order, Represents, VisitOf, Parts, Sound, AllInv, EInv
<1>2. ASSUME NEW x \in Index, NEW y \in Index, x \in L, <<x, y>> \in Child
      PROVE  y \in L \cup S
  <2>1. x \in LiveGates /\ x \notin Retired /\ y \in FaninNodes(x) /\ y \in Nodes
    BY <1>1, <1>2 DEF Child, LiveGates, VisitOf, Parts
  <2>2. CASE y = o
    BY <2>2, ReachClosed
  <2>3. CASE y # o /\ ~Dead(y)
    <3>1. y \notin Retired /\ rep[y] = y
      BY <1>1, <2>3 DEF VisitOf, Represents
    <3>2. <<x, y>> \in Q
      BY <2>1, <3>1, <1>2 DEF Quotient, Up, LiveGates
    <3>3. y \in Reach(Index, Q, s)
      BY <1>2, <3>2, ReachEdge
    <3>4. QED
      BY <2>1, <2>3, <3>3
  <2>4. CASE y # o /\ Dead(y)
    <3>1. y \in DOMAIN renamed
      <4> SUFFICES ASSUME y \notin DOMAIN renamed PROVE FALSE
        OBVIOUS
      <4>1. References(y) = FaninsAhead("revive", y)
        BY <1>1, <2>1, <2>4 DEF Forgotten
      <4>2. FaninsAhead("revive", y) = 0
        BY AheadNone DEF FaninsAhead, AheadOf, VisitOf
      <4>3. QED
        BY <1>1, <2>1, <4>1, <4>2, Unreferenced DEF CInv, IInv
    <3>2. <<x, y>> \in Trail
      BY <1>2, <2>4, <3>1 DEF Trail, Retired, VisitOf
    <3>3. Over(o, y)
      BY <1>2, <2>1, <2>4, <3>2 DEF Waits, Reviving, VisitOf, Busy
    <3>4. PICK d \in Index : <<o, d>> \in Trail /\ y \in Reach(Index, Trail, d)
      BY <3>3 DEF Over
    <3>5. Trail \subseteq Child
      BY DEF Trail
    <3>6. y \in Reach(Index, Child, d) /\ d \in S
      BY <3>4, <3>5, ReachGrows, ReachClosed, ReachEdge
    <3>7. QED
      BY <3>6, ReachTrans
  <2>5. QED
    BY <2>2, <2>3, <2>4
<1>3. /\ L \cup S \in SUBSET Index /\ Closed(Index, Child, L \cup S)
  <2>1. S \in SUBSET Index /\ Closed(Index, Child, S) /\ L \subseteq Index
    BY <1>1, ReachClosed DEF Parts
  <2> HIDE DEF L, S
  <2>2. QED
    BY <1>2, <2>1 DEF Closed
<1>4. s \in L
  BY ReachClosed DEF VisitOf
<1>5. g \notin L
  <2>1. <<g, s>> \in Q
    BY <1>1 DEF VisitOf, Quotient
  <2>2. QED
    BY <1>1, <2>1 DEF NoCycle
<1>6. g \notin S
  BY <1>1 DEF NoCycle, VisitOf
<1> HIDE DEF L, S
<1>7. QED
  BY <1>3, <1>4, <1>5, <1>6, ReachLeast

\* A gate gets its new fanins.
LEMMA RestrashOrder ==
  ASSUME Sound, OInv, pc = "scan", NEW g \in scan, RestrashNode(g), scan' = scan \ {g},
         UNCHANGED <<pc, restrash, sub, renamed, calls>>, LiveGates' = LiveGates
  PROVE  OInv'
<1>1. PICK rep, w : Order(rep, w) /\ Waits
  BY DEF OInv
<1>2. PICK o \in Index, s \in Index, c \in Index : VisitOf(rep, w, g, o, s, c)
  BY <1>1, Visits
<1>3. /\ NoCycle(Index, Child) /\ NoCycle(Index, Quotient(rep)) /\ Represents(rep)
      /\ Weights(w) /\ Covers(rep, w) /\ Parts /\ TypeOK
      /\ rep \in [Index -> Index] /\ w \in [Index -> Nat] /\ g \in Index
  BY <1>1, <1>2, SoundParts DEF Order, Represents, Weights, VisitOf, Parts
<1>4. /\ child' = [child EXCEPT ![g] = Rewired(g)]
      /\ UNCHANGED <<size, isCi, todo>>
  BY DEF RestrashNode
<1>5. /\ child'[g] = Rewired(g) /\ \A n \in Index \ {g} : child'[n] = child[n]
  BY <1>3, <1>4 DEF TypeOK
<1>6. /\ FaninNodes(g)' = {c, s} /\ Up(rep, g)' = Up(rep, g)
      /\ Weight(w, g)' + 1 = Weight(w, g)
  <2> DEFINE p == Rewired(g)
  <2>1. \/ p[1].node = c /\ p[2].node = s
        \/ p[1].node = s /\ p[2].node = c
    BY <1>2 DEF VisitOf
  <2>2. /\ Up(rep, g) = {rep[c], rep[s]} /\ w[s] = 0
        /\ Weight(w, g) = w[c] + 1 /\ w[c] \in Nat
    BY <1>2 DEF VisitOf
  <2>3. FaninNodes(g)' = {p[1].node, p[2].node} /\ Weight(w, g)' = w[p[1].node] + w[p[2].node]
    BY <1>5 DEF FaninNodes, Weight
  <2> HIDE DEF p
  <2>4. FaninNodes(g)' = {c, s} /\ Weight(w, g)' = w[c]
    BY ONLY <2>1, <2>2, <2>3
  <2>5. Up(rep, g)' = {rep[c], rep[s]}
    BY <2>4 DEF Up
  <2>6. QED
    BY ONLY <2>2, <2>4, <2>5
<1>7. \A n \in Index \ {g} : /\ FaninNodes(n)' = FaninNodes(n) /\ Up(rep, n)' = Up(rep, n)
                             /\ Weight(w, n)' = Weight(w, n)
  BY <1>5 DEF FaninNodes, Up, Weight
<1>8. /\ Nodes' = Nodes /\ (\A n : IsGate(n)' <=> IsGate(n))
      /\ Retired' = Retired /\ o \in Retired /\ Busy /\ Busy' /\ Arcs(rep)' = Arcs(rep)
  BY <1>2, <1>4 DEF Nodes, IsGate, Retired, Busy, Arcs, Pairs, Members, VisitOf
<1>9. Quotient(rep)' = Quotient(rep)
  <2>1. \A n \in Index : Up(rep, n)' = Up(rep, n)
    BY <1>6, <1>7
  <2>2. QED
    BY <1>8, <2>1 DEF Quotient
<1>10. \A x, y \in Index : <<x, y>> \in Child' <=>
          \/ x # g /\ <<x, y>> \in Child
          \/ x = g /\ y \in {c, s}
  BY <1>2, <1>6, <1>7, <1>8 DEF Child, VisitOf
<1>11. \A x, y \in Index : <<x, y>> \in Child =>
          x # g \/ y \in {c, o}
  BY <1>2 DEF Child, VisitOf
<1>12. <<g, c>> \in Child
  BY <1>2 DEF Child, VisitOf
<1>13. NoCycle(Index, Child')
  <2>1. g \notin Reach(Index, Child, s)
    BY <1>1, <1>2, RestrashAcyclic
  <2>2. \A x, y \in Index : <<x, y>> \in Child' => <<x, y>> \in Child \/ (x = g /\ y = s)
    BY ONLY <1>10, <1>12
  <2>3. NoCycle(Index, Child) /\ g \in Index /\ s \in Index
    BY <1>3
  <2>4. QED
    BY ONLY <2>1, <2>2, <2>3, NewEdge
<1>14. Covers(rep, w)'
  <2> SUFFICES ASSUME NEW u \in Index, NEW v \in Index, <<u, v>> \in Arcs(rep), u \notin Retired
               PROVE  Covered(rep, w, u, v)'
    BY <1>8 DEF Covers
  <2>1. Covered(rep, w, u, v)
    BY <1>3, <1>8 DEF Covers
  <2>2. \A n \in Index : Up(rep, n)' = Up(rep, n)
    BY <1>6, <1>7
  <2>3. \A x \in Index : Weight(w, x) \in Nat
    BY <1>3 DEF Weight, Parts
  <2>4. \A n \in Index : Weight(w, n)' \in Nat /\ Weight(w, n)' <= Weight(w, n)
    <3>1. Weight(w, g)' = w[c] /\ w[c] \in Nat /\ Weight(w, g) = w[c] + 1
      BY <1>2, <1>5 DEF VisitOf, Weight
    <3>2. QED
      BY <1>7, <2>3, <3>1
  <2>5. /\ Margin(g) = 1 /\ Margin(g)' = 0
        /\ u # g => Margin(u)' = Margin(u)
        /\ Margin(u) \in {0, 1}
    BY DEF Margin
  <2>6. Weight(w, v) + Margin(u) < Weight(w, u) => Weight(w, v)' + Margin(u)' < Weight(w, u)'
    BY <1>6, <1>7, <2>3, <2>4, <2>5
  <2>7. QED
    BY <2>1, <2>2, <2>6 DEF Covered
<1>15. Order(rep, w)'
  <2>1. Represents(rep)' /\ Weights(w)'
    BY <1>3, <1>4, <1>8 DEF Represents, Weights
  <2>2. Alone' /\ NoDouble'
    BY <1>2, <1>8 DEF Alone, NoDouble, VisitOf
  <2>3. QED
    BY <1>3, <1>9, <1>13, <1>14, <2>1, <2>2 DEF Order
<1>16. Trail' = Trail
  <2>1. \A x, y \in Index : <<x, y>> \in Trail' <=> <<x, y>> \in Trail
    <3> SUFFICES ASSUME NEW x \in Index, NEW y \in Index
                 PROVE  <<x, y>> \in Trail' <=> <<x, y>> \in Trail
      OBVIOUS
    <3>1. /\ <<x, y>> \in Trail <=>
               <<x, y>> \in Child /\ y \in Retired /\ ~(y = o /\ x \in scan)
          /\ <<x, y>> \in Trail' <=>
               <<x, y>> \in Child' /\ y \in Retired /\ ~(y = o /\ x \in scan \ {g})
      BY <1>2, <1>8 DEF Trail, VisitOf
    <3>2. CASE x # g
      BY <1>10, <3>1, <3>2
    <3>3. CASE x = g
      BY <1>2, <1>10, <1>11, <1>12, <3>1, <3>3 DEF VisitOf
    <3>4. QED
      BY <3>2, <3>3
  <2>2. Trail \subseteq Index \X Index /\ Trail' \subseteq Index \X Index
    <3>1. Child \subseteq Index \X Index /\ Child' \subseteq Index \X Index
      BY <1>3, <1>8 DEF Child, Parts
    <3>2. QED
      BY <3>1 DEF Trail
  <2>3. QED
    BY <2>1, <2>2
<1>17. Waits'
  <2>1. \A n, r : Over(n, r)' <=> Over(n, r)
    BY <1>16 DEF Over
  <2>2. \A n, r : Queued(n, r)' <=> Queued(n, r)
    BY <1>4, <2>1 DEF Queued
  <2>3. \A n, r : ~Reviving(n, r)
    BY <1>2 DEF Reviving, VisitOf
  <2>4. QED
    BY <1>1, <1>2, <1>8, <1>16, <2>1, <2>2, <2>3 DEF Waits, VisitOf
<1>18. QED
  BY <1>15, <1>17 DEF OInv

-----------------------------------------------------------------------------
(* The inductive invariant holds.                                          *)

\* The initial network has no gate.
LEMMA InitOInv == Init => OInv
<1> SUFFICES ASSUME Init PROVE OInv
  OBVIOUS
<1>1. Parts
  BY InitAllInv, InitHashed, SoundParts DEF Sound
<1>2. Child = {} /\ pc = "idle" /\ DOMAIN renamed = {} /\ todo = <<>>
  BY DEF Init, Child, Nodes, IsGate
<1>3. NothingReplaced
  BY <1>1, <1>2 DEF NothingReplaced, NoCycle
<1>4. QED
  BY <1>3, NothingReplacedYet DEF StartsOrdered

\* Every step keeps it.
LEMMA OInvStep ==
  ASSUME Sound, Sound', NoOverflow, StaysDead, OInv, [Next]_vars
  PROVE  OInv'
<1>1. [AnyNext]_vars /\ CInv
  BY DEF AnyNext, Sound, AllInv
<1>2. CASE \/ Build \/ Return
           \/ \E n \in Nodes : TakeOut(n)
           \/ \E o \in Nodes, s \in Signals : SubstituteNode(o, s)
  BY <1>2, StartsStep
<1>3. PICK rep, w : Order(rep, w) /\ Waits
  BY DEF OInv
<1>4. CASE Unwind
  <2>1. UNCHANGED <<size, isCi, child, pc, todo, sub, renamed, scan>>
    BY <1>4, UnwindFrame DEF ctlVars
  <2>2. Order(rep, w)'
    BY <1>3, <2>1, SameOrder
  <2>3. Waits'
    BY <1>3, <1>4, WaitsUnwind
  <2>4. QED
    BY <2>2, <2>3 DEF OInv
<1>5. CASE Pop \/ Follow \/ Resolved \/ Begin \/ FinishPair
  BY <1>5, PopOrder, ResolveOrder, BeginOrder, BeginAgainOrder, FinishOrder
<1>6. CASE Visit
  <2>1. PICK g \in scan : ReplaceInNode(g) /\ scan' = scan \ {g}
    BY <1>6 DEF Visit
  <2>2. pc = "scan" /\ UNCHANGED <<pc, restrash, sub, renamed, calls>> /\ restrash
    BY <1>6 DEF Visit, Sound, Hashed
  <2>3. CASE CollapseNode(g)
    BY <2>1, <2>2, <2>3, CollapseOrder
  <2>4. CASE RestrashNode(g)
    <3>1. ~TakeOutEnter /\ ~ReviveEnter /\ UNCHANGED <<size, isCi>>
      BY <2>2, <2>4
      DEF TakeOutEnter, ReviveEnter, InCall, RestrashNode, CInv, IInv, Scanning, Sound, AllInv
    <3>2. LiveGates' = LiveGates
      BY <1>1, <3>1, SameLive
    <3>3. QED
      BY <2>1, <2>2, <2>4, <3>2, RestrashOrder
  <2>5. QED
    BY <2>1, <2>2, <2>3, <2>4 DEF ReplaceInNode, RewireNode
<1>7. CASE UNCHANGED vars
  <2>1. UNCHANGED <<size, isCi, child, h1, pc, todo, sub, renamed, scan, calls>>
    BY <1>7 DEF vars, netVars, ctlVars
  <2>2. Order(rep, w)'
    BY <1>3, <2>1, SameOrder
  <2>3. Waits'
    <3>1. LiveGates' = LiveGates /\ \A n, r : Reviving(n, r)' <=> Reviving(n, r)
      BY <2>1 DEF LiveGates, Nodes, IsGate, Dead, Reviving
    <3>2. /\ Trail' = Trail /\ (Busy' <=> Busy)
          /\ \A n, r : (Queued(n, r)' <=> Queued(n, r)) /\ (Over(n, r)' <=> Over(n, r))
      BY <2>1, SameOrder
    <3>3. QED
      BY <1>3, <2>1, <3>1, <3>2 DEF Waits
  <2>4. QED
    BY <2>2, <2>3 DEF OInv
<1>8. QED
  BY <1>2, <1>4, <1>5, <1>6, <1>7 DEF Next, Substitute

\* What it says of the network.
LEMMA OInvAcyclic ==
  ASSUME Sound, OInv
  PROVE  Acyclic
<1>1. NoCycle(Index, Child) /\ IInv
  BY DEF OInv, Order, Sound, AllInv, CInv
<1>2. QED
  BY <1>1, ChildAcyclic

\* The invariants of such clients, and the step that revives a node.
LEMMA OrderKept ==
  Spec /\ OldInputs = {} /\ Room /\ ReplacedStaysDead
  => [](Sound /\ OInv) /\ [][ReviveEnter => RevivedUnreferenced]_vars
<1>1. CASE OldInputs = {} /\ Room
  <2>1. Hashed => NoTwins
    BY DEF Hashed, NoTwins, LiveGates
  <2>2. Sound /\ OInv => NotSelf
    BY OrderedNotSelf
  <2>3. Sound /\ OInv /\ [Next]_vars /\ [StaysDead]_vars
          => Sound' /\ (ReviveEnter => RevivedUnreferenced)
    <3> SUFFICES ASSUME Sound, OInv, [Next]_vars, [StaysDead]_vars
                 PROVE  Sound' /\ (ReviveEnter => RevivedUnreferenced)
      OBVIOUS
    <3>1. [AnyNext]_vars /\ AllInv /\ Hashed
      BY DEF AnyNext, Sound
    <3>2. AllInv' /\ (ReviveEnter => RevivedUnreferenced)
      BY <1>1, <2>1, <2>2, <3>1, AllInvStep
    <3>3. Hashed'
      BY <3>1, <3>2, HashedStep DEF AllInv, CInv
    <3>4. QED
      BY <3>2, <3>3 DEF Sound
  <2>4. Sound /\ Sound' /\ OInv /\ [Next]_vars /\ [StaysDead]_vars => OInv'
    <3> SUFFICES ASSUME Sound, Sound', OInv, [Next]_vars, [StaysDead]_vars PROVE OInv'
      OBVIOUS
    <3>1. NoOverflow /\ CInv
      BY <1>1, BoundedIsEnough DEF Sound, AllInv, CInv, IInv
    <3>2. StaysDead
      BY <3>1, ReviveIsNoStutter
    <3>3. QED
      BY <3>1, <3>2, OInvStep
  <2>5. Init => Sound /\ OInv
    BY InitAllInv, InitHashed, InitOInv DEF Sound
  <2>6. QED
    BY <2>3, <2>4, <2>5, PTL DEF Spec, ReplacedStaysDead, StaysDead
<1>2. CASE ~(OldInputs = {} /\ Room)
  BY <1>2
<1>3. QED
  BY <1>1, <1>2

\* As long as clients keep the structural hashing, the network can go wrong in
\* one way only: a substitution that revives a node it has replaced.  Without
\* that, however far a substitution cascades, through hash hits and chains of
\* old_to_new, it closes no cycle, no pair makes a node its own replacement, and
\* all that OnlyTwoWaysToFail says of the counts holds.
THEOREM OnlyOneWayToFail ==
  Spec /\ OldInputs = {} /\ Room /\ ReplacedStaysDead
  => /\ [](/\ Acyclic /\ NotSelf /\ NoTwins /\ HashSound /\ NoOverflow /\ RefCountExact
           /\ OnlyUnreferencedDies /\ DeadFaninPending /\ NoDeadReference /\ OldIsGone)
     /\ [][ReviveEnter => RevivedUnreferenced]_vars
<1>1. Sound /\ OInv => Acyclic /\ NotSelf
  BY OInvAcyclic, OrderedNotSelf
<1>2. Hashed => NoTwins
  BY DEF Hashed, NoTwins, LiveGates
<1>3. CASE OldInputs = {} /\ Room
  <2>1. Sound => /\ NoTwins /\ HashSound /\ NoOverflow /\ RefCountExact
                 /\ OnlyUnreferencedDies /\ DeadFaninPending /\ NoDeadReference /\ OldIsGone
    BY <1>2, <1>3, AllInvMeans DEF Sound
  <2>2. QED
    BY <1>1, <2>1, OrderKept, PTL
<1>4. CASE ~(OldInputs = {} /\ Room)
  BY <1>4
<1>5. QED
  BY <1>3, <1>4
=============================================================================
