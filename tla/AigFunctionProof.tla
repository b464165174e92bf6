-------------------------- MODULE AigFunctionProof --------------------------
(***************************************************************************)
(* Proof that a substitution gives the outputs of an AIG the functions its  *)
(* client asked for, however it cascades, for every value of the constants. *)
(***************************************************************************)
EXTENDS AigFunction, AigOrder

-----------------------------------------------------------------------------
(* What TablesWith computes.                                               *)

Table == [Nodes -> SUBSET Assignments]

\* What a node computes from what its fanins compute.
Computed(T, n) ==
  IF isCi[n] THEN {a \in Assignments : n \in a}
  ELSE IF n = 0 THEN {}
  ELSE Literal(T, child[n][1]) \cap Literal(T, child[n][2])

\* One round of TablesWith, and its rounds.
NextRound(T, o, t) == [n \in Nodes |-> IF n = o THEN t ELSE Computed(T, n)]
IsRounds(c, o, t, last) ==
  c = [k \in 0 .. last |-> IF k = 0 THEN [n \in Nodes |-> {}] ELSE NextRound(c[k - 1], o, t)]
Rounds(o, t) == CHOOSE c : IsRounds(c, o, t, MaxNodes)

\* The recursion is well founded.
LEMMA RoundsExist ==
  ASSUME NEW o, NEW t
  PROVE  IsRounds(Rounds(o, t), o, t, MaxNodes) /\ TablesWith(o, t) = Rounds(o, t)[MaxNodes]
<1> DEFINE S == {j \in Nat : \E c : IsRounds(c, o, t, j)}
<1>1. 0 \in S
  <2>1. IsRounds([k \in 0 .. 0 |-> [n \in Nodes |-> {}]], o, t, 0)
    BY DEF IsRounds
  <2>2. QED
    BY <2>1
<1>2. ASSUME NEW j \in Nat, j \in S PROVE j + 1 \in S
  <2>1. PICK c : IsRounds(c, o, t, j)
    BY <1>2
  <2> DEFINE d == [k \in 0 .. j + 1 |-> IF k = j + 1 THEN NextRound(c[j], o, t) ELSE c[k]]
             e == [k \in 0 .. j + 1 |->
                     IF k = 0 THEN [n \in Nodes |-> {}] ELSE NextRound(d[k - 1], o, t)]
  <2>2. ASSUME NEW k \in 0 .. j + 1 PROVE d[k] = e[k]
    <3>1. CASE k = j + 1
      BY <3>1
    <3>2. CASE k = 0
      <4>1. d[k] = c[0] /\ c[0] = [n \in Nodes |-> {}]
        BY <3>2, <2>1 DEF IsRounds
      <4>2. QED
        BY <3>2, <4>1
    <3>3. CASE k \in 1 .. j
      <4>1. d[k] = c[k] /\ d[k - 1] = c[k - 1] /\ k \in 0 .. j /\ k # 0
        BY <3>3
      <4>2. c[k] = NextRound(c[k - 1], o, t)
        BY <2>1, <4>1 DEF IsRounds
      <4>3. QED
        BY <4>1, <4>2
    <3>4. QED
      BY <3>1, <3>2, <3>3
  <2>3. d = e
    BY <2>2
  <2>4. IsRounds(d, o, t, j + 1)
    BY <2>3 DEF IsRounds
  <2>5. QED
    BY <2>4
<1>3. MaxNodes \in S
  <2> HIDE DEF S
  <2>1. Nat \subseteq S
    BY <1>1, <1>2, AllNumbers
  <2>2. QED
    BY <2>1, MaxNodesAssumption
<1>4. IsRounds(Rounds(o, t), o, t, MaxNodes)
  BY <1>3 DEF Rounds
<1>5. QED
  BY <1>4 DEF TablesWith, Rounds, IsRounds, NextRound, Computed

\* One round at a time.
LEMMA RoundsUnfold ==
  ASSUME NEW o, NEW t
  PROVE  /\ TablesWith(o, t) = Rounds(o, t)[MaxNodes]
         /\ Rounds(o, t)[0] = [n \in Nodes |-> {}]
         /\ \A k \in 0 .. MaxNodes - 1 : Rounds(o, t)[k + 1] = NextRound(Rounds(o, t)[k], o, t)
<1>1. /\ IsRounds(Rounds(o, t), o, t, MaxNodes)
      /\ TablesWith(o, t) = Rounds(o, t)[MaxNodes] /\ MaxNodes \in Nat
  BY RoundsExist, MaxNodesAssumption
<1> DEFINE c == Rounds(o, t)
<1>2. c = [k \in 0 .. MaxNodes |->
             IF k = 0 THEN [n \in Nodes |-> {}] ELSE NextRound(c[k - 1], o, t)]
  BY <1>1 DEF IsRounds
<1> HIDE DEF c
<1>3. c[0] = [n \in Nodes |-> {}]
  BY <1>1, <1>2
<1>4. ASSUME NEW k \in 0 .. MaxNodes - 1 PROVE c[k + 1] = NextRound(c[k], o, t)
  <2>1. k + 1 \in 0 .. MaxNodes /\ k + 1 # 0 /\ (k + 1) - 1 = k
    BY <1>1
  <2>2. QED
    BY <1>2, <2>1
<1>5. QED
  BY <1>1, <1>3, <1>4 DEF c

\* How many nodes there are below a node, itself included: more than below
\* each of its fanins.
Height(n) == Cardinality(Reach(Index, Child, n))

\* A fanin has fewer nodes below it than the gate.
LEMMA HeightFalls ==
  ASSUME Parts, NoCycle(Index, Child), NEW n \in Nodes
  PROVE  /\ Height(n) \in 1 .. MaxNodes
         /\ IsGate(n) => \A c \in FaninNodes(n) : c \in Nodes /\ Height(c) < Height(n)
<1>0. MaxNodes \in Nat /\ IsFiniteSet(Index) /\ Cardinality(Index) = MaxNodes
  <2>1. MaxNodes \in Nat /\ 0 \in Int /\ MaxNodes - 1 \in Int /\ MaxNodes > 0
    BY MaxNodesAssumption
  <2>2. IsFiniteSet(0 .. MaxNodes - 1)
        /\ Cardinality(0 .. MaxNodes - 1) = IF 0 > MaxNodes - 1 THEN 0 ELSE MaxNodes - 1 - 0 + 1
    BY ONLY <2>1, FS_Interval
  <2>3. QED
    BY <2>1, <2>2 DEF Index
<1>1. n \in Index /\ FaninNodes(n) \subseteq Nodes /\ Nodes \subseteq Index
  BY DEF Parts
<1> DEFINE R(x) == Reach(Index, Child, x)
<1>2. ASSUME NEW x \in Index
      PROVE  x \in R(x) /\ R(x) \subseteq Index /\ IsFiniteSet(R(x)) /\ Height(x) \in 1 .. MaxNodes
  <2>1. x \in R(x) /\ R(x) \subseteq Index
    BY ReachClosed
  <2> HIDE DEF R
  <2>2. IsFiniteSet(R(x)) /\ Cardinality(R(x)) <= MaxNodes /\ Cardinality(R(x)) \in Nat
    BY <1>0, <2>1, FS_Subset, FS_CardinalityType
  <2>3. Cardinality(R(x)) # 0
    BY <2>1, <2>2, FS_EmptySet
  <2>4. QED
    BY <1>0, <2>1, <2>2, <2>3 DEF Height, R
<1>3. ASSUME IsGate(n), NEW c \in FaninNodes(n) PROVE c \in Nodes /\ Height(c) < Height(n)
  <2>1. c \in Nodes /\ c \in Index /\ <<n, c>> \in Child
    BY <1>1, <1>3 DEF Child
  <2>2. n \notin R(c)
    BY <1>1, <2>1 DEF NoCycle
  <2>3. c \in R(n)
    BY <1>1, <1>2, <2>1, ReachEdge
  <2>4. R(c) \subseteq R(n)
    BY <1>1, <2>3, ReachTrans
  <2>5. IsFiniteSet(R(n)) /\ IsFiniteSet(R(c)) /\ R(c) # R(n)
    BY <1>1, <1>2, <2>1, <2>2
  <2> HIDE DEF R
  <2>6. Cardinality(R(c)) <= Cardinality(R(n)) /\ Cardinality(R(c)) # Cardinality(R(n))
    BY ONLY <2>4, <2>5, FS_Subset
  <2>7. Cardinality(R(c)) \in Nat /\ Cardinality(R(n)) \in Nat
    BY ONLY <2>5, FS_CardinalityType
  <2>8. Cardinality(R(c)) < Cardinality(R(n))
    BY <2>6, <2>7
  <2>9. QED
    BY <2>1, <2>8 DEF Height, R
<1>4. QED
  BY <1>1, <1>2, <1>3

\* A node computes from its fanins.
LEMMA ComputedFrom ==
  ASSUME NEW n, NEW T, NEW U, IsGate(n) => \A c \in FaninNodes(n) : T[c] = U[c]
  PROVE  Computed(T, n) = Computed(U, n)
  BY DEF Computed, Literal, IsGate, FaninNodes

\* What a node computes is a function of the inputs.
LEMMA ComputedType ==
  ASSUME Parts, NEW n \in Nodes, NEW T \in Table
  PROVE  Computed(T, n) \in SUBSET Assignments
<1>1. child[n][1].node \in Nodes /\ child[n][2].node \in Nodes
  BY DEF Parts
<1>2. T[child[n][1].node] \subseteq Assignments /\ T[child[n][2].node] \subseteq Assignments
  BY <1>1 DEF Table
<1>3. QED
  BY <1>2 DEF Computed, Literal

\* Every node but o computes its function from those of its fanins.
Settled(T, o, t) ==
  /\ T \in Table /\ T[o] = t
  /\ \A n \in Nodes \ {o} : T[n] = Computed(T, n)
Settles ==
  Parts /\ NoCycle(Index, Child) =>
    \A o \in Nodes, t \in SUBSET Assignments : Settled(TablesWith(o, t), o, t)

\* MaxNodes rounds are enough: a node of height k settles in round k.
LEMMA TablesSettle == Settles
<1> SUFFICES ASSUME Parts, NoCycle(Index, Child), NEW o \in Nodes, NEW t \in SUBSET Assignments
             PROVE  Settled(TablesWith(o, t), o, t)
  BY DEF Settles
<1> DEFINE r(k) == Rounds(o, t)[k]
<1>1. /\ MaxNodes \in Nat /\ MaxNodes > 0 /\ TablesWith(o, t) = r(MaxNodes)
      /\ r(0) = [n \in Nodes |-> {}]
      /\ \A k \in 0 .. MaxNodes - 1 : r(k + 1) = NextRound(r(k), o, t)
  BY RoundsUnfold, MaxNodesAssumption
<1>2. \A n \in Nodes : /\ Height(n) \in 1 .. MaxNodes
                       /\ IsGate(n) => \A c \in FaninNodes(n) : c \in Nodes /\ Height(c) < Height(n)
  BY HeightFalls
<1> HIDE DEF r
<1>3. ASSUME NEW j \in 1 .. MaxNodes, NEW n \in Nodes
      PROVE  r(j)[n] = IF n = o THEN t ELSE Computed(r(j - 1), n)
  <2>1. j - 1 \in 0 .. MaxNodes - 1 /\ (j - 1) + 1 = j
    BY <1>1
  <2>2. r(j) = NextRound(r(j - 1), o, t)
    BY <1>1, <2>1
  <2>3. QED
    BY <2>2 DEF NextRound
<1>4. \A k \in 0 .. MaxNodes : r(k) \in Table
  <2> DEFINE S == {k \in Nat : k <= MaxNodes => r(k) \in Table}
  <2>1. 0 \in S
    BY <1>1 DEF Table
  <2>2. ASSUME NEW k \in Nat, k \in S PROVE k + 1 \in S
    <3> SUFFICES ASSUME k + 1 <= MaxNodes PROVE r(k + 1) \in Table
      OBVIOUS
    <3>1. k \in 0 .. MaxNodes - 1 /\ r(k) \in Table
      BY <1>1, <2>2
    <3>2. r(k + 1) = NextRound(r(k), o, t)
      BY <1>1, <3>1
    <3>3. \A n \in Nodes : Computed(r(k), n) \in SUBSET Assignments
      BY <3>1, ComputedType
    <3>4. QED
      BY <3>2, <3>3 DEF NextRound, Table
  <2> HIDE DEF S
  <2>3. Nat \subseteq S
    BY <2>1, <2>2, AllNumbers
  <2>4. QED
    BY <1>1, <2>3 DEF S
<1>5. \A k \in 0 .. MaxNodes, j \in 0 .. MaxNodes, n \in Nodes :
         k <= j /\ Height(n) <= k => r(j)[n] = r(k)[n]
  <2> DEFINE S == {k \in Nat : \A n \in Nodes, j \in 0 .. MaxNodes :
                                  k <= j /\ Height(n) <= k => r(j)[n] = r(k)[n]}
  <2>1. 0 \in S
    <3>1. \A n \in Nodes : ~(Height(n) <= 0)
      BY <1>1, <1>2
    <3>2. QED
      BY <3>1
  <2>2. ASSUME NEW k \in Nat, k \in S PROVE k + 1 \in S
    <3> SUFFICES ASSUME NEW n \in Nodes, NEW j \in 0 .. MaxNodes, k + 1 <= j,
                        Height(n) <= k + 1
                 PROVE  r(j)[n] = r(k + 1)[n]
      OBVIOUS
    <3>1. /\ j \in 1 .. MaxNodes /\ k + 1 \in 1 .. MaxNodes /\ (k + 1) - 1 = k
          /\ j - 1 \in 0 .. MaxNodes /\ k <= j - 1
      BY <1>1
    <3>2. ASSUME IsGate(n), NEW c \in FaninNodes(n) PROVE r(j - 1)[c] = r(k)[c]
      <4>1. c \in Nodes /\ Height(c) < Height(n) /\ Height(c) \in Nat /\ Height(n) \in Nat
        BY <1>1, <1>2, <3>2
      <4>2. Height(c) <= k
        BY <4>1
      <4>3. QED
        BY <2>2, <3>1, <4>1, <4>2
    <3>3. Computed(r(j - 1), n) = Computed(r(k), n)
      BY <3>2, ComputedFrom
    <3>4. /\ r(j)[n] = IF n = o THEN t ELSE Computed(r(j - 1), n)
          /\ r(k + 1)[n] = IF n = o THEN t ELSE Computed(r((k + 1) - 1), n)
      BY <1>3, <3>1
    <3>5. QED
      BY <3>1, <3>3, <3>4
  <2> HIDE DEF S
  <2>3. Nat \subseteq S
    BY <2>1, <2>2, AllNumbers
  <2>4. QED
    BY <1>1, <2>3 DEF S
<1>6. ASSUME NEW n \in Nodes PROVE r(MaxNodes)[n] = IF n = o THEN t ELSE Computed(r(MaxNodes), n)
  <2>1. ASSUME IsGate(n), NEW c \in FaninNodes(n) PROVE r(MaxNodes - 1)[c] = r(MaxNodes)[c]
    <3>1. /\ c \in Nodes /\ Height(c) < Height(n)
          /\ Height(c) \in 1 .. MaxNodes /\ Height(n) \in 1 .. MaxNodes
      BY <1>2, <2>1
    <3>2. /\ Height(c) <= MaxNodes - 1 /\ MaxNodes - 1 \in 0 .. MaxNodes
          /\ MaxNodes \in 0 .. MaxNodes /\ MaxNodes - 1 <= MaxNodes
      BY <1>1, <3>1
    <3>3. QED
      BY <1>5, <3>1, <3>2
  <2>2. Computed(r(MaxNodes - 1), n) = Computed(r(MaxNodes), n)
    BY <2>1, ComputedFrom
  <2>3. MaxNodes \in 1 .. MaxNodes
    BY <1>1
  <2>4. QED
    BY <1>3, <2>2, <2>3
<1>7. MaxNodes \in 0 .. MaxNodes
  BY <1>1
<1>8. QED
  BY <1>1, <1>4, <1>6, <1>7 DEF Settled

\* There is only one way to compute the functions of nodes that no other
\* nodes are computed from.
Determined ==
  Parts /\ NoCycle(Index, Child) =>
    \A S \in SUBSET Nodes : \A T, U \in Table :
       /\ \A g \in S : IsGate(g) => FaninNodes(g) \subseteq S
       /\ \A n \in S : T[n] = Computed(T, n) /\ U[n] = Computed(U, n)
       => \A n \in S : T[n] = U[n]

\* Two tables that solve the equations of a set closed under fanins agree on it.
LEMMA OneTable == Determined
<1> SUFFICES ASSUME Parts, NoCycle(Index, Child), NEW S \in SUBSET Nodes,
                    NEW T \in Table, NEW U \in Table,
                    \A g \in S : IsGate(g) => FaninNodes(g) \subseteq S,
                    \A n \in S : T[n] = Computed(T, n) /\ U[n] = Computed(U, n)
             PROVE  \A n \in S : T[n] = U[n]
  BY DEF Determined
<1>1. MaxNodes \in Nat
  BY MaxNodesAssumption
<1>2. \A n \in S : /\ Height(n) \in 1 .. MaxNodes
                   /\ IsGate(n) => \A c \in FaninNodes(n) : c \in S /\ Height(c) < Height(n)
  BY HeightFalls
<1> DEFINE K == {k \in Nat : \A n \in S : Height(n) <= k => T[n] = U[n]}
<1>3. 0 \in K
  <2>1. \A n \in S : ~(Height(n) <= 0)
    BY <1>1, <1>2
  <2>2. QED
    BY <2>1
<1>4. ASSUME NEW k \in Nat, k \in K PROVE k + 1 \in K
  <2> SUFFICES ASSUME NEW n \in S, Height(n) <= k + 1 PROVE T[n] = U[n]
    OBVIOUS
  <2>1. ASSUME IsGate(n), NEW c \in FaninNodes(n) PROVE T[c] = U[c]
    <3>1. c \in S /\ Height(c) < Height(n) /\ Height(c) \in Nat /\ Height(n) \in Nat
      BY <1>1, <1>2, <2>1
    <3>2. Height(c) <= k
      BY <3>1
    <3>3. QED
      BY <1>4, <3>1, <3>2
  <2>2. QED
    BY <2>1, ComputedFrom
<1> HIDE DEF K
<1>5. Nat \subseteq K
  BY <1>3, <1>4, AllNumbers
<1>6. QED
  BY <1>1, <1>2, <1>5 DEF K

-----------------------------------------------------------------------------
(* Signals.                                                                *)

\* A signal and its complement.
LEMMA LiteralXor ==
  ASSUME NEW T, NEW f \in Signal, T[f.node] \subseteq Assignments, NEW c \in BOOLEAN
  PROVE  Literal(T, Xor(f, c)) = IF c THEN Assignments \ Literal(T, f) ELSE Literal(T, f)
<1>1. Xor(f, c).node = f.node
  BY XorType DEF Signal
<1>2. f.neg \in BOOLEAN /\ Xor(f, c).neg = (f.neg # c)
  BY DEF Xor, Signal
<1>3. CASE c
  <2>1. Xor(f, c).neg <=> ~f.neg
    BY <1>2, <1>3
  <2>2. QED
    BY <1>1, <1>3, <2>1 DEF Literal
<1>4. CASE ~c
  <2>1. Xor(f, c).neg <=> f.neg
    BY <1>2, <1>4
  <2>2. QED
    BY <1>1, <1>4, <2>1 DEF Literal
<1>5. QED
  BY <1>3, <1>4

\* What a signal computes.
LEMMA LiteralType ==
  ASSUME NEW T \in Table, NEW f, f.node \in Nodes
  PROVE  Literal(T, f) \subseteq Assignments /\ T[f.node] \subseteq Assignments
  BY DEF Table, Literal

\* The order of two fanins does not matter.
LEMMA OrderedComputes ==
  ASSUME NEW T, NEW a, NEW b
  PROVE  Literal(T, Ordered(a, b)[1]) \cap Literal(T, Ordered(a, b)[2])
           = Literal(T, a) \cap Literal(T, b)
  BY DEF Ordered

\* What the functions are read from.
LEMMA SameFunctions ==
  ASSUME UNCHANGED <<size, isCi, child>>
  PROVE  /\ Nodes' = Nodes /\ Assignments' = Assignments /\ Table' = Table
         /\ \A T, f : Literal(T, f)' = Literal(T, f)
         /\ \A T, n : Computed(T, n)' = Computed(T, n)
<1>1. Nodes' = Nodes /\ Assignments' = Assignments
  BY DEF Nodes, Assignments, Inputs
<1>2. \A T, f : Literal(T, f)' = Literal(T, f)
  BY <1>1 DEF Literal
<1>3. QED
  BY <1>1, <1>2 DEF Table, Computed

-----------------------------------------------------------------------------
(* The inductive invariant.                                                *)

\* What need not compute its function any more: what was replaced in this
\* call, or is to be replaced first.
Replacing == Retired \cup (IF Retired = {} THEN {p.old : p \in Pairs} ELSE {})

\* T gives every other node the function of its fanins, and makes the two sides
\* of everything that was or will be replaced equal.
Consistent(T) ==
  /\ \A n \in Nodes \ Replacing : T[n] = Computed(T, n)
  /\ \A p \in Pairs : T[p.old] = Literal(T, p.new)
  /\ \A n \in DOMAIN renamed : T[n] = Literal(T, renamed[n])

\* There is such a T in the middle of any cascade, and it gives the outputs the
\* functions that were promised.
FInv ==
  /\ ~isCi[0]
  /\ \E T \in Table : Consistent(T) /\ promise = FunctionsOf(T)

\* Between operations it is the one that Tables computes.
OnlyTables ==
  Parts /\ NoCycle(Index, Child) /\ ~isCi[0] =>
    /\ Tables \in Table
    /\ \A n \in Nodes : Tables[n] = Computed(Tables, n)
    /\ \A U \in Table : (\A n \in Nodes : U[n] = Computed(U, n)) => U = Tables

\* Tables solves the equations of all nodes, and nothing else does.
LEMMA TablesOnly == OnlyTables
<1> SUFFICES ASSUME Parts, NoCycle(Index, Child), ~isCi[0]
             PROVE  /\ Tables \in Table
                    /\ \A n \in Nodes : Tables[n] = Computed(Tables, n)
                    /\ \A U \in Table : (\A n \in Nodes : U[n] = Computed(U, n)) => U = Tables
  BY DEF OnlyTables
<1>1. 0 \in Nodes /\ {} \in SUBSET Assignments
  BY DEF Parts
<1>2. Settled(Tables, 0, {})
  BY <1>1, TablesSettle DEF Settles, Tables
<1>3. Tables \in Table /\ \A n \in Nodes : Tables[n] = Computed(Tables, n)
  <2>1. Computed(Tables, 0) = {}
    BY DEF Computed
  <2>2. QED
    BY <1>2, <2>1 DEF Settled
<1>4. ASSUME NEW U \in Table, \A n \in Nodes : U[n] = Computed(U, n) PROVE U = Tables
  <2>1. \A g \in Nodes : IsGate(g) => FaninNodes(g) \subseteq Nodes
    BY DEF Parts
  <2>2. \A n \in Nodes : U[n] = Tables[n]
    BY <1>3, <1>4, <2>1, OneTable DEF Determined
  <2>3. QED
    BY <1>3, <2>2 DEF Table
<1>5. QED
  BY <1>3, <1>4

\* Nothing is pending between operations.
LEMMA IdlePairs ==
  ASSUME Sound, OInv, pc = "idle"
  PROVE  /\ Pairs = {} /\ Retired = {} /\ Replacing = {} /\ DOMAIN renamed = {}
         /\ todo = <<>>
<1>1. todo = <<>>
  BY DEF Sound, AllInv, DInv, QuietIdle
<1>2. DOMAIN renamed = {}
  BY DEF OInv, Order, Represents
<1>3. Retired = {}
  BY <1>2 DEF Retired
<1>4. Pairs = {}
  BY <1>1 DEF Pairs, Busy, Members
<1>5. QED
  BY <1>1, <1>2, <1>3, <1>4 DEF Replacing

\* A step that makes nothing else pending keeps the equations.
LEMMA SameEquations ==
  ASSUME UNCHANGED <<size, isCi, child, outputs, promise>>, FInv,
         Replacing \subseteq Replacing',
         \A T \in Table : Consistent(T) =>
            /\ \A p \in Pairs' : T[p.old] = Literal(T, p.new)
            /\ \A n \in DOMAIN renamed' : T[n] = Literal(T, renamed'[n])
  PROVE  FInv'
<1>1. PICK T \in Table : Consistent(T) /\ promise = FunctionsOf(T)
  BY DEF FInv
<1>2. T \in Table' /\ Nodes' = Nodes /\ \A n : Computed(T, n)' = Computed(T, n)
  BY SameFunctions
<1>3. \A f : Literal(T, f)' = Literal(T, f)
  BY SameFunctions
<1>4. Consistent(T)'
  BY <1>1, <1>2, <1>3 DEF Consistent
<1>5. FunctionsOf(T)' = FunctionsOf(T)
  BY <1>3 DEF FunctionsOf
<1>6. ~isCi'[0] /\ promise' = FunctionsOf(T)'
  BY <1>1, <1>5 DEF FInv
<1>7. QED
  BY <1>2, <1>4, <1>6 DEF FInv

-----------------------------------------------------------------------------
(* Clients build.                                                          *)

\* What the table of the functions is between operations.
LEMMA IdleTables ==
  ASSUME Sound, OInv, FInv, pc = "idle"
  PROVE  /\ Tables \in Table /\ promise = FunctionsOf(Tables)
         /\ \A n \in Nodes : Tables[n] = Computed(Tables, n)
<1>1. Parts /\ NoCycle(Index, Child) /\ ~isCi[0] /\ Replacing = {}
  BY SoundParts, IdlePairs DEF OInv, Order, FInv
<1>2. PICK T \in Table : Consistent(T) /\ promise = FunctionsOf(T)
  BY DEF FInv
<1>3. \A n \in Nodes : T[n] = Computed(T, n)
  BY <1>1, <1>2 DEF Consistent
<1>4. T = Tables
  BY <1>1, <1>3, TablesOnly DEF OnlyTables
<1>5. QED
  BY <1>2, <1>3, <1>4

\* It is enough to solve the equations after a step that ends between
\* operations.
LEMMA IdleEnough ==
  ASSUME Sound', OInv', pc' = "idle", ~isCi'[0], NEW U,
         U \in Table', \A n \in Nodes' : U[n] = Computed(U, n)',
         promise' = FunctionsOf(U)'
  PROVE  FInv'
<1>1. (Sound /\ OInv /\ pc = "idle" =>
         /\ Pairs = {} /\ Retired = {} /\ Replacing = {} /\ DOMAIN renamed = {})'
  BY IdlePairs, PTL
<1>2. Pairs' = {} /\ Replacing' = {} /\ DOMAIN renamed' = {}
  BY <1>1
<1>3. Consistent(U)'
  BY <1>2 DEF Consistent
<1>4. QED
  BY <1>3 DEF FInv

\* A new input: the functions there are do not depend on it.
LEMMA CreatePiFunctions ==
  ASSUME Sound, OInv, FInv, Sound', OInv', FCreatePi
  PROVE  FInv'
<1>1. /\ pc = "idle" /\ pc' = "idle" /\ size' = size + 1 /\ child' = child /\ outputs' = outputs
      /\ isCi' = [isCi EXCEPT ![size] = TRUE]
      /\ promise' = [i \in DOMAIN promise |->
                       promise[i] \cup {a \cup {size} : a \in promise[i]}]
  BY DEF FCreatePi, CreatePi, Idle, ctlVars
<1>2. Parts /\ TypeOK /\ TypeOK' /\ IInv /\ ~isCi[0] /\ 0 \in Nodes
  BY SoundParts DEF Parts, Sound, AllInv, CInv, IInv, FInv
<1>3. PICK k \in Index : k = size /\ k \notin Nodes /\ Nodes' = Nodes \cup {k}
  BY <1>1, <1>2, NodesOneMore
<1>4. isCi'[k] /\ \A n \in Nodes : isCi'[n] = isCi[n]
  BY <1>1, <1>2, <1>3 DEF TypeOK, Parts
<1>5. Inputs' = Inputs \cup {k} /\ k \notin Inputs
  BY <1>3, <1>4 DEF Inputs
<1>6. PICK J, A : J = Inputs /\ A = SUBSET (J \cup {k})
                  /\ Assignments' = A /\ Assignments = SUBSET J
  BY <1>5 DEF Assignments
<1> DEFINE Lift(X) == {a \in A : a \ {k} \in X}
<1>7. PICK T \in Table : /\ promise = FunctionsOf(T)
                        /\ \A n \in Nodes : T[n] = Computed(T, n)
  BY <1>1, IdleTables
<1>8. PICK U : U = [n \in Nodes \cup {k} |-> IF n = k THEN {a \in A : k \in a} ELSE Lift(T[n])]
  OBVIOUS
<1>9. /\ U \in Table' /\ U[k] = {a \in A : k \in a}
      /\ \A n \in Nodes : U[n] = Lift(T[n])
  BY <1>3, <1>6, <1>8 DEF Table
<1>10. ASSUME NEW f, f.node \in Nodes PROVE Literal(U, f)' = Lift(Literal(T, f))
  <2>1. Literal(U, f)' = IF f.neg THEN A \ U[f.node] ELSE U[f.node]
    BY <1>6 DEF Literal
  <2>2. U[f.node] = Lift(T[f.node])
    BY <1>9, <1>10
  <2>3. A \ Lift(T[f.node]) = Lift(Assignments \ T[f.node])
    <3>1. \A a \in A : a \ {k} \in Assignments
      BY <1>6
    <3>2. QED
      BY <3>1
  <2>4. QED
    BY <2>1, <2>2, <2>3 DEF Literal
<1>11. ASSUME NEW n \in Nodes' PROVE U[n] = Computed(U, n)'
  <2>1. CASE n = k
    BY <1>4, <1>6, <1>9, <2>1 DEF Computed
  <2>2. CASE n # k
    <3>1. n \in Nodes /\ U[n] = Lift(T[n]) /\ T[n] = Computed(T, n)
      BY <1>3, <1>7, <1>9, <1>11, <2>2
    <3>2. CASE isCi[n]
      <4>1. T[n] = {a \in Assignments : n \in a}
        BY <3>1, <3>2 DEF Computed
      <4>2. Lift(T[n]) = {a \in A : n \in a}
        BY <1>6, <2>2, <4>1
      <4>3. Computed(U, n)' = {a \in A : n \in a}
        BY <1>4, <1>6, <3>1, <3>2 DEF Computed
      <4>4. QED
        BY <3>1, <4>2, <4>3
    <3>3. CASE ~isCi[n] /\ n = 0
      BY <1>4, <3>1, <3>3 DEF Computed
    <3>4. CASE ~isCi[n] /\ n # 0
      <4>1. T[n] = Literal(T, child[n][1]) \cap Literal(T, child[n][2])
        BY <3>1, <3>4 DEF Computed
      <4>2. child[n][1].node \in Nodes /\ child[n][2].node \in Nodes
        BY <1>2, <3>1 DEF Parts
      <4>3. Computed(U, n)' = Lift(Literal(T, child[n][1])) \cap Lift(Literal(T, child[n][2]))
        <5>1. Computed(U, n)' = Literal(U, child[n][1])' \cap Literal(U, child[n][2])'
          BY <1>1, <1>4, <3>1, <3>4 DEF Computed, Literal
        <5>2. Literal(U, child[n][1])' = Lift(Literal(T, child[n][1]))
          <6>1. \A f : f.node \in Nodes => Literal(U, f)' = Lift(Literal(T, f))
            BY <1>10
          <6>2. PICK f : f = child[n][1]
            OBVIOUS
          <6>3. Literal(U, f)' = Literal(U, child[n][1])'
            BY <1>1, <6>2 DEF Literal
          <6>4. QED
            BY <4>2, <6>1, <6>2, <6>3
        <5>3. Literal(U, child[n][2])' = Lift(Literal(T, child[n][2]))
          <6>1. \A f : f.node \in Nodes => Literal(U, f)' = Lift(Literal(T, f))
            BY <1>10
          <6>2. PICK f : f = child[n][2]
            OBVIOUS
          <6>3. Literal(U, f)' = Literal(U, child[n][2])'
            BY <1>1, <6>2 DEF Literal
          <6>4. QED
            BY <4>2, <6>1, <6>2, <6>3
        <5>4. QED
          BY <5>1, <5>2, <5>3
      <4>4. QED
        BY <3>1, <4>1, <4>3
    <3>5. QED
      BY <3>2, <3>3, <3>4
  <2>3. QED
    BY <2>1, <2>2
<1>12. promise' = FunctionsOf(U)'
  <2>1. \A i \in DOMAIN outputs : outputs[i].node \in Nodes
    <3>1. outputs \in Seq(NodeSignal)
      BY <1>2 DEF IInv, Allocated
    <3>2. \A i \in DOMAIN outputs : outputs[i] \in NodeSignal
      BY ONLY <3>1
    <3>3. QED
      BY <3>2 DEF NodeSignal
  <2>2. promise = [i \in DOMAIN outputs |-> Literal(T, outputs[i])]
    BY <1>7 DEF FunctionsOf
  <2>3. ASSUME NEW i \in DOMAIN outputs
        PROVE  promise[i] \cup {a \cup {k} : a \in promise[i]} = Lift(Literal(T, outputs[i]))
    <3>1. promise[i] = Literal(T, outputs[i]) /\ promise[i] \subseteq SUBSET J
      BY <1>6, <1>7, <2>1, <2>2, LiteralType
    <3>2. ASSUME NEW P \in SUBSET SUBSET J
          PROVE  P \cup {a \cup {k} : a \in P} = Lift(P)
      <4>1. ASSUME NEW a \in P PROVE a \in Lift(P) /\ a \cup {k} \in Lift(P)
        <5>1. /\ a \in A /\ a \cup {k} \in A
              /\ a \ {k} = a /\ (a \cup {k}) \ {k} = a
          BY <1>5, <1>6, <3>2, <4>1
        <5>2. QED
          BY <4>1, <5>1
      <4>2. ASSUME NEW a \in Lift(P) PROVE a \in P \cup {b \cup {k} : b \in P}
        <5>1. a \ {k} \in P /\ (a \ {k} = a \/ a = (a \ {k}) \cup {k})
          BY <4>2
        <5>2. QED
          BY <5>1
      <4>3. QED
        BY <4>1, <4>2
    <3>3. QED
      BY <3>1, <3>2
  <2>4. promise' = [i \in DOMAIN outputs |-> Lift(Literal(T, outputs[i]))]
    BY <1>1, <1>3, <2>2, <2>3
  <2>5. ASSUME NEW i \in DOMAIN outputs
        PROVE  Lift(Literal(T, outputs[i])) = Literal(U, outputs[i])'
    <3>1. PICK f : f = outputs[i]
      OBVIOUS
    <3>2. Literal(U, f)' = Literal(U, outputs[i])'
      BY <1>1, <3>1 DEF Literal
    <3>3. \A g : g.node \in Nodes => Literal(U, g)' = Lift(Literal(T, g))
      BY <1>10
    <3>4. QED
      BY <2>1, <3>1, <3>2, <3>3
  <2>6. FunctionsOf(U)' = [i \in DOMAIN outputs |-> Literal(U, outputs[i])']
    BY <1>1 DEF FunctionsOf
  <2>7. QED
    BY <2>4, <2>5, <2>6
<1>13. ~isCi'[0]
  BY <1>2, <1>4
<1>14. QED
  BY <1>1, <1>9, <1>11, <1>12, <1>13, IdleEnough

\* A sequence with one more element.
LEMMA Appended ==
  ASSUME NEW R, NEW s \in Seq(R), NEW x \in R
  PROVE  /\ Len(s) \in Nat /\ DOMAIN s = 1 .. Len(s)
         /\ Append(s, x) = [i \in 1 .. Len(s) + 1 |-> IF i = Len(s) + 1 THEN x ELSE s[i]]
<1> DEFINE t == Append(s, x)
<1>1. /\ t \in Seq(R) /\ Len(t) = Len(s) + 1 /\ t[Len(s) + 1] = x
      /\ \A i \in 1 .. Len(s) : t[i] = s[i]
  BY AppendProperties
<1> HIDE DEF t
<1>2. Len(s) \in Nat /\ DOMAIN s = 1 .. Len(s)
  OBVIOUS
<1>3. t = [i \in 1 .. Len(t) |-> t[i]]
  BY <1>1
<1>4. \A i \in 1 .. Len(s) + 1 : t[i] = IF i = Len(s) + 1 THEN x ELSE s[i]
  BY <1>1, <1>2
<1>5. QED
  BY <1>1, <1>2, <1>3, <1>4 DEF t

\* A new output has the function of its signal.
LEMMA CreatePoFunctions ==
  ASSUME Sound, OInv, FInv, Sound', OInv', NEW f \in LiveSignals, FCreatePo(f)
  PROVE  FInv'
<1>1. /\ pc = "idle" /\ pc' = "idle" /\ UNCHANGED <<size, isCi, child>>
      /\ outputs' = Append(outputs, f) /\ promise' = Append(promise, Literal(Tables, f))
  BY DEF FCreatePo, CreatePo, Idle, ctlVars
<1>2. PICK T : /\ T = Tables /\ T \in Table /\ promise = FunctionsOf(T)
               /\ \A n \in Nodes : T[n] = Computed(T, n)
  BY <1>1, IdleTables
<1>3. /\ Nodes' = Nodes /\ Table' = Table
      /\ \A g : Literal(T, g)' = Literal(T, g)
      /\ \A n : Computed(T, n)' = Computed(T, n)
  BY <1>1, SameFunctions
<1>4. promise' = FunctionsOf(T)'
  <2> DEFINE F(g) == Literal(T, g)
  <2>1. outputs \in Seq(Signal)
    BY DEF Sound, AllInv, CInv, IInv, TypeOK
  <2>2. promise = [i \in DOMAIN outputs |-> F(outputs[i])]
    BY <1>2 DEF FunctionsOf
  <2>3. FunctionsOf(T)' = [i \in DOMAIN outputs' |-> F(outputs'[i])]
    BY <1>3 DEF FunctionsOf
  <2>4. promise' = Append(promise, F(f)) /\ outputs' = Append(outputs, f)
    BY <1>1, <1>2
  <2> HIDE DEF F
  <2>5. PICK n \in Nat : /\ DOMAIN outputs = 1 .. n
                         /\ outputs' = [i \in 1 .. n + 1 |-> IF i = n + 1 THEN f ELSE outputs[i]]
    <3>1. f \in Signal
      BY NodesType DEF LiveSignals, Sound, AllInv, CInv, IInv
    <3>2. QED
      BY <2>1, <2>4, <3>1, Appended
  <2>6. promise \in Seq({F(g) : g \in Signal} \cup {F(f)}) /\ Len(promise) = n
    <3>1. promise \in [1 .. n -> {F(g) : g \in Signal}]
      BY <2>1, <2>2, <2>5
    <3>2. QED
      BY <3>1
  <2>7. Append(promise, F(f)) = [i \in 1 .. n + 1 |-> IF i = n + 1 THEN F(f) ELSE promise[i]]
    BY <2>6, Appended
  <2>8. \A i \in 1 .. n + 1 :
           F(outputs'[i]) = IF i = n + 1 THEN F(f) ELSE F(outputs[i])
    BY <2>5
  <2>9. \A i \in 1 .. n + 1 : i # n + 1 => promise[i] = F(outputs[i])
    BY <2>2, <2>5
  <2>10. promise' = [i \in 1 .. n + 1 |-> F(outputs'[i])]
    BY <2>4, <2>7, <2>8, <2>9
  <2>11. QED
    BY <2>3, <2>5, <2>10
<1>5. ~isCi'[0]
  BY <1>1 DEF FInv
<1>6. QED
  BY <1>1, <1>2, <1>3, <1>4, <1>5, IdleEnough

\* A new gate changes the function of no other node.
LEMMA CreateAndFunctions ==
  ASSUME Sound, OInv, FInv, Sound', OInv', NEW a \in LiveSignals, NEW b \in LiveSignals,
         CreateAnd(a, b), promise' = promise
  PROVE  FInv'
<1>1. /\ pc = "idle" /\ pc' = "idle" /\ size' = size + 1 /\ isCi' = isCi /\ outputs' = outputs
      /\ child' = [child EXCEPT ![size] = Ordered(a, b)]
      /\ a.node \in Nodes /\ b.node \in Nodes
  BY DEF CreateAnd, Idle, ctlVars, LiveSignals, Signals
<1>2. Parts /\ TypeOK /\ TypeOK' /\ IInv /\ ~isCi[0] /\ 0 \in Nodes
  BY SoundParts DEF Parts, Sound, AllInv, CInv, IInv, FInv
<1>3. PICK k \in Index : k = size /\ k \notin Nodes /\ Nodes' = Nodes \cup {k}
  BY <1>1, <1>2, NodesOneMore
<1>4. /\ k # 0 /\ ~isCi[k]
      /\ child'[k] = Ordered(a, b) /\ \A n \in Nodes : child'[n] = child[n]
  BY <1>1, <1>2, <1>3 DEF TypeOK, Parts, IInv, Fresh
<1>5. Inputs' = Inputs /\ Assignments' = Assignments
  BY <1>1, <1>3, <1>4 DEF Inputs, Assignments
<1>6. PICK T \in Table : /\ promise = FunctionsOf(T)
                         /\ \A n \in Nodes : T[n] = Computed(T, n)
  BY <1>1, IdleTables
<1>7. PICK N, c, X : N = Nodes /\ c = Ordered(a, b) /\ X = Literal(T, c[1]) \cap Literal(T, c[2])
  OBVIOUS
<1>8. c[1].node \in Nodes /\ c[2].node \in Nodes
  BY <1>1, <1>7 DEF Ordered
<1>9. PICK U : U = [n \in N \cup {k} |-> IF n = k THEN X ELSE T[n]]
  OBVIOUS
<1>10. U[k] = X /\ \A n \in Nodes : U[n] = T[n]
  BY <1>3, <1>7, <1>9
<1>11. U \in Table'
  <2>1. X \subseteq Assignments
    BY <1>6, <1>7, <1>8, LiteralType
  <2>2. QED
    BY <1>3, <1>5, <1>6, <1>7, <1>9, <2>1 DEF Table
<1>12. ASSUME NEW f, f.node \in Nodes PROVE Literal(U, f)' = Literal(T, f)
  BY <1>5, <1>10, <1>12 DEF Literal
<1>13. ASSUME NEW n \in Nodes' PROVE U[n] = Computed(U, n)'
  <2>1. PICK d : d = child'[n]
    OBVIOUS
  <2>2. Computed(U, n)' = IF isCi[n] THEN {e \in Assignments : n \in e}
                          ELSE IF n = 0 THEN {}
                          ELSE Literal(U, d[1])' \cap Literal(U, d[2])'
    BY <1>1, <1>5, <2>1 DEF Computed, Literal
  <2>3. CASE n = k
    <3>1. d = c
      BY <1>4, <1>7, <2>1, <2>3
    <3>2. Literal(U, d[1])' = Literal(T, d[1]) /\ Literal(U, d[2])' = Literal(T, d[2])
      BY <1>8, <1>12, <3>1
    <3>3. QED
      BY <1>4, <1>7, <1>10, <2>2, <2>3, <3>1, <3>2
  <2>4. CASE n # k
    <3>1. n \in Nodes /\ d = child[n]
      BY <1>3, <1>4, <2>1, <2>4
    <3>2. d[1].node \in Nodes /\ d[2].node \in Nodes
      BY <1>2, <3>1 DEF Parts
    <3>3. Literal(U, d[1])' = Literal(T, d[1]) /\ Literal(U, d[2])' = Literal(T, d[2])
      BY <1>12, <3>2
    <3>4. Computed(T, n) = IF isCi[n] THEN {e \in Assignments : n \in e}
                           ELSE IF n = 0 THEN {}
                           ELSE Literal(T, d[1]) \cap Literal(T, d[2])
      BY <3>1 DEF Computed
    <3>5. T[n] = Computed(T, n) /\ U[n] = T[n]
      BY <1>6, <1>10, <3>1
    <3>6. QED
      BY <2>2, <3>3, <3>4, <3>5
  <2>5. QED
    BY <2>3, <2>4
<1>14. promise' = FunctionsOf(U)'
  <2>1. \A i \in DOMAIN outputs : outputs[i].node \in Nodes
    <3>1. outputs \in Seq(NodeSignal)
      BY <1>2 DEF IInv, Allocated
    <3>2. \A i \in DOMAIN outputs : outputs[i] \in NodeSignal
      BY ONLY <3>1
    <3>3. QED
      BY <3>2 DEF NodeSignal
  <2>2. PICK s : s = outputs
    OBVIOUS
  <2>3. promise = [i \in DOMAIN s |-> Literal(T, s[i])]
    BY <1>6, <2>2 DEF FunctionsOf
  <2>4. FunctionsOf(U)' = [i \in DOMAIN s |-> Literal(U, s[i])']
    BY <1>1, <2>2 DEF FunctionsOf, Literal
  <2>5. \A i \in DOMAIN s : Literal(U, s[i])' = Literal(T, s[i])
    BY <1>12, <2>1, <2>2
  <2>6. QED
    BY <2>3, <2>4, <2>5
<1>15. ~isCi'[0]
  BY <1>1 DEF FInv
<1>16. QED
  BY <1>1, <1>11, <1>13, <1>14, <1>15, IdleEnough

-----------------------------------------------------------------------------
(* A substitution starts, and takes its pairs.                             *)

\* The client is promised what the outputs compute when o has the function of
\* s: that table solves all equations but the one of o, and gives s its own
\* function because o is not in its cone.
LEMMA SubstituteFunctions ==
  ASSUME Sound, OInv, FInv, NEW o \in Nodes, NEW s \in Signals,
         FSubstituteNode(o, s)
  PROVE  FInv'
<1>1. /\ pc = "idle" /\ pc' = "pop" /\ UNCHANGED <<size, isCi, child, outputs, renamed>>
      /\ todo' = <<[old |-> o, new |-> s]>> /\ promise' = FunctionsAfter(o, s)
      /\ s.node \in Nodes /\ o \notin Cone(s.node)
  BY DEF FSubstituteNode, SubstituteNode, MaySubstitute, Idle, netVars
<1>2. Parts /\ TypeOK /\ NoCycle(Index, Child) /\ DOMAIN renamed = {}
  BY <1>1, SoundParts, IdlePairs DEF OInv, Order, Parts
<1>3. Tables \in Table /\ \A n \in Nodes : Tables[n] = Computed(Tables, n)
  BY <1>1, IdleTables
<1>4. PICK t : t = Literal(Tables, s)
  OBVIOUS
<1>5. t \in SUBSET Assignments
  BY <1>1, <1>3, <1>4, LiteralType
<1>6. PICK T : T = TablesWith(o, t) /\ Settled(T, o, t)
  BY <1>2, <1>5, TablesSettle DEF Settles
<1>7. T \in Table /\ T[o] = t /\ \A n \in Nodes \ {o} : T[n] = Computed(T, n)
  BY <1>6 DEF Settled
<1>8. T[s.node] = Tables[s.node]
  <2> DEFINE C == Cone(s.node)
  <2>1. /\ s.node \in C /\ s.node \in Index
        /\ \A g \in C : IsGate(g) => FaninNodes(g) \subseteq C
    BY <1>1, <1>2, ConeClosed DEF Parts
  <2>2. C \subseteq Nodes
    BY <1>1, <1>2, ConeLeast DEF Parts
  <2>3. o \notin C
    BY <1>1
  <2> HIDE DEF C
  <2>4. \A n \in C : T[n] = Computed(T, n) /\ Tables[n] = Computed(Tables, n)
    BY <1>3, <1>7, <2>2, <2>3
  <2>5. \A n \in C : T[n] = Tables[n]
    BY <1>2, <1>3, <1>7, <2>1, <2>2, <2>4, OneTable DEF Determined
  <2>6. QED
    BY <2>1, <2>5
<1>9. T[o] = Literal(T, s)
  BY <1>4, <1>7, <1>8 DEF Literal
<1>10. /\ Pairs' = {[old |-> o, new |-> s]} /\ Replacing' = {o} /\ DOMAIN renamed' = {}
  <2>1. Members(<<[old |-> o, new |-> s]>>) = {[old |-> o, new |-> s]}
    BY DEF Members
  <2>2. Pairs' = {[old |-> o, new |-> s]}
    BY <1>1, <2>1 DEF Pairs, Busy, Members
  <2>3. Retired' = {}
    BY <1>1, <1>2 DEF Retired
  <2>4. QED
    BY <1>1, <1>2, <2>2, <2>3 DEF Replacing
<1>11. /\ Nodes' = Nodes /\ T \in Table' /\ \A n : Computed(T, n)' = Computed(T, n)
  BY <1>1, <1>7, SameFunctions
<1>12. \A f : Literal(T, f)' = Literal(T, f)
  BY <1>1, SameFunctions
<1>13. Consistent(T)'
  <2>1. \A n \in Nodes' \ Replacing' : T[n] = Computed(T, n)'
    BY <1>7, <1>10, <1>11
  <2>2. \A p \in Pairs' : T[p.old] = Literal(T, p.new)'
    BY <1>9, <1>10, <1>12
  <2>3. QED
    BY <1>10, <2>1, <2>2 DEF Consistent
<1>14. promise' = FunctionsOf(T)'
  BY <1>1, <1>4, <1>6, <1>12 DEF FunctionsAfter, FunctionsOf
<1>15. ~isCi'[0]
  BY <1>1 DEF FInv
<1>16. QED
  BY <1>11, <1>13, <1>14, <1>15 DEF FInv

\* A pair is taken from the worklist.
LEMMA PopFunctions ==
  ASSUME Sound, OInv, FInv, Pop, promise' = promise
  PROVE  FInv'
<1>1. /\ pc = "pop" /\ pc' \in {"resolve", "begin"} /\ todo # <<>>
      /\ sub' = Head(todo) /\ todo' = Tail(todo)
      /\ UNCHANGED <<size, isCi, child, outputs, renamed>>
  BY DEF Pop, netVars
<1>2. Retired' = Retired /\ ~Busy /\ Busy'
  BY <1>1 DEF Retired, Busy
<1>3. Pairs' = Pairs
  <2>1. todo \in Seq(Substitution)
    BY DEF Sound, AllInv, CInv, IInv, TypeOK
  <2>2. Members(todo) = {Head(todo)} \cup Members(Tail(todo))
    BY <1>1, <2>1, PairsOf
  <2>3. Members(todo)' = Members(Tail(todo))
    BY <1>1 DEF Members
  <2>4. QED
    BY <1>1, <1>2, <2>2, <2>3 DEF Pairs
<1>4. Replacing' = Replacing
  BY <1>2, <1>3 DEF Replacing
<1>5. QED
  BY <1>1, <1>3, <1>4, SameEquations DEF Consistent

\* old_to_new leads to a signal with the same function.
LEMMA FollowFunctions ==
  ASSUME Sound, OInv, FInv, Follow, promise' = promise
  PROVE  FInv'
<1>1. /\ pc = "resolve" /\ pc' = "resolve" /\ sub.new.node \in DOMAIN renamed
      /\ sub' = [sub EXCEPT !.new = Xor(renamed[sub.new.node], @.neg)]
      /\ UNCHANGED <<size, isCi, child, outputs, todo, renamed>>
  BY DEF Follow, netVars
<1>2. /\ sub \in [old : Nodes, new : NodeSignal] /\ renamed[sub.new.node] \in NodeSignal
      /\ Parts /\ NodeSignal \subseteq Signal
  BY <1>1, SoundParts, AllocatedParts DEF Sound, AllInv, CInv, IInv, Allocated
<1> DEFINE n == sub.new.node
           f == renamed[n]
<1>3. /\ sub'.old = sub.old /\ sub'.new = Xor(f, sub.new.neg)
      /\ sub.new.neg \in BOOLEAN /\ n \in Nodes /\ f \in Signal /\ f.node \in Nodes
  BY <1>1, <1>2 DEF NodeSignal
<1>4. Retired' = Retired /\ Busy /\ Busy'
  BY <1>1 DEF Retired, Busy
<1>5. Pairs = Members(todo) \cup {sub} /\ Pairs' = Members(todo) \cup {sub'}
  BY <1>1, <1>4 DEF Pairs, Members
<1>6. Replacing' = Replacing
  <2>1. {p.old : p \in Pairs'} = {p.old : p \in Pairs}
    BY <1>3, <1>5
  <2>2. QED
    BY <1>4, <2>1 DEF Replacing
<1>7. ASSUME NEW T \in Table, Consistent(T)
      PROVE  T[sub'.old] = Literal(T, sub'.new)
  <2>1. T[sub.old] = Literal(T, sub.new) /\ T[n] = Literal(T, f)
    BY <1>1, <1>5, <1>7 DEF Consistent
  <2>2. T[f.node] \subseteq Assignments /\ T[n] \subseteq Assignments
    BY <1>3, <1>7, LiteralType
  <2>3. Literal(T, Xor(f, sub.new.neg))
          = IF sub.new.neg THEN Assignments \ Literal(T, f) ELSE Literal(T, f)
    BY <1>3, <2>2, LiteralXor
  <2>4. Literal(T, sub.new) = IF sub.new.neg THEN Assignments \ T[n] ELSE T[n]
    BY DEF Literal
  <2>5. QED
    BY <1>3, <2>1, <2>3, <2>4
<1>8. QED
  BY <1>1, <1>5, <1>6, <1>7, SameEquations DEF Consistent

\* The loop over the fanouts of _old starts: _old computes what _new does.
LEMMA BeginFunctions ==
  ASSUME Sound, OInv, FInv, Resolved \/ Begin, promise' = promise
  PROVE  FInv'
<1>1. /\ pc \in {"resolve", "begin"} /\ pc' \in {"begin", "scan"}
      /\ UNCHANGED <<size, isCi, child, outputs, todo, sub, renamed>>
  BY DEF Resolved, Begin, netVars
<1>2. Busy /\ Busy' /\ Pairs' = Pairs /\ Retired = DOMAIN renamed
      /\ (Retired' = Retired \/ Retired' = Retired \cup {sub.old})
  BY <1>1 DEF Busy, Pairs, Members, Retired
<1>3. Replacing \subseteq Replacing'
  <2>1. CASE Retired = {}
    <3>1. todo = <<>>
      BY <1>2, <2>1 DEF OInv, Order, Alone
    <3>2. Pairs = {sub}
      BY <1>2, <3>1 DEF Pairs, Members
    <3>3. QED
      BY <1>2, <2>1, <3>2 DEF Replacing
  <2>2. CASE Retired # {}
    BY <1>2, <2>2 DEF Replacing
  <2>3. QED
    BY <2>1, <2>2
<1>4. QED
  BY <1>1, <1>2, <1>3, SameEquations DEF Consistent

-----------------------------------------------------------------------------
(* The fanouts of _old are visited.                                        *)

\* With _new in the place of _old the fanins have the same conjunction.
LEMMA RewiredComputes ==
  ASSUME TypeOK, Parts, NEW T \in Table, T[sub.old] = Literal(T, sub.new),
         NEW g \in Nodes, sub.old \in FaninNodes(g)
  PROVE  Literal(T, Rewired(g)[1]) \cap Literal(T, Rewired(g)[2])
           = Literal(T, child[g][1]) \cap Literal(T, child[g][2])
<1> DEFINE i == IF child[g][1].node = sub.old THEN 1 ELSE 2
           a == child[g][3 - i]
           b == child[g][i]
<1>1. /\ i \in {1, 2} /\ b.node = sub.old
      /\ Literal(T, a) \cap Literal(T, b) = Literal(T, child[g][1]) \cap Literal(T, child[g][2])
  BY DEF FaninNodes
<1>2. Rewired(g) = Ordered(a, Xor(sub.new, b.neg))
  BY DEF Rewired
<1>3. child[g] \in Pair /\ sub.new \in Signal /\ sub.new.node \in Nodes /\ g \in Index
  BY DEF TypeOK, Substitution, Parts
<1>4. b.neg \in BOOLEAN
  BY <1>1, <1>3 DEF Pair, Signal
<1> HIDE DEF a, b, i
<1>5. Literal(T, Xor(sub.new, b.neg)) = Literal(T, b)
  <2>1. T[sub.new.node] \subseteq Assignments /\ T[sub.old] \subseteq Assignments
    BY <1>3, LiteralType DEF Parts, Table
  <2>2. Literal(T, Xor(sub.new, b.neg))
          = IF b.neg THEN Assignments \ Literal(T, sub.new) ELSE Literal(T, sub.new)
    BY <1>3, <1>4, <2>1, LiteralXor
  <2>3. QED
    BY <1>1, <2>2 DEF Literal
<1>6. PICK x : x = Xor(sub.new, b.neg)
  OBVIOUS
<1>7. Literal(T, Ordered(a, x)[1]) \cap Literal(T, Ordered(a, x)[2])
        = Literal(T, a) \cap Literal(T, x)
  BY OrderedComputes
<1>8. QED
  BY <1>1, <1>2, <1>5, <1>6, <1>7

\* What is known of a visit.
LEMMA VisitFunctions ==
  ASSUME Sound, OInv, ~isCi[0], pc = "scan", NEW g \in scan, NEW T \in Table, Consistent(T)
  PROVE  /\ g \in Nodes /\ IsGate(g) /\ g \in Index /\ Rewired(g) \in Pair
         /\ Rewired(g)[1].node \in Nodes /\ Rewired(g)[2].node \in Nodes
         /\ T[g] = Literal(T, Rewired(g)[1]) \cap Literal(T, Rewired(g)[2])
         /\ T[0] = {}
         /\ \A h \in LiveGates \ {sub.old} :
               T[h] = Literal(T, child[h][1]) \cap Literal(T, child[h][2])
<1>1. PICK rep, w : Order(rep, w)
  BY DEF OInv
<1>2. PICK o \in Index, s \in Index, c \in Index : VisitOf(rep, w, g, o, s, c)
  BY <1>1, Visits
<1>3. /\ o = sub.old /\ g \in Nodes /\ IsGate(g) /\ g \notin Retired /\ o \in FaninNodes(g)
      /\ Retired = DOMAIN renamed \cup {o} /\ \A n \in DOMAIN renamed : Dead(n)
  BY <1>2 DEF VisitOf, Child
<1>4. /\ TypeOK /\ Parts /\ g \in Index /\ 0 \in Nodes /\ 0 \notin Retired /\ sub \in Pairs
      /\ Replacing = Retired
  BY <1>3, SoundParts DEF Parts, IsGate, Pairs, Busy, Replacing
<1>5. T[sub.old] = Literal(T, sub.new) /\ \A n \in Nodes \ Retired : T[n] = Computed(T, n)
  BY <1>4 DEF Consistent
<1>6. T[g] = Literal(T, child[g][1]) \cap Literal(T, child[g][2])
  BY <1>3, <1>5 DEF Computed, IsGate
<1>7. T[g] = Literal(T, Rewired(g)[1]) \cap Literal(T, Rewired(g)[2])
  BY <1>3, <1>4, <1>5, <1>6, RewiredComputes
<1>8. T[0] = {}
  BY <1>4, <1>5 DEF Computed
<1>9. ASSUME NEW h \in LiveGates \ {sub.old}
      PROVE  T[h] = Literal(T, child[h][1]) \cap Literal(T, child[h][2])
  <2>1. h \in Nodes \ Retired /\ IsGate(h)
    BY <1>3 DEF LiveGates
  <2>2. QED
    BY <1>5, <2>1 DEF Computed, IsGate
<1>10. Rewired(g) \in Pair /\ Rewired(g)[1].node \in Nodes /\ Rewired(g)[2].node \in Nodes
  <2>1. Rewired(g) \in NodeSignal \X NodeSignal /\ Rewired(g) \in Pair
    BY <1>4, RewiredAllocated, RewiredType DEF Parts
  <2>2. QED
    BY <2>1 DEF NodeSignal
<1>11. QED
  BY <1>3, <1>4, <1>7, <1>8, <1>9, <1>10

\* A trivial conjunction has the function it is reduced to.
LEMMA TrivialComputes ==
  ASSUME NEW T \in Table, T[0] = {}, NEW p \in Pair, IsTrivial(p),
         p[1].node \in Nodes, p[2].node \in Nodes
  PROVE  Literal(T, TrivialAnd(p)) = Literal(T, p[1]) \cap Literal(T, p[2])
<1>1. /\ p[1].neg \in BOOLEAN /\ p[2].neg \in BOOLEAN
      /\ Const0.node = 0 /\ Const0.neg = FALSE
  BY DEF Pair, Signal, Const0
<1>2. /\ T[p[1].node] \subseteq Assignments /\ T[p[2].node] \subseteq Assignments
      /\ Literal(T, p[1]) \subseteq Assignments /\ Literal(T, p[2]) \subseteq Assignments
  BY LiteralType
<1>3. Literal(T, Const0) = {}
  BY <1>1 DEF Literal
<1>4. CASE p[1].node = p[2].node /\ p[1].neg = p[2].neg
  BY <1>4 DEF TrivialAnd, Literal
<1>5. CASE p[1].node = p[2].node /\ p[1].neg # p[2].neg
  <2>1. Literal(T, p[1]) \cap Literal(T, p[2]) = {}
    BY <1>1, <1>5 DEF Literal
  <2>2. TrivialAnd(p) = Const0
    BY <1>5 DEF TrivialAnd
  <2>3. QED
    BY <1>3, <2>1, <2>2
<1>6. CASE p[1].node # p[2].node /\ p[1].node = 0
  <2>1. Literal(T, p[1]) = IF p[1].neg THEN Assignments ELSE {}
    BY <1>6 DEF Literal
  <2>2. TrivialAnd(p) = IF p[1].neg THEN p[2] ELSE Const0
    BY <1>6 DEF TrivialAnd
  <2>3. QED
    BY <1>2, <1>3, <2>1, <2>2
<1>7. QED
  BY <1>4, <1>5, <1>6 DEF IsTrivial

\* g computes the same as what it turns out to be equal to.
LEMMA CollapseFunctions ==
  ASSUME Sound, OInv, FInv, pc = "scan", NEW g \in scan, CollapseNode(g),
         UNCHANGED <<pc, restrash, sub, renamed, calls, promise>>
  PROVE  FInv'
<1> DEFINE q == Rewired(g)
           pair == [old |-> g, new |-> Equal(q)]
<1>1. /\ todo' = <<pair>> \o todo /\ IsEqual(q)
      /\ UNCHANGED <<size, isCi, child, outputs>> /\ ~isCi[0]
  BY DEF CollapseNode, netVars, FInv
<1>2. Busy /\ Busy' /\ Retired' = Retired /\ Retired # {}
  BY DEF Busy, Retired
<1>3. Pairs' = Pairs \cup {pair}
  <2>1. todo \in Seq(Substitution)
    BY DEF Sound, AllInv, CInv, IInv, TypeOK
  <2>2. Members(<<pair>> \o todo) = {pair} \cup Members(todo)
    BY <2>1, PairsPushed
  <2>3. Members(todo)' = Members(<<pair>> \o todo)
    BY <1>1 DEF Members
  <2>4. QED
    BY <1>2, <2>2, <2>3 DEF Pairs
<1>4. Replacing' = Replacing
  BY <1>2 DEF Replacing
<1>5. ASSUME NEW T \in Table, Consistent(T) PROVE T[pair.old] = Literal(T, pair.new)
  <2>1. /\ q \in Pair /\ q[1].node \in Nodes /\ q[2].node \in Nodes /\ T[0] = {}
        /\ T[g] = Literal(T, q[1]) \cap Literal(T, q[2])
        /\ \A h \in LiveGates \ {sub.old} :
              T[h] = Literal(T, child[h][1]) \cap Literal(T, child[h][2])
    BY <1>1, <1>5, VisitFunctions
  <2>2. CASE IsTrivial(q)
    BY <1>5, <2>1, <2>2, TrivialComputes DEF Equal
  <2>3. CASE ~IsTrivial(q)
    <3>1. q \in DOMAIN hash /\ hash[q] # sub.old /\ Equal(q) = [node |-> hash[q], neg |-> FALSE]
      BY <1>1, <2>3 DEF IsEqual, Equal
    <3>2. hash[q] \in LiveGates /\ child[hash[q]] = q
      BY <3>1 DEF HashSound, Sound, AllInv, CInv, IInv
    <3>3. T[hash[q]] = T[g]
      BY <2>1, <3>1, <3>2
    <3>4. Literal(T, Equal(q)) = T[hash[q]]
      BY <3>1 DEF Literal
    <3>5. QED
      BY <3>3, <3>4
  <2>4. QED
    BY <2>2, <2>3
<1> HIDE DEF pair, q
<1>6. QED
  BY <1>1, <1>3, <1>4, <1>5, SameEquations DEF Consistent

\* g computes the same from its new fanins.
LEMMA RestrashFunctions ==
  ASSUME Sound, OInv, FInv, pc = "scan", NEW g \in scan, RestrashNode(g),
         UNCHANGED <<pc, restrash, sub, renamed, calls, promise>>
  PROVE  FInv'
<1>1. child' = [child EXCEPT ![g] = Rewired(g)] /\ UNCHANGED <<size, isCi, outputs, todo>>
  BY DEF RestrashNode
<1>2. PICK T \in Table : Consistent(T) /\ promise = FunctionsOf(T)
  BY DEF FInv
<1>3. /\ g \in Nodes /\ IsGate(g) /\ g \in Index /\ ~isCi[0]
      /\ T[g] = Literal(T, Rewired(g)[1]) \cap Literal(T, Rewired(g)[2])
  BY <1>2, VisitFunctions DEF FInv
<1>4. child'[g] = Rewired(g) /\ \A n \in Index \ {g} : child'[n] = child[n]
  BY <1>1, <1>3 DEF Sound, AllInv, CInv, IInv, TypeOK
<1>5. /\ Nodes' = Nodes /\ Assignments' = Assignments /\ Table' = Table /\ Nodes \subseteq Index
  BY <1>1, SoundParts DEF Nodes, Assignments, Inputs, Table, Parts
<1>6. \A f : Literal(T, f)' = Literal(T, f)
  BY <1>5 DEF Literal
<1>7. /\ Retired' = Retired /\ Pairs' = Pairs /\ Replacing' = Replacing
  BY <1>1 DEF Retired, Pairs, Members, Busy, Replacing
<1>8. ASSUME NEW n \in Nodes \ Replacing PROVE T[n] = Computed(T, n)'
  <2>1. CASE n = g
    <3>1. Computed(T, g)' = Literal(T, child'[g][1]) \cap Literal(T, child'[g][2])
      BY <1>1, <1>3, <1>5 DEF Computed, Literal, IsGate
    <3>2. QED
      BY <1>3, <1>4, <2>1, <3>1
  <2>2. CASE n # g
    <3>1. child'[n] = child[n]
      BY <1>4, <1>5, <2>2
    <3>2. Computed(T, n)' = Computed(T, n)
      BY <1>1, <1>5, <3>1 DEF Computed, Literal
    <3>3. QED
      BY <1>2, <3>2 DEF Consistent
  <2>3. QED
    BY <2>1, <2>2
<1>9. Consistent(T)'
  BY <1>2, <1>5, <1>6, <1>7, <1>8 DEF Consistent
<1>10. promise' = FunctionsOf(T)'
  BY <1>1, <1>2, <1>6 DEF FunctionsOf
<1>11. QED
  BY <1>1, <1>2, <1>3, <1>5, <1>9, <1>10 DEF FInv

-----------------------------------------------------------------------------
(* A pair is finished, and the substitution returns.                       *)

\* The outputs that follow _old keep their functions.
LEMMA FinishFunctions ==
  ASSUME Sound, OInv, FInv, FinishPair, promise' = promise
  PROVE  FInv'
<1>1. /\ pc = "scan" /\ pc' = "pop" /\ UNCHANGED <<size, isCi, child, todo, sub>>
      /\ outputs' = RedirectedOutputs
  BY DEF FinishPair
<1>2. /\ sub.new.node # sub.old
      /\ renamed' = renamed \/ renamed' = Insert(renamed, sub.old, sub.new)
      /\ sub.old \in DOMAIN renamed'
  BY <1>1, OrderedNotSelf DEF FinishPair, NotSelf, Sound, Hashed, Insert
<1>3. /\ Retired' = Retired /\ Retired # {} /\ Pairs' \subseteq Pairs /\ sub \in Pairs
      /\ Replacing' = Replacing
  <2>1. Retired' = Retired /\ Retired # {}
    BY <1>1, <1>2 DEF Retired, Insert
  <2>2. Pairs' \subseteq Pairs /\ sub \in Pairs
    BY <1>1 DEF Pairs, Members, Busy
  <2>3. QED
    BY <2>1, <2>2 DEF Replacing
<1>4. PICK T \in Table : Consistent(T) /\ promise = FunctionsOf(T)
  BY DEF FInv
<1>5. /\ Nodes' = Nodes /\ Table' = Table
      /\ \A f : Literal(T, f)' = Literal(T, f)
      /\ \A n : Computed(T, n)' = Computed(T, n)
  BY <1>1, SameFunctions
<1>6. T[sub.old] = Literal(T, sub.new)
  BY <1>3, <1>4 DEF Consistent
<1>7. Consistent(T)'
  <2>1. \A n \in Nodes' \ Replacing' : T[n] = Computed(T, n)'
    BY <1>3, <1>4, <1>5 DEF Consistent
  <2>2. \A p \in Pairs' : T[p.old] = Literal(T, p.new)'
    BY <1>3, <1>4, <1>5 DEF Consistent
  <2>3. \A n \in DOMAIN renamed' : T[n] = Literal(T, renamed'[n])
    <3>1. \A n \in DOMAIN renamed : T[n] = Literal(T, renamed[n])
      BY <1>4 DEF Consistent
    <3>2. QED
      BY <1>2, <1>6, <3>1 DEF Insert
  <2>4. QED
    BY <1>5, <2>1, <2>2, <2>3 DEF Consistent
<1>8. ASSUME NEW i \in DOMAIN outputs
      PROVE  Literal(T, RedirectedOutputs[i]) = Literal(T, outputs[i])
  <2>1. RedirectedOutputs[i] = IF ~Dead(sub.old) /\ outputs[i].node = sub.old
                               THEN Xor(sub.new, outputs[i].neg) ELSE outputs[i]
    BY DEF RedirectedOutputs
  <2>2. CASE ~Dead(sub.old) /\ outputs[i].node = sub.old
    <3>1. sub.new \in Signal /\ sub.new.node \in Nodes /\ sub.old \in Nodes
      BY SoundParts DEF Parts, TypeOK, Substitution
    <3>2. T[sub.new.node] \subseteq Assignments /\ T[sub.old] \subseteq Assignments
      BY <3>1, LiteralType DEF Table
    <3>3. outputs[i].neg \in BOOLEAN
      <4>1. outputs \in Seq(Signal)
        BY DEF Sound, AllInv, CInv, IInv, TypeOK
      <4>2. outputs[i] \in Signal
        BY <4>1
      <4>3. QED
        BY <4>2 DEF Signal
    <3>4. Literal(T, Xor(sub.new, outputs[i].neg))
            = IF outputs[i].neg THEN Assignments \ Literal(T, sub.new) ELSE Literal(T, sub.new)
      BY <3>1, <3>2, <3>3, LiteralXor
    <3>5. QED
      BY <1>6, <2>1, <2>2, <3>4 DEF Literal
  <2>3. QED
    BY <2>1, <2>2
<1>9. promise' = FunctionsOf(T)'
  <2>1. FunctionsOf(T)' = [i \in DOMAIN outputs' |-> Literal(T, outputs'[i])]
    BY <1>5 DEF FunctionsOf
  <2>2. DOMAIN outputs' = DOMAIN outputs
    BY <1>1 DEF RedirectedOutputs
  <2>3. \A i \in DOMAIN outputs : Literal(T, outputs'[i]) = Literal(T, outputs[i])
    BY <1>1, <1>8
  <2>4. QED
    BY <1>4, <2>1, <2>2, <2>3 DEF FunctionsOf
<1>10. ~isCi'[0]
  BY <1>1 DEF FInv
<1>11. QED
  BY <1>4, <1>5, <1>7, <1>9, <1>10 DEF FInv

\* When the worklist is empty no live gate refers to a dead one: on what is
\* alive there is only one table, and the outputs are alive.
LEMMA ReturnFunctions ==
  ASSUME Sound, OInv, FInv, Sound', OInv', Return, promise' = promise
  PROVE  FInv'
<1>1. /\ pc = "pop" /\ calls = <<>> /\ todo = <<>> /\ pc' = "idle"
      /\ UNCHANGED <<size, isCi, child, outputs>>
  BY DEF Return, netVars
<1>2. /\ Parts /\ NoCycle(Index, Child) /\ ~isCi[0] /\ DeadFaninPending /\ OutputsLive /\ Buried
  BY SoundParts DEF OInv, Order, FInv, Sound, AllInv, DInv
<1>3. PICK T \in Table : Consistent(T) /\ promise = FunctionsOf(T)
  BY DEF FInv
<1>4. PICK U : /\ U = Tables /\ U \in Table
               /\ \A n \in Nodes : U[n] = Computed(U, n)
  BY <1>2, TablesOnly DEF OnlyTables
<1> DEFINE S == {n \in Nodes : ~IsGate(n) \/ ~Dead(n)}
<1>5. ASSUME NEW g \in S, IsGate(g) PROVE FaninNodes(g) \subseteq S
  <2>1. g \in LiveGates /\ FaninNodes(g) \subseteq Nodes
    BY <1>2, <1>5 DEF LiveGates, Parts
  <2>2. \A c \in FaninNodes(g) : ~Dead(c)
    BY <1>1, <1>2, <2>1 DEF DeadFaninPending
  <2>3. QED
    BY <2>1, <2>2
<1>6. \A n \in S : n \in Nodes \ Replacing
  <2>1. Pairs = {} /\ Retired = DOMAIN renamed
    BY <1>1 DEF Pairs, Members, Busy, Retired
  <2>2. Replacing = DOMAIN renamed
    BY <2>1 DEF Replacing
  <2>3. \A n \in DOMAIN renamed : IsGate(n) /\ Dead(n)
    BY <1>1, <1>2 DEF Buried
  <2>4. QED
    BY <2>2, <2>3
<1>7. \A n \in S : T[n] = Computed(T, n) /\ U[n] = Computed(U, n)
  BY <1>3, <1>4, <1>6 DEF Consistent
<1>8. \A n \in S : T[n] = U[n]
  <2>1. S \in SUBSET Nodes
    OBVIOUS
  <2> HIDE DEF S
  <2>2. QED
    BY <1>2, <1>3, <1>4, <1>5, <1>7, <2>1, OneTable DEF Determined
<1>9. \A i \in DOMAIN outputs : Literal(T, outputs[i]) = Literal(U, outputs[i])
  <2>1. outputs \in Seq(NodeSignal)
    BY <1>2 DEF Parts, IInv, Allocated
  <2>2. \A i \in DOMAIN outputs : outputs[i] \in NodeSignal
    BY ONLY <2>1
  <2>3. \A i \in DOMAIN outputs : outputs[i].node \in S
    BY <1>2, <2>2 DEF NodeSignal, OutputsLive
  <2> HIDE DEF S
  <2>4. QED
    BY <1>8, <2>3 DEF Literal
<1>10. promise = FunctionsOf(U)
  BY <1>3, <1>9 DEF FunctionsOf
<1>11. /\ Nodes' = Nodes /\ Table' = Table
       /\ \A f : Literal(U, f)' = Literal(U, f)
       /\ \A n : Computed(U, n)' = Computed(U, n)
  BY <1>1, SameFunctions
<1>12. promise' = FunctionsOf(U)'
  BY <1>1, <1>10, <1>11 DEF FunctionsOf
<1>13. ~isCi'[0]
  BY <1>1, <1>2
<1>14. QED
  BY <1>1, <1>4, <1>11, <1>12, <1>13, IdleEnough

-----------------------------------------------------------------------------
(* The theorem.                                                            *)

\* The initial network has no outputs.
LEMMA InitFunctions ==
  ASSUME FInit, Sound, OInv
  PROVE  FInv
<1>1. /\ pc = "idle" /\ outputs = <<>> /\ promise = <<>> /\ isCi = [n \in Index |-> FALSE]
  BY DEF FInit, Init
<1>2. Parts /\ NoCycle(Index, Child) /\ Pairs = {} /\ Replacing = {} /\ DOMAIN renamed = {}
  BY <1>1, SoundParts, IdlePairs DEF OInv, Order
<1>3. ~isCi[0]
  BY <1>1, <1>2 DEF Parts
<1>4. Tables \in Table /\ \A n \in Nodes : Tables[n] = Computed(Tables, n)
  BY <1>2, <1>3, TablesOnly DEF OnlyTables
<1>5. promise = FunctionsOf(Tables)
  BY <1>1 DEF FunctionsOf
<1>6. Consistent(Tables)
  BY <1>2, <1>4 DEF Consistent
<1>7. QED
  BY <1>3, <1>4, <1>5, <1>6 DEF FInv

\* Every step keeps the equations.
LEMMA FunctionsStep ==
  ASSUME Sound, OInv, FInv, Sound', OInv', [FNext]_<<vars, promise>>
  PROVE  FInv'
<1>1. CASE FBuild
  BY <1>1, CreatePiFunctions, CreatePoFunctions, CreateAndFunctions DEF FBuild
<1>2. ASSUME UNCHANGED <<size, isCi, child, outputs, pc, todo, sub, renamed, promise>>
      PROVE  FInv'
  <2>1. Pairs' = Pairs /\ Replacing' = Replacing
    BY <1>2 DEF Pairs, Members, Busy, Replacing, Retired
  <2>2. QED
    BY <1>2, <2>1, SameEquations DEF Consistent
<1>3. CASE (\E n \in Nodes : TakeOut(n)) /\ UNCHANGED promise
  BY <1>2, <1>3 DEF TakeOut, netVars, ctlVars
<1>4. CASE \E o \in Nodes, s \in Signals : FSubstituteNode(o, s)
  BY <1>4, SubstituteFunctions
<1>5. CASE Unwind /\ UNCHANGED promise
  BY <1>2, <1>5, UnwindFrame DEF ctlVars
<1>6. CASE Substitute /\ UNCHANGED promise
  <2>1. CASE Return \/ Pop \/ Follow \/ Resolved \/ Begin \/ FinishPair
    BY <1>6, <2>1, ReturnFunctions, PopFunctions, FollowFunctions, BeginFunctions, FinishFunctions
  <2>2. CASE Visit
    <3>1. PICK g \in scan : ReplaceInNode(g)
      BY <2>2 DEF Visit
    <3>2. pc = "scan" /\ UNCHANGED <<pc, restrash, sub, renamed, calls, promise>> /\ restrash
      BY <1>6, <2>2 DEF Visit, Sound, Hashed
    <3>3. QED
      BY <3>1, <3>2, CollapseFunctions, RestrashFunctions DEF ReplaceInNode, RewireNode
  <2>3. QED
    BY <1>6, <2>1, <2>2 DEF Substitute
<1>7. CASE UNCHANGED <<vars, promise>>
  BY <1>2, <1>7 DEF vars, netVars, ctlVars
<1>8. QED
  BY <1>1, <1>3, <1>4, <1>5, <1>6, <1>7 DEF FNext, FRun

\* The clients of FSpec are those of Spec.
LEMMA FunctionsSpec == FSpec => Spec
<1>1. FInit => Init
  BY DEF FInit
<1>2. [FNext]_<<vars, promise>> => [Next]_vars
  BY DEF FNext, FBuild, FCreatePi, FCreatePo, FSubstituteNode, FRun, Next, Build
<1>3. QED
  BY <1>1, <1>2, PTL DEF FSpec, Spec

\* Substituting a gate by a signal gives every output the function it had with
\* that signal in the place of the gate, and changes nothing else, however far
\* the substitution cascades, through hash hits, chains of old_to_new and
\* revived nodes: as long as clients replace gates only, the counts have room
\* and no substitution revives a node that it has replaced.
THEOREM SubstitutionKeepsOutputs ==
  FSpec /\ OldInputs = {} /\ Room /\ ReplacedStaysDead => []OutputsKept
<1>1. Sound /\ OInv /\ FInit => FInv
  BY InitFunctions
<1>2. (Sound /\ OInv) /\ (Sound /\ OInv)' /\ FInv /\ [FNext]_<<vars, promise>> => FInv'
  BY FunctionsStep
<1>3. Sound /\ OInv /\ FInv => OutputsKept
  BY IdleTables DEF OutputsKept, Idle
<1>4. QED
  BY <1>1, <1>2, <1>3, FunctionsSpec, OrderKept, PTL DEF FSpec
=============================================================================
