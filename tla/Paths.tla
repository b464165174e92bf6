------------------------------- MODULE Paths -------------------------------
(***************************************************************************)
(* Reachability in a directed graph, by closed sets: what a proof needs to  *)
(* follow references without recursion.  A graph is a set E of pairs of     *)
(* vertices in V.                                                           *)
(***************************************************************************)
EXTENDS WellFoundedInduction, TLAPS

\* No edge leads out of S.
Closed(V, E, S) == \A x, y \in V : x \in S /\ <<x, y>> \in E => y \in S

\* What is in every closed set that contains x: what paths from x lead to.
Reach(V, E, x) ==
  {y \in V : \A S \in SUBSET V : x \in S /\ Closed(V, E, S) => y \in S}

NoCycle(V, E) == \A x, y \in V : <<x, y>> \in E => x \notin Reach(V, E, y)

\* Reach is the least closed set that contains the vertex.
LEMMA ReachLeast ==
  ASSUME NEW V, NEW E, NEW x \in V, NEW S \in SUBSET V, x \in S, Closed(V, E, S)
  PROVE  Reach(V, E, x) \subseteq S
  BY DEF Reach

\* It contains the vertex and is closed.
LEMMA ReachClosed ==
  ASSUME NEW V, NEW E, NEW x \in V
  PROVE  /\ x \in Reach(V, E, x) /\ Reach(V, E, x) \in SUBSET V
         /\ Closed(V, E, Reach(V, E, x))
<1>1. x \in Reach(V, E, x) /\ Reach(V, E, x) \in SUBSET V
  BY DEF Reach
<1>2. ASSUME NEW y \in V, NEW z \in V, y \in Reach(V, E, x), <<y, z>> \in E
      PROVE  z \in Reach(V, E, x)
  <2>1. ASSUME NEW S \in SUBSET V, x \in S, Closed(V, E, S) PROVE z \in S
    <3>1. y \in S
      BY <1>2, <2>1, ReachLeast
    <3>2. QED
      BY <1>2, <2>1, <3>1 DEF Closed
  <2>2. QED
    BY <2>1 DEF Reach
<1>3. QED
  BY <1>1, <1>2 DEF Closed

\* An edge is a path.
LEMMA ReachEdge ==
  ASSUME NEW V, NEW E, NEW x \in V, NEW y \in V, NEW z \in V,
         y \in Reach(V, E, x), <<y, z>> \in E
  PROVE  z \in Reach(V, E, x)
  BY ReachClosed DEF Closed

\* Paths can be joined.
LEMMA ReachTrans ==
  ASSUME NEW V, NEW E, NEW x \in V, NEW y \in Reach(V, E, x)
  PROVE  Reach(V, E, y) \subseteq Reach(V, E, x)
<1>1. y \in V
  BY DEF Reach
<1>2. QED
  BY <1>1, ReachClosed, ReachLeast

\* More edges lead further.
LEMMA ReachGrows ==
  ASSUME NEW V, NEW E, NEW F, NEW x \in V,
         \A y, z \in V : <<y, z>> \in E => <<y, z>> \in F
  PROVE  Reach(V, E, x) \subseteq Reach(V, F, x)
<1>1. Closed(V, E, Reach(V, F, x))
  BY ReachClosed DEF Closed
<1>2. QED
  BY <1>1, ReachClosed, ReachLeast

\* A graph whose edges follow paths of another one has no cycle that the
\* other one has not.
LEMMA ImpliedEdges ==
  ASSUME NEW V, NEW E, NEW F, NoCycle(V, E),
         \A x, y \in V : <<x, y>> \in F =>
            \E z \in V : <<x, z>> \in E /\ y \in Reach(V, E, z)
  PROVE  NoCycle(V, F)
<1>1. ASSUME NEW x \in V PROVE Closed(V, F, Reach(V, E, x))
  <2> SUFFICES ASSUME NEW y \in V, NEW u \in V, y \in Reach(V, E, x), <<y, u>> \in F
               PROVE  u \in Reach(V, E, x)
    BY DEF Closed
  <2>1. PICK z \in V : <<y, z>> \in E /\ u \in Reach(V, E, z)
    OBVIOUS
  <2>2. z \in Reach(V, E, x)
    BY <2>1, ReachEdge
  <2>3. QED
    BY <2>1, <2>2, ReachTrans
<1>2. ASSUME NEW x \in V, NEW y \in V, <<x, y>> \in F, x \in Reach(V, F, y)
      PROVE  FALSE
  <2>1. PICK z \in V : <<x, z>> \in E /\ y \in Reach(V, E, z)
    BY <1>2
  <2>2. x \in Reach(V, E, y)
    BY <1>1, <1>2, ReachClosed, ReachLeast
  <2>3. x \in Reach(V, E, z)
    BY <2>1, <2>2, ReachTrans
  <2>4. QED
    BY <2>1, <2>3 DEF NoCycle
<1>3. QED
  BY <1>2 DEF NoCycle

\* Fewer edges close no cycle.
LEMMA FewerEdges ==
  ASSUME NEW V, NEW E, NEW F, NoCycle(V, E),
         \A x, y \in V : <<x, y>> \in F => <<x, y>> \in E
  PROVE  NoCycle(V, F)
<1>1. \A x, y \in V : <<x, y>> \in F =>
        \E z \in V : <<x, z>> \in E /\ y \in Reach(V, E, z)
  BY ReachClosed
<1>2. QED
  BY <1>1, ImpliedEdges

\* An edge closes no cycle if no path leads from its head to its tail.
LEMMA NewEdge ==
  ASSUME NEW V, NEW E, NEW F, NoCycle(V, E),
         NEW u \in V, NEW v \in V, u \notin Reach(V, E, v),
         \A x, y \in V : <<x, y>> \in F => <<x, y>> \in E \/ (x = u /\ y = v)
  PROVE  NoCycle(V, F)
<1> SUFFICES ASSUME NEW x \in V, NEW y \in V, <<x, y>> \in F, x \in Reach(V, F, y)
             PROVE  FALSE
  BY DEF NoCycle
<1>1. ASSUME NEW S \in SUBSET V, Closed(V, E, S), u \in S => v \in S
      PROVE  Closed(V, F, S)
  BY <1>1 DEF Closed
<1>2. CASE x = u /\ y = v
  <2>1. Closed(V, F, Reach(V, E, v))
    BY <1>1, ReachClosed
  <2>2. QED
    BY <1>2, <2>1, ReachClosed, ReachLeast
<1>3. CASE <<x, y>> \in E
  <2> DEFINE S == Reach(V, E, y) \cup Reach(V, E, v)
  <2>1. x \notin Reach(V, E, y)
    BY <1>3 DEF NoCycle
  <2>2. u \in Reach(V, E, y)
    <3> SUFFICES ASSUME u \notin Reach(V, E, y) PROVE FALSE
      OBVIOUS
    <3>1. Closed(V, F, Reach(V, E, y))
      BY <1>1, ReachClosed
    <3>2. QED
      BY <2>1, <3>1, ReachClosed, ReachLeast
  <2>3. S \in SUBSET V /\ y \in S /\ v \in S /\ Closed(V, E, S)
    BY ReachClosed DEF Closed
  <2>4. x \in S
    <3>1. Closed(V, F, S)
      BY <1>1, <2>3
    <3>2. QED
      BY <2>3, <3>1, ReachLeast
  <2>5. x \in Reach(V, E, v)
    BY <2>1, <2>4
  <2>6. y \in Reach(V, E, v)
    BY <1>3, <2>5, ReachEdge
  <2>7. QED
    BY <2>2, <2>6, ReachTrans
<1>4. QED
  BY <1>2, <1>3

\* Edges from a vertex that no edge leads to close no cycle.
LEMMA NewSource ==
  ASSUME NEW V, NEW E, NEW F, NoCycle(V, E), NEW u \in V,
         \A x, y \in V : <<x, y>> \in F => (<<x, y>> \in E \/ x = u) /\ y # u
  PROVE  NoCycle(V, F)
<1> SUFFICES ASSUME NEW x \in V, NEW y \in V, <<x, y>> \in F, x \in Reach(V, F, y)
             PROVE  FALSE
  BY DEF NoCycle
<1>1. CASE x = u
  <2> DEFINE S == V \ {u}
  <2>1. S \in SUBSET V /\ y \in S /\ Closed(V, F, S)
    BY DEF Closed
  <2>2. QED
    BY <1>1, <2>1, ReachLeast
<1>2. CASE x # u
  <2> DEFINE S == Reach(V, E, y) \ {u}
  <2>1. <<x, y>> \in E /\ x \notin Reach(V, E, y)
    BY <1>2 DEF NoCycle
  <2>2. S \in SUBSET V /\ y \in S /\ Closed(V, F, S)
    BY ReachClosed DEF Closed
  <2>3. x \in S
    BY <2>2, ReachLeast
  <2>4. QED
    BY <2>1, <2>3
<1>3. QED
  BY <1>1, <1>2

-----------------------------------------------------------------------------
(* Numbers.                                                                *)

\* Induction: a set with 0 that has with every number the next one.
LEMMA AllNumbers ==
  ASSUME NEW T, 0 \in T, \A k \in Nat : k \in T => k + 1 \in T
  PROVE  Nat \subseteq T
<1> SUFFICES ASSUME Nat \ T # {} PROVE FALSE
  OBVIOUS
<1>1. PICK k \in Nat \ T : \A j \in Nat \ T : ~(j < k)
  <2>1. IsWellFoundedOn(OpToRel(<, Nat), Nat)
    BY NatLessThanWellFounded
  <2>2. \E k \in Nat \ T : \A j \in Nat \ T : <<j, k>> \notin OpToRel(<, Nat)
    BY <2>1, WFMin, Nat \ T \subseteq Nat
  <2>3. QED
    BY <2>2 DEF OpToRel
<1>2. k - 1 \in Nat /\ k - 1 < k /\ (k - 1) + 1 = k
  BY <1>1
<1>3. QED
  BY <1>1, <1>2
=============================================================================
