--------------------------- MODULE RankViewProof ---------------------------
(***************************************************************************)
(* Proof that every view has exact levels, and every node at the position   *)
(* it says, for any number of views and nodes.                              *)
(***************************************************************************)
EXTENDS RankView, Paths, FiniteSetTheorems, SequenceTheorems

-----------------------------------------------------------------------------
(* What the views have.                                                    *)

\* The ranks and positions of nodes 1 to k, which are at the levels h.
Places(h, k, pos, rs) ==
  /\ k \in Nat /\ k <= Len(h) /\ h \in Seq(Nat)
  /\ pos \in Seq(Nat) /\ k <= Len(pos)
  /\ rs \in Seq(Seq(Nat))
  /\ \A n \in 1 .. k : /\ h[n] + 1 \in 1 .. Len(rs)
                       /\ pos[n] + 1 \in 1 .. Len(rs[h[n] + 1])
                       /\ rs[h[n] + 1][pos[n] + 1] = n
  /\ \A i \in 1 .. Len(rs) : \A j \in 1 .. Len(rs[i]) :
        rs[i][j] \in 1 .. k /\ h[rs[i][j]] + 1 = i /\ pos[rs[i][j]] + 1 = j

\* w is the width of the widest rank.
Widest(rs, w) ==
  /\ w \in Nat
  /\ \A i \in 1 .. Len(rs) : Len(rs[i]) <= w
  /\ w = 0 \/ \E i \in 1 .. Len(rs) : Len(rs[i]) = w

\* The fanins of a node are older.
WellBuilt(F) ==
  /\ F \in Seq(SUBSET Nat)
  /\ \A n \in 1 .. Len(F) : F[n] \subseteq 1 .. n - 1

\* The handlers are those of the views that exist, one of each.
Handlers(list, views) ==
  /\ list \in Seq(views)
  /\ \A v \in views : \E i \in DOMAIN list : list[i] = v
  /\ \A i, j \in DOMAIN list : list[i] = list[j] => i = j

\* The highest level of the nodes in S.
Deepest(h, S) == Highest({h[n] : n \in S})

RTypes ==
  /\ live \subseteq Views
  /\ levelMap \in [Views -> Data] /\ posMap \in [Views -> Data]
  /\ levels \in [Data -> Seq(Nat)] /\ positions \in [Data -> Seq(Nat)]
  /\ ranks \in [Views -> Seq(Seq(Nat))]
  /\ depth \in [Views -> Nat] /\ width \in [Views -> Nat]

\* What a view knows of the levels h and the outputs o: the levels and depth
\* it has, the positions, the ranks and their width.
Exact(h, o, lv, dp, ps, rs, w) ==
  /\ lv = h
  /\ dp = Deepest(h, o)
  /\ Len(ps) = Len(h)
  /\ Places(h, Len(h), ps, rs)
  /\ Widest(rs, w)

\* Views that share positions have the same ranks.
SharedAlike == \A v, w \in live : posMap[v] = posMap[w] => ranks[v] = ranks[w]

ViewIsExact(v) ==
  Exact(Heights, outs, levels[levelMap[v]], depth[v], positions[posMap[v]], ranks[v], width[v])

RInv ==
  /\ WellBuilt(fanins) /\ outs \subseteq Nodes
  /\ RTypes
  /\ Handlers(handlers, live)
  /\ \A v \in live : ViewIsExact(v)
  /\ SharedAlike

-----------------------------------------------------------------------------
(* Highest values.                                                         *)

\* A bounded set of numbers has a highest one.
LEMMA MaxExists ==
  ASSUME NEW S \in SUBSET Nat, S # {}, NEW b \in Nat, \A x \in S : x <= b
  PROVE  Max(S) \in S /\ \A y \in S : y <= Max(S)
<1> DEFINE T == {j \in Nat : \A R \in SUBSET Nat : R # {} /\ (\A x \in R : x <= j) =>
                   \E m \in R : \A y \in R : y <= m}
<1>1. 0 \in T
  <2>1. ASSUME NEW R \in SUBSET Nat, R # {}, \A x \in R : x <= 0
        PROVE  \E m \in R : \A y \in R : y <= m
    <3>1. \A x \in R : x = 0
      BY <2>1
    <3>2. QED
      BY <2>1, <3>1
  <2>2. QED
    BY <2>1
<1>2. ASSUME NEW j \in Nat, j \in T PROVE j + 1 \in T
  <2>1. ASSUME NEW R \in SUBSET Nat, R # {}, \A x \in R : x <= j + 1
        PROVE  \E m \in R : \A y \in R : y <= m
    <3>1. CASE j + 1 \in R
      BY <2>1, <3>1
    <3>2. CASE j + 1 \notin R
      <4>1. \A x \in R : x <= j
        BY <2>1, <3>2
      <4>2. QED
        BY <1>2, <2>1, <4>1
    <3>3. QED
      BY <3>1, <3>2
  <2>2. QED
    BY <2>1
<1>3. b \in T
  <2> HIDE DEF T
  <2>1. Nat \subseteq T
    BY <1>1, <1>2, AllNumbers
  <2>2. QED
    BY <2>1
<1>4. \E m \in S : \A y \in S : m >= y
  <2>1. \E m \in S : \A y \in S : y <= m
    BY <1>3
  <2>2. \A m, y \in Nat : y <= m => m >= y
    OBVIOUS
  <2>3. QED
    BY <2>1, <2>2
<1>5. Max(S) \in S /\ \A y \in S : Max(S) >= y
  BY <1>4 DEF Max
<1>6. \A m, y \in Nat : m >= y => y <= m
  OBVIOUS
<1>7. QED
  BY <1>5, <1>6

\* The higher of two.
LEMMA MaxOfTwo ==
  ASSUME NEW a \in Nat, NEW b \in Nat
  PROVE  Max({a, b}) = IF a >= b THEN a ELSE b
<1>1. \A x \in {a, b} : x <= a + b
  OBVIOUS
<1>2. a + b \in Nat /\ {a, b} \in SUBSET Nat /\ {a, b} # {}
  OBVIOUS
<1>3. Max({a, b}) \in {a, b} /\ \A y \in {a, b} : y <= Max({a, b})
  BY ONLY <1>1, <1>2, MaxExists
<1>4. QED
  BY <1>3

\* The highest number, or 0.
LEMMA HighestBounds ==
  ASSUME NEW S \in SUBSET Nat, NEW b \in Nat, \A x \in S : x <= b
  PROVE  /\ Highest(S) \in Nat /\ Highest(S) \in S \cup {0}
         /\ \A y \in S : y <= Highest(S)
<1>1. S \cup {0} \in SUBSET Nat /\ S \cup {0} # {} /\ \A x \in S \cup {0} : x <= b
  OBVIOUS
<1>2. Max(S \cup {0}) \in S \cup {0} /\ \A y \in S \cup {0} : y <= Max(S \cup {0})
  BY ONLY b \in Nat, <1>1, MaxExists
<1>3. QED
  BY <1>1, <1>2 DEF Highest

\* There is only one.
LEMMA HighestUnique ==
  ASSUME NEW S \in SUBSET Nat, NEW w \in Nat, \A x \in S : x <= w, w \in S \cup {0}
  PROVE  Highest(S) = w
<1>1. /\ Highest(S) \in Nat /\ Highest(S) \in S \cup {0}
      /\ \A y \in S : y <= Highest(S)
  BY HighestBounds
<1>2. QED
  BY <1>1

-----------------------------------------------------------------------------
(* Levels.                                                                 *)

\* The level of a node whose fanins are c, from those of its fanins.
LevelOver(h, c) == IF c = {} THEN 0 ELSE 1 + Max({h[m] : m \in c})

\* The rounds of Heights.
IsLevels(u, F, last) ==
  u = [k \in 0 .. last |-> IF k = 0 THEN <<>>
                           ELSE Append(u[k - 1], LevelOver(u[k - 1], F[k]))]

\* The recursion is well founded.
LEMMA LevelsExist ==
  ASSUME NEW F, NEW last \in Nat
  PROVE  \E u : IsLevels(u, F, last)
<1> DEFINE T == {j \in Nat : \E c : IsLevels(c, F, j)}
<1>1. 0 \in T
  <2>1. IsLevels([k \in 0 .. 0 |-> <<>>], F, 0)
    BY DEF IsLevels
  <2>2. QED
    BY <2>1
<1>2. ASSUME NEW j \in Nat, j \in T PROVE j + 1 \in T
  <2>1. PICK c : IsLevels(c, F, j)
    BY <1>2
  <2> DEFINE next(l, k) == Append(l, LevelOver(l, F[k]))
             d == [k \in 0 .. j + 1 |-> IF k = j + 1 THEN next(c[j], j + 1) ELSE c[k]]
             e == [k \in 0 .. j + 1 |-> IF k = 0 THEN <<>> ELSE next(d[k - 1], k)]
  <2>0. c = [k \in 0 .. j |-> IF k = 0 THEN <<>> ELSE next(c[k - 1], k)]
    BY <2>1 DEF IsLevels
  <2>01. IsLevels(d, F, j + 1) <=> d = e
    BY DEF IsLevels
  <2> HIDE DEF next
  <2>2. ASSUME NEW k \in 0 .. j + 1 PROVE d[k] = e[k]
    <3>1. CASE k = j + 1
      BY <3>1
    <3>2. CASE k = 0
      <4>1. d[k] = c[0] /\ c[0] = <<>>
        BY <3>2, <2>0
      <4>2. QED
        BY <3>2, <4>1
    <3>3. CASE k \in 1 .. j
      <4>1. d[k] = c[k] /\ d[k - 1] = c[k - 1] /\ k \in 0 .. j /\ k # 0
        BY <3>3
      <4>2. c[k] = next(c[k - 1], k)
        BY <2>0, <4>1
      <4>3. QED
        BY <4>1, <4>2
    <3>4. QED
      BY <3>1, <3>2, <3>3
  <2>3. d = e
    BY <2>2
  <2>4. QED
    BY <2>3, <2>01
<1>3. last \in T
  <2> HIDE DEF T
  <2>1. Nat \subseteq T
    BY <1>1, <1>2, AllNumbers
  <2>2. QED
    BY <2>1
<1>4. QED
  BY <1>3

\* One level at a time.
LEMMA LevelsUnfold ==
  ASSUME NEW F, NEW last \in Nat, NEW u, IsLevels(u, F, last)
  PROVE  /\ u[0] = <<>>
         /\ \A k \in 0 .. last - 1 : u[k + 1] = Append(u[k], LevelOver(u[k], F[k + 1]))
<1>1. u = [k \in 0 .. last |-> IF k = 0 THEN <<>>
                               ELSE Append(u[k - 1], LevelOver(u[k - 1], F[k]))]
  BY DEF IsLevels
<1>2. u[0] = <<>>
  BY <1>1
<1>3. ASSUME NEW k \in 0 .. last - 1
      PROVE  u[k + 1] = Append(u[k], LevelOver(u[k], F[k + 1]))
  <2>1. k + 1 \in 0 .. last /\ k + 1 # 0 /\ (k + 1) - 1 = k
    OBVIOUS
  <2>2. QED
    BY <1>1, <2>1
<1>4. QED
  BY <1>2, <1>3


\* Only the levels of the fanins matter.
LEMMA LevelOverSame ==
  ASSUME NEW h, NEW g, NEW c, \A m \in c : h[m] = g[m]
  PROVE  LevelOver(h, c) = LevelOver(g, c)
<1>1. {h[m] : m \in c} = {g[m] : m \in c}
  OBVIOUS
<1>2. QED
  BY <1>1 DEF LevelOver

\* The levels of a network F.
IsHeights(h, F) ==
  /\ h \in Seq(Nat) /\ Len(h) = Len(F)
  /\ \A n \in 1 .. Len(F) : h[n] < n /\ h[n] = LevelOver(h, F[n])

\* A node is at most one level above the one before it.
LEMMA LevelOverBound ==
  ASSUME NEW n \in Nat, NEW c \in SUBSET (1 .. n - 1), n > 0, NEW h,
         \A m \in c : h[m] \in Nat /\ h[m] < m
  PROVE  LevelOver(h, c) \in Nat /\ LevelOver(h, c) < n
<1>1. CASE c = {}
  BY <1>1 DEF LevelOver
<1>2. CASE c # {}
  <2>1. PICK m \in c : TRUE
    BY <1>2
  <2>2. m \in Nat /\ m >= 1 /\ m <= n - 1
    OBVIOUS
  <2>3. n - 2 \in Nat
    BY <2>2
  <2> DEFINE S == {h[x] : x \in c}
  <2>4. S \in SUBSET Nat /\ S # {}
    BY <1>2
  <2>5. \A x \in c : h[x] <= n - 2
    OBVIOUS
  <2>6. \A y \in S : y <= n - 2
    BY <2>5
  <2> HIDE DEF S
  <2>7. Max(S) \in S
    BY ONLY <2>3, <2>4, <2>6, MaxExists
  <2>8. Max(S) \in Nat /\ Max(S) <= n - 2
    BY <2>4, <2>6, <2>7
  <2>9. LevelOver(h, c) = 1 + Max(S)
    BY <1>2 DEF LevelOver, S
  <2>10. QED
    BY <2>3, <2>8, <2>9
<1>3. QED
  BY <1>1, <1>2

\* The levels of the first k nodes.
IsLower(h, F, k) ==
  /\ h \in Seq(Nat) /\ Len(h) = k
  /\ \A n \in 1 .. k : F[n] \subseteq 1 .. n - 1 /\ h[n] < n /\ h[n] = LevelOver(h, F[n])

\* One more node.
LEMMA LowerExtend ==
  ASSUME NEW F, NEW G, NEW k \in Nat, NEW h, IsLower(h, F, k),
         \A n \in 1 .. k : G[n] = F[n], NEW c \in SUBSET (1 .. k), G[k + 1] = c
  PROVE  IsLower(Append(h, LevelOver(h, c)), G, k + 1) /\ LevelOver(h, c) \in Nat
<1> DEFINE g == Append(h, LevelOver(h, c))
<1> USE DEF IsLower
<1>1. \A m \in 1 .. k : h[m] \in Nat /\ h[m] < m
  OBVIOUS
<1>2. LevelOver(h, c) \in Nat /\ LevelOver(h, c) < k + 1
  <2>1. k + 1 \in Nat /\ k + 1 > 0 /\ c \in SUBSET (1 .. (k + 1) - 1)
    OBVIOUS
  <2>2. \A m \in c : h[m] \in Nat /\ h[m] < m
    BY <1>1
  <2>3. QED
    BY ONLY <2>1, <2>2, LevelOverBound
<1>3. g \in Seq(Nat) /\ Len(g) = k + 1 /\ g[k + 1] = LevelOver(h, c)
      /\ \A n \in 1 .. k : g[n] = h[n]
  BY <1>2
<1> HIDE DEF g
<1>4. ASSUME NEW n \in 1 .. k PROVE LevelOver(g, F[n]) = LevelOver(h, F[n])
  <2>1. F[n] \subseteq 1 .. n - 1
    OBVIOUS
  <2>2. \A m \in 1 .. n - 1 : m \in 1 .. k
    OBVIOUS
  <2>3. \A m \in F[n] : g[m] = h[m]
    BY <2>1, <2>2, <1>3
  <2>4. QED
    BY ONLY <2>3, LevelOverSame
<1>5. LevelOver(g, c) = LevelOver(h, c)
  <2>1. \A m \in c : g[m] = h[m]
    BY <1>3
  <2>2. QED
    BY ONLY <2>1, LevelOverSame
<1>6. \A n \in 1 .. k + 1 : n \in 1 .. k \/ n = k + 1
  OBVIOUS
<1>7. c \subseteq 1 .. (k + 1) - 1
  OBVIOUS
<1>8. \A n \in 1 .. k : G[n] \subseteq 1 .. n - 1 /\ g[n] < n /\ g[n] = LevelOver(g, G[n])
  BY <1>1, <1>3, <1>4
<1>9. G[k + 1] \subseteq 1 .. (k + 1) - 1 /\ g[k + 1] < k + 1 /\ g[k + 1] = LevelOver(g, G[k + 1])
  BY <1>2, <1>3, <1>5, <1>7
<1>10. IsLower(g, G, k + 1)
  BY <1>3, <1>6, <1>8, <1>9
<1>11. QED
  BY <1>2, <1>10 DEF g

\* What the rounds come to.
LEMMA LevelsAreHeights ==
  ASSUME NEW F, WellBuilt(F), NEW u, IsLevels(u, F, Len(F))
  PROVE  IsHeights(u[Len(F)], F)
<1> DEFINE T == {j \in Nat : j <= Len(F) => IsLower(u[j], F, j)}
<1>0. Len(F) \in Nat /\ \A n \in 1 .. Len(F) : F[n] \subseteq 1 .. n - 1
  BY DEF WellBuilt
<1>00. /\ u[0] = <<>>
       /\ \A k \in 0 .. Len(F) - 1 : u[k + 1] = Append(u[k], LevelOver(u[k], F[k + 1]))
  BY <1>0, LevelsUnfold
<1>1. 0 \in T
  <2>1. <<>> \in Seq(Nat) /\ Len(<<>>) = 0 /\ 1 .. 0 = {}
    OBVIOUS
  <2>2. QED
    BY <1>00, <2>1 DEF IsLower
<1>2. ASSUME NEW j \in Nat, j \in T PROVE j + 1 \in T
  <2>1. CASE j + 1 > Len(F)
    BY <2>1, <1>0
  <2>2. CASE j + 1 <= Len(F)
    <3>1. j <= Len(F) /\ j \in 0 .. Len(F) - 1 /\ j + 1 \in 1 .. Len(F) /\ (j + 1) - 1 = j
      BY <2>2, <1>0
    <3>2. IsLower(u[j], F, j)
      BY <1>2, <3>1
    <3>3. u[j + 1] = Append(u[j], LevelOver(u[j], F[j + 1]))
      BY <1>00, <3>1
    <3>4. F[j + 1] \in SUBSET (1 .. j)
      <4>1. F[j + 1] \subseteq 1 .. (j + 1) - 1
        BY <1>0, <3>1
      <4>2. QED
        BY <4>1, <3>1
    <3>5. IsLower(u[j + 1], F, j + 1)
      BY ONLY j \in Nat, <3>2, <3>3, <3>4, LowerExtend
    <3>6. QED
      BY <3>5
  <2>3. QED
    BY <1>0, <2>1, <2>2
<1>3. Len(F) \in T
  <2> HIDE DEF T
  <2>1. Nat \subseteq T
    BY <1>1, <1>2, AllNumbers
  <2>2. QED
    BY <2>1, <1>0
<1>4. QED
  BY <1>0, <1>3 DEF IsHeights, IsLower

\* A network has one level for every node.
LEMMA HeightsUnique ==
  ASSUME NEW F, WellBuilt(F), NEW h, NEW g, IsHeights(h, F), IsHeights(g, F)
  PROVE  h = g
<1> DEFINE T == {j \in Nat : \A n \in 1 .. Len(F) : n <= j => h[n] = g[n]}
<1>0. Len(F) \in Nat /\ \A n \in 1 .. Len(F) : F[n] \subseteq 1 .. n - 1
  BY DEF WellBuilt
<1>1. 0 \in T
  BY <1>0
<1>2. ASSUME NEW j \in Nat, j \in T PROVE j + 1 \in T
  <2>1. ASSUME NEW n \in 1 .. Len(F), n <= j + 1 PROVE h[n] = g[n]
    <3>1. \A m \in 1 .. n - 1 : m \in 1 .. Len(F) /\ m <= j
      BY <1>0, <2>1
    <3>2. \A m \in F[n] : h[m] = g[m]
      BY <1>0, <1>2, <3>1
    <3>3. LevelOver(h, F[n]) = LevelOver(g, F[n])
      BY <3>2, LevelOverSame
    <3>4. QED
      BY <3>3 DEF IsHeights
  <2>2. QED
    BY <2>1
<1>3. Len(F) \in T
  <2> HIDE DEF T
  <2>1. Nat \subseteq T
    BY <1>1, <1>2, AllNumbers
  <2>2. QED
    BY <2>1, <1>0
<1>4. \A n \in 1 .. Len(F) : h[n] = g[n]
  BY <1>0, <1>3
<1>5. h \in Seq(Nat) /\ g \in Seq(Nat) /\ Len(h) = Len(F) /\ Len(g) = Len(F)
  BY DEF IsHeights
<1>6. QED
  BY <1>4, <1>5, <1>0

\* One more node, of a network.
LEMMA HeightsExtend ==
  ASSUME NEW F, WellBuilt(F), NEW c \in SUBSET (1 .. Len(F)), NEW h, IsHeights(h, F)
  PROVE  /\ WellBuilt(Append(F, c)) /\ LevelOver(h, c) \in Nat
         /\ IsHeights(Append(h, LevelOver(h, c)), Append(F, c))
<1>0. Len(F) \in Nat /\ F \in Seq(SUBSET Nat) /\ \A n \in 1 .. Len(F) : F[n] \subseteq 1 .. n - 1
  BY DEF WellBuilt
<1>1. c \in SUBSET Nat
  BY <1>0
<1>2. /\ Append(F, c) \in Seq(SUBSET Nat) /\ Len(Append(F, c)) = Len(F) + 1
      /\ Append(F, c)[Len(F) + 1] = c /\ \A n \in 1 .. Len(F) : Append(F, c)[n] = F[n]
  BY <1>0, <1>1
<1>3. \A n \in 1 .. Len(F) + 1 : n \in 1 .. Len(F) \/ n = Len(F) + 1
  BY <1>0
<1>4. (Len(F) + 1) - 1 = Len(F)
  BY <1>0
<1>5. WellBuilt(Append(F, c))
  BY <1>0, <1>2, <1>3, <1>4 DEF WellBuilt
<1> DEFINE k == Len(F)
           G == Append(F, c)
<1>6. IsLower(h, F, k) /\ k \in Nat /\ c \in SUBSET (1 .. k)
  BY <1>0 DEF IsHeights, IsLower
<1>7. G[k + 1] = c /\ (\A n \in 1 .. k : G[n] = F[n]) /\ Len(G) = k + 1
  BY <1>2
<1> HIDE DEF k, G
<1>8. IsLower(Append(h, LevelOver(h, c)), G, k + 1) /\ LevelOver(h, c) \in Nat
  BY ONLY <1>6, <1>7, LowerExtend
<1>9. IsHeights(Append(h, LevelOver(h, c)), G)
  BY <1>6, <1>7, <1>8 DEF IsHeights, IsLower
<1>10. QED
  BY <1>5, <1>8, <1>9 DEF G

\* What LevelsExact compares with.
LEMMA HeightsAre == WellBuilt(fanins) => IsHeights(Heights, fanins)
<1> SUFFICES ASSUME WellBuilt(fanins) PROVE IsHeights(Heights, fanins)
  OBVIOUS
<1> DEFINE u == CHOOSE u : IsLevels(u, fanins, Len(fanins))
<1>1. Heights = u[Len(fanins)]
  BY DEF Heights, IsLevels, LevelOver, IsPi
<1>2. Len(fanins) \in Nat
  BY DEF WellBuilt
<1>3. IsLevels(u, fanins, Len(fanins))
  BY <1>2, LevelsExist
<1> HIDE DEF u
<1>4. QED
  BY <1>1, <1>3, LevelsAreHeights

\* When all gates are in the cones of outputs, update_levels finds the same.
LEMMA ComputedHeights ==
  ASSUME WellBuilt(fanins), NoDangling
  PROVE  ComputedLevels = Heights
<1>1. Len(fanins) \in Nat
  BY DEF WellBuilt
<1>2. ASSUME NEW k \in 0 .. Len(fanins), k # 0
      PROVE  k \in Reached /\ ~IsPi(k) <=> ~IsPi(k)
  <2>1. k \in Nodes
    BY <1>1, <1>2 DEF Nodes
  <2>2. QED
    BY <2>1 DEF NoDangling
<1> DEFINE A(u) == [k \in 0 .. Len(fanins) |->
                      IF k = 0 THEN <<>>
                      ELSE Append(u[k - 1], IF k \in Reached /\ ~IsPi(k)
                                            THEN 1 + Max({u[k - 1][c] : c \in fanins[k]}) ELSE 0)]
           B(u) == [k \in 0 .. Len(fanins) |->
                      IF k = 0 THEN <<>>
                      ELSE Append(u[k - 1], IF IsPi(k) THEN 0
                                            ELSE 1 + Max({u[k - 1][c] : c \in fanins[k]}))]
<1>3. \A u : A(u) = B(u)
  BY <1>2
<1>4. (CHOOSE u : u = A(u)) = (CHOOSE u : u = B(u))
  BY <1>3
<1>5. ComputedLevels = (CHOOSE u : u = A(u))[Len(fanins)]
  BY DEF ComputedLevels
<1>6. Heights = (CHOOSE u : u = B(u))[Len(fanins)]
  BY DEF Heights
<1>7. QED
  BY <1>4, <1>5, <1>6

\* The level of a node is that of its rank: what one node more does to it.
LEMMA HeightsGrow ==
  ASSUME WellBuilt(fanins), NEW c \in SUBSET Nodes, fanins' = Append(fanins, c)
  PROVE  /\ WellBuilt(fanins')
         /\ LevelOver(Heights, c) \in Nat
         /\ Heights' = Append(Heights, LevelOver(Heights, c))
<1> PICK F, h : F = fanins /\ h = Heights
  OBVIOUS
<1>1. IsHeights(h, F)
  BY HeightsAre
<1>2. WellBuilt(F) /\ c \in SUBSET (1 .. Len(F))
  BY DEF Nodes
<1>3. /\ WellBuilt(Append(F, c)) /\ LevelOver(h, c) \in Nat
      /\ IsHeights(Append(h, LevelOver(h, c)), Append(F, c))
  BY ONLY <1>1, <1>2, HeightsExtend
<1>4. WellBuilt(fanins') /\ IsHeights(Append(h, LevelOver(h, c)), fanins')
  BY <1>3
<1>5. IsHeights(Heights', fanins')
  <2>1. (WellBuilt(fanins) => IsHeights(Heights, fanins))'
    BY HeightsAre, PTL
  <2>2. QED
    BY <1>4, <2>1
<1>6. Heights' = Append(h, LevelOver(h, c))
  BY ONLY <1>4, <1>5, HeightsUnique
<1>7. QED
  BY <1>3, <1>4, <1>6


-----------------------------------------------------------------------------
(* Ranks and positions.                                                    *)

\* node_map::resize keeps what there is and adds zeros.
LEMMA ResizedFacts ==
  ASSUME NEW s \in Seq(Nat), NEW k \in Nat
  PROVE  /\ Resized(s, k) \in Seq(Nat)
         /\ Len(Resized(s, k)) = IF k > Len(s) THEN k ELSE Len(s)
         /\ \A i \in 1 .. Len(s) : Resized(s, k)[i] = s[i]
         /\ k <= Len(s) => Resized(s, k) = s
         /\ k = Len(s) + 1 => Resized(s, k) = Append(s, 0)
<1> DEFINE d == IF k > Len(s) THEN k - Len(s) ELSE 0
           z == [i \in 1 .. d |-> 0]
<1>1. d \in Nat /\ Len(s) \in Nat
  OBVIOUS
<1>2. z \in Seq(Nat) /\ Len(z) = d
  BY <1>1
<1>3. Resized(s, k) = s \o z
  BY DEF Resized
<1>4. d = 0 => z = <<>>
  BY <1>2
<1>5. d = 1 => z = <<0>>
  BY <1>2
<1> HIDE DEF z
<1>6. /\ s \o z \in Seq(Nat) /\ Len(s \o z) = Len(s) + d
      /\ \A i \in 1 .. Len(s) : (s \o z)[i] = s[i]
  BY <1>2
<1>7. s \o <<>> = s /\ s \o <<0>> = Append(s, 0)
  OBVIOUS
<1>8. QED
  BY <1>1, <1>3, <1>4, <1>5, <1>6, <1>7

\* More ranks are empty.
LEMMA GrownFacts ==
  ASSUME NEW rs \in Seq(Seq(Nat)), NEW l \in Nat
  PROVE  /\ Grown(rs, l) \in Seq(Seq(Nat))
         /\ Len(Grown(rs, l)) = IF l >= Len(rs) THEN l + 1 ELSE Len(rs)
         /\ \A i \in 1 .. Len(rs) : Grown(rs, l)[i] = rs[i]
         /\ \A i \in 1 .. Len(Grown(rs, l)) : i \notin 1 .. Len(rs) => Grown(rs, l)[i] = <<>>
<1> DEFINE d == IF l >= Len(rs) THEN l - Len(rs) + 1 ELSE 0
           z == [i \in 1 .. d |-> <<>>]
<1>1. d \in Nat /\ Len(rs) \in Nat
  OBVIOUS
<1>2. z \in Seq(Seq(Nat)) /\ Len(z) = d /\ \A i \in 1 .. d : z[i] = <<>>
  BY <1>1
<1>3. Grown(rs, l) = rs \o z
  BY DEF Grown
<1> HIDE DEF z
<1>4. /\ rs \o z \in Seq(Seq(Nat)) /\ Len(rs \o z) = Len(rs) + d
      /\ \A i \in 1 .. Len(rs) : (rs \o z)[i] = rs[i]
  <2>1. PICK S : S = Seq(Nat)
    OBVIOUS
  <2>2. rs \in Seq(S) /\ z \in Seq(S)
    BY <1>2, <2>1
  <2>3. rs \o z \in Seq(S)
    BY ONLY <2>2
  <2>4. Len(rs \o z) = Len(rs) + Len(z)
    BY ONLY <2>2
  <2>5. \A i \in 1 .. Len(rs) : (rs \o z)[i] = rs[i]
    BY ONLY <2>2
  <2>6. QED
    BY <1>2, <2>1, <2>3, <2>4, <2>5
<1>5. ASSUME NEW i \in 1 .. Len(rs) + d, i \notin 1 .. Len(rs) PROVE (rs \o z)[i] = <<>>
  <2>1. i - Len(rs) \in 1 .. d
    BY <1>1, <1>5
  <2>2. (rs \o z)[i] = z[i - Len(rs)]
    BY <1>1, <1>2, <1>5
  <2>3. QED
    BY <1>2, <2>1, <2>2
<1>6. QED
  BY <1>1, <1>3, <1>4, <1>5

\* The parts of Places, with their types.
LEMMA PlacesFacts ==
  ASSUME NEW h, NEW k, NEW pos, NEW rs, Places(h, k, pos, rs)
  PROVE  /\ k \in Nat /\ k <= Len(h) /\ h \in Seq(Nat) /\ pos \in Seq(Nat) /\ k <= Len(pos)
         /\ rs \in Seq(Seq(Nat))
         /\ Len(h) \in Nat /\ Len(pos) \in Nat /\ Len(rs) \in Nat
         /\ \A n \in 1 .. k : /\ n \in Nat /\ n \in 1 .. Len(pos)
                              /\ h[n] \in Nat /\ pos[n] \in Nat
                              /\ h[n] + 1 \in 1 .. Len(rs)
                              /\ pos[n] + 1 \in 1 .. Len(rs[h[n] + 1])
                              /\ rs[h[n] + 1][pos[n] + 1] = n
         /\ \A i \in 1 .. Len(rs) : rs[i] \in Seq(Nat) /\ Len(rs[i]) \in Nat
         /\ \A i \in 1 .. Len(rs) : \A j \in 1 .. Len(rs[i]) :
               rs[i][j] \in 1 .. k /\ h[rs[i][j]] + 1 = i /\ pos[rs[i][j]] + 1 = j
<1>1. /\ k \in Nat /\ k <= Len(h) /\ h \in Seq(Nat) /\ pos \in Seq(Nat) /\ k <= Len(pos)
      /\ rs \in Seq(Seq(Nat))
  BY DEF Places
<1>2. /\ Len(h) \in Nat /\ Len(pos) \in Nat /\ Len(rs) \in Nat
      /\ \A i \in 1 .. Len(rs) : rs[i] \in Seq(Nat)
      /\ \A n \in 1 .. Len(h) : h[n] \in Nat
      /\ \A n \in 1 .. Len(pos) : pos[n] \in Nat
  BY <1>1
<1>3. \A n \in 1 .. k : n \in Nat /\ n \in 1 .. Len(h) /\ n \in 1 .. Len(pos)
  BY <1>1, <1>2
<1>4. \A i \in 1 .. Len(rs) : Len(rs[i]) \in Nat
  BY <1>2
<1>5. \A n \in 1 .. k : /\ h[n] + 1 \in 1 .. Len(rs)
                        /\ pos[n] + 1 \in 1 .. Len(rs[h[n] + 1])
                        /\ rs[h[n] + 1][pos[n] + 1] = n
  BY DEF Places
<1>6. \A i \in 1 .. Len(rs) : \A j \in 1 .. Len(rs[i]) :
         rs[i][j] \in 1 .. k /\ h[rs[i][j]] + 1 = i /\ pos[rs[i][j]] + 1 = j
  BY DEF Places
<1>7. QED
  BY ONLY <1>1, <1>2, <1>3, <1>4, <1>5, <1>6

\* The place of one node.
Placed(h, pos, rs, n) ==
  /\ n \in Nat /\ n \in 1 .. Len(pos) /\ h[n] \in Nat /\ pos[n] \in Nat
  /\ h[n] + 1 \in 1 .. Len(rs) /\ pos[n] + 1 \in 1 .. Len(rs[h[n] + 1])
  /\ rs[h[n] + 1][pos[n] + 1] = n
  /\ rs[h[n] + 1] \in Seq(Nat) /\ Len(rs[h[n] + 1]) \in Nat

\* A node is at its position in the rank of its level.
LEMMA PlaceOf ==
  ASSUME NEW h, NEW k, NEW pos, NEW rs, Places(h, k, pos, rs), NEW n \in 1 .. k
  PROVE  Placed(h, pos, rs, n)
<1>1. /\ k \in Nat /\ k <= Len(h) /\ h \in Seq(Nat) /\ pos \in Seq(Nat) /\ k <= Len(pos)
      /\ rs \in Seq(Seq(Nat))
  BY DEF Places
<1>2. h[n] + 1 \in 1 .. Len(rs) /\ pos[n] + 1 \in 1 .. Len(rs[h[n] + 1])
      /\ rs[h[n] + 1][pos[n] + 1] = n
  BY DEF Places
<1>3. n \in Nat /\ n \in 1 .. Len(h) /\ n \in 1 .. Len(pos)
  BY ONLY <1>1, n \in 1 .. k
<1>4. h[n] \in Nat /\ pos[n] \in Nat
  BY ONLY <1>1, <1>3
<1>5. rs[h[n] + 1] \in Seq(Nat) /\ Len(rs[h[n] + 1]) \in Nat
  <2> DEFINE l == h[n] + 1
  <2>1. l \in 1 .. Len(rs)
    BY <1>2
  <2> HIDE DEF l
  <2>2. rs[l] \in Seq(Nat)
    BY ONLY <1>1, <2>1
  <2>3. Len(rs[l]) \in Nat
    BY ONLY <2>2
  <2>4. QED
    BY ONLY <2>2, <2>3 DEF l
<1>6. QED
  BY ONLY <1>2, <1>3, <1>4, <1>5 DEF Placed

\* The node at one place.
LEMMA NodeAt ==
  ASSUME NEW h, NEW k, NEW pos, NEW rs, Places(h, k, pos, rs),
         NEW i \in 1 .. Len(rs), NEW j \in 1 .. Len(rs[i])
  PROVE  rs[i][j] \in 1 .. k /\ h[rs[i][j]] + 1 = i /\ pos[rs[i][j]] + 1 = j
BY DEF Places

\* Places where nothing is added yet.
LEMMA PlacesGrow ==
  ASSUME NEW h, NEW k, NEW pos, NEW rs, Places(h, k, pos, rs),
         NEW g \in Seq(Nat), k <= Len(g), \A n \in 1 .. k : g[n] = h[n],
         NEW m \in Nat, NEW l \in Nat
  PROVE  Places(g, k, Resized(pos, m), Grown(rs, l))
<1> DEFINE q == Resized(pos, m)
           ss == Grown(rs, l)
<1>1. /\ k \in Nat /\ k <= Len(h) /\ h \in Seq(Nat) /\ pos \in Seq(Nat) /\ k <= Len(pos)
      /\ rs \in Seq(Seq(Nat))
      /\ Len(h) \in Nat /\ Len(pos) \in Nat /\ Len(rs) \in Nat
  BY PlacesFacts
<1>2. /\ q \in Seq(Nat) /\ Len(q) = (IF m > Len(pos) THEN m ELSE Len(pos))
      /\ \A i \in 1 .. Len(pos) : q[i] = pos[i]
  BY <1>1, ResizedFacts
<1>3. /\ ss \in Seq(Seq(Nat)) /\ Len(ss) = (IF l >= Len(rs) THEN l + 1 ELSE Len(rs))
      /\ \A i \in 1 .. Len(rs) : ss[i] = rs[i]
      /\ \A i \in 1 .. Len(ss) : i \notin 1 .. Len(rs) => ss[i] = <<>>
  BY <1>1, GrownFacts
<1> HIDE DEF q, ss
<1>4. k <= Len(q) /\ \A i \in 1 .. Len(rs) : i \in 1 .. Len(ss)
  <2>1. k <= Len(q)
    BY ONLY <1>1, <1>2, m \in Nat
  <2>2. \A i \in 1 .. Len(rs) : i \in 1 .. Len(ss)
    BY ONLY <1>1, <1>3, l \in Nat
  <2>3. QED
    BY <2>1, <2>2
<1>5. ASSUME NEW n \in 1 .. k
      PROVE  /\ g[n] + 1 \in 1 .. Len(ss) /\ q[n] + 1 \in 1 .. Len(ss[g[n] + 1])
             /\ ss[g[n] + 1][q[n] + 1] = n
  <2>1. /\ n \in 1 .. Len(pos) /\ h[n] + 1 \in 1 .. Len(rs)
        /\ pos[n] + 1 \in 1 .. Len(rs[h[n] + 1])
        /\ rs[h[n] + 1][pos[n] + 1] = n
    BY PlacesFacts
  <2>2. q[n] = pos[n] /\ g[n] = h[n]
    BY ONLY <1>2, <2>1, n \in 1 .. k, \A i \in 1 .. k : g[i] = h[i]
  <2>3. ss[h[n] + 1] = rs[h[n] + 1] /\ h[n] + 1 \in 1 .. Len(ss)
    BY ONLY <1>3, <1>4, <2>1
  <2>4. QED
    BY ONLY <2>1, <2>2, <2>3
<1>6. ASSUME NEW i \in 1 .. Len(ss), NEW j \in 1 .. Len(ss[i])
      PROVE  ss[i][j] \in 1 .. k /\ g[ss[i][j]] + 1 = i /\ q[ss[i][j]] + 1 = j
  <2>1. i \in 1 .. Len(rs) /\ ss[i] = rs[i]
    <3>1. Len(<<>>) = 0 /\ 1 .. 0 = {}
      OBVIOUS
    <3>2. ss[i] # <<>>
      BY ONLY <3>1, j \in 1 .. Len(ss[i])
    <3>3. QED
      BY ONLY <1>3, <3>2, i \in 1 .. Len(ss)
  <2>2. /\ rs[i][j] \in 1 .. k /\ h[rs[i][j]] + 1 = i /\ pos[rs[i][j]] + 1 = j
        /\ rs[i][j] \in 1 .. Len(pos)
    BY <2>1, PlacesFacts
  <2>3. QED
    BY ONLY <1>2, <2>1, <2>2, \A n \in 1 .. k : g[n] = h[n]
<1>7. QED
  BY <1>1, <1>2, <1>3, <1>4, <1>5, <1>6 DEF Places, q, ss

\* One entry is set.
LEMMA OneEntry ==
  ASSUME NEW s \in Seq(Nat), NEW i \in 1 .. Len(s), NEW x \in Nat, NEW t, t = [s EXCEPT ![i] = x]
  PROVE  /\ t \in Seq(Nat) /\ Len(t) = Len(s) /\ t[i] = x
         /\ \A j \in 1 .. Len(s) : j # i => t[j] = s[j]
<1>1. t \in Seq(Nat) /\ Len(t) = Len(s)
  OBVIOUS
<1>2. DOMAIN s = 1 .. Len(s)
  OBVIOUS
<1>3. t[i] = x /\ \A j \in 1 .. Len(s) : j # i => t[j] = s[j]
  BY <1>2
<1>4. QED
  BY <1>1, <1>3

\* The node after the first k goes to the end of the rank of its level.
LEMMA PlacesEnter ==
  ASSUME NEW h, NEW k, NEW pos, NEW rs, Places(h, k, pos, rs),
         k + 1 <= Len(h), k + 1 <= Len(pos), h[k + 1] < Len(rs),
         NEW rank, rank = Append(rs[h[k + 1] + 1], k + 1)
  PROVE  Places(h, k + 1, [pos EXCEPT ![k + 1] = Len(rank) - 1],
                [rs EXCEPT ![h[k + 1] + 1] = rank])
<1> DEFINE q == [pos EXCEPT ![k + 1] = Len(rank) - 1]
           l == h[k + 1] + 1
           ss == [rs EXCEPT ![l] = rank]
<1>1. /\ k \in Nat /\ k <= Len(h) /\ h \in Seq(Nat) /\ pos \in Seq(Nat) /\ k <= Len(pos)
      /\ rs \in Seq(Seq(Nat))
      /\ Len(h) \in Nat /\ Len(pos) \in Nat /\ Len(rs) \in Nat
  BY PlacesFacts
<1>2. l \in 1 .. Len(rs) /\ k + 1 \in 1 .. Len(pos) /\ k + 1 \in Nat
  <2>1. k + 1 \in 1 .. Len(h) /\ k + 1 \in 1 .. Len(pos) /\ k + 1 \in Nat
    BY ONLY <1>1, k + 1 <= Len(h), k + 1 <= Len(pos)
  <2>2. h[k + 1] \in Nat
    BY ONLY <1>1, <2>1
  <2> PICK x, y : x = h[k + 1] /\ y = Len(rs)
    OBVIOUS
  <2>3. x \in Nat /\ y \in Nat /\ x < y
    BY <1>1, <2>2
  <2>4. x + 1 \in 1 .. y
    BY ONLY <2>3
  <2>5. QED
    BY <2>1, <2>4
<1>3. h[k + 1] + 1 = l /\ rank = Append(rs[l], k + 1)
  OBVIOUS
<1> HIDE DEF l
<1>4. rs[l] \in Seq(Nat) /\ Len(rs[l]) \in Nat
  <2>1. rs[l] \in Seq(Nat)
    BY ONLY <1>1, <1>2
  <2>2. QED
    BY ONLY <2>1
<1>5. /\ rank \in Seq(Nat) /\ Len(rank) = Len(rs[l]) + 1 /\ rank[Len(rs[l]) + 1] = k + 1
      /\ \A j \in 1 .. Len(rs[l]) : rank[j] = rs[l][j]
  BY ONLY <1>2, <1>3, <1>4
<1>6. Len(rank) - 1 = Len(rs[l])
  BY ONLY <1>4, <1>5
<1>7. /\ q \in Seq(Nat) /\ Len(q) = Len(pos) /\ q[k + 1] = Len(rs[l])
      /\ \A n \in 1 .. k : q[n] = pos[n]
  <2>1. \A n \in 1 .. k : n \in 1 .. Len(pos) /\ n # k + 1
    BY <1>1
  <2>2. q = [pos EXCEPT ![k + 1] = Len(rs[l])]
    BY <1>6
  <2>3. /\ q \in Seq(Nat) /\ Len(q) = Len(pos) /\ q[k + 1] = Len(rs[l])
        /\ \A j \in 1 .. Len(pos) : j # k + 1 => q[j] = pos[j]
    BY ONLY <1>1, <1>2, <1>4, <2>2, OneEntry
  <2>4. QED
    BY ONLY <2>1, <2>3
<1>8. /\ ss \in Seq(Seq(Nat)) /\ Len(ss) = Len(rs) /\ ss[l] = rank
      /\ \A i \in 1 .. Len(rs) : i # l => ss[i] = rs[i]
  BY ONLY <1>1, <1>2, <1>5 DEF ss
<1> HIDE DEF q, ss
<1>9. ASSUME NEW n \in 1 .. k + 1
      PROVE  /\ h[n] + 1 \in 1 .. Len(ss) /\ q[n] + 1 \in 1 .. Len(ss[h[n] + 1])
             /\ ss[h[n] + 1][q[n] + 1] = n
  <2>1. CASE n = k + 1
    <3>1. h[n] + 1 = l /\ q[n] = Len(rs[l])
      BY ONLY <1>3, <1>7, <2>1
    <3>2. ss[h[n] + 1] = rank /\ h[n] + 1 \in 1 .. Len(ss)
      BY ONLY <1>2, <1>8, <3>1
    <3>3. q[n] + 1 \in 1 .. Len(rank) /\ rank[q[n] + 1] = n
      BY ONLY <1>4, <1>5, <2>1, <3>1
    <3>4. QED
      BY ONLY <3>1, <3>2, <3>3
  <2>2. CASE n \in 1 .. k
    <3>1. /\ h[n] + 1 \in 1 .. Len(rs) /\ pos[n] + 1 \in 1 .. Len(rs[h[n] + 1])
          /\ rs[h[n] + 1][pos[n] + 1] = n
      <4>1. Placed(h, pos, rs, n)
        BY ONLY Places(h, k, pos, rs), <2>2, PlaceOf
      <4>2. QED
        BY ONLY <4>1 DEF Placed
    <3>2. q[n] = pos[n]
      BY ONLY <1>7, <2>2
    <3>3. CASE h[n] + 1 = l
      <4>1. pos[n] + 1 \in 1 .. Len(rs[l]) /\ pos[n] + 1 \in 1 .. Len(rs[l]) + 1
        BY ONLY <1>4, <3>1, <3>3
      <4>2. QED
        BY ONLY <1>2, <1>5, <1>8, <3>1, <3>2, <3>3, <4>1
    <3>4. CASE h[n] + 1 # l
      BY ONLY <1>8, <3>1, <3>2, <3>4
    <3>5. QED
      BY <3>3, <3>4
  <2>3. n = k + 1 \/ n \in 1 .. k
    BY ONLY <1>1, n \in 1 .. k + 1
  <2>4. QED
    BY ONLY <2>1, <2>2, <2>3
<1>10. ASSUME NEW i \in 1 .. Len(ss), NEW j \in 1 .. Len(ss[i])
       PROVE  ss[i][j] \in 1 .. k + 1 /\ h[ss[i][j]] + 1 = i /\ q[ss[i][j]] + 1 = j
  <2>1. i \in 1 .. Len(rs)
    BY ONLY <1>8, i \in 1 .. Len(ss)
  <2>2. CASE i = l /\ j = Len(rs[l]) + 1
    <3>1. ss[i][j] = k + 1
      BY ONLY <1>5, <1>8, <2>2
    <3>2. k + 1 \in 1 .. k + 1
      BY ONLY <1>1
    <3>3. QED
      BY ONLY <1>3, <1>7, <2>2, <3>1, <3>2
  <2>3. CASE ~(i = l /\ j = Len(rs[l]) + 1)
    <3>1. j \in 1 .. Len(rs[i]) /\ ss[i][j] = rs[i][j]
      <4>1. CASE i = l
        <5>1. j \in 1 .. Len(rs[l]) + 1 /\ ss[i] = rank
          BY ONLY <1>5, <1>8, <4>1, j \in 1 .. Len(ss[i])
        <5>2. j \in 1 .. Len(rs[l])
          BY ONLY <1>4, <2>3, <4>1, <5>1
        <5>3. QED
          BY ONLY <1>5, <4>1, <5>1, <5>2
      <4>2. CASE i # l
        BY ONLY <1>8, <2>1, <4>2, j \in 1 .. Len(ss[i])
      <4>3. QED
        BY <4>1, <4>2
    <3>2. rs[i][j] \in 1 .. k /\ h[rs[i][j]] + 1 = i /\ pos[rs[i][j]] + 1 = j
      BY ONLY Places(h, k, pos, rs), <2>1, <3>1, PlacesFacts
    <3>3. \A n \in 1 .. k : n \in 1 .. k + 1
      BY ONLY <1>1
    <3>4. QED
      BY ONLY <1>7, <3>1, <3>2, <3>3
  <2>4. QED
    BY <2>2, <2>3
<1>11. Places(h, k + 1, q, ss)
  <2>1. k + 1 \in Nat /\ k + 1 <= Len(q)
    BY <1>2, <1>7
  <2>2. QED
    BY <1>1, <1>7, <1>8, <1>9, <1>10, <2>1 DEF Places
<1>12. QED
  BY <1>11 DEF q, ss, l

\* The width of ranks of which one grows.
LEMMA WidestEnter ==
  ASSUME NEW rs \in Seq(Seq(Nat)), NEW w, Widest(rs, w), NEW i \in 1 .. Len(rs), NEW n \in Nat,
         NEW rank, rank = Append(rs[i], n)
  PROVE  Widest([rs EXCEPT ![i] = rank], Max({w, Len(rank)}))
<1> DEFINE ss == [rs EXCEPT ![i] = rank]
           b == Max({w, Len(rank)})
<1>1. w \in Nat /\ rs[i] \in Seq(Nat)
  BY DEF Widest
<1>2. rank \in Seq(Nat) /\ Len(rank) \in Nat /\ Len(rank) = Len(rs[i]) + 1
  BY <1>1
<1>3. b = IF w >= Len(rank) THEN w ELSE Len(rank)
  BY <1>1, <1>2, MaxOfTwo
<1>4. /\ Len(ss) = Len(rs) /\ ss[i] = rank
      /\ \A j \in 1 .. Len(rs) : j # i => ss[j] = rs[j]
  BY <1>2
<1>5. \A j \in 1 .. Len(rs) : Len(rs[j]) \in Nat /\ Len(rs[j]) <= w
  <2>1. \A j \in 1 .. Len(rs) : rs[j] \in Seq(Nat)
    OBVIOUS
  <2>2. QED
    BY <2>1 DEF Widest
<1>6. w = 0 \/ \E j \in 1 .. Len(rs) : Len(rs[j]) = w
  BY DEF Widest
<1> HIDE DEF ss, b
<1>7. \A j \in 1 .. Len(ss) : Len(ss[j]) <= b
  <2>1. w <= b /\ Len(rank) <= b
    BY ONLY <1>1, <1>2, <1>3
  <2>2. b \in Nat
    BY ONLY <1>1, <1>2, <1>3
  <2>3. ASSUME NEW j \in 1 .. Len(rs) PROVE Len(ss[j]) <= b
    <3>1. CASE j = i
      BY ONLY <1>4, <2>1, <3>1
    <3>2. CASE j # i
      <4>1. Len(ss[j]) \in Nat /\ Len(ss[j]) <= w
        BY ONLY <1>4, <1>5, <3>2, j \in 1 .. Len(rs)
      <4>2. QED
        BY ONLY <1>1, <2>1, <2>2, <4>1
    <3>3. QED
      BY <3>1, <3>2
  <2>4. QED
    BY ONLY <1>4, <2>3
<1>8. \E j \in 1 .. Len(ss) : Len(ss[j]) = b
  <2>1. CASE b = Len(rank)
    BY <1>4, <2>1
  <2>2. CASE b # Len(rank)
    <3>1. b = w /\ w >= Len(rank) /\ w # 0
      BY ONLY <1>1, <1>2, <1>3, <2>2, rs[i] \in Seq(Nat)
    <3>2. PICK j \in 1 .. Len(rs) : Len(rs[j]) = w
      BY <1>6, <3>1
    <3>3. j # i
      BY ONLY <1>1, <1>2, <1>3, <2>2, <3>1, <3>2
    <3>4. QED
      BY <1>4, <3>1, <3>2, <3>3
  <2>3. QED
    BY <2>1, <2>2
<1>9. b \in Nat
  BY ONLY <1>1, <1>2, <1>3
<1>10. QED
  BY <1>7, <1>8, <1>9 DEF Widest, ss, b

\* And of which there are more.
LEMMA WidestGrow ==
  ASSUME NEW rs \in Seq(Seq(Nat)), NEW w, Widest(rs, w), NEW l \in Nat
  PROVE  Widest(Grown(rs, l), w)
<1> DEFINE ss == Grown(rs, l)
<1>1. /\ Len(ss) = IF l >= Len(rs) THEN l + 1 ELSE Len(rs)
      /\ \A i \in 1 .. Len(rs) : ss[i] = rs[i]
      /\ \A i \in 1 .. Len(ss) : i \notin 1 .. Len(rs) => ss[i] = <<>>
  BY GrownFacts
<1> HIDE DEF ss
<1>2. /\ w \in Nat /\ (\A i \in 1 .. Len(rs) : Len(rs[i]) <= w)
      /\ w = 0 \/ \E i \in 1 .. Len(rs) : Len(rs[i]) = w
  BY DEF Widest
<1>3. \A i \in 1 .. Len(rs) : i \in 1 .. Len(ss)
  BY <1>1
<1>4. Len(<<>>) = 0 /\ 0 <= w
  BY <1>2
<1>5. \A i \in 1 .. Len(ss) : Len(ss[i]) <= w
  BY ONLY <1>1, <1>2, <1>4
<1>6. w = 0 \/ \E i \in 1 .. Len(ss) : Len(ss[i]) = w
  BY ONLY <1>1, <1>2, <1>3
<1>7. QED
  BY <1>2, <1>5, <1>6 DEF Widest, ss

-----------------------------------------------------------------------------
(* on_add.                                                                 *)

\* What becomes of the ranks, the positions and the width of a view when node
\* n comes to level l.
NewRanks(rs, n, l) == [Grown(rs, l) EXCEPT ![l + 1] = Append(Grown(rs, l)[l + 1], n)]
NewPos(pos, rs, n, l) == [Resized(pos, n) EXCEPT ![n] = Len(Append(Grown(rs, l)[l + 1], n)) - 1]
NewWidth(w, rs, n, l) == Max({w, Len(Append(Grown(rs, l)[l + 1], n))})

\* The positions, ranks and widths of all views.
Rankings == [pos : [Data -> Seq(Nat)], ranks : [Views -> Seq(Seq(Nat))], width : [Views -> Nat]]

\* The rank a node goes to.
LEMMA RankOf ==
  ASSUME NEW rs \in Seq(Seq(Nat)), NEW l \in Nat
  PROVE  /\ l + 1 \in 1 .. Len(Grown(rs, l)) /\ l < Len(Grown(rs, l))
         /\ Grown(rs, l) \in Seq(Seq(Nat))
         /\ Grown(rs, l)[l + 1] \in Seq(Nat) /\ Len(Grown(rs, l)[l + 1]) \in Nat
<1> DEFINE g == Grown(rs, l)
<1>1. g \in Seq(Seq(Nat)) /\ Len(g) = IF l >= Len(rs) THEN l + 1 ELSE Len(rs)
  BY GrownFacts
<1> HIDE DEF g
<1>2. Len(rs) \in Nat
  OBVIOUS
<1>3. l + 1 \in 1 .. Len(g) /\ l < Len(g)
  BY <1>1, <1>2
<1>4. g[l + 1] \in Seq(Nat)
  BY <1>1, <1>3
<1>5. QED
  BY <1>1, <1>3, <1>4 DEF g

\* One more node than before.
LEMMA NewPlaces ==
  ASSUME NEW h, NEW k, NEW pos, NEW rs, NEW w, Places(h, k, pos, rs), Widest(rs, w),
         Len(h) = k, Len(pos) = k, NEW l \in Nat
  PROVE  /\ Places(Append(h, l), k + 1, NewPos(pos, rs, k + 1, l), NewRanks(rs, k + 1, l))
         /\ Len(NewPos(pos, rs, k + 1, l)) = k + 1
         /\ Widest(NewRanks(rs, k + 1, l), NewWidth(w, rs, k + 1, l))
<1> DEFINE g == Append(h, l)
           q == Resized(pos, k + 1)
           ss == Grown(rs, l)
           rank == Append(ss[l + 1], k + 1)
<1>1. /\ k \in Nat /\ h \in Seq(Nat) /\ pos \in Seq(Nat) /\ rs \in Seq(Seq(Nat))
  BY PlacesFacts
<1>2. /\ g \in Seq(Nat) /\ Len(g) = k + 1 /\ g[k + 1] = l /\ \A n \in 1 .. k : g[n] = h[n]
  BY <1>1
<1>3. k <= Len(g) /\ k + 1 \in Nat
  BY <1>1, <1>2
<1> HIDE DEF g
<1>4. Places(g, k, q, ss)
  BY ONLY <1>2, <1>3, l \in Nat, Places(h, k, pos, rs), PlacesGrow
<1>5. q \in Seq(Nat) /\ Len(q) = k + 1
  BY <1>1, ResizedFacts
<1>6. /\ l + 1 \in 1 .. Len(ss) /\ l < Len(ss) /\ ss \in Seq(Seq(Nat))
      /\ ss[l + 1] \in Seq(Nat) /\ Len(ss[l + 1]) \in Nat
  BY <1>1, RankOf
<1> HIDE DEF q, ss
<1>7. rank = Append(ss[g[k + 1] + 1], k + 1)
  BY <1>2
<1>8. k + 1 <= Len(g) /\ k + 1 <= Len(q) /\ g[k + 1] < Len(ss)
  BY <1>1, <1>2, <1>5, <1>6
<1> HIDE DEF rank
<1>9. Places(g, k + 1, [q EXCEPT ![k + 1] = Len(rank) - 1], [ss EXCEPT ![g[k + 1] + 1] = rank])
  BY ONLY <1>4, <1>7, <1>8, PlacesEnter
<1>10. NewPos(pos, rs, k + 1, l) = [q EXCEPT ![k + 1] = Len(rank) - 1]
       /\ NewRanks(rs, k + 1, l) = [ss EXCEPT ![g[k + 1] + 1] = rank]
       /\ NewRanks(rs, k + 1, l) = [ss EXCEPT ![l + 1] = rank]
       /\ NewWidth(w, rs, k + 1, l) = Max({w, Len(rank)})
  BY <1>2 DEF NewPos, NewRanks, NewWidth, q, ss, rank
<1>11. Len([q EXCEPT ![k + 1] = Len(rank) - 1]) = k + 1
  BY <1>5, <1>8
<1>12. Widest(ss, w)
  BY <1>1, WidestGrow DEF ss
<1>13. Widest([ss EXCEPT ![l + 1] = rank], Max({w, Len(rank)}))
  <2>1. rank = Append(ss[l + 1], k + 1)
    BY DEF rank
  <2>2. QED
    BY ONLY <1>3, <1>6, <1>12, <2>1, WidestEnter
<1>14. QED
  BY <1>9, <1>10, <1>11, <1>13 DEF g

\* on_add does it for its view.
LEMMA OnAddIs ==
  ASSUME NEW r \in Rankings, NEW v \in Views, posMap[v] \in Data,
         NEW n \in Nat, NEW l \in Nat, NEW s, s = OnAdd(r, v, n, l)
  PROVE  /\ s.pos = [r.pos EXCEPT ![posMap[v]] =
                       NewPos(r.pos[posMap[v]], r.ranks[v], n, l)]
         /\ s.ranks = [r.ranks EXCEPT ![v] = NewRanks(r.ranks[v], n, l)]
         /\ s.width = [r.width EXCEPT ![v] = NewWidth(r.width[v], r.ranks[v], n, l)]
<1>1. /\ r.pos \in [Data -> Seq(Nat)] /\ r.ranks \in [Views -> Seq(Seq(Nat))]
      /\ r.width \in [Views -> Nat]
  BY DEF Rankings
<1> DEFINE p == posMap[v]
           g == Grown(r.ranks[v], l)
           q == Resized(r.pos[p], n)
           rank == Append(g[l + 1], n)
           a == [r.pos EXCEPT ![p] = q]
           b == [r.ranks EXCEPT ![v] = g]
<1>2. a[p] = q /\ b[v] = g
  BY <1>1
<1>3. [r.pos EXCEPT ![posMap[v]] = Resized(@, n)] = a
      /\ [r.ranks EXCEPT ![v] = Grown(@, l)] = b
  OBVIOUS
<1>4. s = [pos |-> [a EXCEPT ![p] = [@ EXCEPT ![n] = Len(rank) - 1]],
           ranks |-> [b EXCEPT ![v] = [@ EXCEPT ![l + 1] = rank]],
           width |-> [r.width EXCEPT ![v] = Max({@, Len(rank)})]]
  BY <1>2, <1>3 DEF OnAdd, InsertInRank
<1> HIDE DEF q, g, rank
<1>5. s.pos = [r.pos EXCEPT ![p] = [q EXCEPT ![n] = Len(rank) - 1]]
  <2>1. [a EXCEPT ![p] = [@ EXCEPT ![n] = Len(rank) - 1]]
          = [a EXCEPT ![p] = [q EXCEPT ![n] = Len(rank) - 1]]
    BY <1>2
  <2>2. \A y : [a EXCEPT ![p] = y] = [r.pos EXCEPT ![p] = y]
    OBVIOUS
  <2>3. QED
    BY <1>4, <2>1, <2>2
<1>6. s.ranks = [r.ranks EXCEPT ![v] = [g EXCEPT ![l + 1] = rank]]
  <2>1. [b EXCEPT ![v] = [@ EXCEPT ![l + 1] = rank]] = [b EXCEPT ![v] = [g EXCEPT ![l + 1] = rank]]
    BY <1>2
  <2>2. \A y : [b EXCEPT ![v] = y] = [r.ranks EXCEPT ![v] = y]
    OBVIOUS
  <2>3. QED
    BY <1>4, <2>1, <2>2
<1>7. s.width = [r.width EXCEPT ![v] = Max({r.width[v], Len(rank)})]
  BY <1>1, <1>4
<1>8. QED
  BY <1>5, <1>6, <1>7 DEF NewPos, NewRanks, NewWidth, q, g, rank

\* The types stay.
LEMMA NewTypes ==
  ASSUME NEW pos \in Seq(Nat), NEW rs \in Seq(Seq(Nat)), NEW w \in Nat,
         NEW n \in Nat, n > 0, NEW l \in Nat
  PROVE  /\ NewPos(pos, rs, n, l) \in Seq(Nat) /\ n <= Len(NewPos(pos, rs, n, l))
         /\ NewRanks(rs, n, l) \in Seq(Seq(Nat))
         /\ NewWidth(w, rs, n, l) \in Nat
<1> DEFINE g == Grown(rs, l)
           q == Resized(pos, n)
           rank == Append(g[l + 1], n)
<1>1. /\ l + 1 \in 1 .. Len(g) /\ g \in Seq(Seq(Nat))
      /\ g[l + 1] \in Seq(Nat) /\ Len(g[l + 1]) \in Nat
  BY RankOf
<1>2. q \in Seq(Nat) /\ n \in 1 .. Len(q)
  <2>1. q \in Seq(Nat) /\ Len(q) = IF n > Len(pos) THEN n ELSE Len(pos)
    BY ResizedFacts
  <2>2. Len(pos) \in Nat
    OBVIOUS
  <2>3. QED
    BY ONLY <2>1, <2>2, n \in Nat, n > 0
<1> HIDE DEF g, q
<1>3. rank \in Seq(Nat) /\ Len(rank) = Len(g[l + 1]) + 1
  BY <1>1
<1> HIDE DEF rank
<1>4. Len(rank) - 1 \in Nat /\ Len(rank) \in Nat
  BY <1>1, <1>3
<1>5. [q EXCEPT ![n] = Len(rank) - 1] \in Seq(Nat) /\ Len([q EXCEPT ![n] = Len(rank) - 1]) = Len(q)
  BY <1>2, <1>4
<1>6. [g EXCEPT ![l + 1] = rank] \in Seq(Seq(Nat))
  BY <1>1, <1>3
<1>7. Max({w, Len(rank)}) \in Nat
  BY <1>4, MaxOfTwo
<1>8. QED
  BY <1>2, <1>5, <1>6, <1>7 DEF NewPos, NewRanks, NewWidth, g, q, rank

\* The same node entered again through shared positions, in equal ranks.
LEMMA NewPosAgain ==
  ASSUME NEW pos \in Seq(Nat), NEW rs \in Seq(Seq(Nat)), NEW n \in Nat, n > 0, NEW l \in Nat
  PROVE  NewPos(NewPos(pos, rs, n, l), rs, n, l) = NewPos(pos, rs, n, l)
<1> DEFINE q == NewPos(pos, rs, n, l)
           x == Len(Append(Grown(rs, l)[l + 1], n)) - 1
<1>1. q \in Seq(Nat) /\ n <= Len(q)
  BY NewTypes, 0 \in Nat
<1>2. Resized(q, n) = q
  BY <1>1, ResizedFacts
<1>3. q = [Resized(pos, n) EXCEPT ![n] = x]
  BY DEF NewPos
<1>4. NewPos(q, rs, n, l) = [q EXCEPT ![n] = x]
  BY <1>2 DEF NewPos
<1> HIDE DEF x
<1>5. [q EXCEPT ![n] = x] = q
  BY <1>3
<1>6. QED
  BY <1>4, <1>5


\* The handlers in turn.
IsTurns(u, n, l, last) ==
  u = [i \in 0 .. last |-> IF i = 0 THEN Ranking
                           ELSE OnAdd(u[i - 1], handlers[i], n, l[handlers[i]])]

\* The recursion is well founded.
LEMMA TurnsExist ==
  ASSUME NEW n, NEW l, NEW last \in Nat
  PROVE  \E u : IsTurns(u, n, l, last)
<1> DEFINE T == {j \in Nat : \E c : IsTurns(c, n, l, j)}
<1>1. 0 \in T
  <2>1. IsTurns([k \in 0 .. 0 |-> Ranking], n, l, 0)
    BY DEF IsTurns
  <2>2. QED
    BY <2>1
<1>2. ASSUME NEW j \in Nat, j \in T PROVE j + 1 \in T
  <2>1. PICK c : IsTurns(c, n, l, j)
    BY <1>2
  <2> DEFINE next(r, k) == OnAdd(r, handlers[k], n, l[handlers[k]])
             d == [k \in 0 .. j + 1 |-> IF k = j + 1 THEN next(c[j], j + 1) ELSE c[k]]
             e == [k \in 0 .. j + 1 |-> IF k = 0 THEN Ranking ELSE next(d[k - 1], k)]
  <2>0. c = [k \in 0 .. j |-> IF k = 0 THEN Ranking ELSE next(c[k - 1], k)]
    BY <2>1 DEF IsTurns
  <2>01. IsTurns(d, n, l, j + 1) <=> d = e
    BY DEF IsTurns
  <2> HIDE DEF next
  <2>2. ASSUME NEW k \in 0 .. j + 1 PROVE d[k] = e[k]
    <3>1. CASE k = j + 1
      BY <3>1
    <3>2. CASE k = 0
      <4>1. d[k] = c[0] /\ c[0] = Ranking
        BY <3>2, <2>0
      <4>2. QED
        BY <3>2, <4>1
    <3>3. CASE k \in 1 .. j
      <4>1. d[k] = c[k] /\ d[k - 1] = c[k - 1] /\ k \in 0 .. j /\ k # 0
        BY <3>3
      <4>2. c[k] = next(c[k - 1], k)
        BY <2>0, <4>1
      <4>3. QED
        BY <4>1, <4>2
    <3>4. QED
      BY <3>1, <3>2, <3>3
  <2>3. d = e
    BY <2>2
  <2>4. QED
    BY <2>3, <2>01
<1>3. last \in T
  <2> HIDE DEF T
  <2>1. Nat \subseteq T
    BY <1>1, <1>2, AllNumbers
  <2>2. QED
    BY <2>1
<1>4. QED
  BY <1>3

\* The views whose handlers have had their turn.
Done(i) == {handlers[j] : j \in 1 .. i}

\* Where things are when i handlers have had theirs.
TurnedTo(r, n, l, i) ==
  /\ r \in Rankings
  /\ \A v \in live :
        /\ r.ranks[v] = IF v \in Done(i) THEN NewRanks(ranks[v], n, l) ELSE ranks[v]
        /\ r.width[v] = IF v \in Done(i) THEN NewWidth(width[v], ranks[v], n, l) ELSE width[v]
        /\ r.pos[posMap[v]] = IF \E w \in Done(i) : posMap[w] = posMap[v]
                              THEN NewPos(positions[posMap[v]], ranks[v], n, l)
                              ELSE positions[posMap[v]]

\* One handler more.
LEMMA NextTurn ==
  ASSUME RTypes, Handlers(handlers, live), NEW n \in Nat, n > 0, NEW l \in Nat,
         \A v, w \in live : posMap[v] = posMap[w] => ranks[v] = ranks[w],
         NEW i \in Nat, i + 1 <= Len(handlers), NEW r, TurnedTo(r, n, l, i),
         NEW s, s = OnAdd(r, handlers[i + 1], n, l)
  PROVE  TurnedTo(s, n, l, i + 1)
<1> DEFINE v == handlers[i + 1]
           p == posMap[v]
<1>1. i + 1 \in 1 .. Len(handlers) /\ Len(handlers) \in Nat
  BY DEF Handlers
<1>2. v \in live /\ v \in Views /\ p \in Data
  <2>1. handlers \in Seq(live)
    BY DEF Handlers
  <2>2. v \in live
    BY ONLY <1>1, <2>1
  <2>3. QED
    BY <2>2 DEF RTypes
<1>3. v \notin Done(i) /\ Done(i + 1) = Done(i) \cup {v}
  <2>1. \A j \in 1 .. i : j \in 1 .. Len(handlers) /\ j # i + 1
    BY <1>1
  <2>2. \A j \in 1 .. i : handlers[j] # v
    BY <1>1, <2>1 DEF Handlers
  <2>3. 1 .. i + 1 = (1 .. i) \cup {i + 1}
    OBVIOUS
  <2>4. QED
    BY <2>2, <2>3 DEF Done
<1>4. r \in Rankings /\ s = OnAdd(r, v, n, l)
  BY DEF TurnedTo
<1> HIDE DEF v, p
<1>5. /\ s.pos = [r.pos EXCEPT ![p] = NewPos(r.pos[p], r.ranks[v], n, l)]
      /\ s.ranks = [r.ranks EXCEPT ![v] = NewRanks(r.ranks[v], n, l)]
      /\ s.width = [r.width EXCEPT ![v] = NewWidth(r.width[v], r.ranks[v], n, l)]
  <2>1. posMap[v] \in Data
    BY <1>2 DEF p
  <2>2. QED
    BY ONLY <1>2, <1>4, <2>1, n \in Nat, l \in Nat, OnAddIs DEF p
<1>6. /\ r.pos \in [Data -> Seq(Nat)] /\ r.ranks \in [Views -> Seq(Seq(Nat))]
      /\ r.width \in [Views -> Nat]
  BY <1>4 DEF Rankings
<1>7. /\ r.ranks[v] = ranks[v] /\ r.width[v] = width[v]
      /\ ranks[v] \in Seq(Seq(Nat)) /\ width[v] \in Nat
      /\ r.pos[p] \in Seq(Nat) /\ positions[p] \in Seq(Nat)
      /\ r.pos[p] = IF \E w \in Done(i) : posMap[w] = p
                    THEN NewPos(positions[p], ranks[v], n, l) ELSE positions[p]
  BY <1>2, <1>3, <1>6 DEF TurnedTo, RTypes, p
<1>8. /\ NewPos(r.pos[p], ranks[v], n, l) \in Seq(Nat)
      /\ NewRanks(ranks[v], n, l) \in Seq(Seq(Nat))
      /\ NewWidth(width[v], ranks[v], n, l) \in Nat
  BY <1>7, NewTypes
<1>9. NewPos(r.pos[p], ranks[v], n, l) = NewPos(positions[p], ranks[v], n, l)
  BY <1>7, NewPosAgain
<1>10. s = [pos |-> s.pos, ranks |-> s.ranks, width |-> s.width]
  BY <1>4 DEF OnAdd, InsertInRank
<1>11. s \in Rankings
  <2>1. s.pos \in [Data -> Seq(Nat)] /\ s.ranks \in [Views -> Seq(Seq(Nat))]
        /\ s.width \in [Views -> Nat]
    BY <1>2, <1>5, <1>6, <1>7, <1>8
  <2>2. QED
    BY <1>10, <2>1 DEF Rankings
<1>12. ASSUME NEW u \in live
       PROVE  /\ s.ranks[u] = IF u \in Done(i + 1) THEN NewRanks(ranks[u], n, l) ELSE ranks[u]
              /\ s.width[u] = IF u \in Done(i + 1) THEN NewWidth(width[u], ranks[u], n, l)
                              ELSE width[u]
              /\ s.pos[posMap[u]] = IF \E w \in Done(i + 1) : posMap[w] = posMap[u]
                                    THEN NewPos(positions[posMap[u]], ranks[u], n, l)
                                    ELSE positions[posMap[u]]
  <2>1. /\ r.ranks[u] = IF u \in Done(i) THEN NewRanks(ranks[u], n, l) ELSE ranks[u]
        /\ r.width[u] = IF u \in Done(i) THEN NewWidth(width[u], ranks[u], n, l) ELSE width[u]
        /\ r.pos[posMap[u]] = IF \E w \in Done(i) : posMap[w] = posMap[u]
                              THEN NewPos(positions[posMap[u]], ranks[u], n, l)
                              ELSE positions[posMap[u]]
    BY DEF TurnedTo
  <2>2. u \in Views /\ posMap[u] \in Data
    BY DEF RTypes
  <2>3. s.ranks[u] = IF u \in Done(i + 1) THEN NewRanks(ranks[u], n, l) ELSE ranks[u]
    BY ONLY <1>2, <1>3, <1>5, <1>6, <1>7, <2>1, <2>2
  <2>4. s.width[u] = IF u \in Done(i + 1) THEN NewWidth(width[u], ranks[u], n, l) ELSE width[u]
    BY ONLY <1>2, <1>3, <1>5, <1>6, <1>7, <2>1, <2>2
  <2>5. CASE posMap[u] = p
    <3>1. ranks[u] = ranks[v]
      BY <1>2, <2>5 DEF p
    <3>2. s.pos[p] = NewPos(positions[p], ranks[v], n, l)
      BY <1>2, <1>5, <1>6, <1>7, <1>9
    <3>3. \E w \in Done(i + 1) : posMap[w] = posMap[u]
      BY <1>3, <2>5 DEF p
    <3>4. QED
      BY <2>3, <2>4, <2>5, <3>1, <3>2, <3>3
  <2>6. CASE posMap[u] # p
    <3>1. s.pos[posMap[u]] = r.pos[posMap[u]]
      BY ONLY <1>5, <1>6, <2>2, <2>6
    <3>2. (\E w \in Done(i + 1) : posMap[w] = posMap[u])
            <=> \E w \in Done(i) : posMap[w] = posMap[u]
      BY <1>3, <2>6 DEF p
    <3>3. QED
      BY <2>1, <2>3, <2>4, <3>1, <3>2
  <2>7. QED
    BY <2>5, <2>6
<1>13. QED
  BY <1>11, <1>12 DEF TurnedTo

\* When all have had theirs every view has the node.
LEMMA AllTurns ==
  ASSUME RTypes, Handlers(handlers, live), NEW n \in Nat, n > 0, NEW l \in Nat,
         \A v, w \in live : posMap[v] = posMap[w] => ranks[v] = ranks[w],
         NEW ll, \A v \in live : ll[v] = l
  PROVE  /\ AllOnAdd(n, ll) \in Rankings
         /\ \A v \in live :
               /\ AllOnAdd(n, ll).ranks[v] = NewRanks(ranks[v], n, l)
               /\ AllOnAdd(n, ll).width[v] = NewWidth(width[v], ranks[v], n, l)
               /\ AllOnAdd(n, ll).pos[posMap[v]] =
                    NewPos(positions[posMap[v]], ranks[v], n, l)
<1> DEFINE last == Len(handlers)
           u == CHOOSE u : IsTurns(u, n, ll, last)
<1>1. last \in Nat /\ \A i \in 1 .. last : handlers[i] \in live
  BY DEF Handlers
<1>2. IsTurns(u, n, ll, last)
  BY <1>1, TurnsExist
<1>3. AllOnAdd(n, ll) = u[last]
  BY DEF AllOnAdd, IsTurns
<1> HIDE DEF u
<1>4. u = [i \in 0 .. last |-> IF i = 0 THEN Ranking
                               ELSE OnAdd(u[i - 1], handlers[i], n, ll[handlers[i]])]
  BY <1>2 DEF IsTurns
<1>5. u[0] = Ranking
  BY <1>1, <1>4
<1>6. ASSUME NEW i \in Nat, i + 1 <= last
      PROVE  u[i + 1] = OnAdd(u[i], handlers[i + 1], n, l)
  <2>1. i + 1 \in 0 .. last /\ i + 1 # 0 /\ (i + 1) - 1 = i /\ i + 1 \in 1 .. last
    BY <1>1, <1>6
  <2>2. QED
    BY <1>1, <1>4, <2>1
<1> DEFINE T == {i \in Nat : i <= last => TurnedTo(u[i], n, l, i)}
<1>7. 0 \in T
  <2>1. Done(0) = {}
    BY DEF Done
  <2>2. Ranking \in Rankings
    BY DEF Ranking, Rankings, RTypes
  <2>3. TurnedTo(Ranking, n, l, 0)
    BY <2>1, <2>2 DEF TurnedTo, Ranking
  <2>4. QED
    BY <1>5, <2>3
<1>8. ASSUME NEW i \in Nat, i \in T PROVE i + 1 \in T
  <2>1. CASE i + 1 <= last
    <3>1. TurnedTo(u[i], n, l, i)
      BY <1>1, <1>8, <2>1
    <3>2. u[i + 1] = OnAdd(u[i], handlers[i + 1], n, l)
      BY <1>6, <2>1
    <3>3. TurnedTo(u[i + 1], n, l, i + 1)
      BY <2>1, <3>1, <3>2, NextTurn
    <3>4. QED
      BY <3>3
  <2>2. CASE ~(i + 1 <= last)
    BY <2>2
  <2>3. QED
    BY <2>1, <2>2
<1>9. TurnedTo(u[last], n, l, last)
  <2> HIDE DEF T
  <2>1. Nat \subseteq T
    BY <1>7, <1>8, AllNumbers
  <2>2. last \in T
    BY <1>1, <2>1
  <2>3. QED
    BY <1>1, <2>2 DEF T
<1>10. \A v \in live : v \in Done(last)
  BY DEF Handlers, Done
<1>11. QED
  BY <1>3, <1>9, <1>10 DEF TurnedTo

-----------------------------------------------------------------------------
(* The constructor.                                                        *)

\* The rounds of Reached.
IsBelow(u, last) ==
  u = [k \in 0 .. last |-> IF k = 0 THEN outs ELSE u[k - 1] \cup UNION {fanins[n] : n \in u[k - 1]}]

\* The recursion is well founded.
LEMMA BelowExists ==
  ASSUME NEW last \in Nat
  PROVE  \E u : IsBelow(u, last)
<1> DEFINE T == {j \in Nat : \E c : IsBelow(c, j)}
<1>1. 0 \in T
  <2>1. IsBelow([k \in 0 .. 0 |-> outs], 0)
    BY DEF IsBelow
  <2>2. QED
    BY <2>1
<1>2. ASSUME NEW j \in Nat, j \in T PROVE j + 1 \in T
  <2>1. PICK c : IsBelow(c, j)
    BY <1>2
  <2> DEFINE next(s) == s \cup UNION {fanins[n] : n \in s}
             d == [k \in 0 .. j + 1 |-> IF k = j + 1 THEN next(c[j]) ELSE c[k]]
             e == [k \in 0 .. j + 1 |-> IF k = 0 THEN outs ELSE next(d[k - 1])]
  <2>0. c = [k \in 0 .. j |-> IF k = 0 THEN outs ELSE next(c[k - 1])]
    BY <2>1 DEF IsBelow
  <2>01. IsBelow(d, j + 1) <=> d = e
    BY DEF IsBelow
  <2> HIDE DEF next
  <2>2. ASSUME NEW k \in 0 .. j + 1 PROVE d[k] = e[k]
    <3>1. CASE k = j + 1
      BY <3>1
    <3>2. CASE k = 0
      <4>1. d[k] = c[0] /\ c[0] = outs
        BY <3>2, <2>0
      <4>2. QED
        BY <3>2, <4>1
    <3>3. CASE k \in 1 .. j
      <4>1. d[k] = c[k] /\ d[k - 1] = c[k - 1] /\ k \in 0 .. j /\ k # 0
        BY <3>3
      <4>2. c[k] = next(c[k - 1])
        BY <2>0, <4>1
      <4>3. QED
        BY <4>1, <4>2
    <3>4. QED
      BY <3>1, <3>2, <3>3
  <2>3. d = e
    BY <2>2
  <2>4. QED
    BY <2>3, <2>01
<1>3. last \in T
  <2> HIDE DEF T
  <2>1. Nat \subseteq T
    BY <1>1, <1>2, AllNumbers
  <2>2. QED
    BY <2>1
<1>4. QED
  BY <1>3

\* A fanin is lower.
LEMMA FaninLower ==
  ASSUME NEW F, WellBuilt(F), NEW h, IsHeights(h, F), NEW n \in 1 .. Len(F), NEW c \in F[n]
  PROVE  c \in 1 .. Len(F) /\ h[c] \in Nat /\ h[n] \in Nat /\ h[c] < h[n]
<1>1. Len(F) \in Nat /\ F[n] \subseteq 1 .. n - 1
  BY DEF WellBuilt
<1>2. \A m \in 1 .. n - 1 : m \in 1 .. Len(F) /\ m \in Nat /\ m < n
  BY <1>1
<1>3. \A m \in 1 .. Len(F) : h[m] \in Nat /\ h[m] < m
  BY <1>1 DEF IsHeights
<1>4. h[n] = 1 + Max({h[m] : m \in F[n]})
  BY DEF IsHeights, LevelOver
<1> DEFINE S == {h[m] : m \in F[n]}
<1>5. S \in SUBSET Nat /\ S # {} /\ n \in Nat /\ \A x \in S : x <= n
  BY <1>1, <1>2, <1>3
<1>6. h[c] \in S
  OBVIOUS
<1> HIDE DEF S
<1>7. Max(S) \in S /\ \A y \in S : y <= Max(S)
  BY ONLY <1>5, MaxExists
<1>8. h[n] = 1 + Max(S)
  BY <1>4 DEF S
<1>9. c \in 1 .. Len(F) /\ h[c] \in Nat /\ h[n] \in Nat
  <2>1. c \in 1 .. Len(F)
    BY <1>1, <1>2
  <2>2. QED
    BY <1>3, <2>1
<1>10. Max(S) \in Nat /\ h[c] <= Max(S)
  BY <1>5, <1>6, <1>7
<1>11. QED
  BY ONLY <1>8, <1>9, <1>10

\* The heights of some nodes have a highest one.
LEMMA DeepestBounds ==
  ASSUME NEW F, WellBuilt(F), NEW h, IsHeights(h, F), NEW S \in SUBSET (1 .. Len(F))
  PROVE  /\ Deepest(h, S) \in Nat /\ \A n \in S : h[n] <= Deepest(h, S)
         /\ Deepest(h, S) = 0 \/ \E n \in S : Deepest(h, S) = h[n]
<1> DEFINE R == {h[n] : n \in S}
<1>1. Len(F) \in Nat /\ \A m \in 1 .. Len(F) : h[m] \in Nat /\ h[m] < m
  BY DEF IsHeights, WellBuilt
<1>2. R \in SUBSET Nat /\ \A x \in R : x <= Len(F)
  BY <1>1
<1>3. \A n \in S : h[n] \in R
  OBVIOUS
<1>4. \A x \in R : \E n \in S : x = h[n]
  OBVIOUS
<1> HIDE DEF R
<1>5. Highest(R) \in Nat /\ Highest(R) \in R \cup {0} /\ \A y \in R : y <= Highest(R)
  BY <1>1, <1>2, HighestBounds
<1>6. QED
  BY <1>3, <1>4, <1>5 DEF Deepest, R

\* When all gates are in the cones of outputs none is above them.
LEMMA NoneAbove ==
  ASSUME WellBuilt(fanins), outs \subseteq Nodes, NoDangling
  PROVE  \A n \in Nodes : Heights[n] <= Deepest(Heights, outs)
<1> PICK F, h, b : F = fanins /\ h = Heights /\ b = Deepest(h, outs)
  OBVIOUS
<1>1. WellBuilt(F) /\ IsHeights(h, F) /\ outs \in SUBSET (1 .. Len(F)) /\ Nodes = 1 .. Len(F)
  BY HeightsAre DEF Nodes
<1>2. b \in Nat /\ \A n \in outs : h[n] <= b
  BY <1>1, DeepestBounds
<1> DEFINE u == CHOOSE u : IsBelow(u, MaxNodes)
<1>3. MaxNodes \in Nat
  BY RankBoundsAssumption
<1>4. IsBelow(u, MaxNodes)
  BY <1>3, BelowExists
<1>5. Reached = u[MaxNodes]
  BY DEF Reached, IsBelow
<1> HIDE DEF u
<1>6. u = [k \in 0 .. MaxNodes |->
             IF k = 0 THEN outs ELSE u[k - 1] \cup UNION {F[n] : n \in u[k - 1]}]
  BY <1>4 DEF IsBelow
<1>7. u[0] = outs
  BY <1>3, <1>6
<1>8. ASSUME NEW k \in Nat, k + 1 <= MaxNodes
      PROVE  u[k + 1] = u[k] \cup UNION {F[n] : n \in u[k]}
  <2>1. k + 1 \in 0 .. MaxNodes /\ k + 1 # 0 /\ (k + 1) - 1 = k
    BY <1>3, <1>8
  <2>2. QED
    BY <1>6, <2>1
<1> DEFINE T == {k \in Nat : k <= MaxNodes => \A n \in u[k] : n \in 1 .. Len(F) /\ h[n] <= b}
<1>9. 0 \in T
  BY <1>1, <1>2, <1>7
<1>10. ASSUME NEW k \in Nat, k \in T PROVE k + 1 \in T
  <2>1. CASE k + 1 <= MaxNodes
    <3>1. \A n \in u[k] : n \in 1 .. Len(F) /\ h[n] <= b
      BY <1>3, <1>10, <2>1
    <3>2. ASSUME NEW n \in u[k], NEW c \in F[n] PROVE c \in 1 .. Len(F) /\ h[c] <= b
      <4>1. c \in 1 .. Len(F) /\ h[c] \in Nat /\ h[n] \in Nat /\ h[c] < h[n]
        BY ONLY <1>1, <3>1, n \in u[k], c \in F[n], FaninLower
      <4>2. h[n] <= b
        BY <3>1
      <4>3. QED
        BY ONLY <1>2, <4>1, <4>2
    <3>3. QED
      BY <1>8, <2>1, <3>1, <3>2
  <2>2. CASE ~(k + 1 <= MaxNodes)
    BY <2>2
  <2>3. QED
    BY <2>1, <2>2
<1>11. \A n \in Reached : h[n] <= b
  <2> HIDE DEF T
  <2>1. Nat \subseteq T
    BY <1>9, <1>10, AllNumbers
  <2>2. MaxNodes \in T
    BY <1>3, <2>1
  <2>3. QED
    BY <1>3, <1>5, <2>2 DEF T
<1>12. ASSUME NEW n \in Nodes, IsPi(n) PROVE h[n] <= b
  <2>1. h[n] = 0
    BY <1>1, <1>12 DEF IsHeights, LevelOver, IsPi
  <2>2. QED
    BY <1>2, <2>1
<1>13. QED
  BY <1>11, <1>12 DEF NoDangling


\* The nodes that have been entered.
IsEntries(u, v, p, l, last) ==
  u = [n \in 0 .. last |->
         IF n = 0
         THEN [pos |-> [positions EXCEPT ![p] = [m \in Nodes |-> 0]],
               ranks |-> [ranks EXCEPT ![v] = [i \in 1 .. ComputedDepth + 1 |-> <<>>]],
               width |-> [width EXCEPT ![v] = 0]]
         ELSE InsertInRank(u[n - 1], v, p, n, l[n])]

\* The recursion is well founded.
LEMMA EntriesExist ==
  ASSUME NEW v, NEW p, NEW l, NEW last \in Nat
  PROVE  \E u : IsEntries(u, v, p, l, last)
<1> DEFINE first == [pos |-> [positions EXCEPT ![p] = [m \in Nodes |-> 0]],
                     ranks |-> [ranks EXCEPT ![v] = [i \in 1 .. ComputedDepth + 1 |-> <<>>]],
                     width |-> [width EXCEPT ![v] = 0]]
           next(r, k) == InsertInRank(r, v, p, k, l[k])
           IsIt(c, j) == c = [k \in 0 .. j |-> IF k = 0 THEN first ELSE next(c[k - 1], k)]
           T == {j \in Nat : \E c : IsIt(c, j)}
<1>0. \A u, j : IsEntries(u, v, p, l, j) <=> IsIt(u, j)
  BY DEF IsEntries
<1> HIDE DEF first, next
<1>1. 0 \in T
  <2>1. IsIt([k \in 0 .. 0 |-> first], 0)
    OBVIOUS
  <2>2. QED
    BY <2>1
<1>2. ASSUME NEW j \in Nat, j \in T PROVE j + 1 \in T
  <2>1. PICK c : IsIt(c, j)
    BY <1>2
  <2> DEFINE d == [k \in 0 .. j + 1 |-> IF k = j + 1 THEN next(c[j], j + 1) ELSE c[k]]
             e == [k \in 0 .. j + 1 |-> IF k = 0 THEN first ELSE next(d[k - 1], k)]
  <2>2. ASSUME NEW k \in 0 .. j + 1 PROVE d[k] = e[k]
    <3>1. CASE k = j + 1
      BY <3>1
    <3>2. CASE k = 0
      <4>1. d[k] = c[0] /\ c[0] = first
        BY <3>2, <2>1
      <4>2. QED
        BY <3>2, <4>1
    <3>3. CASE k \in 1 .. j
      <4>1. d[k] = c[k] /\ d[k - 1] = c[k - 1] /\ k \in 0 .. j /\ k # 0
        BY <3>3
      <4>2. c[k] = next(c[k - 1], k)
        BY <2>1, <4>1
      <4>3. QED
        BY <4>1, <4>2
    <3>4. QED
      BY <3>1, <3>2, <3>3
  <2>3. d = e
    BY <2>2
  <2>4. IsIt(d, j + 1)
    BY <2>3
  <2> HIDE DEF d, IsIt
  <2>5. QED
    BY <2>4
<1>3. last \in T
  <2> HIDE DEF T
  <2>1. Nat \subseteq T
    BY <1>1, <1>2, AllNumbers
  <2>2. QED
    BY <2>1
<1>4. QED
  BY <1>0, <1>3

\* The first k nodes are in the ranks of v, whose positions are p.
Entering(r, v, p, h, size, depths, k) ==
  /\ r \in Rankings
  /\ \A d \in Data : d # p => r.pos[d] = positions[d]
  /\ \A u \in Views : u # v => r.ranks[u] = ranks[u] /\ r.width[u] = width[u]
  /\ Places(h, k, r.pos[p], r.ranks[v]) /\ Widest(r.ranks[v], r.width[v])
  /\ Len(r.pos[p]) = size /\ Len(r.ranks[v]) = depths

\* One node more.
LEMMA NextEntry ==
  ASSUME NEW v \in Views, NEW p \in Data, NEW h, NEW size \in Nat, NEW depths \in Nat,
         NEW k \in Nat, k + 1 <= size, Len(h) = size, h[k + 1] < depths,
         NEW r, Entering(r, v, p, h, size, depths, k),
         NEW s, s = InsertInRank(r, v, p, k + 1, h[k + 1])
  PROVE  Entering(s, v, p, h, size, depths, k + 1)
<1>1. /\ r.pos \in [Data -> Seq(Nat)] /\ r.ranks \in [Views -> Seq(Seq(Nat))]
      /\ r.width \in [Views -> Nat]
  BY DEF Rankings, Entering
<1> DEFINE q == r.pos[p]
           rs == r.ranks[v]
           w == r.width[v]
           l == h[k + 1]
           rank == Append(rs[l + 1], k + 1)
           q2 == [q EXCEPT ![k + 1] = Len(rank) - 1]
           rs2 == [rs EXCEPT ![l + 1] = rank]
           w2 == Max({w, Len(rank)})
<1>2. s = [pos |-> [r.pos EXCEPT ![p] = q2], ranks |-> [r.ranks EXCEPT ![v] = rs2],
           width |-> [r.width EXCEPT ![v] = w2]]
  BY DEF InsertInRank
<1>3. Places(h, k, q, rs) /\ Widest(rs, w) /\ Len(q) = size /\ Len(rs) = depths
  BY DEF Entering
<1> HIDE DEF q, rs, w, q2, rs2, w2
<1>4. /\ h \in Seq(Nat) /\ q \in Seq(Nat) /\ rs \in Seq(Seq(Nat))
  BY ONLY <1>3, PlacesFacts
<1>5. k + 1 \in 1 .. size /\ l \in Nat /\ l + 1 \in 1 .. Len(rs) /\ k + 1 \in Nat
  <2>1. k + 1 \in 1 .. size
    OBVIOUS
  <2>2. l \in Nat
    BY <1>4, <2>1
  <2>3. QED
    BY <1>3, <2>1, <2>2
<1> HIDE DEF rank
<1>6. rank = Append(rs[h[k + 1] + 1], k + 1) /\ rank = Append(rs[l + 1], k + 1)
  BY DEF rank
<1>7. Places(h, k + 1, q2, rs2)
  <2>1. k + 1 <= Len(h) /\ k + 1 <= Len(q) /\ h[k + 1] < Len(rs)
    BY <1>3
  <2>2. Places(h, k + 1, [q EXCEPT ![k + 1] = Len(rank) - 1], [rs EXCEPT ![h[k + 1] + 1] = rank])
    BY ONLY <1>3, <1>6, <2>1, PlacesEnter
  <2>3. QED
    BY <2>2 DEF q2, rs2
<1>8. Widest(rs2, w2)
  BY ONLY <1>3, <1>4, <1>5, <1>6, WidestEnter DEF rs2, w2
<1>9. Len(q2) = size /\ Len(rs2) = depths /\ q2 \in Seq(Nat) /\ rs2 \in Seq(Seq(Nat)) /\ w2 \in Nat
  <2>1. q2 \in Seq(Nat) /\ rs2 \in Seq(Seq(Nat))
    BY ONLY <1>7, PlacesFacts
  <2>2. Len(q2) = size
    BY <1>3, <1>4 DEF q2
  <2>3. Len(rs2) = depths
    BY <1>3, <1>4 DEF rs2
  <2>4. w2 \in Nat
    BY <1>8 DEF Widest
  <2>5. QED
    BY <2>1, <2>2, <2>3, <2>4
<1>10. /\ [r.pos EXCEPT ![p] = q2] \in [Data -> Seq(Nat)]
       /\ [r.ranks EXCEPT ![v] = rs2] \in [Views -> Seq(Seq(Nat))]
       /\ [r.width EXCEPT ![v] = w2] \in [Views -> Nat]
  BY <1>1, <1>9
<1>11. s \in Rankings
  BY <1>2, <1>10 DEF Rankings
<1>12. /\ s.pos[p] = q2 /\ s.ranks[v] = rs2 /\ s.width[v] = w2
       /\ \A d \in Data : d # p => s.pos[d] = r.pos[d]
       /\ \A u \in Views : u # v => s.ranks[u] = r.ranks[u] /\ s.width[u] = r.width[u]
  BY <1>1, <1>2
<1>13. QED
  BY <1>7, <1>8, <1>9, <1>11, <1>12 DEF Entering

\* In the end all of them are.
LEMMA AllEntered ==
  ASSUME RTypes, NEW v \in Views, NEW p \in Data, NEW h, h \in Seq(Nat),
         Len(fanins) \in Nat, Len(h) = Len(fanins), ComputedDepth \in Nat,
         \A n \in Nodes : h[n] <= ComputedDepth
  PROVE  Entering(InitRanks(v, p, h), v, p, h, Len(fanins), ComputedDepth + 1, Len(fanins))
<1> DEFINE last == Len(fanins)
           depths == ComputedDepth + 1
           u == CHOOSE u : IsEntries(u, v, p, h, last)
<1>1. IsEntries(u, v, p, h, last)
  BY EntriesExist
<1>2. InitRanks(v, p, h) = u[last]
  BY DEF InitRanks, IsEntries
<1> HIDE DEF u
<1> DEFINE first == [pos |-> [positions EXCEPT ![p] = [m \in Nodes |-> 0]],
                     ranks |-> [ranks EXCEPT ![v] = [i \in 1 .. ComputedDepth + 1 |-> <<>>]],
                     width |-> [width EXCEPT ![v] = 0]]
<1>3. u = [n \in 0 .. last |-> IF n = 0 THEN first ELSE InsertInRank(u[n - 1], v, p, n, h[n])]
  BY <1>1 DEF IsEntries
<1> HIDE DEF first
<1>4. u[0] = first
  BY <1>3
<1>5. ASSUME NEW k \in Nat, k + 1 <= last PROVE u[k + 1] = InsertInRank(u[k], v, p, k + 1, h[k + 1])
  <2>1. k + 1 \in 0 .. last /\ k + 1 # 0 /\ (k + 1) - 1 = k
    BY <1>5
  <2>2. QED
    BY <1>3, <2>1
<1> DEFINE T == {k \in Nat : k <= last => Entering(u[k], v, p, h, last, depths, k)}
<1>6. Entering(first, v, p, h, last, depths, 0)
  <2> DEFINE zeros == [m \in Nodes |-> 0]
             none == [i \in 1 .. depths |-> <<>>]
  <2>1. depths \in Nat
    OBVIOUS
  <2>2. zeros \in Seq(Nat) /\ Len(zeros) = last
    BY DEF Nodes
  <2>3. none \in Seq(Seq(Nat)) /\ Len(none) = depths /\ \A i \in 1 .. depths : none[i] = <<>>
    BY <2>1
  <2>4. first = [pos |-> [positions EXCEPT ![p] = zeros], ranks |-> [ranks EXCEPT ![v] = none],
                 width |-> [width EXCEPT ![v] = 0]]
    BY DEF first
  <2> HIDE DEF zeros, none, depths
  <2>5. Len(<<>>) = 0 /\ 1 .. 0 = {}
    OBVIOUS
  <2>6. Places(h, 0, zeros, none)
    <3>1. 0 \in Nat /\ 0 <= Len(h) /\ 0 <= Len(zeros)
      BY <2>2
    <3>2. \A i \in 1 .. Len(none) : 1 .. Len(none[i]) = {}
      BY ONLY <2>3, <2>5
    <3>3. QED
      BY ONLY <2>2, <2>3, <2>5, <3>1, <3>2, h \in Seq(Nat) DEF Places
  <2>7. Widest(none, 0)
    BY ONLY <2>3, <2>5 DEF Widest
  <2>8. /\ positions \in [Data -> Seq(Nat)] /\ ranks \in [Views -> Seq(Seq(Nat))]
        /\ width \in [Views -> Nat]
    BY DEF RTypes
  <2>9. /\ [positions EXCEPT ![p] = zeros] \in [Data -> Seq(Nat)]
        /\ [ranks EXCEPT ![v] = none] \in [Views -> Seq(Seq(Nat))]
        /\ [width EXCEPT ![v] = 0] \in [Views -> Nat]
    BY <2>2, <2>3, <2>8
  <2>10. first \in Rankings
    BY <2>4, <2>9 DEF Rankings
  <2>11. /\ first.pos[p] = zeros /\ first.ranks[v] = none /\ first.width[v] = 0
         /\ \A d \in Data : d # p => first.pos[d] = positions[d]
         /\ \A x \in Views : x # v => first.ranks[x] = ranks[x] /\ first.width[x] = width[x]
    BY <2>4, <2>8
  <2>12. QED
    BY <2>2, <2>3, <2>6, <2>7, <2>10, <2>11 DEF Entering
<1>7. 0 \in T
  BY <1>4, <1>6
<1>8. ASSUME NEW k \in Nat, k \in T PROVE k + 1 \in T
  <2>1. CASE k + 1 <= last
    <3>1. Entering(u[k], v, p, h, last, depths, k)
      BY <1>8, <2>1
    <3>2. u[k + 1] = InsertInRank(u[k], v, p, k + 1, h[k + 1])
      BY <1>5, <2>1
    <3>3. depths \in Nat /\ h[k + 1] < depths
      <4>1. k + 1 \in Nodes /\ k + 1 \in 1 .. Len(h)
        BY <2>1 DEF Nodes
      <4>2. h[k + 1] \in Nat /\ h[k + 1] <= ComputedDepth
        BY <4>1
      <4>3. QED
        BY <4>2
    <3> HIDE DEF depths
    <3>4. Entering(u[k + 1], v, p, h, last, depths, k + 1)
      BY <2>1, <3>1, <3>2, <3>3, NextEntry
    <3>5. QED
      BY <3>4
  <2>2. CASE ~(k + 1 <= last)
    BY <2>2
  <2>3. QED
    BY <2>1, <2>2
<1>9. Entering(u[last], v, p, h, last, depths, last)
  <2> HIDE DEF T
  <2>1. Nat \subseteq T
    BY <1>7, <1>8, AllNumbers
  <2>2. last \in T
    BY <2>1
  <2>3. QED
    BY <2>2 DEF T
<1>10. QED
  BY <1>2, <1>9

-----------------------------------------------------------------------------
(* Another order of a rank.                                                *)

\* The order has what the rank has.
SameNodes(order, rank) ==
  /\ Len(order) = Len(rank)
  /\ \A i \in 1 .. Len(order) : \E j \in 1 .. Len(rank) : order[i] = rank[j]
  /\ \A j \in 1 .. Len(rank) : \E i \in 1 .. Len(order) : rank[j] = order[i]

\* Places in which only the rank at l is in another order.
LEMMA PlacesReorder ==
  ASSUME NEW h, NEW k, NEW pos, NEW rs, Places(h, k, pos, rs), NEW l \in 1 .. Len(rs),
         NEW order \in Seq(Nat), SameNodes(order, rs[l]),
         NEW q \in Seq(Nat), Len(q) = Len(pos),
         \A i \in 1 .. Len(order) : q[order[i]] + 1 = i,
         \A n \in 1 .. k : h[n] + 1 # l => q[n] = pos[n]
  PROVE  Places(h, k, q, [rs EXCEPT ![l] = order])
<1> DEFINE ss == [rs EXCEPT ![l] = order]
<1>1. /\ k \in Nat /\ k <= Len(h) /\ h \in Seq(Nat) /\ pos \in Seq(Nat) /\ k <= Len(pos)
      /\ rs \in Seq(Seq(Nat))
      /\ Len(h) \in Nat /\ Len(pos) \in Nat /\ Len(rs) \in Nat
  BY PlacesFacts
<1>2. /\ ss \in Seq(Seq(Nat)) /\ Len(ss) = Len(rs) /\ ss[l] = order
      /\ \A i \in 1 .. Len(rs) : i # l => ss[i] = rs[i]
  BY ONLY <1>1, l \in 1 .. Len(rs), order \in Seq(Nat) DEF ss
<1>3. Len(order) = Len(rs[l]) /\ rs[l] \in Seq(Nat) /\ Len(rs[l]) \in Nat
  BY PlacesFacts DEF SameNodes
<1> HIDE DEF ss
<1>4. ASSUME NEW n \in 1 .. k
      PROVE  /\ h[n] + 1 \in 1 .. Len(ss) /\ q[n] + 1 \in 1 .. Len(ss[h[n] + 1])
             /\ ss[h[n] + 1][q[n] + 1] = n
  <2>1. /\ h[n] + 1 \in 1 .. Len(rs) /\ pos[n] + 1 \in 1 .. Len(rs[h[n] + 1])
        /\ rs[h[n] + 1][pos[n] + 1] = n
    <3>1. Placed(h, pos, rs, n)
      BY ONLY Places(h, k, pos, rs), n \in 1 .. k, PlaceOf
    <3>2. QED
      BY ONLY <3>1 DEF Placed
  <2>2. CASE h[n] + 1 = l
    <3> DEFINE j == pos[n] + 1
    <3>0. j \in 1 .. Len(rs[l]) /\ rs[l][j] = n
      BY ONLY <2>1, <2>2
    <3> HIDE DEF j
    <3>1. PICK i \in 1 .. Len(order) : n = order[i]
      BY <3>0 DEF SameNodes
    <3>2. q[n] + 1 = i
      BY <3>1
    <3>3. QED
      BY ONLY <1>2, <2>1, <2>2, <3>1, <3>2
  <2>3. CASE h[n] + 1 # l
    <3>1. q[n] = pos[n]
      BY <2>3
    <3>2. QED
      BY ONLY <1>2, <2>1, <2>3, <3>1
  <2>4. QED
    BY <2>2, <2>3
<1>5. ASSUME NEW i \in 1 .. Len(ss), NEW j \in 1 .. Len(ss[i])
      PROVE  ss[i][j] \in 1 .. k /\ h[ss[i][j]] + 1 = i /\ q[ss[i][j]] + 1 = j
  <2>1. i \in 1 .. Len(rs)
    BY ONLY <1>2, i \in 1 .. Len(ss)
  <2>2. CASE i = l
    <3>1. j \in 1 .. Len(order) /\ ss[i][j] = order[j]
      BY ONLY <1>2, <2>2, j \in 1 .. Len(ss[i])
    <3>2. q[order[j]] + 1 = j
      BY <3>1
    <3>3. PICK m \in 1 .. Len(rs[l]) : order[j] = rs[l][m]
      BY <3>1 DEF SameNodes
    <3>4. rs[l][m] \in 1 .. k /\ h[rs[l][m]] + 1 = l
      BY ONLY Places(h, k, pos, rs), l \in 1 .. Len(rs), m \in 1 .. Len(rs[l]), PlacesFacts
    <3>5. QED
      BY ONLY <2>2, <3>1, <3>2, <3>3, <3>4
  <2>3. CASE i # l
    <3>1. j \in 1 .. Len(rs[i]) /\ ss[i][j] = rs[i][j]
      BY ONLY <1>2, <2>1, <2>3, j \in 1 .. Len(ss[i])
    <3>2. rs[i][j] \in 1 .. k /\ h[rs[i][j]] + 1 = i /\ pos[rs[i][j]] + 1 = j
      BY ONLY Places(h, k, pos, rs), <2>1, <3>1, PlacesFacts
    <3>3. q[rs[i][j]] = pos[rs[i][j]]
      BY <2>3, <3>2
    <3>4. QED
      BY ONLY <3>1, <3>2, <3>3
  <2>4. QED
    BY <2>2, <2>3
<1>6. k <= Len(q)
  BY <1>1
<1>7. QED
  BY <1>1, <1>2, <1>4, <1>5, <1>6 DEF Places, ss

\* The width is that of before.
LEMMA WidestReorder ==
  ASSUME NEW rs \in Seq(Seq(Nat)), NEW w, Widest(rs, w), NEW l \in 1 .. Len(rs),
         NEW order \in Seq(Nat), Len(order) = Len(rs[l])
  PROVE  Widest([rs EXCEPT ![l] = order], w) /\ [rs EXCEPT ![l] = order] \in Seq(Seq(Nat))
<1> DEFINE ss == [rs EXCEPT ![l] = order]
<1>1. /\ ss \in Seq(Seq(Nat)) /\ Len(ss) = Len(rs) /\ ss[l] = order
      /\ \A i \in 1 .. Len(rs) : i # l => ss[i] = rs[i]
  OBVIOUS
<1> HIDE DEF ss
<1>2. \A i \in 1 .. Len(rs) : Len(ss[i]) = Len(rs[i])
  BY <1>1
<1>3. QED
  BY <1>1, <1>2 DEF Widest, ss

\* Two entries change places.
Exchanged(s, a, b) == [s EXCEPT ![a] = s[b], ![b] = s[a]]

\* Two nodes of a rank do.
LEMMA PlacesSwap ==
  ASSUME NEW h, NEW k, NEW pos, NEW rs, Places(h, k, pos, rs),
         NEW n \in 1 .. k, NEW m \in 1 .. k, h[n] = h[m],
         NEW rank, rank = rs[h[n] + 1],
         NEW order, order = Exchanged(rank, pos[n] + 1, pos[m] + 1),
         NEW q, q = Exchanged(pos, n, m)
  PROVE  /\ h[n] + 1 \in 1 .. Len(rs) /\ order \in Seq(Nat) /\ Len(order) = Len(rank)
         /\ q \in Seq(Nat) /\ Len(q) = Len(pos)
         /\ Places(h, k, q, [rs EXCEPT ![h[n] + 1] = order])
<1> DEFINE l == h[n] + 1
           a == pos[n] + 1
           b == pos[m] + 1
<1>0. /\ n \in Nat /\ n \in 1 .. Len(pos) /\ pos[n] \in Nat
      /\ h[n] + 1 \in 1 .. Len(rs) /\ pos[n] + 1 \in 1 .. Len(rank) /\ rank[pos[n] + 1] = n
      /\ rank \in Seq(Nat) /\ Len(rank) \in Nat
  <2>1. Placed(h, pos, rs, n)
    BY ONLY Places(h, k, pos, rs), n \in 1 .. k, PlaceOf
  <2>2. QED
    BY ONLY <2>1, rank = rs[h[n] + 1] DEF Placed
<1>00. /\ m \in Nat /\ m \in 1 .. Len(pos) /\ pos[m] \in Nat
       /\ pos[m] + 1 \in 1 .. Len(rs[h[m] + 1]) /\ rs[h[m] + 1][pos[m] + 1] = m
  <2>1. Placed(h, pos, rs, m)
    BY ONLY Places(h, k, pos, rs), m \in 1 .. k, PlaceOf
  <2>2. QED
    BY ONLY <2>1 DEF Placed
<1>1. /\ n \in 1 .. Len(pos) /\ m \in 1 .. Len(pos) /\ pos[n] \in Nat /\ pos[m] \in Nat
      /\ l \in 1 .. Len(rs) /\ a \in 1 .. Len(rank) /\ b \in 1 .. Len(rank)
      /\ rank[a] = n /\ rank[b] = m
  BY ONLY <1>0, <1>00, h[n] = h[m], rank = rs[h[n] + 1]
<1>2. pos \in Seq(Nat) /\ rank \in Seq(Nat) /\ rank = rs[l] /\ Len(rank) \in Nat
  <2>1. pos \in Seq(Nat)
    BY ONLY Places(h, k, pos, rs), PlacesFacts
  <2>2. QED
    BY ONLY <1>0, <2>1, rank = rs[h[n] + 1]
<1>3. \A j \in 1 .. Len(rank) : rank[j] \in 1 .. k /\ h[rank[j]] + 1 = l /\ pos[rank[j]] + 1 = j
  <2> HIDE DEF l
  <2>1. \A j \in 1 .. Len(rs[l]) : /\ rs[l][j] \in 1 .. k /\ h[rs[l][j]] + 1 = l
                                   /\ pos[rs[l][j]] + 1 = j
    BY ONLY Places(h, k, pos, rs), <1>1, NodeAt
  <2>2. QED
    BY ONLY <1>2, <2>1
<1>4. order = [rank EXCEPT ![a] = m, ![b] = n]
  BY <1>1 DEF Exchanged
<1> HIDE DEF l, a, b
<1>5. /\ order \in Seq(Nat) /\ Len(order) = Len(rank)
      /\ order[b] = n /\ (a # b => order[a] = m)
      /\ \A j \in 1 .. Len(rank) : j # a /\ j # b => order[j] = rank[j]
  <2>1. PICK f : f = [rank EXCEPT ![a] = m]
    OBVIOUS
  <2>2. f \in Seq(Nat) /\ Len(f) = Len(rank) /\ f[a] = m
        /\ \A j \in 1 .. Len(rank) : j # a => f[j] = rank[j]
    BY ONLY <1>00, <1>1, <1>2, <2>1, OneEntry
  <2>3. order = [f EXCEPT ![b] = n]
    BY ONLY <1>4, <2>1
  <2>4. /\ order \in Seq(Nat) /\ Len(order) = Len(f) /\ order[b] = n
        /\ \A j \in 1 .. Len(f) : j # b => order[j] = f[j]
    BY ONLY <1>0, <1>1, <2>2, <2>3, OneEntry
  <2>5. QED
    BY ONLY <1>1, <1>2, <2>2, <2>4
<1>6. /\ q \in Seq(Nat) /\ Len(q) = Len(pos) /\ q[m] = pos[n] /\ (n # m => q[n] = pos[m])
      /\ \A x \in 1 .. Len(pos) : x # n /\ x # m => q[x] = pos[x]
  <2>1. PICK f : f = [pos EXCEPT ![n] = pos[m]]
    OBVIOUS
  <2>2. f \in Seq(Nat) /\ Len(f) = Len(pos) /\ f[n] = pos[m]
        /\ \A x \in 1 .. Len(pos) : x # n => f[x] = pos[x]
    BY ONLY <1>0, <1>00, <1>1, <1>2, <2>1, OneEntry
  <2>3. q = [f EXCEPT ![m] = pos[n]]
    BY ONLY <2>1, q = Exchanged(pos, n, m) DEF Exchanged
  <2>4. /\ q \in Seq(Nat) /\ Len(q) = Len(f) /\ q[m] = pos[n]
        /\ \A x \in 1 .. Len(f) : x # m => q[x] = f[x]
    BY ONLY <1>0, <1>1, <2>2, <2>3, OneEntry
  <2>5. QED
    BY ONLY <1>1, <1>2, <2>2, <2>4
<1>7. pos[n] + 1 = a /\ pos[m] + 1 = b /\ (a = b <=> n = m) /\ h[n] + 1 = l /\ h[m] + 1 = l
  BY <1>1, <1>3 DEF a, b, l
<1>8. SameNodes(order, rs[l])
  <2>1. \A i \in 1 .. Len(order) : \E j \in 1 .. Len(rank) : order[i] = rank[j]
    BY ONLY <1>1, <1>5, <1>7
  <2>2. \A j \in 1 .. Len(rank) : \E i \in 1 .. Len(order) : rank[j] = order[i]
    BY ONLY <1>1, <1>5, <1>7
  <2>3. QED
    BY ONLY <1>2, <1>5, <2>1, <2>2 DEF SameNodes
<1>9. ASSUME NEW i \in 1 .. Len(order) PROVE q[order[i]] + 1 = i
  <2>1. i \in 1 .. Len(rank)
    BY <1>5
  <2>2. CASE i = b
    <3>1. order[i] = n
      BY <1>5, <2>2
    <3>2. CASE n = m
      BY ONLY <1>6, <1>7, <2>2, <3>1, <3>2
    <3>3. CASE n # m
      BY ONLY <1>6, <1>7, <2>2, <3>1, <3>3
    <3>4. QED
      BY <3>2, <3>3
  <2>3. CASE i = a /\ a # b
    BY ONLY <1>5, <1>6, <1>7, <2>3
  <2>4. CASE i # a /\ i # b
    <3>1. order[i] = rank[i] /\ rank[i] \in 1 .. k /\ pos[rank[i]] + 1 = i
      BY <1>3, <1>5, <2>1, <2>4
    <3>2. rank[i] # n /\ rank[i] # m
      BY ONLY <1>7, <2>4, <3>1
    <3>3. rank[i] \in 1 .. Len(pos)
      BY <3>1, PlacesFacts
    <3>4. QED
      BY <1>6, <3>1, <3>2, <3>3
  <2>5. QED
    BY <2>2, <2>3, <2>4
<1>10. ASSUME NEW x \in 1 .. k, h[x] + 1 # l PROVE q[x] = pos[x]
  <2>1. x # n /\ x # m
    BY <1>7, <1>10
  <2>2. x \in 1 .. Len(pos)
    BY PlacesFacts
  <2>3. QED
    BY <1>6, <2>1, <2>2
<1>11. Places(h, k, q, [rs EXCEPT ![l] = order])
  BY ONLY <1>1, <1>5, <1>6, <1>8, <1>9, <1>10, Places(h, k, pos, rs), PlacesReorder
<1>12. QED
  BY <1>1, <1>5, <1>6, <1>11 DEF l

\* A rank is put in an order.
LEMMA PlacesSort ==
  ASSUME NEW h, NEW k, NEW pos, NEW rs, Places(h, k, pos, rs), NEW l \in 1 .. Len(rs),
         NEW order \in Seq(Nat), SameNodes(order, rs[l]),
         \A i, j \in 1 .. Len(order) : order[i] = order[j] => i = j,
         NEW q, q = [n \in DOMAIN pos |-> IF \E i \in DOMAIN order : order[i] = n
                                          THEN (CHOOSE i \in DOMAIN order : order[i] = n) - 1
                                          ELSE pos[n]]
  PROVE  q \in Seq(Nat) /\ Len(q) = Len(pos) /\ Places(h, k, q, [rs EXCEPT ![l] = order])
<1>1. /\ k \in Nat /\ k <= Len(pos) /\ pos \in Seq(Nat) /\ Len(pos) \in Nat
  BY PlacesFacts
<1>2. Len(order) \in Nat /\ DOMAIN order = 1 .. Len(order) /\ DOMAIN pos = 1 .. Len(pos)
  BY <1>1
<1>3. ASSUME NEW n \in 1 .. Len(pos), \A i \in 1 .. Len(order) : order[i] # n
      PROVE  q[n] = pos[n]
  BY <1>2, <1>3
<1>4. ASSUME NEW i \in 1 .. Len(order) PROVE order[i] \in 1 .. k /\ h[order[i]] + 1 = l
  <2>1. PICK j \in 1 .. Len(rs[l]) : order[i] = rs[l][j]
    BY DEF SameNodes
  <2>2. rs[l][j] \in 1 .. k /\ h[rs[l][j]] + 1 = l
    BY ONLY Places(h, k, pos, rs), l \in 1 .. Len(rs), j \in 1 .. Len(rs[l]), NodeAt
  <2>3. QED
    BY <2>1, <2>2
<1>5. ASSUME NEW i \in 1 .. Len(order) PROVE q[order[i]] = i - 1
  <2>1. order[i] \in 1 .. Len(pos)
    BY <1>1, <1>4
  <2>2. (CHOOSE j \in DOMAIN order : order[j] = order[i]) = i
    BY <1>2
  <2>3. QED
    BY <1>2, <2>1, <2>2
<1>6. \A n \in 1 .. Len(pos) : q[n] \in Nat
  <2>1. ASSUME NEW n \in 1 .. Len(pos) PROVE q[n] \in Nat
    <3>1. CASE \E i \in 1 .. Len(order) : order[i] = n
      BY <1>2, <1>5, <3>1
    <3>2. CASE ~\E i \in 1 .. Len(order) : order[i] = n
      BY <1>1, <1>3, <3>2
    <3>3. QED
      BY <3>1, <3>2
  <2>2. QED
    BY <2>1
<1>7. q \in Seq(Nat) /\ Len(q) = Len(pos)
  <2>1. DOMAIN q = 1 .. Len(pos)
    BY <1>2
  <2>2. q = [n \in 1 .. Len(pos) |-> q[n]]
    BY <1>2
  <2>3. QED
    BY ONLY <1>1, <1>6, <2>1, <2>2
<1>8. \A i \in 1 .. Len(order) : q[order[i]] + 1 = i
  <2>1. \A i \in 1 .. Len(order) : (i - 1) + 1 = i
    BY <1>2
  <2>2. \A i \in 1 .. Len(order) : q[order[i]] = i - 1
    BY <1>5
  <2>3. QED
    BY <2>1, <2>2
<1>9. ASSUME NEW n \in 1 .. k, h[n] + 1 # l PROVE q[n] = pos[n]
  <2>1. n \in 1 .. Len(pos)
    BY <1>1
  <2>2. \A i \in 1 .. Len(order) : order[i] # n
    BY <1>4, <1>9
  <2>3. QED
    BY <1>3, <2>1, <2>2
<1>10. Places(h, k, q, [rs EXCEPT ![l] = order])
  BY ONLY <1>7, <1>8, <1>9, Places(h, k, pos, rs), l \in 1 .. Len(rs), order \in Seq(Nat),
          SameNodes(order, rs[l]), PlacesReorder
<1>11. QED
  BY <1>7, <1>10

\* The other way round.
LEMMA Reversed ==
  ASSUME NEW rank \in Seq(Nat), \A i, j \in 1 .. Len(rank) : rank[i] = rank[j] => i = j
  PROVE  /\ Reverse(rank) \in Seq(Nat) /\ SameNodes(Reverse(rank), rank)
         /\ \A i, j \in 1 .. Len(rank) : Reverse(rank)[i] = Reverse(rank)[j] => i = j
<1> DEFINE len == Len(rank)
           order == Reverse(rank)
<1>1. len \in Nat /\ \A i \in 1 .. len : (len - i) + 1 \in 1 .. len
  OBVIOUS
<1>2. order = [i \in 1 .. len |-> rank[(len - i) + 1]]
  BY DEF Reverse
<1> HIDE DEF order
<1>3. order \in Seq(Nat) /\ Len(order) = len /\ \A i \in 1 .. len : order[i] = rank[(len - i) + 1]
  BY <1>1, <1>2
<1>4. \A i \in 1 .. len : (len - ((len - i) + 1)) + 1 = i
  BY <1>1
<1>5. \A j \in 1 .. len : rank[j] = order[(len - j) + 1]
  BY <1>1, <1>3, <1>4
<1>6. SameNodes(order, rank)
  BY <1>1, <1>3, <1>5 DEF SameNodes
<1>7. \A i, j \in 1 .. len : (len - i) + 1 = (len - j) + 1 => i = j
  BY <1>1
<1>8. \A i, j \in 1 .. len : order[i] = order[j] => i = j
  BY <1>1, <1>3, <1>7
<1>9. QED
  BY <1>3, <1>6, <1>8 DEF order

\* The nodes of a rank differ.
LEMMA RankInjective ==
  ASSUME NEW h, NEW k, NEW pos, NEW rs, Places(h, k, pos, rs), NEW l \in 1 .. Len(rs)
  PROVE  /\ rs[l] \in Seq(Nat)
         /\ \A i, j \in 1 .. Len(rs[l]) : rs[l][i] = rs[l][j] => i = j
<1>1. \A j \in 1 .. Len(rs[l]) : pos[rs[l][j]] + 1 = j
  BY NodeAt
<1>2. rs[l] \in Seq(Nat)
  BY PlacesFacts
<1>3. QED
  BY ONLY <1>1, <1>2

-----------------------------------------------------------------------------
(* View objects.                                                           *)

\* A view takes data that no view uses.
LEMMA UnusedData ==
  ASSUME live \subseteq Views, NEW v \in Views, v \notin live, NEW map \in [Views -> Data]
  PROVE  Unused(map) \in Data /\ \A w \in live : map[w] # Unused(map)
<1>1. \E d \in Data : \A w \in live : map[w] # d
  <2> SUFFICES ASSUME \A d \in Data : \E w \in live : map[w] = d PROVE FALSE
    OBVIOUS
  <2>1. IsFiniteSet(Views) /\ Cardinality(Views) \in Nat
    BY ViewsAssumption, FS_CardinalityType
  <2>2. IsFiniteSet(Views \ {v}) /\ Cardinality(Views \ {v}) = Cardinality(Views) - 1
    BY <2>1, FS_RemoveElement
  <2>3. live \in SUBSET (Views \ {v})
    OBVIOUS
  <2>4. IsFiniteSet(live) /\ Cardinality(live) <= Cardinality(Views) - 1
    BY <2>2, <2>3, FS_Subset
  <2> DEFINE f == [w \in live |-> map[w]]
  <2>5. f \in [live -> Data] /\ \A d \in Data : \E w \in live : f[w] = d
    OBVIOUS
  <2>6. f \in Surjection(live, Data)
    BY <2>5 DEF Surjection
  <2>7. Cardinality(Data) <= Cardinality(live)
    <3> HIDE DEF f
    <3>1. QED
      BY <2>4, <2>6, FS_Surjection
  <2>8. Cardinality(Data) = Cardinality(Views)
    <3> PICK c : c = Cardinality(Views)
      OBVIOUS
    <3>1. c \in Nat /\ 1 \in Int /\ c \in Int
      BY <2>1
    <3>2. Cardinality(1 .. c) = IF 1 > c THEN 0 ELSE c - 1 + 1
      BY <3>1, FS_Interval
    <3>3. Data = 1 .. c
      BY DEF Data
    <3>4. (IF 1 > c THEN 0 ELSE c - 1 + 1) = c
      BY <3>1
    <3>5. QED
      BY <3>2, <3>3, <3>4
  <2>9. Cardinality(live) \in Nat
    BY <2>4, FS_CardinalityType
  <2>10. QED
    BY ONLY <2>1, <2>4, <2>7, <2>8, <2>9
<1>2. QED
  BY <1>1 DEF Unused

\* A handler is registered.
LEMMA HandlerAdded ==
  ASSUME NEW list, NEW views, Handlers(list, views), NEW v, v \notin views
  PROVE  Handlers(Append(list, v), views \cup {v})
<1> DEFINE all == views \cup {v}
           longer == Append(list, v)
<1>1. list \in Seq(views) /\ list \in Seq(all) /\ Len(list) \in Nat /\ DOMAIN list = 1 .. Len(list)
  BY DEF Handlers
<1>2. v \in all /\ views \subseteq all /\ \A w \in all : w \in views \/ w = v
  OBVIOUS
<1> HIDE DEF all
<1>3. /\ longer \in Seq(all) /\ DOMAIN longer = 1 .. Len(list) + 1
      /\ longer[Len(list) + 1] = v /\ \A i \in 1 .. Len(list) : longer[i] = list[i]
  BY <1>1, <1>2
<1> HIDE DEF longer
<1>4. \A i \in 1 .. Len(list) : list[i] \in views /\ list[i] # v
  BY <1>1
<1>5. \A i \in 1 .. Len(list) + 1 : i \in 1 .. Len(list) \/ i = Len(list) + 1
  BY <1>1
<1>6. \A i \in 1 .. Len(list) : i \in 1 .. Len(list) + 1
  BY <1>1
<1>7. Len(list) + 1 \in 1 .. Len(list) + 1
  BY <1>1
<1>8. ASSUME NEW w \in all PROVE \E i \in DOMAIN longer : longer[i] = w
  <2>1. CASE w = v
    BY <1>3, <1>7, <2>1
  <2>2. CASE w \in views
    <3>1. PICK i \in 1 .. Len(list) : list[i] = w
      BY <1>1, <2>2 DEF Handlers
    <3>2. QED
      BY <1>3, <1>6, <3>1
  <2>3. QED
    BY <1>2, <2>1, <2>2
<1>9. ASSUME NEW i \in DOMAIN longer, NEW j \in DOMAIN longer, longer[i] = longer[j]
      PROVE  i = j
  <2>1. CASE i \in 1 .. Len(list) /\ j \in 1 .. Len(list)
    BY <1>1, <1>3, <1>9, <2>1 DEF Handlers
  <2>2. CASE i = Len(list) + 1 \/ j = Len(list) + 1
    BY ONLY <1>3, <1>4, <1>5, <1>9, <2>2
  <2>3. QED
    BY <1>3, <1>5, <2>1, <2>2
<1>10. QED
  BY <1>3, <1>8, <1>9 DEF Handlers, all, longer

\* A handler is given back.
LEMMA HandlerGone ==
  ASSUME NEW list, NEW views, Handlers(list, views), NEW v \in views,
         NEW i, i = CHOOSE j \in DOMAIN list : list[j] = v
  PROVE  Handlers(RemoveAt(list, i), views \ {v})
<1> DEFINE rest == views \ {v}
           before == SubSeq(list, 1, i - 1)
           after == SubSeq(list, i + 1, Len(list))
           shorter == RemoveAt(list, i)
<1>1. list \in Seq(views) /\ Len(list) \in Nat /\ DOMAIN list = 1 .. Len(list)
  BY DEF Handlers
<1>2. i \in 1 .. Len(list) /\ list[i] = v
  BY <1>1 DEF Handlers
<1>3. /\ before \in Seq(views) /\ Len(before) = i - 1
      /\ \A j \in 1 .. i - 1 : before[j] = list[j]
  BY <1>1, <1>2
<1>4. /\ after \in Seq(views) /\ Len(after) = Len(list) - i
      /\ \A j \in 1 .. Len(list) - i : after[j] = list[i + j]
  <2>1. /\ i + 1 \in Int /\ Len(list) \in Int
        /\ \A j \in i + 1 .. Len(list) : list[j] \in views
    BY <1>1, <1>2
  <2>2. /\ after \in Seq(views)
        /\ Len(after) = IF i + 1 <= Len(list) THEN Len(list) - (i + 1) + 1 ELSE 0
        /\ \A j \in 1 .. Len(list) - (i + 1) + 1 : after[j] = list[(i + 1) + j - 1]
    BY ONLY <2>1, SubSeqProperties
  <2>3. /\ Len(list) - (i + 1) + 1 = Len(list) - i
        /\ (IF i + 1 <= Len(list) THEN Len(list) - (i + 1) + 1 ELSE 0) = Len(list) - i
    BY <1>1, <1>2
  <2>4. \A j \in 1 .. Len(list) - i : (i + 1) + j - 1 = i + j
    BY <1>1, <1>2
  <2>5. QED
    BY ONLY <2>2, <2>3, <2>4
<1>5. shorter = before \o after
  BY DEF RemoveAt
<1> HIDE DEF before, after, shorter
<1>6. /\ shorter \in Seq(views) /\ Len(shorter) = Len(list) - 1
      /\ \A j \in 1 .. i - 1 : shorter[j] = list[j]
      /\ \A j \in i .. Len(list) - 1 : shorter[j] = list[j + 1]
  <2>1. shorter \in Seq(views) /\ Len(shorter) = (i - 1) + (Len(list) - i)
    <3>1. shorter \in Seq(views) /\ Len(shorter) = Len(before) + Len(after)
      BY ONLY <1>3, <1>4, <1>5, ConcatProperties
    <3>2. QED
      BY ONLY <1>3, <1>4, <3>1
  <2>2. \A j \in 1 .. Len(before) : shorter[j] = before[j]
    BY <1>3, <1>4, <1>5
  <2>3. \A j \in 1 .. Len(after) : shorter[Len(before) + j] = after[j]
    BY <1>3, <1>4, <1>5
  <2>4. (i - 1) + (Len(list) - i) = Len(list) - 1
    BY <1>1, <1>2
  <2>5. ASSUME NEW j \in i .. Len(list) - 1 PROVE shorter[j] = list[j + 1]
    <3>1. j - i + 1 \in 1 .. Len(list) - i /\ (i - 1) + (j - i + 1) = j /\ i + (j - i + 1) = j + 1
      BY <1>1, <1>2
    <3>2. shorter[(i - 1) + (j - i + 1)] = after[j - i + 1]
      BY ONLY <1>3, <1>4, <2>3, <3>1
    <3>3. after[j - i + 1] = list[i + (j - i + 1)]
      BY ONLY <1>4, <3>1
    <3>4. QED
      BY ONLY <3>1, <3>2, <3>3
  <2>6. QED
    BY <1>3, <2>1, <2>2, <2>4, <2>5
<1>7. DOMAIN shorter = 1 .. Len(list) - 1
  BY <1>6
\* Where an entry was.
<1> DEFINE was(j) == IF j < i THEN j ELSE j + 1
<1>8. ASSUME NEW j \in 1 .. Len(list) - 1
      PROVE  was(j) \in 1 .. Len(list) /\ was(j) # i /\ shorter[j] = list[was(j)]
  <2>1. CASE j < i
    <3>1. j \in 1 .. i - 1 /\ was(j) = j
      BY <1>1, <1>2, <2>1
    <3>2. j \in 1 .. Len(list) /\ j # i
      BY ONLY <1>2, <2>1, Len(list) \in Nat, j \in 1 .. Len(list) - 1, <1>1
    <3>3. QED
      BY ONLY <1>6, <3>1, <3>2
  <2>2. CASE ~(j < i)
    <3>1. j \in i .. Len(list) - 1 /\ was(j) = j + 1
      BY <1>1, <1>2, <2>2
    <3>2. j + 1 \in 1 .. Len(list) /\ j + 1 # i
      BY ONLY <1>1, <1>2, <2>2, j \in 1 .. Len(list) - 1
    <3>3. QED
      BY ONLY <1>6, <3>1, <3>2
  <2>3. QED
    BY <2>1, <2>2
<1>9. \A j, k \in 1 .. Len(list) - 1 : was(j) = was(k) => j = k
  BY <1>1, <1>2
<1>10. \A k \in 1 .. Len(list) : k # i => \E j \in 1 .. Len(list) - 1 : was(j) = k
  <2> SUFFICES ASSUME NEW k \in 1 .. Len(list), k # i
               PROVE  \E j \in 1 .. Len(list) - 1 : was(j) = k
    OBVIOUS
  <2>1. CASE k < i
    <3>1. k \in 1 .. Len(list) - 1
      BY <1>1, <1>2, <2>1
    <3>2. was(k) = k
      BY <2>1
    <3>3. QED
      BY <3>1, <3>2
  <2>2. CASE ~(k < i)
    <3>1. k - 1 \in 1 .. Len(list) - 1 /\ ~(k - 1 < i) /\ (k - 1) + 1 = k
      BY <1>1, <1>2, <2>2
    <3>2. was(k - 1) = k
      BY <3>1
    <3>3. QED
      BY <3>1, <3>2
  <2>3. QED
    BY <2>1, <2>2
<1> HIDE DEF was
<1>11. \A j, k \in 1 .. Len(list) : list[j] = list[k] => j = k
  BY <1>1 DEF Handlers
<1>12. \A j \in 1 .. Len(list) - 1 : shorter[j] \in rest
  <2>1. ASSUME NEW j \in 1 .. Len(list) - 1 PROVE shorter[j] \in rest
    <3>1. shorter[j] = list[was(j)] /\ was(j) \in 1 .. Len(list) /\ was(j) # i
      BY <1>8
    <3>2. list[was(j)] # v /\ list[was(j)] \in views
      BY <1>1, <1>2, <1>11, <3>1
    <3>3. QED
      BY <3>1, <3>2
  <2>2. QED
    BY <2>1
<1>13. shorter \in Seq(rest)
  <2> HIDE DEF rest
  <2>1. Len(list) - 1 \in Nat
    BY <1>1, <1>2
  <2>2. shorter = [j \in 1 .. Len(list) - 1 |-> shorter[j]]
    BY <1>6
  <2>3. QED
    BY ONLY <1>12, <2>1, <2>2
<1>14. ASSUME NEW w \in rest PROVE \E j \in DOMAIN shorter : shorter[j] = w
  <2>1. PICK k \in 1 .. Len(list) : list[k] = w
    BY <1>1 DEF Handlers
  <2>2. k # i
    BY <1>2, <2>1
  <2>3. PICK j \in 1 .. Len(list) - 1 : was(j) = k
    BY <1>10, <2>2
  <2>4. QED
    BY <1>7, <1>8, <2>1, <2>3
<1>15. ASSUME NEW j \in DOMAIN shorter, NEW k \in DOMAIN shorter, shorter[j] = shorter[k]
       PROVE  j = k
  <2>1. j \in 1 .. Len(list) - 1 /\ k \in 1 .. Len(list) - 1
    BY <1>7
  <2>2. list[was(j)] = list[was(k)] /\ was(j) \in 1 .. Len(list) /\ was(k) \in 1 .. Len(list)
    BY <1>8, <1>15, <2>1
  <2>3. was(j) = was(k)
    BY <1>11, <2>2
  <2>4. QED
    BY <1>9, <2>1, <2>3
<1>16. QED
  BY <1>13, <1>14, <1>15 DEF Handlers, shorter
-----------------------------------------------------------------------------
(* The network grows.                                                      *)

\* The heights of a network that stays.
LEMMA HeightsStay ==
  ASSUME fanins' = fanins
  PROVE  Heights' = Heights /\ Nodes' = Nodes
<1>1. Nodes' = Nodes
  BY DEF Nodes
<1>2. Heights' = Heights
  BY DEF Heights, IsPi
<1>3. QED
  BY <1>1, <1>2

\* What there is of them.
LEMMA HeightFacts ==
  ASSUME RInv
  PROVE  /\ Heights \in Seq(Nat) /\ Len(Heights) = Len(fanins) /\ Len(fanins) \in Nat
         /\ Nodes = 1 .. Len(fanins) /\ outs \in SUBSET (1 .. Len(fanins))
         /\ IsHeights(Heights, fanins) /\ WellBuilt(fanins)
<1>1. WellBuilt(fanins) /\ outs \subseteq Nodes /\ Nodes = 1 .. Len(fanins)
  BY DEF RInv, Nodes
<1>2. IsHeights(Heights, fanins)
  BY <1>1, HeightsAre
<1>3. QED
  BY <1>1, <1>2 DEF IsHeights, WellBuilt

\* A node that drives no output does not count for the depth.
LEMMA DeepestSame ==
  ASSUME NEW h \in Seq(Nat), NEW l \in Nat, NEW S \in SUBSET (1 .. Len(h))
  PROVE  Deepest(Append(h, l), S) = Deepest(h, S)
<1>1. \A n \in S : Append(h, l)[n] = h[n]
  OBVIOUS
<1>2. {Append(h, l)[n] : n \in S} = {h[n] : n \in S}
  BY ONLY <1>1
<1>3. QED
  BY <1>2 DEF Deepest

\* A view that has heard of one more node.
LEMMA ExactGrows ==
  ASSUME NEW h, NEW o, NEW lv, NEW dp, NEW ps, NEW rs, NEW w, Exact(h, o, lv, dp, ps, rs, w),
         h \in Seq(Nat), o \in SUBSET (1 .. Len(h)), NEW l \in Nat,
         NEW k, k = Len(h) + 1
  PROVE  Exact(Append(h, l), o, Append(h, l), dp, NewPos(ps, rs, k, l), NewRanks(rs, k, l),
               NewWidth(w, rs, k, l))
<1>1. Len(Append(h, l)) = k
  OBVIOUS
<1>2. Places(h, Len(h), ps, rs) /\ Widest(rs, w) /\ Len(ps) = Len(h) /\ dp = Deepest(h, o)
  BY DEF Exact
<1>3. Len(h) = Len(h)
  OBVIOUS
<1>4. /\ Places(Append(h, l), Len(h) + 1, NewPos(ps, rs, Len(h) + 1, l),
                NewRanks(rs, Len(h) + 1, l))
      /\ Len(NewPos(ps, rs, Len(h) + 1, l)) = Len(h) + 1
      /\ Widest(NewRanks(rs, Len(h) + 1, l), NewWidth(w, rs, Len(h) + 1, l))
  BY ONLY <1>2, <1>3, l \in Nat, NewPlaces
<1>5. dp = Deepest(Append(h, l), o)
  BY <1>2, DeepestSame
<1>6. QED
  BY <1>1, <1>4, <1>5 DEF Exact

\* The level of a node above others, as a depth_view computes it.
LevelAbove(s, c) == 1 + Max({s[m] : m \in c})

\* Room for one more entry, and the level above the others written to it.
LEMMA LevelComputed ==
  ASSUME NEW h \in Seq(Nat), NEW k, k = Len(h) + 1, NEW F \in SUBSET (1 .. Len(h)), F # {},
         NEW l \in Nat, l = LevelOver(h, F)
  PROVE  /\ LevelAbove(Resized(h, k), F) = l
         /\ [Resized(h, k) EXCEPT ![k] = l] = Append(h, l)
<1>1. k \in Nat /\ Resized(h, k) = Append(h, 0) /\ \A c \in F : Resized(h, k)[c] = h[c]
  BY ResizedFacts
<1>2. {Resized(h, k)[c] : c \in F} = {h[c] : c \in F}
  BY <1>1
<1>3. LevelAbove(Resized(h, k), F) = l
  BY <1>2 DEF LevelOver, LevelAbove
<1>4. [Append(h, 0) EXCEPT ![k] = l] = Append(h, l)
  <2> PICK s, t : s = Append(h, 0) /\ t = [s EXCEPT ![k] = l]
    OBVIOUS
  <2>1. s \in Seq(Nat) /\ Len(s) = k /\ k \in 1 .. Len(s) /\ \A i \in 1 .. Len(h) : s[i] = h[i]
    OBVIOUS
  <2>2. t \in Seq(Nat) /\ Len(t) = k /\ t[k] = l /\ \A i \in 1 .. k : i # k => t[i] = s[i]
    BY ONLY <2>1, l \in Nat, OneEntry, t = [s EXCEPT ![k] = l]
  <2>3. /\ Append(h, l) \in Seq(Nat) /\ Len(Append(h, l)) = k /\ Append(h, l)[k] = l
        /\ \A i \in 1 .. Len(h) : Append(h, l)[i] = h[i]
    OBVIOUS
  <2>4. ASSUME NEW i \in 1 .. k PROVE t[i] = Append(h, l)[i]
    <3>1. i = k \/ i \in 1 .. Len(h)
      OBVIOUS
    <3>2. CASE i = k
      BY ONLY <2>2, <2>3, <3>2
    <3>3. CASE i # k
      BY ONLY <2>1, <2>2, <2>3, <3>1, <3>3, i \in 1 .. k
    <3>4. QED
      BY <3>2, <3>3
  <2>5. t = Append(h, l)
    <3> PICK u : u = Append(h, l)
      OBVIOUS
    <3>1. u \in Seq(Nat) /\ Len(u) = k /\ \A i \in 1 .. k : t[i] = u[i]
      BY <2>3, <2>4
    <3>2. t = [i \in 1 .. k |-> t[i]] /\ u = [i \in 1 .. k |-> u[i]]
      BY ONLY <2>2, <3>1
    <3>3. QED
      BY ONLY <3>1, <3>2, u = Append(h, l)
  <2>6. QED
    BY <2>5
<1>5. QED
  BY <1>1, <1>3, <1>4

\* create_pi below all views.
LEMMA PiBelowStep ==
  ASSUME RInv, live = {}, CreatePiBelow
  PROVE  RInv'
<1>1. {} \in SUBSET Nodes /\ fanins' = Append(fanins, {})
  BY DEF CreatePiBelow
<1>2. WellBuilt(fanins')
  BY <1>1, HeightsGrow DEF RInv
<1>3. outs' \subseteq Nodes'
  <2>1. Len(fanins) \in Nat /\ outs \in SUBSET (1 .. Len(fanins)) /\ fanins \in Seq(SUBSET Nat)
    BY HeightFacts DEF WellBuilt
  <2>2. Len(fanins') = Len(fanins) + 1
    BY <1>1, <2>1
  <2>3. QED
    BY <2>1, <2>2 DEF CreatePiBelow, Nodes
<1>4. RTypes'
  BY DEF RInv, RTypes, CreatePiBelow, shapeVars
<1>5. Handlers(handlers', live') /\ live' = {}
  BY DEF RInv, CreatePiBelow, shapeVars
<1>6. QED
  BY <1>2, <1>3, <1>4, <1>5 DEF RInv, SharedAlike

\* create_pi of the only view.
LEMMA PiStep ==
  ASSUME RInv, NEW v \in Views, live = {v}, CreatePi(v)
  PROVE  RInv'
<1> PICK h, k, n : h = Heights /\ k = Len(fanins) /\ n = k + 1
  OBVIOUS
<1>1. /\ h \in Seq(Nat) /\ Len(h) = k /\ k \in Nat /\ Nodes = 1 .. k /\ outs \in SUBSET (1 .. k)
      /\ n \in Nat /\ n > 0
  BY HeightFacts
<1>2. {} \in SUBSET Nodes /\ fanins' = Append(fanins, {}) /\ WellBuilt(fanins)
  BY HeightFacts DEF CreatePi
<1>3. WellBuilt(fanins') /\ Heights' = Append(h, 0)
  BY <1>2, HeightsGrow DEF LevelOver
<1>4. Len(fanins') = n /\ Nodes' = 1 .. n
  BY <1>2 DEF WellBuilt, Nodes
<1>5. /\ live' = live /\ handlers' = handlers /\ levelMap' = levelMap /\ posMap' = posMap
      /\ outs' = outs /\ depth' = depth
  BY DEF CreatePi, shapeVars
<1>6. /\ levelMap[v] \in Data /\ posMap[v] \in Data /\ levels \in [Data -> Seq(Nat)]
      /\ positions \in [Data -> Seq(Nat)] /\ ranks \in [Views -> Seq(Seq(Nat))]
      /\ width \in [Views -> Nat]
  BY DEF RInv, RTypes
<1>7. Exact(h, outs, levels[levelMap[v]], depth[v], positions[posMap[v]], ranks[v], width[v])
  BY DEF RInv, ViewIsExact
<1>8. levels[levelMap[v]] = h
  BY <1>7 DEF Exact
<1>9. Resized(h, n) = Append(h, 0) /\ Append(h, 0)[n] = 0 /\ Append(h, 0) \in Seq(Nat)
  BY <1>1, ResizedFacts
<1>10. levels' = [levels EXCEPT ![levelMap[v]] = Append(h, 0)] /\ Ranked(OnAdd(Ranking, v, n, 0))
  BY <1>8, <1>9 DEF CreatePi
<1>11. Ranking \in Rankings
  BY <1>6 DEF Ranking, Rankings
<1>12. PICK s : s = OnAdd(Ranking, v, n, 0)
  OBVIOUS
<1>13. /\ positions' =
            [positions EXCEPT ![posMap[v]] = NewPos(positions[posMap[v]], ranks[v], n, 0)]
       /\ ranks' = [ranks EXCEPT ![v] = NewRanks(ranks[v], n, 0)]
       /\ width' = [width EXCEPT ![v] = NewWidth(width[v], ranks[v], n, 0)]
  <2>1. 0 \in Nat
    OBVIOUS
  <2> PICK r : r = Ranking
    OBVIOUS
  <2>2. /\ s.pos = [r.pos EXCEPT ![posMap[v]] = NewPos(r.pos[posMap[v]], r.ranks[v], n, 0)]
        /\ s.ranks = [r.ranks EXCEPT ![v] = NewRanks(r.ranks[v], n, 0)]
        /\ s.width = [r.width EXCEPT ![v] = NewWidth(r.width[v], r.ranks[v], n, 0)]
    <3>1. r \in Rankings /\ s = OnAdd(r, v, n, 0) /\ v \in Views /\ posMap[v] \in Data /\ n \in Nat
      BY <1>1, <1>6, <1>11, <1>12
    <3>2. QED
      BY ONLY <2>1, <3>1, OnAddIs
  <2>3. positions' = s.pos /\ ranks' = s.ranks /\ width' = s.width
    BY <1>10, <1>12 DEF Ranked
  <2>4. r.pos = positions /\ r.ranks = ranks /\ r.width = width
    BY DEF Ranking
  <2>5. QED
    BY ONLY <2>2, <2>3, <2>4
<1>14. /\ NewPos(positions[posMap[v]], ranks[v], n, 0) \in Seq(Nat)
       /\ NewRanks(ranks[v], n, 0) \in Seq(Seq(Nat)) /\ NewWidth(width[v], ranks[v], n, 0) \in Nat
  BY <1>1, <1>6, NewTypes
<1>15. /\ levels'[levelMap[v]] = Append(h, 0)
       /\ positions'[posMap[v]] = NewPos(positions[posMap[v]], ranks[v], n, 0)
       /\ ranks'[v] = NewRanks(ranks[v], n, 0) /\ width'[v] = NewWidth(width[v], ranks[v], n, 0)
  BY <1>6, <1>10, <1>13
<1>16. RTypes'
  <2>1. levels' \in [Data -> Seq(Nat)]
    BY <1>6, <1>9, <1>10
  <2>2. positions' \in [Data -> Seq(Nat)] /\ ranks' \in [Views -> Seq(Seq(Nat))]
        /\ width' \in [Views -> Nat]
    BY <1>6, <1>13, <1>14
  <2>3. QED
    BY <1>5, <2>1, <2>2 DEF RInv, RTypes
<1>17. Exact(Append(h, 0), outs, Append(h, 0), depth[v],
             NewPos(positions[posMap[v]], ranks[v], n, 0), NewRanks(ranks[v], n, 0),
             NewWidth(width[v], ranks[v], n, 0))
  BY ONLY <1>1, <1>7, ExactGrows, n = k + 1, 0 \in Nat
<1>18. ViewIsExact(v)'
  BY <1>3, <1>5, <1>15, <1>17 DEF ViewIsExact
<1>19. outs' \subseteq Nodes'
  BY <1>1, <1>4, <1>5
<1>20. Handlers(handlers', live')
  BY <1>5 DEF RInv
<1>21. QED
  BY <1>3, <1>5, <1>16, <1>18, <1>19, <1>20 DEF RInv, SharedAlike

\* A gate of any view, or of the network.
LEMMA GateStep ==
  ASSUME RInv, NEW F \in SUBSET Nodes, Cardinality(F) = 2, CreateGate(F)
  PROVE  RInv'
<1> PICK h, k, n, l : h = Heights /\ k = Len(fanins) /\ n = k + 1 /\ l = LevelOver(Heights, F)
  OBVIOUS
<1>1. /\ h \in Seq(Nat) /\ Len(h) = k /\ k \in Nat /\ Nodes = 1 .. k /\ outs \in SUBSET (1 .. k)
      /\ n \in Nat /\ n > 0 /\ F \in SUBSET (1 .. Len(h))
  BY HeightFacts
<1>2. fanins' = Append(fanins, F) /\ WellBuilt(fanins)
  BY HeightFacts DEF CreateGate
<1>3. WellBuilt(fanins') /\ Heights' = Append(h, l) /\ l \in Nat
  BY <1>2, HeightsGrow
<1>4. Len(fanins') = n /\ Nodes' = 1 .. n
  BY <1>1, <1>2 DEF WellBuilt, Nodes
<1>5. /\ live' = live /\ handlers' = handlers /\ levelMap' = levelMap /\ posMap' = posMap
      /\ outs' = outs /\ depth' = depth
  BY DEF CreateGate, shapeVars
<1>6. F # {}
  <2>1. Cardinality({}) = 0
    BY FS_EmptySet
  <2>2. QED
    BY <2>1
<1>7. /\ RTypes /\ Handlers(handlers, live)
      /\ \A v, w \in live : posMap[v] = posMap[w] => ranks[v] = ranks[w]
  BY DEF RInv, SharedAlike
<1>8. /\ 1 + Max({Resized(h, n)[c] : c \in F}) = l
      /\ [Resized(h, n) EXCEPT ![n] = l] = Append(h, l)
  <2>1. l = LevelOver(h, F) /\ n = Len(h) + 1
    BY <1>1
  <2>2. QED
    <3>1. h \in Seq(Nat) /\ F \in SUBSET (1 .. Len(h)) /\ F # {} /\ l \in Nat
      BY <1>1, <1>3, <1>6
    <3>2. /\ LevelAbove(Resized(h, n), F) = l
          /\ [Resized(h, n) EXCEPT ![n] = l] = Append(h, l)
      BY ONLY <2>1, <3>1, LevelComputed
    <3>3. QED
      BY ONLY <3>2 DEF LevelAbove
<1>9. \A v \in live : levels[levelMap[v]] = h /\ v \in Views /\ levelMap[v] \in Data
  BY <1>7 DEF RInv, ViewIsExact, Exact, RTypes
<1> DEFINE ll == LevelsOfNew(n, F)
<1>10. \A v \in live : ll[v] = l
  <2> SUFFICES ASSUME NEW v \in live PROVE ll[v] = l
    OBVIOUS
  <2>1. levels[levelMap[v]] = h /\ v \in Views
    BY <1>9
  <2>2. ll[v] = 1 + Max({Resized(levels[levelMap[v]], n)[c] : c \in F})
    BY ONLY <2>1 DEF LevelsOfNew, ll
  <2>3. QED
    BY ONLY <1>8, <2>1, <2>2
<1> HIDE DEF ll
<1>11. Ranked(AllOnAdd(n, ll))
  BY DEF CreateGate, ll
<1>12. /\ AllOnAdd(n, ll) \in Rankings
       /\ \A v \in live :
             /\ AllOnAdd(n, ll).ranks[v] = NewRanks(ranks[v], n, l)
             /\ AllOnAdd(n, ll).width[v] = NewWidth(width[v], ranks[v], n, l)
             /\ AllOnAdd(n, ll).pos[posMap[v]] = NewPos(positions[posMap[v]], ranks[v], n, l)
  <2> PICK lll : lll = ll
    OBVIOUS
  <2>1. \A v \in live : lll[v] = l
    BY <1>10
  <2>2. n \in Nat /\ n > 0 /\ l \in Nat
    BY <1>1, <1>3
  <2>3. /\ AllOnAdd(n, lll) \in Rankings
        /\ \A v \in live :
              /\ AllOnAdd(n, lll).ranks[v] = NewRanks(ranks[v], n, l)
              /\ AllOnAdd(n, lll).width[v] = NewWidth(width[v], ranks[v], n, l)
              /\ AllOnAdd(n, lll).pos[posMap[v]] = NewPos(positions[posMap[v]], ranks[v], n, l)
    BY ONLY <1>7, <2>1, <2>2, AllTurns
  <2>4. QED
    BY ONLY <2>3, lll = ll
<1>13. /\ positions' = AllOnAdd(n, ll).pos /\ ranks' = AllOnAdd(n, ll).ranks
       /\ width' = AllOnAdd(n, ll).width
  BY <1>11 DEF Ranked
<1>14. \A v \in live : /\ ranks'[v] = NewRanks(ranks[v], n, l)
                       /\ width'[v] = NewWidth(width[v], ranks[v], n, l)
                       /\ positions'[posMap[v]] = NewPos(positions[posMap[v]], ranks[v], n, l)
  BY ONLY <1>12, <1>13
<1>15. /\ positions' \in [Data -> Seq(Nat)] /\ ranks' \in [Views -> Seq(Seq(Nat))]
       /\ width' \in [Views -> Nat]
  <2>1. \A r \in Rankings : /\ r.pos \in [Data -> Seq(Nat)] /\ r.ranks \in [Views -> Seq(Seq(Nat))]
                            /\ r.width \in [Views -> Nat]
    BY DEF Rankings
  <2>2. QED
    BY ONLY <1>12, <1>13, <2>1
<1>16. levels' =
         [d \in Data |-> IF \E v \in live : levelMap[v] = d THEN Append(h, l) ELSE levels[d]]
  <2> DEFINE New(d) == [Resized(levels[d], n) EXCEPT
                          ![n] = 1 + Max({Resized(levels[d], n)[c] : c \in F})]
  <2>1. levels' = [d \in Data |-> IF {v \in live : levelMap[v] = d} = {} THEN levels[d] ELSE New(d)]
    BY DEF CreateGate
  <2>2. ASSUME NEW d \in Data, \E v \in live : levelMap[v] = d PROVE New(d) = Append(h, l)
    <3>1. levels[d] = h
      BY <1>9, <2>2
    <3>2. QED
      BY <1>8, <3>1
  <2> HIDE DEF New
  <2>3. QED
    BY <2>1, <2>2
<1>17. RTypes'
  <2>1. Append(h, l) \in Seq(Nat) /\ levels \in [Data -> Seq(Nat)]
    BY <1>1, <1>3, <1>7 DEF RTypes
  <2>2. levels' \in [Data -> Seq(Nat)]
    BY <1>16, <2>1
  <2>3. QED
    BY <1>5, <1>7, <1>15, <2>2 DEF RTypes
<1>18. ASSUME NEW v \in live PROVE ViewIsExact(v)'
  <2>1. Exact(h, outs, levels[levelMap[v]], depth[v], positions[posMap[v]], ranks[v], width[v])
    BY DEF RInv, ViewIsExact
  <2>2. Exact(Append(h, l), outs, Append(h, l), depth[v],
              NewPos(positions[posMap[v]], ranks[v], n, l), NewRanks(ranks[v], n, l),
              NewWidth(width[v], ranks[v], n, l))
    BY ONLY <1>1, <1>3, <2>1, ExactGrows, n = k + 1
  <2>3. levels'[levelMap[v]] = Append(h, l)
    BY <1>9, <1>16
  <2>4. QED
    BY <1>3, <1>5, <1>14, <2>2, <2>3 DEF ViewIsExact
<1>19. SharedAlike'
  BY <1>5, <1>7, <1>14 DEF SharedAlike
<1>20. outs' \subseteq Nodes'
  BY <1>1, <1>4, <1>5
<1>21. QED
  BY <1>3, <1>5, <1>7, <1>17, <1>18, <1>19, <1>20 DEF RInv
\* One output more.
LEMMA DeepestGrows ==
  ASSUME NEW F, WellBuilt(F), NEW h, IsHeights(h, F), NEW S \in SUBSET (1 .. Len(F)),
         NEW n \in 1 .. Len(F), NEW d, d = Deepest(h, S)
  PROVE  Max({d, h[n]}) = Deepest(h, S \cup {n}) /\ Max({d, h[n]}) \in Nat
<1> DEFINE R == {h[m] : m \in S \cup {n}}
           x == Max({d, h[n]})
<1>1. /\ d \in Nat /\ (\A m \in S : h[m] <= d) /\ (d = 0 \/ \E m \in S : d = h[m])
  BY DeepestBounds
<1>2. Len(F) \in Nat /\ \A m \in 1 .. Len(F) : h[m] \in Nat
  BY DEF IsHeights, WellBuilt
<1>3. x \in Nat /\ d <= x /\ h[n] <= x /\ (x = d \/ x = h[n])
  <2>1. h[n] \in Nat
    BY <1>2
  <2>2. x = IF d >= h[n] THEN d ELSE h[n]
    BY ONLY <1>1, <2>1, MaxOfTwo
  <2>3. QED
    BY <1>1, <2>1, <2>2
<1> HIDE DEF x
<1>4. R \in SUBSET Nat
  BY <1>2
<1>5. \A y \in R : y <= x
  <2> SUFFICES ASSUME NEW m \in S \cup {n} PROVE h[m] <= x
    OBVIOUS
  <2>1. CASE m \in S
    <3>1. h[m] <= d /\ h[m] \in Nat
      BY <1>1, <1>2, <2>1
    <3>2. QED
      BY <1>1, <1>3, <3>1
  <2>2. CASE m = n
    BY <1>3, <2>2
  <2>3. QED
    BY <2>1, <2>2
<1>6. x \in R \cup {0}
  <2>1. CASE x = h[n]
    BY <2>1
  <2>2. CASE x = d
    BY <1>1, <2>2
  <2>3. QED
    BY <1>3, <2>1, <2>2
<1> HIDE DEF R
<1>7. Highest(R) = x
  BY ONLY <1>3, <1>4, <1>5, <1>6, HighestUnique
<1>8. QED
  BY <1>3, <1>7 DEF Deepest, R, x

\* create_po of the only view.
LEMMA PoStep ==
  ASSUME RInv, NEW v \in Views, live = {v}, NEW n \in Nodes, CreatePo(v, n)
  PROVE  RInv'
<1> PICK h, F : h = Heights /\ F = fanins
  OBVIOUS
<1>1. /\ h \in Seq(Nat) /\ Len(h) = Len(F) /\ Nodes = 1 .. Len(F) /\ outs \in SUBSET (1 .. Len(F))
      /\ IsHeights(h, F) /\ WellBuilt(F)
  BY HeightFacts
<1>2. /\ fanins' = fanins /\ live' = live /\ handlers' = handlers /\ levelMap' = levelMap
      /\ posMap' = posMap /\ levels' = levels /\ positions' = positions /\ ranks' = ranks
      /\ width' = width /\ outs' = outs \cup {n}
  BY DEF CreatePo, shapeVars
<1>3. Heights' = h /\ Nodes' = Nodes
  BY <1>2, HeightsStay
<1>4. /\ levels[levelMap[v]] = h /\ depth[v] = Deepest(h, outs)
      /\ Len(positions[posMap[v]]) = Len(h) /\ Places(h, Len(h), positions[posMap[v]], ranks[v])
      /\ Widest(ranks[v], width[v])
  BY DEF RInv, ViewIsExact, Exact
<1>5. Max({depth[v], h[n]}) = Deepest(h, outs \cup {n}) /\ Max({depth[v], h[n]}) \in Nat
  BY <1>1, <1>4, DeepestGrows
<1>6. depth' = [depth EXCEPT ![v] = Max({depth[v], h[n]})] /\ depth \in [Views -> Nat]
  BY <1>4 DEF CreatePo, RInv, RTypes
<1>7. depth' \in [Views -> Nat] /\ depth'[v] = Deepest(h, outs \cup {n})
  BY <1>5, <1>6
<1>8. RTypes'
  BY <1>2, <1>7 DEF RInv, RTypes
<1>9. ViewIsExact(v)'
  BY <1>2, <1>3, <1>4, <1>7 DEF ViewIsExact, Exact
<1>10. outs' \subseteq Nodes'
  BY <1>1, <1>2, <1>3
<1>11. WellBuilt(fanins') /\ Handlers(handlers', live') /\ SharedAlike'
  BY <1>2 DEF RInv, SharedAlike
<1>12. QED
  BY <1>2, <1>8, <1>9, <1>10, <1>11 DEF RInv

-----------------------------------------------------------------------------
(* Views come and go.                                                      *)

\* What update_levels finds.
LEMMA Recomputed ==
  ASSUME RInv, NoDangling
  PROVE  /\ ComputedLevels = Heights /\ ComputedDepth = Deepest(Heights, outs)
         /\ ComputedDepth \in Nat /\ \A n \in Nodes : Heights[n] <= ComputedDepth
<1>1. WellBuilt(fanins) /\ outs \subseteq Nodes
  BY DEF RInv
<1>2. ComputedLevels = Heights
  BY <1>1, ComputedHeights
<1>3. ComputedDepth = Deepest(Heights, outs)
  BY <1>2 DEF ComputedDepth, Deepest
<1>4. Deepest(Heights, outs) \in Nat
  BY HeightFacts, DeepestBounds
<1>5. \A n \in Nodes : Heights[n] <= Deepest(Heights, outs)
  BY <1>1, NoneAbove
<1>6. QED
  BY ONLY <1>2, <1>3, <1>4, <1>5

\* update_levels changes nothing.
LEMMA UpdateStep ==
  ASSUME RInv, NoDangling, NEW v \in Views, UpdateLevels(v)
  PROVE  RInv'
<1>1. /\ v \in live /\ levelMap[v] \in Data
      /\ levels \in [Data -> Seq(Nat)] /\ depth \in [Views -> Nat]
  BY DEF RInv, RTypes, UpdateLevels
<1>2. levels[levelMap[v]] = Heights /\ depth[v] = Deepest(Heights, outs)
  BY <1>1 DEF RInv, ViewIsExact, Exact
<1>3. levels' = [levels EXCEPT ![levelMap[v]] = levels[levelMap[v]]]
      /\ depth' = [depth EXCEPT ![v] = depth[v]]
  BY <1>2, Recomputed DEF UpdateLevels
<1>4. levels' = levels /\ depth' = depth
  BY ONLY <1>1, <1>3
<1>5. /\ fanins' = fanins /\ outs' = outs /\ live' = live /\ handlers' = handlers
      /\ levelMap' = levelMap /\ posMap' = posMap /\ positions' = positions /\ ranks' = ranks
      /\ width' = width
  BY DEF UpdateLevels, shapeVars, netVars
<1>6. Heights' = Heights /\ Nodes' = Nodes
  BY <1>5, HeightsStay
<1>7. QED
  BY <1>4, <1>5, <1>6 DEF RInv, RTypes, ViewIsExact, SharedAlike

\* A new view.
LEMMA ConstructStep ==
  ASSUME RInv, NoDangling, NEW v \in Views, Construct(v)
  PROVE  RInv'
<1> PICK h, d, p, k : h = Heights /\ d = Unused(levelMap) /\ p = Unused(posMap) /\ k = Len(fanins)
  OBVIOUS
<1>1. h \in Seq(Nat) /\ Len(h) = k /\ k \in Nat
  BY HeightFacts
<1>2. RTypes /\ v \notin live /\ live \subseteq Views
  BY DEF RInv, RTypes, Construct
<1>3. /\ d \in Data /\ (\A w \in live : levelMap[w] # d)
      /\ p \in Data /\ (\A w \in live : posMap[w] # p)
  BY <1>2, UnusedData DEF RTypes
<1>4. ComputedLevels = h /\ ComputedDepth = Deepest(h, outs) /\ ComputedDepth \in Nat
      /\ \A n \in Nodes : h[n] <= ComputedDepth
  BY Recomputed
<1>5. PICK s : s = InitRanks(v, p, h)
  OBVIOUS
<1>6. Entering(s, v, p, h, k, ComputedDepth + 1, k)
  <2>1. Entering(InitRanks(v, p, h), v, p, h, Len(fanins), ComputedDepth + 1, Len(fanins))
    BY <1>1, <1>2, <1>3, <1>4, AllEntered
  <2>2. QED
    BY <1>5, <2>1
<1>7. /\ fanins' = fanins /\ outs' = outs
      /\ live' = live \cup {v} /\ handlers' = Append(handlers, v)
      /\ levelMap' = [levelMap EXCEPT ![v] = d] /\ posMap' = [posMap EXCEPT ![v] = p]
      /\ levels' = [levels EXCEPT ![d] = h] /\ depth' = [depth EXCEPT ![v] = Deepest(h, outs)]
      /\ positions' = s.pos /\ ranks' = s.ranks /\ width' = s.width
  BY <1>4, <1>5 DEF Construct, Ranked, netVars
<1>8. Heights' = h /\ Nodes' = Nodes
  BY <1>7, HeightsStay
<1>9. Deepest(h, outs) \in Nat
  BY <1>4
<1>10. /\ s.pos \in [Data -> Seq(Nat)] /\ s.ranks \in [Views -> Seq(Seq(Nat))]
       /\ s.width \in [Views -> Nat]
       /\ \A x \in Data : x # p => s.pos[x] = positions[x]
       /\ \A u \in Views : u # v => s.ranks[u] = ranks[u] /\ s.width[u] = width[u]
       /\ Places(h, k, s.pos[p], s.ranks[v]) /\ Widest(s.ranks[v], s.width[v])
       /\ Len(s.pos[p]) = k
  BY <1>6 DEF Entering, Rankings
<1>11. /\ levelMap \in [Views -> Data] /\ posMap \in [Views -> Data]
       /\ levels \in [Data -> Seq(Nat)] /\ depth \in [Views -> Nat]
  BY <1>2 DEF RTypes
<1>12. RTypes'
  <2>1. live' \subseteq Views
    BY <1>2, <1>7
  <2>2. levelMap' \in [Views -> Data] /\ posMap' \in [Views -> Data]
    BY <1>3, <1>7, <1>11
  <2>3. levels' \in [Data -> Seq(Nat)]
    BY <1>1, <1>7, <1>11
  <2>4. depth' \in [Views -> Nat]
    BY <1>7, <1>9, <1>11
  <2>5. QED
    BY <1>7, <1>10, <2>1, <2>2, <2>3, <2>4 DEF RTypes
<1>13. /\ levelMap'[v] = d /\ posMap'[v] = p /\ levels'[d] = h /\ depth'[v] = Deepest(h, outs)
  BY <1>3, <1>7, <1>11
<1>14. ViewIsExact(v)'
  BY <1>1, <1>7, <1>8, <1>10, <1>13 DEF ViewIsExact, Exact
<1>15. ASSUME NEW w \in live
       PROVE  /\ levelMap'[w] = levelMap[w] /\ posMap'[w] = posMap[w] /\ depth'[w] = depth[w]
              /\ levels'[levelMap[w]] = levels[levelMap[w]]
              /\ positions'[posMap[w]] = positions[posMap[w]]
              /\ ranks'[w] = ranks[w] /\ width'[w] = width[w]
  <2>1. w # v /\ w \in Views /\ levelMap[w] \in Data /\ posMap[w] \in Data
        /\ levelMap[w] # d /\ posMap[w] # p
    BY <1>2, <1>3, <1>11
  <2>2. QED
    BY ONLY <1>7, <1>10, <1>11, <2>1
<1>16. ASSUME NEW w \in live PROVE ViewIsExact(w)'
  <2>1. Exact(h, outs, levels[levelMap[w]], depth[w], positions[posMap[w]], ranks[w], width[w])
    BY DEF RInv, ViewIsExact
  <2>2. QED
    BY <1>7, <1>8, <1>15, <2>1 DEF ViewIsExact
<1>17. SharedAlike'
  <2> SUFFICES ASSUME NEW u \in live', NEW w \in live', posMap'[u] = posMap'[w]
               PROVE  ranks'[u] = ranks'[w]
    BY DEF SharedAlike
  <2>1. CASE u \in live /\ w \in live
    BY <1>15, <2>1 DEF RInv, SharedAlike
  <2>2. CASE u = v /\ w \in live
    BY <1>3, <1>13, <1>15, <2>2
  <2>3. CASE u \in live /\ w = v
    BY <1>3, <1>13, <1>15, <2>3
  <2>4. CASE u = v /\ w = v
    BY <2>4
  <2>5. QED
    BY <1>7, <2>1, <2>2, <2>3, <2>4
<1>18. Handlers(handlers', live')
  BY <1>2, <1>7, HandlerAdded DEF RInv
<1>19. WellBuilt(fanins') /\ outs' \subseteq Nodes'
  BY <1>7, <1>8 DEF RInv
<1>20. \A w \in live' : ViewIsExact(w)'
  BY <1>7, <1>14, <1>16
<1>21. QED
  BY <1>12, <1>17, <1>18, <1>19, <1>20 DEF RInv

\* The copy of a view.
LEMMA CopyStep ==
  ASSUME RInv, NEW v \in Views, NEW w \in Views, Copy(v, w)
  PROVE  RInv'
<1>1. /\ v \notin live /\ w \in live /\ fanins' = fanins /\ outs' = outs
      /\ live' = live \cup {v} /\ handlers' = Append(handlers, v)
      /\ levelMap' = [levelMap EXCEPT ![v] = levelMap[w]]
      /\ posMap' = [posMap EXCEPT ![v] = posMap[w]]
      /\ depth' = [depth EXCEPT ![v] = depth[w]] /\ ranks' = [ranks EXCEPT ![v] = ranks[w]]
      /\ width' = [width EXCEPT ![v] = width[w]] /\ levels' = levels /\ positions' = positions
  BY DEF Copy, netVars
<1>2. /\ live \subseteq Views /\ levelMap \in [Views -> Data] /\ posMap \in [Views -> Data]
      /\ levels \in [Data -> Seq(Nat)] /\ positions \in [Data -> Seq(Nat)]
      /\ ranks \in [Views -> Seq(Seq(Nat))] /\ depth \in [Views -> Nat]
      /\ width \in [Views -> Nat]
  BY DEF RInv, RTypes
<1>3. RTypes'
  BY <1>1, <1>2 DEF RTypes
<1>4. Heights' = Heights /\ Nodes' = Nodes
  BY <1>1, HeightsStay
\* What a view was before: the new one was the original.
<1> DEFINE was(u) == IF u = v THEN w ELSE u
<1>5. ASSUME NEW u \in live'
      PROVE  /\ was(u) \in live /\ levelMap'[u] = levelMap[was(u)] /\ posMap'[u] = posMap[was(u)]
             /\ depth'[u] = depth[was(u)] /\ ranks'[u] = ranks[was(u)]
             /\ width'[u] = width[was(u)]
  <2>1. CASE u = v
    <3>1. was(u) = w
      BY <2>1
    <3>2. QED
      BY <1>1, <1>2, <2>1, <3>1
  <2>2. CASE u # v
    <3>1. was(u) = u /\ u \in live /\ u \in Views
      BY <1>1, <1>2, <2>2
    <3>2. QED
      BY <1>1, <1>2, <2>2, <3>1
  <2>3. QED
    BY <2>1, <2>2
<1> HIDE DEF was
<1>6. ASSUME NEW u \in live' PROVE ViewIsExact(u)'
  <2> PICK x : x = was(u)
    OBVIOUS
  <2>1. Exact(Heights, outs, levels[levelMap[x]], depth[x], positions[posMap[x]],
              ranks[x], width[x])
    BY <1>5 DEF RInv, ViewIsExact
  <2>2. QED
    BY <1>1, <1>4, <1>5, <2>1 DEF ViewIsExact
<1>7. SharedAlike'
  <2> SUFFICES ASSUME NEW x \in live', NEW y \in live', posMap'[x] = posMap'[y]
               PROVE  ranks'[x] = ranks'[y]
    BY DEF SharedAlike
  <2>1. posMap[was(x)] = posMap[was(y)] /\ was(x) \in live /\ was(y) \in live
    BY <1>5
  <2>2. ranks[was(x)] = ranks[was(y)]
    BY <2>1 DEF RInv, SharedAlike
  <2>3. QED
    BY <1>5, <2>2
<1>8. Handlers(handlers', live')
  BY <1>1, HandlerAdded DEF RInv
<1>9. WellBuilt(fanins') /\ outs' \subseteq Nodes'
  BY <1>1, <1>4 DEF RInv
<1>10. QED
  BY <1>3, <1>6, <1>7, <1>8, <1>9 DEF RInv

\* Data that views use.
KeptFor(kept, vectors, map, views) ==
  /\ kept \in [Data -> Seq(Nat)]
  /\ \A v \in views : kept[map[v]] = vectors[map[v]]

\* It is kept.
LEMMA KeptFacts ==
  ASSUME NEW vectors, vectors \in [Data -> Seq(Nat)], NEW map, map \in [Views -> Data],
         NEW views, views \in SUBSET Views, NEW kept, kept = Kept(vectors, map, views)
  PROVE  KeptFor(kept, vectors, map, views)
<1>1. <<>> \in Seq(Nat)
  OBVIOUS
<1>2. kept \in [Data -> Seq(Nat)]
  BY <1>1 DEF Kept
<1>3. ASSUME NEW v \in views PROVE kept[map[v]] = vectors[map[v]]
  <2>1. map[v] \in Data
    OBVIOUS
  <2>2. QED
    BY <2>1 DEF Kept
<1>4. QED
  BY <1>2, <1>3 DEF KeptFor

\* v = w.
LEMMA AssignStep ==
  ASSUME RInv, NEW v \in Views, NEW w \in Views, Assign(v, w)
  PROVE  RInv'
<1>1. /\ v \in live /\ w \in live /\ fanins' = fanins /\ outs' = outs /\ live' = live
      /\ handlers' = Append(Released(v), v) /\ levelMap' = levelMap
      /\ posMap' = [posMap EXCEPT ![v] = posMap[w]]
      /\ ranks' = [ranks EXCEPT ![v] = ranks[w]] /\ width' = [width EXCEPT ![v] = width[w]]
      /\ levels' = levels /\ depth' = depth /\ positions' = Kept(positions, posMap', live)
  BY DEF Assign, netVars
<1>2. /\ live \subseteq Views /\ levelMap \in [Views -> Data] /\ posMap \in [Views -> Data]
      /\ levels \in [Data -> Seq(Nat)] /\ positions \in [Data -> Seq(Nat)]
      /\ ranks \in [Views -> Seq(Seq(Nat))] /\ depth \in [Views -> Nat]
      /\ width \in [Views -> Nat]
  BY DEF RInv, RTypes
<1>3. /\ posMap' \in [Views -> Data] /\ ranks' \in [Views -> Seq(Seq(Nat))]
      /\ width' \in [Views -> Nat]
  BY <1>1, <1>2
<1>4. /\ positions' \in [Data -> Seq(Nat)]
      /\ \A u \in live : positions'[posMap'[u]] = positions[posMap'[u]]
  <2> PICK map, kept : map = posMap' /\ kept = positions'
    OBVIOUS
  <2>1. /\ positions \in [Data -> Seq(Nat)] /\ map \in [Views -> Data] /\ live \in SUBSET Views
        /\ kept = Kept(positions, map, live)
    BY <1>1, <1>2, <1>3
  <2>2. KeptFor(kept, positions, map, live)
    BY ONLY <2>1, KeptFacts
  <2>3. QED
    BY <2>2 DEF KeptFor
<1>5. RTypes'
  BY <1>1, <1>2, <1>3, <1>4 DEF RTypes
<1>6. Heights' = Heights /\ Nodes' = Nodes
  BY <1>1, HeightsStay
\* Whose ranks a view has: v those of w.
<1> DEFINE was(u) == IF u = v THEN w ELSE u
<1>7. ASSUME NEW u \in live
      PROVE  /\ was(u) \in live /\ posMap'[u] = posMap[was(u)] /\ ranks'[u] = ranks[was(u)]
             /\ width'[u] = width[was(u)] /\ positions'[posMap'[u]] = positions[posMap[was(u)]]
  <2>1. /\ was(u) \in live /\ posMap'[u] = posMap[was(u)] /\ ranks'[u] = ranks[was(u)]
        /\ width'[u] = width[was(u)]
    BY <1>1, <1>2
  <2>2. QED
    BY <1>4, <2>1
<1> HIDE DEF was
<1>8. ASSUME NEW u \in live PROVE ViewIsExact(u)'
  <2> PICK x : x = was(u)
    OBVIOUS
  <2>1. /\ Exact(Heights, outs, levels[levelMap[x]], depth[x], positions[posMap[x]],
                 ranks[x], width[x])
        /\ Exact(Heights, outs, levels[levelMap[u]], depth[u], positions[posMap[u]],
                 ranks[u], width[u])
    BY <1>7 DEF RInv, ViewIsExact
  <2>2. Exact(Heights, outs, levels[levelMap[u]], depth[u], positions[posMap[x]],
              ranks[x], width[x])
    BY <2>1 DEF Exact
  <2>3. QED
    BY <1>1, <1>6, <1>7, <2>2 DEF ViewIsExact
<1>9. SharedAlike'
  <2> SUFFICES ASSUME NEW x \in live, NEW y \in live, posMap'[x] = posMap'[y]
               PROVE  ranks'[x] = ranks'[y]
    BY <1>1 DEF SharedAlike
  <2>1. posMap[was(x)] = posMap[was(y)] /\ was(x) \in live /\ was(y) \in live
    BY <1>7
  <2>2. ranks[was(x)] = ranks[was(y)]
    BY <2>1 DEF RInv, SharedAlike
  <2>3. QED
    BY <1>7, <2>2
<1>10. Handlers(handlers', live')
  <2> DEFINE i == CHOOSE i \in DOMAIN handlers : handlers[i] = v
  <2>1. Handlers(RemoveAt(handlers, i), live \ {v})
    BY <1>1, HandlerGone DEF RInv
  <2>2. Released(v) = RemoveAt(handlers, i)
    BY DEF Released
  <2>3. Handlers(Append(Released(v), v), (live \ {v}) \cup {v})
    BY <2>1, <2>2, HandlerAdded, v \notin live \ {v}
  <2>4. (live \ {v}) \cup {v} = live
    BY <1>1
  <2>5. QED
    BY <1>1, <2>3, <2>4
<1>11. WellBuilt(fanins') /\ outs' \subseteq Nodes'
  BY <1>1, <1>6 DEF RInv
<1>12. QED
  BY <1>1, <1>5, <1>8, <1>9, <1>10, <1>11 DEF RInv

\* The destructor.
LEMMA DestroyStep ==
  ASSUME RInv, NEW v \in Views, Destroy(v)
  PROVE  RInv'
<1>1. /\ v \in live /\ fanins' = fanins /\ outs' = outs /\ live' = live \ {v}
      /\ handlers' = Released(v) /\ levelMap' = [levelMap EXCEPT ![v] = 1]
      /\ posMap' = [posMap EXCEPT ![v] = 1] /\ depth' = [depth EXCEPT ![v] = 0]
      /\ ranks' = [ranks EXCEPT ![v] = <<>>] /\ width' = [width EXCEPT ![v] = 0]
      /\ levels' = Kept(levels, levelMap, live') /\ positions' = Kept(positions, posMap, live')
  BY DEF Destroy, netVars
<1>2. /\ live \subseteq Views /\ levelMap \in [Views -> Data] /\ posMap \in [Views -> Data]
      /\ levels \in [Data -> Seq(Nat)] /\ positions \in [Data -> Seq(Nat)]
      /\ ranks \in [Views -> Seq(Seq(Nat))] /\ depth \in [Views -> Nat]
      /\ width \in [Views -> Nat]
  BY DEF RInv, RTypes
<1>3. 1 \in Data
  <2>1. levelMap[v] \in Data
    BY <1>1, <1>2
  <2> PICK c, x : c = Cardinality(Views) /\ x = levelMap[v]
    OBVIOUS
  <2>2. x \in 1 .. c /\ c \in Nat
    BY <2>1, ViewsAssumption, FS_CardinalityType DEF Data
  <2>3. 1 \in 1 .. c
    BY ONLY <2>2
  <2>4. QED
    BY <2>3 DEF Data
<1>4. <<>> \in Seq(Seq(Nat))
  OBVIOUS
<1>5. /\ live' \subseteq Views /\ levelMap' \in [Views -> Data] /\ posMap' \in [Views -> Data]
      /\ ranks' \in [Views -> Seq(Seq(Nat))] /\ depth' \in [Views -> Nat]
      /\ width' \in [Views -> Nat]
  BY <1>1, <1>2, <1>3, <1>4
<1>6. /\ levels' \in [Data -> Seq(Nat)] /\ positions' \in [Data -> Seq(Nat)]
      /\ \A u \in live' : levels'[levelMap[u]] = levels[levelMap[u]]
      /\ \A u \in live' : positions'[posMap[u]] = positions[posMap[u]]
  <2> PICK views, l, p : views = live' /\ l = levels' /\ p = positions'
    OBVIOUS
  <2>1. /\ views \in SUBSET Views /\ l = Kept(levels, levelMap, views)
        /\ p = Kept(positions, posMap, views)
    BY <1>1, <1>5
  <2>2. KeptFor(l, levels, levelMap, views) /\ KeptFor(p, positions, posMap, views)
    BY ONLY <1>2, <2>1, KeptFacts
  <2>3. QED
    BY <2>2 DEF KeptFor
<1>7. RTypes'
  BY <1>5, <1>6 DEF RTypes
<1>8. Heights' = Heights /\ Nodes' = Nodes
  BY <1>1, HeightsStay
<1>9. ASSUME NEW u \in live'
      PROVE  /\ u \in live /\ levelMap'[u] = levelMap[u] /\ posMap'[u] = posMap[u]
             /\ depth'[u] = depth[u] /\ ranks'[u] = ranks[u] /\ width'[u] = width[u]
  BY <1>1, <1>2
<1>10. ASSUME NEW u \in live' PROVE ViewIsExact(u)'
  <2>1. Exact(Heights, outs, levels[levelMap[u]], depth[u], positions[posMap[u]],
              ranks[u], width[u])
    BY <1>9 DEF RInv, ViewIsExact
  <2>2. /\ levels'[levelMap'[u]] = levels[levelMap[u]] /\ depth'[u] = depth[u]
        /\ positions'[posMap'[u]] = positions[posMap[u]] /\ ranks'[u] = ranks[u]
        /\ width'[u] = width[u]
    BY <1>6, <1>9
  <2>3. QED
    BY ONLY <1>1, <1>8, <2>1, <2>2 DEF ViewIsExact
<1>11. SharedAlike'
  BY <1>9 DEF RInv, SharedAlike
<1>12. Handlers(handlers', live')
  BY <1>1, HandlerGone DEF RInv, Released
<1>13. WellBuilt(fanins') /\ outs' \subseteq Nodes'
  BY <1>1, <1>8 DEF RInv
<1>14. QED
  BY <1>7, <1>10, <1>11, <1>12, <1>13 DEF RInv
-----------------------------------------------------------------------------
(* Operations of a view.                                                   *)

\* The only view has other positions, and the rank at l is in another order.
LEMMA ReorderStep ==
  ASSUME RInv, NEW v \in Views, live = {v}, NEW l, l \in 1 .. Len(ranks[v]),
         NEW order, order \in Seq(Nat), Len(order) = Len(ranks[v][l]),
         NEW q, q \in Seq(Nat), Len(q) = Len(positions[posMap[v]]),
         Places(Heights, Len(Heights), q, [ranks[v] EXCEPT ![l] = order]),
         ranks' = [ranks EXCEPT ![v] = [ranks[v] EXCEPT ![l] = order]],
         positions' = [positions EXCEPT ![posMap[v]] = q],
         UNCHANGED <<netVars, shapeVars, levels, depth, width>>
  PROVE  RInv'
<1>1. /\ fanins' = fanins /\ outs' = outs /\ live' = live /\ handlers' = handlers
      /\ levelMap' = levelMap /\ posMap' = posMap /\ levels' = levels /\ depth' = depth
      /\ width' = width
  BY DEF netVars, shapeVars
<1>2. Heights' = Heights /\ Nodes' = Nodes
  BY <1>1, HeightsStay
<1>3. /\ posMap[v] \in Data /\ positions \in [Data -> Seq(Nat)]
      /\ ranks \in [Views -> Seq(Seq(Nat))]
  BY DEF RInv, RTypes
<1>4. /\ levels[levelMap[v]] = Heights /\ depth[v] = Deepest(Heights, outs)
      /\ Len(positions[posMap[v]]) = Len(Heights) /\ Widest(ranks[v], width[v])
  BY DEF RInv, ViewIsExact, Exact
<1> PICK rs, w, ss : rs = ranks[v] /\ w = width[v] /\ ss = [rs EXCEPT ![l] = order]
  OBVIOUS
<1>5. rs \in Seq(Seq(Nat)) /\ Widest(rs, w) /\ l \in 1 .. Len(rs) /\ Len(order) = Len(rs[l])
  BY <1>3, <1>4
<1>6. Widest(ss, w) /\ ss \in Seq(Seq(Nat))
  BY ONLY <1>5, order \in Seq(Nat), WidestReorder, ss = [rs EXCEPT ![l] = order]
<1>7. ranks' = [ranks EXCEPT ![v] = ss]
  OBVIOUS
<1>8. ranks'[v] = ss /\ ranks' \in [Views -> Seq(Seq(Nat))]
  BY ONLY <1>3, <1>6, <1>7, v \in Views
<1>9. positions'[posMap[v]] = q /\ positions' \in [Data -> Seq(Nat)]
  BY <1>3
<1>10. RTypes'
  BY <1>1, <1>8, <1>9 DEF RInv, RTypes
<1>11. Places(Heights, Len(Heights), q, ss)
  OBVIOUS
<1>12. ViewIsExact(v)'
  BY <1>1, <1>2, <1>4, <1>6, <1>8, <1>9, <1>11 DEF ViewIsExact, Exact
<1>13. SharedAlike'
  BY <1>1 DEF SharedAlike
<1>14. WellBuilt(fanins') /\ outs' \subseteq Nodes' /\ Handlers(handlers', live')
  BY <1>1, <1>2 DEF RInv
<1>15. QED
  BY <1>1, <1>10, <1>12, <1>13, <1>14 DEF RInv

\* swap.
LEMMA SwapStep ==
  ASSUME RInv, NEW v \in Views, live = {v}, NEW n \in Nodes, NEW m \in Nodes, Swap(v, n, m)
  PROVE  RInv'
<1> PICK h, k, pos, rs : /\ h = Heights /\ k = Len(Heights)
                         /\ pos = positions[posMap[v]] /\ rs = ranks[v]
  OBVIOUS
<1>1. n \in 1 .. k /\ m \in 1 .. k
  BY HeightFacts
<1>2. levels[levelMap[v]] = h /\ Places(h, k, pos, rs)
  BY DEF RInv, ViewIsExact, Exact
<1> DEFINE l == h[n] + 1
           rank == rs[l]
           order == [rank EXCEPT ![pos[n] + 1] = rank[pos[m] + 1],
                                 ![pos[m] + 1] = rank[pos[n] + 1]]
           q == [pos EXCEPT ![n] = pos[m], ![m] = pos[n]]
<1>3. h[n] = h[m]
  BY <1>2 DEF Swap, Level
<1>4. ranks' = [ranks EXCEPT ![v] = [rs EXCEPT ![l] = order]]
  BY <1>2 DEF Swap, Level, Pos
<1>5. positions' = [positions EXCEPT ![posMap[v]] = q]
  BY DEF Swap, Pos
<1>6. UNCHANGED <<netVars, shapeVars, levels, depth, width>>
  BY DEF Swap
<1>7. /\ l \in 1 .. Len(rs) /\ order \in Seq(Nat) /\ Len(order) = Len(rank)
      /\ q \in Seq(Nat) /\ Len(q) = Len(pos)
      /\ Places(h, k, q, [rs EXCEPT ![l] = order])
  <2> PICK rank2, order2, q2 : rank2 = rank /\ order2 = order /\ q2 = q
    OBVIOUS
  <2>1. /\ rank2 = rs[h[n] + 1]
        /\ order2 = Exchanged(rank2, pos[n] + 1, pos[m] + 1) /\ q2 = Exchanged(pos, n, m)
    BY DEF Exchanged
  <2>2. /\ h[n] + 1 \in 1 .. Len(rs) /\ order2 \in Seq(Nat) /\ Len(order2) = Len(rank2)
        /\ q2 \in Seq(Nat) /\ Len(q2) = Len(pos)
        /\ Places(h, k, q2, [rs EXCEPT ![h[n] + 1] = order2])
    BY ONLY <1>1, <1>2, <1>3, <2>1, PlacesSwap
  <2> HIDE DEF order, q, rank
  <2>3. QED
    BY <2>2
<1> HIDE DEF order, q, l
<1>8. QED
  BY <1>4, <1>5, <1>6, <1>7, ReorderStep

\* sort_rank, by the comparator that turns a rank round.
LEMMA SortStep ==
  ASSUME RInv, NEW v \in Views, live = {v}, NEW i \in Nat, i < Len(ranks[v]),
         SortRank(v, i, Reverse(ranks[v][i + 1]))
  PROVE  RInv'
<1> PICK h, k, pos, rs, l : /\ h = Heights /\ k = Len(Heights) /\ pos = positions[posMap[v]]
                            /\ rs = ranks[v] /\ l = i + 1
  OBVIOUS
<1>1. Places(h, k, pos, rs)
  BY DEF RInv, ViewIsExact, Exact
<1>2. l \in 1 .. Len(rs)
  <2>1. Len(rs) \in Nat
    BY <1>1, PlacesFacts
  <2>2. QED
    BY <2>1
<1> PICK order : order = Reverse(rs[l])
  OBVIOUS
<1>3. rs[l] \in Seq(Nat) /\ \A a, b \in 1 .. Len(rs[l]) : rs[l][a] = rs[l][b] => a = b
  BY <1>1, <1>2, RankInjective
<1>4. /\ order \in Seq(Nat) /\ SameNodes(order, rs[l])
      /\ \A a, b \in 1 .. Len(rs[l]) : order[a] = order[b] => a = b
  <2> PICK rank : rank = rs[l]
    OBVIOUS
  <2>1. rank \in Seq(Nat) /\ \A a, b \in 1 .. Len(rank) : rank[a] = rank[b] => a = b
    BY <1>3
  <2>2. /\ Reverse(rank) \in Seq(Nat) /\ SameNodes(Reverse(rank), rank)
        /\ \A a, b \in 1 .. Len(rank) : Reverse(rank)[a] = Reverse(rank)[b] => a = b
    BY ONLY <2>1, Reversed
  <2>3. QED
    BY <2>2
<1>5. Len(order) = Len(rs[l]) /\ \A a, b \in 1 .. Len(order) : order[a] = order[b] => a = b
  BY <1>4 DEF SameNodes
<1> DEFINE q == [n \in DOMAIN pos |-> IF \E j \in DOMAIN order : order[j] = n
                                     THEN (CHOOSE j \in DOMAIN order : order[j] = n) - 1
                                     ELSE pos[n]]
<1>6. SortRank(v, i, order)
  OBVIOUS
<1>7. ranks' = [ranks EXCEPT ![v] = [rs EXCEPT ![l] = order]]
  BY <1>6 DEF SortRank
<1>8. positions' = [positions EXCEPT ![posMap[v]] = q]
  BY <1>6 DEF SortRank
<1>9. UNCHANGED <<netVars, shapeVars, levels, depth, width>>
  BY <1>6 DEF SortRank
<1>10. q \in Seq(Nat) /\ Len(q) = Len(pos) /\ Places(h, k, q, [rs EXCEPT ![l] = order])
  BY ONLY <1>1, <1>2, <1>4, <1>5, PlacesSort
<1> HIDE DEF q
<1>11. QED
  BY <1>2, <1>4, <1>5, <1>7, <1>8, <1>9, <1>10, ReorderStep

-----------------------------------------------------------------------------
(* The invariant.                                                          *)

\* It holds in the beginning.
LEMMA RInvInit == Init => RInv
<1> SUFFICES ASSUME Init PROVE RInv
  OBVIOUS
<1>1. WellBuilt(fanins) /\ outs \subseteq Nodes
  BY DEF Init, WellBuilt
<1>2. RTypes
  <2>1. \A v \in Views : 1 \in Data
    <3> SUFFICES ASSUME NEW v \in Views PROVE 1 \in Data
      OBVIOUS
    <3> PICK c : c = Cardinality(Views)
      OBVIOUS
    <3>1. c \in Nat /\ c # 0
      BY ViewsAssumption, FS_CardinalityType, FS_EmptySet
    <3>2. 1 \in 1 .. c
      BY <3>1
    <3>3. QED
      BY <3>2 DEF Data
  <2>2. levelMap \in [Views -> Data] /\ posMap \in [Views -> Data]
    BY <2>1 DEF Init
  <2>3. <<>> \in Seq(Nat) /\ <<>> \in Seq(Seq(Nat))
    OBVIOUS
  <2>4. QED
    BY <2>2, <2>3 DEF Init, RTypes
<1>3. Handlers(handlers, live) /\ live = {}
  BY DEF Init, Handlers
<1>4. QED
  BY <1>1, <1>2, <1>3 DEF RInv, SharedAlike

\* Every step keeps it.
LEMMA RInvStep == RInv /\ [Next]_vars => RInv'
<1> SUFFICES ASSUME RInv, [Next]_vars PROVE RInv'
  OBVIOUS
<1>1. CASE UNCHANGED vars
  <2>1. /\ fanins' = fanins /\ outs' = outs /\ live' = live /\ handlers' = handlers
        /\ levelMap' = levelMap /\ posMap' = posMap /\ levels' = levels
        /\ positions' = positions /\ depth' = depth /\ ranks' = ranks /\ width' = width
    BY <1>1 DEF vars, netVars, shapeVars
  <2>2. Heights' = Heights /\ Nodes' = Nodes
    BY <2>1, HeightsStay
  <2>3. QED
    BY <2>1, <2>2 DEF RInv, RTypes, ViewIsExact, SharedAlike
<1>2. CASE live = {} /\ CreatePiBelow
  BY <1>2, PiBelowStep
<1>3. ASSUME NEW F \in SUBSET Nodes, Cardinality(F) = 2 /\ CreateGate(F) PROVE RInv'
  BY <1>3, GateStep
<1>4. ASSUME NEW v \in Views, NEW w \in Views, Copy(v, w) \/ Assign(v, w) PROVE RInv'
  BY <1>4, CopyStep, AssignStep
<1>5. ASSUME NEW v \in Views, Destroy(v) PROVE RInv'
  BY <1>5, DestroyStep
<1>6. ASSUME NoDangling, NEW v \in Views, Construct(v) \/ UpdateLevels(v) PROVE RInv'
  BY <1>6, ConstructStep, UpdateStep
<1>7. ASSUME NEW v \in Views, live = {v} /\ Ordering(v) PROVE RInv'
  <2>1. CASE CreatePi(v)
    BY <1>7, <2>1, PiStep
  <2>2. ASSUME NEW n \in Nodes, CreatePo(v, n) PROVE RInv'
    BY <1>7, <2>2, PoStep
  <2>3. ASSUME NEW n \in Nodes, NEW m \in Nodes, Swap(v, n, m) PROVE RInv'
    BY <1>7, <2>3, SwapStep
  <2>4. ASSUME NEW l \in 0 .. MaxNodes - 1, l < Len(ranks[v]),
               SortRank(v, l, Reverse(ranks[v][l + 1]))
        PROVE  RInv'
    <3>1. l \in Nat
      BY RankBoundsAssumption
    <3>2. QED
      BY <1>7, <2>4, <3>1, SortStep
  <2>5. QED
    BY <1>7, <2>1, <2>2, <2>3, <2>4 DEF Ordering
<1>8. QED
  BY <1>1, <1>2, <1>3, <1>4, <1>5, <1>6, <1>7 DEF Next, Objects, Recompute, Alone

\* It always holds.
LEMMA RInvAlways == Spec => []RInv
  BY RInvInit, RInvStep, PTL DEF Spec

-----------------------------------------------------------------------------
(* What it says.                                                           *)

\* The levels of every view are exact.
LEMMA ExactLevels == RInv => LevelsExact
  BY DEF RInv, ViewIsExact, Exact, LevelsExact

\* So is the depth of a view that is alone.
LEMMA ExactDepth == RInv => DepthExact
  BY DEF RInv, ViewIsExact, Exact, Deepest, DepthExact

\* The width is the highest of the lengths of the ranks.
LEMMA WidestIs ==
  ASSUME NEW rs \in Seq(Seq(Nat)), NEW w, Widest(rs, w)
  PROVE  w = Highest({Len(rs[i]) : i \in DOMAIN rs})
<1> DEFINE S == {Len(rs[i]) : i \in DOMAIN rs}
<1>1. DOMAIN rs = 1 .. Len(rs) /\ \A i \in 1 .. Len(rs) : rs[i] \in Seq(Nat)
  OBVIOUS
<1>2. \A i \in 1 .. Len(rs) : Len(rs[i]) \in Nat
  BY <1>1
<1>3. S \in SUBSET Nat /\ w \in Nat /\ (\A x \in S : x <= w) /\ w \in S \cup {0}
  BY <1>1, <1>2 DEF Widest
<1> HIDE DEF S
<1>4. Highest(S) = w
  BY <1>3, HighestUnique
<1>5. QED
  BY <1>4 DEF S

\* Ranks and positions are inverse to each other, and the width is right.
LEMMA ExactRanks == RInv => RanksExact
<1> SUFFICES ASSUME RInv, NEW v \in live
             PROVE  /\ \A n \in Nodes :
                          /\ Level(v, n) < Len(ranks[v])
                          /\ Pos(v, n) < Len(ranks[v][Level(v, n) + 1])
                          /\ ranks[v][Level(v, n) + 1][Pos(v, n) + 1] = n
                    /\ \A i \in DOMAIN ranks[v] : \A j \in DOMAIN ranks[v][i] :
                          LET n == ranks[v][i][j]
                          IN  n \in Nodes /\ Level(v, n) = i - 1 /\ Pos(v, n) = j - 1
                    /\ width[v] = Highest({Len(ranks[v][i]) : i \in DOMAIN ranks[v]})
  BY DEF RanksExact
<1> PICK h, k, pos, rs, w : /\ h = Heights /\ k = Len(Heights) /\ pos = positions[posMap[v]]
                            /\ rs = ranks[v] /\ w = width[v]
  OBVIOUS
<1>1. levels[levelMap[v]] = h /\ Places(h, k, pos, rs) /\ Widest(rs, w)
  BY DEF RInv, ViewIsExact, Exact
<1>2. Nodes = 1 .. k
  BY HeightFacts
<1>3. rs \in Seq(Seq(Nat)) /\ Len(rs) \in Nat /\ k \in Nat
      /\ pos \in Seq(Nat) /\ h \in Seq(Nat) /\ k <= Len(pos) /\ k <= Len(h)
  BY <1>1, PlacesFacts
<1>4. \A n : Level(v, n) = h[n] /\ Pos(v, n) = pos[n]
  BY <1>1 DEF Level, Pos
<1>5. ASSUME NEW n \in 1 .. k
      PROVE  h[n] < Len(rs) /\ pos[n] < Len(rs[h[n] + 1]) /\ rs[h[n] + 1][pos[n] + 1] = n
  <2>1. /\ h[n] \in Nat /\ pos[n] \in Nat /\ h[n] + 1 \in 1 .. Len(rs)
        /\ pos[n] + 1 \in 1 .. Len(rs[h[n] + 1]) /\ rs[h[n] + 1][pos[n] + 1] = n
        /\ Len(rs[h[n] + 1]) \in Nat
    <3>1. Placed(h, pos, rs, n)
      BY ONLY <1>1, n \in 1 .. k, PlaceOf
    <3>2. QED
      BY ONLY <3>1 DEF Placed
  <2>2. \A a, b \in Nat : a + 1 \in 1 .. b => a < b
    OBVIOUS
  <2>3. QED
    BY ONLY <1>3, <2>1, <2>2
<1>6. ASSUME NEW i \in 1 .. Len(rs), NEW j \in 1 .. Len(rs[i]), NEW n, n = rs[i][j]
      PROVE  n \in 1 .. k /\ h[n] = i - 1 /\ pos[n] = j - 1
  <2>1. n \in 1 .. k /\ h[n] + 1 = i /\ pos[n] + 1 = j
    BY <1>1, <1>6, NodeAt
  <2>2. h[n] \in Nat /\ pos[n] \in Nat
    BY ONLY <1>1, <2>1, PlaceOf DEF Placed
  <2>3. QED
    BY ONLY <2>1, <2>2
<1>7. DOMAIN rs = 1 .. Len(rs) /\ \A i \in 1 .. Len(rs) : DOMAIN rs[i] = 1 .. Len(rs[i])
  BY <1>3
<1>8. w = Highest({Len(rs[i]) : i \in DOMAIN rs})
  BY <1>1, <1>3, WidestIs
<1>9. \A n \in Nodes : /\ Level(v, n) < Len(ranks[v])
                       /\ Pos(v, n) < Len(ranks[v][Level(v, n) + 1])
                       /\ ranks[v][Level(v, n) + 1][Pos(v, n) + 1] = n
  BY <1>2, <1>4, <1>5
<1>10. ASSUME NEW i \in DOMAIN ranks[v], NEW j \in DOMAIN ranks[v][i], NEW n, n = ranks[v][i][j]
       PROVE  n \in Nodes /\ Level(v, n) = i - 1 /\ Pos(v, n) = j - 1
  <2>1. i \in 1 .. Len(rs) /\ j \in 1 .. Len(rs[i]) /\ n = rs[i][j]
    BY <1>7, <1>10
  <2>2. n \in 1 .. k /\ h[n] = i - 1 /\ pos[n] = j - 1
    BY <1>6, <2>1
  <2>3. QED
    BY <1>2, <1>4, <2>2
<1>11. QED
  BY <1>8, <1>9, <1>10

\* Every view has the exact level of every node: through new gates of any
\* view, on_add of all of them, copies, assignments, and update_levels and
\* construction while no gate dangles.
THEOREM LevelsStayExact == Spec => []LevelsExact
  BY RInvAlways, ExactLevels, PTL

\* The only view has the exact depth, although create_po, update_levels and
\* the constructor compute it and gates and inputs do not.
THEOREM DepthStaysExact == Spec => []DepthExact
  BY RInvAlways, ExactDepth, PTL

\* In every view at_rank_position and rank_position are inverse to each other
\* and the ranks hold every node once, although copies share positions and
\* on_add runs once for each of them.
THEOREM RanksStayExact == Spec => []RanksExact
  BY RInvAlways, ExactRanks, PTL
=============================================================================
