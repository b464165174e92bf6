-------------------------- MODULE FanoutViewProof --------------------------
(***************************************************************************)
(* Proofs about fanout_view, for every number of nodes and of copies of the *)
(* view.  Its lists never hold a node that is dead or that is no fanout,    *)
(* whatever the clients do.  Between operations they hold every fanout, a   *)
(* single view's once each, and nothing refers to a dead node, as long as   *)
(* no pair of a cascade replaces a node by itself or revives a referenced   *)
(* one.                                                                     *)
(***************************************************************************)
EXTENDS FanoutView, AigGuarantees, Paths

-----------------------------------------------------------------------------
(* Lists.                                                                  *)

Lists == [Index -> Seq(Index)]
Members(list) == {list[i] : i \in DOMAIN list}
Injective(list) == \A i, j \in DOMAIN list : list[i] = list[j] => i = j
NodesOf(p) == {p[1].node, p[2].node}
\* What a handler has to do with n in the list of m: something at the fanins p.
At(m, n, p) == IF m \in NodesOf(p) THEN {n} ELSE {}

\* Pushing to a list adds one member.
LEMMA AppendMembers ==
  ASSUME NEW s \in Seq(Index), NEW x \in Index
  PROVE  /\ Append(s, x) \in Seq(Index) /\ Members(Append(s, x)) = Members(s) \cup {x}
         /\ Injective(s) /\ x \notin Members(s) => Injective(Append(s, x))
<1>1. /\ Len(s) \in Nat /\ DOMAIN s = 1 .. Len(s)
      /\ DOMAIN Append(s, x) = 1 .. Len(s) + 1
      /\ \A i \in 1 .. Len(s) : Append(s, x)[i] = s[i]
      /\ Append(s, x)[Len(s) + 1] = x
      /\ \A i \in 1 .. Len(s) + 1 : i \in 1 .. Len(s) \/ i = Len(s) + 1
  OBVIOUS
<1>2. Members(Append(s, x)) = Members(s) \cup {x}
  BY <1>1 DEF Members
<1>3. ASSUME Injective(s), x \notin Members(s) PROVE Injective(Append(s, x))
  <2>1. \A i \in 1 .. Len(s) : s[i] # x
    BY <1>1, <1>3 DEF Members
  <2>2. QED
    BY <1>1, <1>3, <2>1 DEF Injective
<1>4. QED
  BY <1>2, <1>3

\* A function that is built from its previous value.
IsFold(f, F, x, N) == f = [i \in 0 .. N |-> IF i = 0 THEN x ELSE F[i][f[i - 1]]]

\* Such a function exists.
LEMMA FoldExists ==
  ASSUME NEW S, NEW x \in S, NEW N \in Nat, NEW F \in [1 .. N -> [S -> S]]
  PROVE  \E f \in [0 .. N -> S] : IsFold(f, F, x, N)
<1> DEFINE Is(f, k) == /\ f \in [0 .. k -> S] /\ f[0] = x
                       /\ \A i \in 1 .. k : f[i] = F[i][f[i - 1]]
           T == {k \in Nat : k <= N => \E f : Is(f, k)}
<1>1. 0 \in T
  <2>1. Is([i \in 0 .. 0 |-> x], 0)
    OBVIOUS
  <2>2. QED
    BY <2>1
<1>2. ASSUME NEW k \in Nat, k \in T PROVE k + 1 \in T
  <2> SUFFICES ASSUME k + 1 <= N PROVE \E f : Is(f, k + 1)
    OBVIOUS
  <2>1. PICK f : Is(f, k)
    BY <1>2
  <2> DEFINE g == [i \in 0 .. k + 1 |-> IF i = k + 1 THEN F[k + 1][f[k]] ELSE f[i]]
  <2>2. F[k + 1] \in [S -> S] /\ f[k] \in S
    BY <2>1
  <2>3. g \in [0 .. k + 1 -> S] /\ g[0] = x
    BY <2>1, <2>2
  <2>4. ASSUME NEW i \in 1 .. k + 1 PROVE g[i] = F[i][g[i - 1]]
    <3>1. i - 1 \in 0 .. k /\ i - 1 # k + 1
      OBVIOUS
    <3>2. g[i - 1] = f[i - 1]
      BY <3>1
    <3>3. CASE i = k + 1
      BY <3>2, <3>3
    <3>4. CASE i \in 1 .. k
      BY <2>1, <3>2, <3>4
    <3>5. QED
      BY <3>3, <3>4
  <2>5. QED
    BY <2>3, <2>4
<1>3. N \in T
  <2> HIDE DEF T
  <2>1. Nat \subseteq T
    BY <1>1, <1>2, AllNumbers
  <2>2. QED
    BY <2>1
<1>4. PICK f : Is(f, N)
  BY <1>3
<1>5. f = [i \in 0 .. N |-> IF i = 0 THEN x ELSE F[i][f[i - 1]]]
  <2> DEFINE g == [i \in 0 .. N |-> IF i = 0 THEN x ELSE F[i][f[i - 1]]]
  <2>1. \A i \in 0 .. N : f[i] = g[i]
    BY <1>4
  <2>2. QED
    BY <1>4, <2>1
<1>6. QED
  BY <1>4, <1>5 DEF IsFold

\* The prefixes of a list without n.
IsWithout(f, list, n) ==
  f = [i \in 0 .. Len(list) |->
         IF i = 0 THEN <<>>
         ELSE IF list[i] = n THEN f[i - 1] ELSE Append(f[i - 1], list[i])]

\* Removing a node leaves the others.
LEMMA WithoutMembers ==
  ASSUME NEW list \in Seq(Index), NEW n
  PROVE  /\ Without(list, n) \in Seq(Index)
         /\ Members(Without(list, n)) = Members(list) \ {n}
         /\ Injective(list) => Injective(Without(list, n))
<1> DEFINE f == CHOOSE f : IsWithout(f, list, n)
           F == [i \in 1 .. Len(list) |->
                   [s \in Seq(Index) |-> IF list[i] = n THEN s ELSE Append(s, list[i])]]
           T == {k \in Nat : k <= Len(list) =>
                   /\ f[k] \in Seq(Index) /\ Members(f[k]) = {list[i] : i \in 1 .. k} \ {n}
                   /\ Injective(list) => Injective(f[k])}
<1>1. Len(list) \in Nat /\ DOMAIN list = 1 .. Len(list)
      /\ \A i \in 1 .. Len(list) : list[i] \in Index
  OBVIOUS
<1>2. Without(list, n) = f[Len(list)]
  BY DEF Without, IsWithout
<1>3. IsWithout(f, list, n)
  <2>1. F \in [1 .. Len(list) -> [Seq(Index) -> Seq(Index)]] /\ <<>> \in Seq(Index)
    BY <1>1
  <2> HIDE DEF F
  <2>2. PICK g \in [0 .. Len(list) -> Seq(Index)] : IsFold(g, F, <<>>, Len(list))
    BY <1>1, <2>1, FoldExists
  <2>3. ASSUME NEW i \in 0 .. Len(list), i # 0
        PROVE  F[i][g[i - 1]] = IF list[i] = n THEN g[i - 1] ELSE Append(g[i - 1], list[i])
    <3>1. i - 1 \in 0 .. Len(list) /\ i \in 1 .. Len(list)
      BY <1>1, <2>3
    <3>2. g[i - 1] \in Seq(Index)
      BY <3>1
    <3>3. QED
      BY <3>1, <3>2 DEF F
  <2>4. IsWithout(g, list, n)
    BY <2>2, <2>3 DEF IsWithout, IsFold
  <2>5. QED
    BY <2>4
<1> HIDE DEF f
<1>4. f[0] = <<>> /\ \A k \in Nat : k + 1 <= Len(list) =>
         f[k + 1] = IF list[k + 1] = n THEN f[k] ELSE Append(f[k], list[k + 1])
  <2>1. f[0] = <<>>
    BY <1>1, <1>3 DEF IsWithout
  <2>2. ASSUME NEW k \in Nat, k + 1 <= Len(list)
        PROVE  f[k + 1] = IF list[k + 1] = n THEN f[k] ELSE Append(f[k], list[k + 1])
    <3>1. k + 1 \in 0 .. Len(list) /\ k + 1 # 0 /\ (k + 1) - 1 = k
      BY <1>1, <2>2
    <3>2. QED
      BY <1>3, <3>1 DEF IsWithout
  <2>3. QED
    BY <2>1, <2>2
<1>5. 0 \in T
  <2>1. <<>> \in Seq(Index) /\ Members(<<>>) = {} /\ 1 .. 0 = {} /\ Injective(<<>>)
    BY DEF Members, Injective
  <2>2. {list[i] : i \in 1 .. 0} \ {n} = {}
    BY <2>1
  <2>3. QED
    BY <1>4, <2>1, <2>2
<1>6. ASSUME NEW k \in Nat, k \in T PROVE k + 1 \in T
  <2> SUFFICES ASSUME k + 1 <= Len(list)
               PROVE  /\ f[k + 1] \in Seq(Index)
                      /\ Members(f[k + 1]) = {list[i] : i \in 1 .. k + 1} \ {n}
                      /\ Injective(list) => Injective(f[k + 1])
    OBVIOUS
  <2>1. /\ f[k] \in Seq(Index) /\ Members(f[k]) = {list[i] : i \in 1 .. k} \ {n}
        /\ Injective(list) => Injective(f[k])
    BY <1>1, <1>6
  <2>2. f[k + 1] = IF list[k + 1] = n THEN f[k] ELSE Append(f[k], list[k + 1])
    BY <1>4
  <2>3. {list[i] : i \in 1 .. k + 1} = {list[i] : i \in 1 .. k} \cup {list[k + 1]}
    OBVIOUS
  <2>4. list[k + 1] \in Index
    BY <1>1
  <2>5. CASE list[k + 1] = n
    BY <2>1, <2>2, <2>3, <2>5
  <2>6. CASE list[k + 1] # n
    <3>1. f[k + 1] = Append(f[k], list[k + 1])
      BY <2>2, <2>6
    <3>2. Injective(list) => list[k + 1] \notin {list[i] : i \in 1 .. k} \ {n}
      BY <1>1 DEF Injective
    <3>3. QED
      BY <2>1, <2>3, <2>4, <2>6, <3>1, <3>2, AppendMembers
  <2>7. QED
    BY <2>5, <2>6
<1>7. Len(list) \in T
  <2> HIDE DEF T
  <2>1. Nat \subseteq T
    BY <1>5, <1>6, AllNumbers
  <2>2. QED
    BY <1>1, <2>1
<1>8. /\ f[Len(list)] \in Seq(Index)
      /\ Members(f[Len(list)]) = {list[i] : i \in 1 .. Len(list)} \ {n}
      /\ Injective(list) => Injective(f[Len(list)])
  BY <1>1, <1>7
<1>9. Members(list) = {list[i] : i \in 1 .. Len(list)}
  BY <1>1 DEF Members
<1>10. QED
  BY <1>2, <1>8, <1>9

\* Pushing a node to the lists of two fanins adds it to these.
LEMMA PushedMembers ==
  ASSUME NEW l \in Lists, NEW n \in Index, NEW p \in Pair
  PROVE  /\ Pushed(l, n, p) \in Lists
         /\ \A m \in Index : Members(Pushed(l, n, p)[m]) =
               Members(l[m]) \cup At(m, n, p)
         /\ /\ \A m \in Index : Injective(l[m]) /\ n \notin Members(l[m])
            /\ p[1].node # p[2].node
            => \A m \in Index : Injective(Pushed(l, n, p)[m])
<1>1. \A s \in Seq(Index) :
         /\ Append(s, n) \in Seq(Index) /\ Members(Append(s, n)) = Members(s) \cup {n}
         /\ Injective(s) /\ n \notin Members(s) => Injective(Append(s, n))
  BY AppendMembers
<1>2. PICK a, b \in Index : a = p[1].node /\ b = p[2].node
  BY DEF Pair, Signal
<1> DEFINE one == [l EXCEPT ![a] = Append(@, n)]
           two == [one EXCEPT ![b] = Append(@, n)]
<1>3. one \in Lists /\ \A m \in Index :
         one[m] = IF m = a THEN Append(l[m], n) ELSE l[m]
  BY <1>1 DEF Lists
<1> HIDE DEF one
<1>4. two \in Lists /\ \A m \in Index :
         two[m] = IF m = b THEN Append(one[m], n) ELSE one[m]
  BY <1>1, <1>3 DEF Lists
<1> HIDE DEF two
<1>5. Pushed(l, n, p) = two
  BY <1>2 DEF Pushed, one, two
<1>6. \A m \in Index : l[m] \in Seq(Index) /\ one[m] \in Seq(Index)
  BY <1>3 DEF Lists
<1>7. \A m \in Index : Members(two[m]) = Members(l[m]) \cup At(m, n, p)
  BY <1>1, <1>2, <1>3, <1>4, <1>6 DEF At, NodesOf
<1>8. ASSUME \A m \in Index : Injective(l[m]) /\ n \notin Members(l[m]), a # b
      PROVE  \A m \in Index : Injective(two[m])
  BY <1>1, <1>2, <1>3, <1>4, <1>6, <1>8
<1>9. QED
  BY <1>2, <1>4, <1>5, <1>7, <1>8

\* Removing a node from the lists of two fanins takes it from these.
LEMMA RemovedMembers ==
  ASSUME NEW l \in Lists, NEW n \in Index, NEW q
  PROVE  /\ Removed(l, n, q) \in Lists
         /\ \A m \in Index : Members(Removed(l, n, q)[m]) =
               Members(l[m]) \ At(m, n, q)
         /\ \A m \in Index : Injective(l[m]) => Injective(Removed(l, n, q)[m])
<1>1. \A m \in Index : /\ Without(l[m], n) \in Seq(Index)
                       /\ Members(Without(l[m], n)) = Members(l[m]) \ {n}
                       /\ Injective(l[m]) => Injective(Without(l[m], n))
  BY WithoutMembers DEF Lists
<1>2. QED
  BY <1>1 DEF Removed, Lists, At, NodesOf

\* The handlers of N views, one after the other.
IsViews(f, G, x, N) == f = [v \in 0 .. N |-> IF v = 0 THEN x ELSE G[f[v - 1]]]

\* What they make of the lists is defined.
LEMMA ViewsExist ==
  ASSUME NEW S, NEW x \in S, NEW N \in Nat, NEW G \in [S -> S]
  PROVE  \E f \in [0 .. N -> S] : IsViews(f, G, x, N)
<1> DEFINE F == [v \in 1 .. N |-> G]
<1>1. F \in [1 .. N -> [S -> S]]
  OBVIOUS
<1> HIDE DEF F
<1>2. PICK f \in [0 .. N -> S] : IsFold(f, F, x, N)
  BY <1>1, FoldExists
<1>3. ASSUME NEW v \in 0 .. N, v # 0 PROVE F[v] = G
  BY <1>3 DEF F
<1>4. QED
  BY <1>2, <1>3 DEF IsFold, IsViews

\* What the first of them brings about and every other one keeps is so in the
\* end.
LEMMA EveryView ==
  ASSUME NEW S, NEW x \in S, NEW N \in Nat \ {0}, NEW G \in [S -> S],
         NEW Finished \in SUBSET S, G[x] \in Finished, \A s \in Finished : G[s] \in Finished,
         NEW f, f[0] = x, \A k \in 0 .. N - 1 : f[k] \in S => f[k + 1] = G[f[k]]
  PROVE  f[N] \in Finished
<1> DEFINE T == {k \in Nat : k + 1 <= N => f[k + 1] \in Finished}
<1>1. 0 \in T
  OBVIOUS
<1>2. ASSUME NEW k \in Nat, k \in T PROVE k + 1 \in T
  <2> SUFFICES ASSUME (k + 1) + 1 <= N PROVE f[(k + 1) + 1] \in Finished
    OBVIOUS
  <2>1. k + 1 \in 0 .. N - 1 /\ f[k + 1] \in Finished
    BY <1>2
  <2>2. QED
    BY <2>1
<1>3. N - 1 \in T
  <2> HIDE DEF T
  <2>1. Nat \subseteq T
    BY <1>1, <1>2, AllNumbers
  <2>2. QED
    BY <2>1
<1>4. QED
  BY <1>3

-----------------------------------------------------------------------------
(* The handlers.                                                           *)

IsAdded(f, n, p) == f = [v \in 0 .. views |-> IF v = 0 THEN fanout ELSE Pushed(f[v - 1], n, p)]
IsModified(f, n, q, p) ==
  f = [v \in 0 .. views |->
         IF v = 0 THEN fanout ELSE Pushed(Removed(f[v - 1], n, q), n, p)]
IsDeleted(f, n, q) ==
  f = [v \in 0 .. views |->
         IF v = 0 THEN fanout ELSE Removed([f[v - 1] EXCEPT ![n] = <<>>], n, q)]

\* What on_add, on_modified and on_delete do to the members of the lists.
AddsTo(l, n, p) ==
  \A m \in Index :
     Members(l[m]) = Members(fanout[m]) \cup At(m, n, p)
MovesIn(l, n, q, p) ==
  \A m \in Index :
     Members(l[m]) = (Members(fanout[m]) \ At(m, n, q))
                       \cup At(m, n, p)
TakesFrom(l, n, q) ==
  \A m \in Index :
     Members(l[m]) = IF m = n THEN {}
                     ELSE Members(fanout[m]) \ At(m, n, q)

\* on_add lists the node at its fanins; a single view does so once.
LEMMA AddedMembers ==
  ASSUME fanout \in Lists, views \in Nat \ {0}, NEW n \in Index, NEW p \in Pair
  PROVE  /\ Added(n, p) \in Lists /\ AddsTo(Added(n, p), n, p)
         /\ views = 1 => Added(n, p) = Pushed(fanout, n, p)
<1> DEFINE G == [l \in Lists |-> Pushed(l, n, p)]
           Finished == {l \in Lists : AddsTo(l, n, p)}
           f == CHOOSE f : IsAdded(f, n, p)
<1>1. G \in [Lists -> Lists] /\ \A l \in Lists : G[l] = Pushed(l, n, p)
  BY PushedMembers
<1> HIDE DEF G
<1>2. Finished \in SUBSET Lists /\ G[fanout] \in Finished
  <2>1. G[fanout] = Pushed(fanout, n, p) /\ G[fanout] \in Lists
    BY <1>1
  <2>2. \A m \in Index : Members(Pushed(fanout, n, p)[m]) = Members(fanout[m]) \cup At(m, n, p)
    BY PushedMembers
  <2>3. QED
    BY <2>1, <2>2 DEF AddsTo
<1>3. ASSUME NEW l \in Finished PROVE G[l] \in Finished
  <2>1. l \in Lists /\ AddsTo(l, n, p) /\ G[l] = Pushed(l, n, p) /\ G[l] \in Lists
    BY <1>1
  <2>2. \A m \in Index : Members(Pushed(l, n, p)[m]) =
           Members(l[m]) \cup At(m, n, p)
    BY <2>1, PushedMembers
  <2>3. QED
    BY <2>1, <2>2 DEF AddsTo
<1>4. Added(n, p) = f[views]
  BY DEF Added, IsAdded
<1> HIDE DEF Finished, f
<1>5. PICK g \in [0 .. views -> Lists] : IsViews(g, G, fanout, views)
  BY <1>1, ViewsExist
<1>6. IsAdded(g, n, p)
  <2>1. \A v \in 0 .. views : v # 0 => g[v - 1] \in Lists
    OBVIOUS
  <2>2. QED
    BY <1>1, <1>5, <2>1 DEF IsAdded, IsViews
<1>7. IsAdded(f, n, p)
  BY <1>6 DEF f
<1>8. f[0] = fanout /\ \A k \in 0 .. views - 1 : f[k] \in Lists => f[k + 1] = G[f[k]]
  <2>1. f[0] = fanout
    BY <1>7 DEF IsAdded
  <2>2. ASSUME NEW k \in 0 .. views - 1, f[k] \in Lists PROVE f[k + 1] = G[f[k]]
    <3>1. k + 1 \in 0 .. views /\ k + 1 # 0 /\ (k + 1) - 1 = k
      OBVIOUS
    <3>2. f[k + 1] = Pushed(f[k], n, p)
      BY <1>7, <3>1 DEF IsAdded
    <3>3. QED
      BY <1>1, <2>2, <3>2
  <2>3. QED
    BY <2>1, <2>2
<1>9. f[views] \in Finished
  BY <1>1, <1>2, <1>3, <1>8, EveryView
<1>10. views = 1 => f[views] = Pushed(fanout, n, p)
  BY <1>1, <1>8
<1>11. QED
  BY <1>4, <1>9, <1>10 DEF Finished

\* on_modified moves the node from its old to its new fanins.
LEMMA ModifiedMembers ==
  ASSUME fanout \in Lists, views \in Nat \ {0}, NEW n \in Index, NEW q, NEW p \in Pair
  PROVE  /\ Modified(n, q, p) \in Lists /\ MovesIn(Modified(n, q, p), n, q, p)
         /\ views = 1 => Modified(n, q, p) = Pushed(Removed(fanout, n, q), n, p)
<1> DEFINE M(l) == Pushed(Removed(l, n, q), n, p)
           G == [l \in Lists |-> M(l)]
           Finished == {l \in Lists : MovesIn(l, n, q, p)}
           f == CHOOSE f : IsModified(f, n, q, p)
<1>1. ASSUME NEW l \in Lists
      PROVE  /\ M(l) \in Lists
             /\ \A m \in Index :
                  Members(M(l)[m]) = (Members(l[m]) \ At(m, n, q)) \cup At(m, n, p)
  <2> DEFINE r == Removed(l, n, q)
  <2>1. r \in Lists /\ \A m \in Index : Members(r[m]) = Members(l[m]) \ At(m, n, q)
    BY RemovedMembers
  <2> HIDE DEF r
  <2>2. /\ Pushed(r, n, p) \in Lists
        /\ \A m \in Index : Members(Pushed(r, n, p)[m]) = Members(r[m]) \cup At(m, n, p)
    BY <2>1, PushedMembers
  <2>3. QED
    BY <2>1, <2>2 DEF r
<1>2. Modified(n, q, p) = f[views]
  BY DEF Modified, IsModified
<1>3. \A h : IsModified(h, n, q, p) <=>
              h = [v \in 0 .. views |-> IF v = 0 THEN fanout ELSE M(h[v - 1])]
  BY DEF IsModified
<1> HIDE DEF M
<1>4. G \in [Lists -> Lists] /\ \A l \in Lists : G[l] = M(l)
  BY <1>1
<1> HIDE DEF G
<1>5. Finished \in SUBSET Lists /\ G[fanout] \in Finished
  BY <1>1, <1>4 DEF MovesIn
<1>6. ASSUME NEW l \in Finished PROVE G[l] \in Finished
  <2>1. l \in Lists /\ MovesIn(l, n, q, p) /\ G[l] = M(l) /\ M(l) \in Lists
    BY <1>1, <1>4
  <2>2. \A m \in Index :
           Members(M(l)[m]) = (Members(l[m]) \ At(m, n, q)) \cup At(m, n, p)
    BY <1>1, <2>1
  <2>3. \A m \in Index :
           Members(M(l)[m]) = (Members(fanout[m]) \ At(m, n, q)) \cup At(m, n, p)
    BY <2>1, <2>2 DEF MovesIn, At
  <2>4. QED
    BY <2>1, <2>3 DEF MovesIn
<1> HIDE DEF Finished, f
<1>7. PICK g \in [0 .. views -> Lists] : IsViews(g, G, fanout, views)
  BY <1>4, ViewsExist
<1>8. IsModified(g, n, q, p)
  <2>1. \A v \in 0 .. views : v # 0 => g[v - 1] \in Lists
    OBVIOUS
  <2>2. QED
    BY <1>3, <1>4, <1>7, <2>1 DEF IsViews
<1>9. IsModified(f, n, q, p)
  BY <1>8 DEF f
<1>10. f[0] = fanout /\ \A k \in 0 .. views - 1 : f[k] \in Lists => f[k + 1] = G[f[k]]
  <2>1. f[0] = fanout
    BY <1>3, <1>9
  <2>2. ASSUME NEW k \in 0 .. views - 1, f[k] \in Lists PROVE f[k + 1] = G[f[k]]
    <3>1. k + 1 \in 0 .. views /\ k + 1 # 0 /\ (k + 1) - 1 = k
      OBVIOUS
    <3>2. f[k + 1] = M(f[k])
      BY <1>3, <1>9, <3>1
    <3>3. QED
      BY <1>4, <2>2, <3>2
  <2>3. QED
    BY <2>1, <2>2
<1>11. f[views] \in Finished
  BY <1>4, <1>5, <1>6, <1>10, EveryView
<1>12. views = 1 => f[views] = M(fanout)
  BY <1>4, <1>10
<1>13. QED
  BY <1>2, <1>11, <1>12 DEF Finished, M

\* on_delete empties the list of the node and takes it from those of its fanins.
LEMMA DeletedMembers ==
  ASSUME fanout \in Lists, views \in Nat \ {0}, NEW n \in Index, NEW q
  PROVE  /\ Deleted(n, q) \in Lists /\ TakesFrom(Deleted(n, q), n, q)
         /\ views = 1 => Deleted(n, q) = Removed([fanout EXCEPT ![n] = <<>>], n, q)
<1> DEFINE M(l) == Removed([l EXCEPT ![n] = <<>>], n, q)
           G == [l \in Lists |-> M(l)]
           Finished == {l \in Lists : TakesFrom(l, n, q)}
           f == CHOOSE f : IsDeleted(f, n, q)
<1>1. ASSUME NEW l \in Lists
      PROVE  /\ M(l) \in Lists
             /\ \A m \in Index :
                  Members(M(l)[m]) = IF m = n THEN {} ELSE Members(l[m]) \ At(m, n, q)
  <2> DEFINE r == [l EXCEPT ![n] = <<>>]
  <2>1. Members(<<>>) = {} /\ <<>> \in Seq(Index)
    BY DEF Members
  <2>2. r \in Lists /\ r[n] = <<>> /\ \A m \in Index : m # n => r[m] = l[m]
    BY <2>1 DEF Lists
  <2> HIDE DEF r
  <2>3. /\ Removed(r, n, q) \in Lists
        /\ \A m \in Index : Members(Removed(r, n, q)[m]) = Members(r[m]) \ At(m, n, q)
    BY <2>2, RemovedMembers
  <2>4. \A m \in Index : Members(r[m]) = IF m = n THEN {} ELSE Members(l[m])
    BY <2>1, <2>2
  <2>5. QED
    BY <2>3, <2>4 DEF r
<1>2. Deleted(n, q) = f[views]
  BY DEF Deleted, IsDeleted
<1>3. \A h : IsDeleted(h, n, q) <=>
              h = [v \in 0 .. views |-> IF v = 0 THEN fanout ELSE M(h[v - 1])]
  BY DEF IsDeleted
<1> HIDE DEF M
<1>4. G \in [Lists -> Lists] /\ \A l \in Lists : G[l] = M(l)
  BY <1>1
<1> HIDE DEF G
<1>5. Finished \in SUBSET Lists /\ G[fanout] \in Finished
  BY <1>1, <1>4 DEF TakesFrom
<1>6. ASSUME NEW l \in Finished PROVE G[l] \in Finished
  <2>1. l \in Lists /\ TakesFrom(l, n, q) /\ G[l] = M(l) /\ M(l) \in Lists
    BY <1>1, <1>4
  <2>2. \A m \in Index :
           Members(M(l)[m]) = IF m = n THEN {} ELSE Members(l[m]) \ At(m, n, q)
    BY <1>1, <2>1
  <2>3. \A m \in Index :
           Members(M(l)[m]) = IF m = n THEN {} ELSE Members(fanout[m]) \ At(m, n, q)
    BY <2>1, <2>2 DEF TakesFrom, At
  <2>4. QED
    BY <2>1, <2>3 DEF TakesFrom
<1> HIDE DEF Finished, f
<1>7. PICK g \in [0 .. views -> Lists] : IsViews(g, G, fanout, views)
  BY <1>4, ViewsExist
<1>8. IsDeleted(g, n, q)
  <2>1. \A v \in 0 .. views : v # 0 => g[v - 1] \in Lists
    OBVIOUS
  <2>2. QED
    BY <1>3, <1>4, <1>7, <2>1 DEF IsViews
<1>9. IsDeleted(f, n, q)
  BY <1>8 DEF f
<1>10. f[0] = fanout /\ \A k \in 0 .. views - 1 : f[k] \in Lists => f[k + 1] = G[f[k]]
  <2>1. f[0] = fanout
    BY <1>3, <1>9
  <2>2. ASSUME NEW k \in 0 .. views - 1, f[k] \in Lists PROVE f[k + 1] = G[f[k]]
    <3>1. k + 1 \in 0 .. views /\ k + 1 # 0 /\ (k + 1) - 1 = k
      OBVIOUS
    <3>2. f[k + 1] = M(f[k])
      BY <1>3, <1>9, <3>1
    <3>3. QED
      BY <1>4, <2>2, <3>2
  <2>3. QED
    BY <2>1, <2>2
<1>11. f[views] \in Finished
  BY <1>4, <1>5, <1>6, <1>10, EveryView
<1>12. views = 1 => f[views] = M(fanout)
  BY <1>4, <1>10
<1>13. QED
  BY <1>2, <1>11, <1>12 DEF Finished, M

\* The lists of the fanouts below k.
IsComputed(f) ==
  f = [k \in 0 .. size |->
         IF k = 0 THEN [m \in Index |-> <<>>]
         ELSE [m \in Index |->
                 IF k - 1 \in LiveGates /\ m \in FaninNodes(k - 1)
                 THEN Append(f[k - 1][m], k - 1) ELSE f[k - 1][m]]]

\* compute_fanout lists the live fanouts.
LEMMA ComputedMembers ==
  ASSUME TypeOK
  PROVE  /\ Computed \in Lists
         /\ \A m \in Index : Members(Computed[m]) = {g \in LiveGates : m \in FaninNodes(g)}
         /\ \A m \in Index : Injective(Computed[m])
<1> DEFINE f == CHOOSE f : IsComputed(f)
           Empty == [m \in Index |-> <<>>]
           Next1(l, k) == [m \in Index |->
                             IF k - 1 \in LiveGates /\ m \in FaninNodes(k - 1)
                             THEN Append(l[m], k - 1) ELSE l[m]]
           F == [k \in 1 .. size |-> [l \in Lists |-> Next1(l, k)]]
           Below(m, k) == {g \in LiveGates : m \in FaninNodes(g) /\ g < k}
           T == {k \in Nat : k <= size =>
                   /\ f[k] \in Lists
                   /\ \A m \in Index : Members(f[k][m]) = Below(m, k) /\ Injective(f[k][m])}
<1>1. size \in Nat /\ LiveGates \subseteq Index /\ LiveGates \subseteq 0 .. size - 1
  BY NodesType DEF TypeOK, LiveGates, Nodes
<1>2. Members(<<>>) = {} /\ Injective(<<>>) /\ Empty \in Lists
  BY DEF Members, Lists, Injective
<1>3. \A s \in Seq(Index), n \in Index : Append(s, n) \in Seq(Index)
  OBVIOUS
<1>4. ASSUME NEW l \in Lists, NEW k \in 1 .. size PROVE Next1(l, k) \in Lists
  BY <1>1, <1>3 DEF Lists
<1>5. Computed = f[size]
  BY DEF Computed, IsComputed
<1>6. \A h : IsComputed(h) <=>
              h = [k \in 0 .. size |-> IF k = 0 THEN Empty ELSE Next1(h[k - 1], k)]
  BY DEF IsComputed
<1>7. \A l, k : Next1(l, k) = [m \in Index |->
                               IF k - 1 \in LiveGates /\ m \in FaninNodes(k - 1)
                               THEN Append(l[m], k - 1) ELSE l[m]]
  OBVIOUS
<1> HIDE DEF Next1, f
<1>8. IsComputed(f)
  <2>1. F \in [1 .. size -> [Lists -> Lists]]
    BY <1>4
  <2>2. \A k \in 1 .. size, l \in Lists : F[k][l] = Next1(l, k)
    OBVIOUS
  <2> HIDE DEF F, Empty
  <2>3. PICK g \in [0 .. size -> Lists] : IsFold(g, F, Empty, size)
    BY <1>1, <1>2, <2>1, FoldExists
  <2>4. \A k \in 0 .. size : k # 0 => F[k][g[k - 1]] = Next1(g[k - 1], k)
    BY <1>1, <2>2
  <2>5. IsComputed(g)
    BY <1>6, <2>3, <2>4 DEF IsFold
  <2>6. QED
    BY <2>5 DEF f
<1>9. f[0] = Empty /\ \A k \in Nat : k + 1 <= size => f[k + 1] = Next1(f[k], k + 1)
  <2>1. f[0] = Empty
    <3> HIDE DEF Empty
    <3>1. f = [k \in 0 .. size |-> IF k = 0 THEN Empty ELSE Next1(f[k - 1], k)]
      BY <1>6, <1>8
    <3>2. 0 \in 0 .. size
      BY <1>1
    <3>3. QED
      BY <3>1, <3>2
  <2>2. ASSUME NEW k \in Nat, k + 1 <= size PROVE f[k + 1] = Next1(f[k], k + 1)
    <3>1. k + 1 \in 0 .. size /\ k + 1 # 0 /\ (k + 1) - 1 = k
      BY <1>1, <2>2
    <3>2. QED
      BY <1>6, <1>8, <3>1
  <2>3. QED
    BY <2>1, <2>2
<1>10. 0 \in T
  <2>1. \A g \in LiveGates : ~(g < 0)
    BY <1>1
  <2>2. \A m \in Index : Below(m, 0) = {}
    BY <2>1
  <2>3. \A m \in Index : Members(Empty[m]) = {} /\ Injective(Empty[m])
    BY <1>2
  <2>4. QED
    BY <1>2, <1>9, <2>2, <2>3
<1>11. ASSUME NEW k \in Nat, k \in T PROVE k + 1 \in T
  <2> SUFFICES ASSUME k + 1 <= size
               PROVE  /\ f[k + 1] \in Lists
                      /\ \A m \in Index :
                            Members(f[k + 1][m]) = Below(m, k + 1) /\ Injective(f[k + 1][m])
    OBVIOUS
  <2>1. /\ f[k] \in Lists
        /\ \A m \in Index : Members(f[k][m]) = Below(m, k) /\ Injective(f[k][m])
    BY <1>1, <1>11
  <2>2. f[k + 1] = Next1(f[k], k + 1) /\ k + 1 \in 1 .. size /\ (k + 1) - 1 = k
    BY <1>1, <1>9
  <2>3. f[k + 1] \in Lists
    BY <1>4, <2>1, <2>2
  <2>4. ASSUME NEW m \in Index
        PROVE  Members(f[k + 1][m]) = Below(m, k + 1) /\ Injective(f[k + 1][m])
    <3>1. f[k + 1][m] = IF k \in LiveGates /\ m \in FaninNodes(k)
                        THEN Append(f[k][m], k) ELSE f[k][m]
      BY <1>7, <2>2
    <3>2. \A g \in LiveGates : g < k + 1 <=> (g < k \/ g = k)
      BY <1>1
    <3>3. CASE k \in LiveGates /\ m \in FaninNodes(k)
      <4>1. Below(m, k + 1) = Below(m, k) \cup {k}
        BY <3>2, <3>3
      <4>2. f[k][m] \in Seq(Index) /\ k \in Index
        BY <1>1, <2>1, <3>3 DEF Lists
      <4>3. k \notin Below(m, k)
        BY <1>1
      <4>4. /\ Members(f[k + 1][m]) = Members(f[k][m]) \cup {k}
            /\ Injective(f[k + 1][m])
        BY <2>1, <3>1, <3>3, <4>2, <4>3, AppendMembers
      <4>5. QED
        BY <2>1, <4>1, <4>4
    <3>4. CASE ~(k \in LiveGates /\ m \in FaninNodes(k))
      <4>1. Below(m, k + 1) = Below(m, k)
        BY <3>2, <3>4
      <4>2. QED
        BY <2>1, <3>1, <3>4, <4>1
    <3>5. QED
      BY <3>3, <3>4
  <2>5. QED
    BY <2>3, <2>4
<1>12. size \in T
  <2> HIDE DEF T
  <2>1. Nat \subseteq T
    BY <1>10, <1>11, AllNumbers
  <2>2. QED
    BY <1>1, <2>1
<1>13. \A m \in Index : Below(m, size) = {g \in LiveGates : m \in FaninNodes(g)}
  <2>1. \A g \in LiveGates : g < size
    BY <1>1
  <2>2. QED
    BY <2>1
<1>14. /\ f[size] \in Lists
       /\ \A m \in Index : Members(f[size][m]) = Below(m, size) /\ Injective(f[size][m])
  BY <1>1, <1>12
<1>15. QED
  BY <1>5, <1>13, <1>14

-----------------------------------------------------------------------------
(* The network under the view.                                             *)

\* The steps of the network keep its invariant.
LEMMA NetworkStep ==
  ASSUME IInv, NoOverflow, [AnyNext]_vars
  PROVE  IInv'
  BY NextType, AllocatedStep, FreshStep, ScanningStep, HashStep DEF IInv

\* So do the steps of the view that change nothing but what is to be done.
LEMMA ControlStep ==
  ASSUME IInv, scan = {}, UNCHANGED <<netVars, renamed, scan>>,
         pc' \in {"idle", "pop", "resolve", "begin", "scan"}, restrash' \in BOOLEAN,
         todo' \in Seq([old : Nodes, new : NodeSignal]),
         sub' \in [old : Nodes, new : NodeSignal],
         calls' \in Seq(NodeFrame), pc' = "scan" => calls' = <<>>
  PROVE  IInv' /\ LiveGates' = LiveGates
<1>1. LiveGates' = LiveGates /\ Nodes' = Nodes
  BY DEF netVars, LiveGates, Nodes, IsGate, Dead
<1>2. /\ Nodes \subseteq Index /\ [old : Nodes, new : NodeSignal] \subseteq Substitution
      /\ NodeFrame \subseteq Frame
  BY AllocatedParts DEF Substitution, NodeFrame
<1>3. todo' \in Seq(Substitution) /\ sub' \in Substitution /\ calls' \in Seq(Frame)
  BY <1>2, SeqMonotonic
<1>4. TypeOK'
  BY <1>3 DEF IInv, TypeOK, netVars
<1>5. Allocated'
  BY <1>1 DEF IInv, Allocated, NodeSignal, NodeFrame, IsGate, netVars
<1>6. Fresh' /\ OnlyGatesDie' /\ HashSound'
  BY <1>1 DEF IInv, Fresh, OnlyGatesDie, HashSound, IsGate, Dead, netVars
<1>7. Scanning'
  BY DEF Scanning
<1>8. QED
  BY <1>1, <1>4, <1>5, <1>6, <1>7 DEF IInv

\* So does the visit of any live gate that the list leads to.
LEMMA AnyVisit ==
  ASSUME IInv, NoOverflow, scan = {}, pc = "scan", NEW n \in LiveGates, ReplaceInNode(n),
         UNCHANGED <<pc, restrash, sub, renamed, scan, calls>>
  PROVE  IInv' /\ LiveGates \subseteq LiveGates'
<1> DEFINE p == Rewired(n)
           Waiting == [old : Nodes, new : NodeSignal]
<1> USE AllocatedParts
<1>1. /\ n \in Nodes /\ n \in Index /\ UNCHANGED <<size, isCi, outputs>>
      /\ Nodes' = Nodes /\ calls = <<>>
  <2>1. UNCHANGED <<size, isCi, outputs>>
    BY DEF ReplaceInNode, CollapseNode, RestrashNode, RewireNode, netVars
  <2>2. QED
    BY <2>1 DEF LiveGates, Nodes, IInv, Scanning
<1>2. TypeOK'
  BY <1>1, ReplaceInNodeType DEF IInv, TypeOK
<1>3. /\ child \in [Index -> NodeSignal \X NodeSignal] /\ todo \in Seq(Waiting)
      /\ outputs \in Seq(NodeSignal) /\ sub \in Waiting
      /\ renamed \in [DOMAIN renamed -> NodeSignal] /\ calls \in Seq(NodeFrame)
  BY DEF IInv, Allocated
<1>4. p \in NodeSignal \X NodeSignal /\ (IsEqual(p) => Equal(p) \in NodeSignal)
  BY <1>1, RewiredAllocated
<1>5. child' \in [Index -> NodeSignal \X NodeSignal]
  BY <1>1, <1>3, <1>4 DEF ReplaceInNode, CollapseNode, RestrashNode, RewireNode, netVars
<1>6. todo' \in Seq(Waiting)
  <2>1. CASE CollapseNode(n)
    <3>1. [old |-> n, new |-> Equal(p)] \in Waiting
      BY <1>1, <1>4, <2>1 DEF CollapseNode
    <3>2. QED
      BY <1>3, <2>1, <3>1, PushInSeq DEF CollapseNode
  <2>2. CASE RestrashNode(n) \/ RewireNode(n)
    BY <1>3, <2>2 DEF RestrashNode, RewireNode
  <2>3. QED
    BY <2>1, <2>2 DEF ReplaceInNode
<1>7. Allocated'
  BY <1>1, <1>3, <1>5, <1>6 DEF Allocated, NodeSignal, NodeFrame, IsGate
<1>8. /\ \A m \in Index \ Nodes : h1'[m] = h1[m]
      /\ \A m \in Nodes : ~Dead(m) => ~Dead(m)'
      /\ \A m \in Nodes : Dead(m)' => IsGate(m)
  <2>1. h1 \in [Index -> Nat] /\ DeadBit \in Nat /\ Len(outputs) \in Nat
    <3>1. TypeOK
      BY DEF IInv
    <3>2. QED
      BY ONLY <3>1, DeadBitAssumption DEF TypeOK
  <2>2. h1' = h1 \/ h1' = [h1 EXCEPT ![sub.new.node] = (@ + 1) % (2 * DeadBit)]
    BY DEF ReplaceInNode, CollapseNode, RestrashNode, RewireNode, netVars, Incr
  <2>3. CASE h1' = h1
    BY <2>3 DEF Dead, IInv, OnlyGatesDie
  <2>4. CASE h1' = [h1 EXCEPT ![sub.new.node] = (@ + 1) % (2 * DeadBit)]
    <3>1. \A m \in Index \ Nodes : h1'[m] = h1[m]
      BY <2>1, <2>4
    <3>2. 1 \in 0 .. Len(outputs) + 1
      BY <2>1
    <3>3. \A m \in Nodes : ~Dead(m) => h1'[m] < DeadBit
      <4>1. TypeOK /\ sub.new.node \in Index /\ Nodes \subseteq Index
        BY DEF IInv
      <4>2. QED
        BY <2>4, <3>2, <4>1, CountsUp
    <3>4. h1' \in [Index -> Nat]
      BY ONLY <1>2 DEF TypeOK
    <3>5. \A m \in Nodes : ~Dead(m) => ~Dead(m)'
      BY <2>1, <3>3, <3>4 DEF Dead
    <3>6. QED
      BY <3>1, <3>5 DEF IInv, OnlyGatesDie
  <2>5. QED
    BY <2>2, <2>3, <2>4
<1>9. LiveGates \subseteq LiveGates'
  BY <1>1, <1>8 DEF LiveGates, IsGate
<1>10. Fresh' /\ OnlyGatesDie' /\ Scanning'
  BY <1>1, <1>8 DEF IInv, Fresh, OnlyGatesDie, Scanning, IsGate
<1>11. HashSound'
  <2>1. CASE CollapseNode(n)
    BY <1>9, <2>1 DEF CollapseNode, netVars, IInv, HashSound
  <2>2. CASE RestrashNode(n) \/ RewireNode(n)
    <3> SUFFICES ASSUME NEW q \in DOMAIN hash'
                 PROVE  hash'[q] \in LiveGates' /\ child'[hash'[q]] = q
      BY DEF HashSound
    <3>1. /\ child' = [child EXCEPT ![n] = p]
          /\ \/ hash' = Erase(hash, child[n])
             \/ hash' = Insert(Erase(hash, child[n]), p, n)
      BY <2>2 DEF RestrashNode, RewireNode
    <3>2. CASE q = p /\ hash'[q] = n
      BY <1>1, <1>3, <1>9, <3>1, <3>2
    <3>3. CASE q \in DOMAIN hash \ {child[n]} /\ hash'[q] = hash[q]
      <4>1. hash[q] \in LiveGates /\ child[hash[q]] = q
        BY <3>3 DEF IInv, HashSound
      <4>2. QED
        BY <1>1, <1>3, <1>9, <3>1, <3>3, <4>1
    <3>4. QED
      BY <3>1, <3>2, <3>3 DEF Erase, Insert
  <2>3. QED
    BY <2>1, <2>2 DEF ReplaceInNode
<1>12. QED
  BY <1>2, <1>7, <1>9, <1>10, <1>11 DEF IInv

-----------------------------------------------------------------------------
(* The lists are never stale.                                              *)

VAnyNext == VNext \/ VSomeComplement

\* What the lists and the copy hold.
ListsCurrent ==
  \A m \in Index : \A x \in Members(fanout[m]) : x \in LiveGates /\ m \in FaninNodes(x)
CopyAlive == pc = "scan" => Members(parents) \subseteq LiveGates

VTypes == fanout \in Lists /\ parents \in Seq(Index) /\ views \in 1 .. MaxViews

\* The inductive invariant: the network's, and the lists.
VInv == IInv /\ scan = {} /\ VTypes /\ ListsCurrent /\ CopyAlive

\* This is what NoStaleFanout says.
LEMMA StaleMembers == NoStaleFanout <=> ListsCurrent /\ CopyAlive
  BY DEF NoStaleFanout, ListsCurrent, CopyAlive, Members

\* The steps of the network that the view leaves as they are.
Plain ==
  \/ UNCHANGED vars
  \/ Build \/ (\E n \in Nodes : TakeOut(n)) \/ SomeNoRestrash \/ SomeComplement
  \/ Unwind \/ Return \/ Pop \/ Follow \/ Resolved \/ FinishPair

\* They are steps of the network, and do not touch scan.
LEMMA PlainStep ==
  ASSUME Plain
  PROVE  [AnyNext]_vars /\ scan' = scan
<1>1. [AnyNext]_vars
  BY DEF Plain, AnyNext, Next, Substitute
<1>2. scan' = scan
  BY DEF Plain, vars, ctlVars, Build, CreatePi, CreatePo, CreateAnd, TakeOut, SomeNoRestrash,
         SubstituteNodeNoRestrash, SomeComplement, SubstituteComplement, Unwind,
         TakeOutIgnored, TakeOutEnter, TakeOutFanin, ReviveEnter, ReviveFanin, Return, Pop,
         Follow, Resolved, FinishPair
<1>3. QED
  BY <1>1, <1>2

\* The steps are those, and four of the view's own.
LEMMA StepKinds ==
  ASSUME [VAnyNext]_<<vars, viewVars>>
  PROVE  \/ Plain
         \/ \E o \in Nodes, s \in Signals : VSubstituteNode(o, s)
         \/ Drop \/ VBegin \/ VVisit
  BY DEF VAnyNext, VNext, Plain, Build, VCreateAnd, SomeNoRestrash, VSubstituteNodeNoRestrash,
         VUnwind, Unwind, VSubstitute, VFinishPair, VCopy, UpdateFanout, VSomeComplement,
         SomeComplement

\* What a visit does.
LEMMA VisitKinds ==
  ASSUME VInv, VVisit
  PROVE  /\ pc = "scan" /\ parents # <<>> /\ parents' = Tail(parents)
         /\ UNCHANGED <<pc, restrash, sub, renamed, scan, calls, views>> /\ calls = <<>>
         /\ Head(parents) \in LiveGates
         /\ \/ UNCHANGED <<netVars, todo, fanout>>
            \/ /\ sub.old \in FaninNodes(Head(parents))
               /\ CollapseNode(Head(parents)) /\ UNCHANGED fanout
            \/ /\ sub.old \in FaninNodes(Head(parents))
               /\ RestrashNode(Head(parents)) \/ RewireNode(Head(parents))
               /\ OnModified(Head(parents))
<1>1. pc = "scan" /\ parents # <<>> /\ parents \in Seq(Index)
  BY DEF VVisit, VInv, VTypes
<1>2. 1 \in DOMAIN parents /\ Head(parents) = parents[1]
  BY <1>1
<1>3. Head(parents) \in Members(parents)
  BY <1>2 DEF Members
<1>4. Head(parents) \in LiveGates
  BY <1>1, <1>3 DEF VInv, CopyAlive
<1>5. calls = <<>>
  BY <1>1 DEF VInv, IInv, Scanning
<1>6. QED
  BY <1>1, <1>4, <1>5 DEF VVisit

\* The view keeps the network's invariant, and only take_out_node kills.
LEMMA NetworkKept ==
  ASSUME VInv, NoOverflow, [VAnyNext]_<<vars, viewVars>>
  PROVE  /\ IInv' /\ scan' = {}
         /\ \A n \in LiveGates : ~(TakeOutEnter /\ n = Head(calls).node) => n \in LiveGates'
<1> DEFINE Waiting == [old : Nodes, new : NodeSignal]
<1>1. /\ IInv /\ scan = {} /\ restrash \in BOOLEAN /\ todo \in Seq(Waiting)
      /\ sub \in Waiting /\ calls \in Seq(NodeFrame)
  BY DEF VInv, IInv, TypeOK, Allocated
<1>2. CASE Plain
  <2>1. [AnyNext]_vars /\ scan' = scan
    BY <1>2, PlainStep
  <2>2. QED
    BY <1>1, <2>1, NetworkStep, LiveStep
<1>3. ASSUME NEW o \in Nodes, NEW s \in Signals, VSubstituteNode(o, s)
      PROVE  IInv' /\ scan' = {} /\ LiveGates' = LiveGates
  <2>1. s \in NodeSignal /\ s.node \in Nodes /\ Nodes \subseteq Index
    BY <1>1, PolarityAssumption, AllocatedParts DEF Signals, NodeSignal
  <2>2. Dead(s.node) => <<Call("revive", s.node)>> \in Seq(NodeFrame)
    BY <1>1, <2>1, NodeCallType DEF IInv, OnlyGatesDie
  <2>3. calls' \in Seq(NodeFrame)
    BY <1>3, <2>2 DEF VSubstituteNode
  <2>4. <<[old |-> o, new |-> s]>> \in Seq(Waiting)
    BY <2>1
  <2>5. /\ UNCHANGED <<netVars, renamed, scan, sub>> /\ pc' = "pop" /\ restrash' = TRUE
        /\ todo' = <<[old |-> o, new |-> s]>>
    BY <1>3 DEF VSubstituteNode
  <2>6. QED
    BY <1>1, <2>3, <2>4, <2>5, ControlStep
<1>4. CASE Drop \/ VBegin
  <2>1. /\ UNCHANGED <<netVars, restrash, todo, sub, renamed, scan, calls>>
        /\ calls = <<>> /\ pc' \in {"pop", "scan"}
    BY <1>4 DEF Drop, VBegin
  <2>2. IInv' /\ scan' = {} /\ LiveGates' = LiveGates
    BY <1>1, <2>1, ControlStep
  <2>3. QED
    BY <2>2
<1>5. CASE VVisit
  <2>1. CASE UNCHANGED <<netVars, todo>>
    BY <1>1, <1>5, <2>1, VisitKinds, ControlStep
  <2>2. CASE ReplaceInNode(Head(parents))
    BY <1>1, <1>5, <2>2, VisitKinds, AnyVisit
  <2>3. QED
    BY <1>5, <2>1, <2>2, VisitKinds DEF ReplaceInNode
<1>6. QED
  BY <1>2, <1>3, <1>4, <1>5, StepKinds

\* A node dies or comes to life.
Entering == TakeOutEnter \/ ReviveEnter

\* What a step does to the lists and to the fanins of the gates.
LEMMA ListKinds ==
  ASSUME VInv, [VAnyNext]_<<vars, viewVars>>
  PROVE  \/ UNCHANGED <<fanout, child>> /\ (UNCHANGED netVars \/ ~Entering)
         \/ \E a, b \in LiveSignals : VCreateAnd(a, b)
         \/ TakeOutEnter /\ OnDelete(Head(calls).node)
         \/ ReviveEnter /\ OnAdd(Head(calls).node)
         \/ /\ VVisit /\ OnModified(Head(parents))
            /\ RestrashNode(Head(parents)) \/ RewireNode(Head(parents))
         \/ UpdateFanout
<1> DEFINE Same == UNCHANGED <<fanout, child>> /\ (UNCHANGED netVars \/ ~Entering)
<1>1. CASE UNCHANGED <<vars, viewVars>>
  BY <1>1 DEF vars, viewVars, netVars
<1>2. CASE (CreatePi \/ \E f \in LiveSignals : CreatePo(f)) /\ UNCHANGED viewVars
  BY <1>2 DEF CreatePi, CreatePo, viewVars, Idle, Entering, TakeOutEnter, ReviveEnter, InCall
<1>3. CASE (\E n \in Nodes : TakeOut(n)) /\ UNCHANGED viewVars
  BY <1>3 DEF TakeOut, viewVars, netVars
<1>4. CASE \E o \in Nodes, s \in Signals :
              VSubstituteNode(o, s) \/ VSubstituteNodeNoRestrash(o, s)
  BY <1>4 DEF VSubstituteNode, VSubstituteNodeNoRestrash, SubstituteNodeNoRestrash, viewVars,
              netVars
<1>5. CASE VUnwind
  <2>1. CASE TakeOutIgnored /\ UNCHANGED fanout
    BY <2>1 DEF TakeOutIgnored, netVars
  <2>2. CASE (TakeOutFanin \/ ReviveFanin) /\ UNCHANGED fanout
    <3>1. child' = child /\ Head(calls).at \in {1, 2}
      BY <2>2 DEF TakeOutFanin, ReviveFanin, InCall
    <3>2. ~Entering
      BY <3>1 DEF Entering, TakeOutEnter, ReviveEnter, InCall
    <3>3. QED
      BY <2>2, <3>1, <3>2
  <2>3. QED
    BY <1>5, <2>1, <2>2 DEF VUnwind
<1>6. CASE (Return \/ Pop \/ Follow \/ Resolved) /\ UNCHANGED viewVars
  BY <1>6 DEF Return, Pop, Follow, Resolved, viewVars, netVars
<1>7. CASE Drop \/ VBegin
  BY <1>7 DEF Drop, VBegin, viewVars, netVars
<1>8. CASE VVisit
  BY <1>8, VisitKinds DEF CollapseNode, netVars
<1>9. CASE VFinishPair
  <2>1. calls = <<>>
    BY <1>9 DEF VFinishPair, FinishPair, VInv, IInv, Scanning
  <2>2. QED
    BY <1>9, <2>1 DEF VFinishPair, FinishPair, viewVars, Entering, TakeOutEnter,
                       ReviveEnter, InCall
<1>10. CASE VCopy
  BY <1>10 DEF VCopy, vars, netVars
<1>11. CASE VSomeComplement
  BY <1>11 DEF VSomeComplement, SubstituteComplement, viewVars, netVars
<1>12. QED
  BY <1>1, <1>2, <1>3, <1>4, <1>5, <1>6, <1>7, <1>8, <1>9, <1>10, <1>11
  DEF VAnyNext, VNext, VSubstitute

\* Only the view's own operations touch the copy and the number of views.
LEMMA CopyKinds ==
  ASSUME [VAnyNext]_<<vars, viewVars>>
  PROVE  /\ \/ parents' = parents /\ (pc' = "scan" => pc = "scan")
            \/ VBegin \/ VVisit
         /\ views' = views \/ VCopy
<1>1. views' = views \/ VCopy
  BY DEF VAnyNext, VNext, viewVars, VCreateAnd, VSubstituteNode, VSubstituteNodeNoRestrash,
         VUnwind, VSubstitute, Drop, VBegin, VVisit, VFinishPair, UpdateFanout, VSomeComplement
<1>2. \/ parents' = parents /\ (pc' = "scan" => pc = "scan")
      \/ VBegin \/ VVisit
  BY DEF VAnyNext, VNext, vars, viewVars, ctlVars, CreatePi, CreatePo, VCreateAnd, CreateAnd,
         TakeOut, VSubstituteNode, VSubstituteNodeNoRestrash, SubstituteNodeNoRestrash,
         VUnwind, TakeOutIgnored, TakeOutEnter, TakeOutFanin, ReviveEnter, ReviveFanin,
         VSubstitute, Return, Pop, Follow, Resolved, Drop, VFinishPair, FinishPair, VCopy,
         UpdateFanout, VSomeComplement, SubstituteComplement
<1>3. QED
  BY <1>1, <1>2

\* Every step keeps the lists current.
LEMMA ListsStep ==
  ASSUME VInv, NoOverflow, [VAnyNext]_<<vars, viewVars>>
  PROVE  fanout' \in Lists /\ ListsCurrent'
<1>1. /\ IInv /\ TypeOK /\ fanout \in Lists /\ views \in Nat \ {0}
      /\ child \in [Index -> Pair] /\ LiveGates \subseteq Index /\ Nodes \subseteq Index
  BY MaxViewsAssumption, NodesType DEF VInv, VTypes, IInv, TypeOK
<1>2. \A m \in Index : \A x \in Members(fanout[m]) :
         x \in LiveGates /\ x \in Index /\ m \in FaninNodes(x)
  BY <1>1 DEF VInv, ListsCurrent
<1>3. \A x : FaninNodes(x) = NodesOf(child[x]) /\ FaninNodes(x)' = NodesOf(child'[x])
  BY DEF FaninNodes, NodesOf
<1>4. CASE UNCHANGED <<fanout, child>> /\ (UNCHANGED netVars \/ ~Entering)
  <2>1. LiveGates \subseteq LiveGates'
    <3>1. CASE UNCHANGED netVars
      BY <3>1 DEF netVars, LiveGates, Nodes, IsGate, Dead
    <3>2. CASE ~Entering
      BY <3>2, NetworkKept DEF Entering
    <3>3. QED
      BY <1>4, <3>1, <3>2
  <2>2. QED
    BY <1>1, <1>2, <1>3, <1>4, <2>1 DEF ListsCurrent
<1>5. ASSUME NEW n \in Index, n \in LiveGates', ~TakeOutEnter, fanout' = Added(n, child'[n]),
             child' \in [Index -> Pair], \A x \in LiveGates : child'[x] = child[x]
      PROVE  fanout' \in Lists /\ ListsCurrent'
  <2>1. fanout' \in Lists /\ AddsTo(fanout', n, child'[n])
    BY <1>1, <1>5, AddedMembers
  <2>2. LiveGates \subseteq LiveGates'
    BY <1>5, NetworkKept
  <2>3. ASSUME NEW m \in Index, NEW x \in Members(fanout'[m])
        PROVE  x \in LiveGates' /\ m \in FaninNodes(x)'
    <3>1. x \in Members(fanout[m]) \/ (x = n /\ m \in NodesOf(child'[n]))
      BY <2>1, <2>3 DEF AddsTo, At
    <3>2. CASE x \in Members(fanout[m])
      BY <1>2, <1>3, <1>5, <2>2, <3>2
    <3>3. CASE x = n /\ m \in NodesOf(child'[n])
      BY <1>3, <1>5, <3>3
    <3>4. QED
      BY <3>1, <3>2, <3>3
  <2>4. QED
    BY <2>1, <2>3 DEF ListsCurrent
<1>6. ASSUME NEW a \in LiveSignals, NEW b \in LiveSignals, VCreateAnd(a, b)
      PROVE  fanout' \in Lists /\ ListsCurrent'
  <2>1. /\ calls = <<>> /\ size < MaxNodes /\ child' = [child EXCEPT ![size] = Ordered(a, b)]
        /\ size' = size + 1 /\ isCi' = isCi /\ fanout' = Added(size, child'[size])
    BY <1>6 DEF VCreateAnd, CreateAnd, Idle, OnAdd
  <2>2. size \in 1 .. MaxNodes /\ size \in Index /\ size \notin Nodes /\ size # 0
        /\ size \in Nodes'
    BY <1>1, <2>1, MaxNodesAssumption DEF TypeOK, Index, Nodes
  <2>3. IInv' /\ TypeOK'
    BY NetworkKept DEF IInv
  <2>4. child' \in [Index -> Pair]
    BY ONLY <2>3 DEF TypeOK
  <2>5. \A x \in LiveGates : child'[x] = child[x]
    BY <1>1, <2>1, <2>2 DEF LiveGates
  <2>6. PICK n \in Index : n = size
    BY <2>2
  <2>7. n \in LiveGates'
    <3>1. [AnyNext]_vars
      BY <1>6 DEF VCreateAnd, AnyNext, Next, Build
    <3>2. h1'[n] = 0 /\ ~isCi'[n]
      BY <1>1, <2>1, <2>2, <2>6, <3>1, CountsStep DEF IInv, Fresh
    <3>3. n # 0 /\ n \in Nodes'
      BY <2>2, <2>6
    <3>4. QED
      BY <3>2, <3>3, DeadBitAssumption DEF LiveGates, IsGate, Dead
  <2>8. ~TakeOutEnter
    BY <2>1 DEF TakeOutEnter, InCall
  <2>9. QED
    BY <1>5, <2>1, <2>4, <2>5, <2>6, <2>7, <2>8
<1>7. CASE ReviveEnter /\ OnAdd(Head(calls).node)
  <2> DEFINE n == Head(calls).node
  <2>1. /\ calls # <<>> /\ Head(calls).op = "revive" /\ UNCHANGED <<size, isCi, child>>
        /\ h1' = [h1 EXCEPT ![n] = 0] /\ fanout' = Added(n, child'[n])
    BY <1>7 DEF ReviveEnter, InCall, OnAdd
  <2>2. n \in Nodes /\ n \in Index /\ IsGate(n)
    BY <1>1, <2>1, FrameParts
  <2>3. n \in LiveGates'
    <3>1. h1'[n] = 0
      BY <1>1, <2>1, <2>2 DEF TypeOK
    <3>2. QED
      BY <2>1, <2>2, <3>1, DeadBitAssumption DEF LiveGates, Nodes, IsGate, Dead
  <2>4. ~TakeOutEnter
    BY <2>1 DEF TakeOutEnter, InCall
  <2>5. QED
    BY <1>1, <1>5, <2>1, <2>2, <2>3, <2>4
<1>8. CASE TakeOutEnter /\ OnDelete(Head(calls).node)
  <2> DEFINE n == Head(calls).node
  <2>1. /\ calls # <<>> /\ child' = child /\ fanout' = Deleted(n, child[n])
    BY <1>8 DEF TakeOutEnter, InCall, OnDelete
  <2>2. n \in Index
    BY <1>1, <2>1, FrameParts
  <2>3. fanout' \in Lists /\ TakesFrom(fanout', n, child[n])
    BY <1>1, <2>1, <2>2, DeletedMembers
  <2>4. ASSUME NEW m \in Index, NEW x \in Members(fanout'[m])
        PROVE  x \in LiveGates' /\ m \in FaninNodes(x)'
    <3>1. x \in Members(fanout[m]) /\ ~(x = n /\ m \in NodesOf(child[n]))
      BY <2>3, <2>4 DEF TakesFrom, At
    <3>2. x # n
      BY <1>2, <1>3, <3>1
    <3>3. QED
      BY <1>2, <1>3, <2>1, <3>1, <3>2, NetworkKept
  <2>5. QED
    BY <2>3, <2>4 DEF ListsCurrent
<1>9. CASE /\ VVisit /\ OnModified(Head(parents))
           /\ RestrashNode(Head(parents)) \/ RewireNode(Head(parents))
  <2> DEFINE n == Head(parents)
  <2>1. n \in LiveGates /\ n \in Index /\ calls = <<>>
    BY <1>1, <1>9, VisitKinds
  <2>2. child' = [child EXCEPT ![n] = Rewired(n)] /\ fanout' = Modified(n, child[n], child'[n])
    BY <1>9 DEF RestrashNode, RewireNode, OnModified
  <2>3. child'[n] \in Pair /\ \A x \in Index : x # n => child'[x] = child[x]
    BY <1>1, <2>1, <2>2, RewiredType
  <2>4. fanout' \in Lists /\ MovesIn(fanout', n, child[n], child'[n])
    BY <1>1, <2>1, <2>2, <2>3, ModifiedMembers
  <2>5. LiveGates \subseteq LiveGates'
    BY <2>1, NetworkKept DEF TakeOutEnter, InCall
  <2>6. ASSUME NEW m \in Index, NEW x \in Members(fanout'[m])
        PROVE  x \in LiveGates' /\ m \in FaninNodes(x)'
    <3>1. \/ x \in Members(fanout[m]) /\ ~(x = n /\ m \in NodesOf(child[n]))
          \/ x = n /\ m \in NodesOf(child'[n])
      BY <2>4, <2>6 DEF MovesIn, At
    <3>2. CASE x \in Members(fanout[m]) /\ ~(x = n /\ m \in NodesOf(child[n]))
      <4>1. x # n
        BY <1>2, <1>3, <3>2
      <4>2. QED
        BY <1>2, <1>3, <2>3, <2>5, <3>2, <4>1
    <3>3. CASE x = n /\ m \in NodesOf(child'[n])
      BY <1>3, <2>1, <2>5, <3>3
    <3>4. QED
      BY <3>1, <3>2, <3>3
  <2>7. QED
    BY <2>4, <2>6 DEF ListsCurrent
<1>10. CASE UpdateFanout
  <2>1. fanout' = Computed /\ UNCHANGED <<size, isCi, child, h1>>
    BY <1>10 DEF UpdateFanout, vars, netVars
  <2>2. fanout' \in Lists /\ \A m \in Index :
           Members(fanout'[m]) = {g \in LiveGates : m \in FaninNodes(g)}
    BY <1>1, <2>1, ComputedMembers
  <2>3. LiveGates' = LiveGates
    BY <2>1 DEF LiveGates, Nodes, IsGate, Dead
  <2>4. QED
    BY <1>3, <2>1, <2>2, <2>3 DEF ListsCurrent
<1>11. QED
  BY <1>4, <1>6, <1>7, <1>8, <1>9, <1>10, ListKinds

\* Every step keeps the copy alive: nothing is taken out while it is visited.
LEMMA CopyStep ==
  ASSUME VInv, NoOverflow, [VAnyNext]_<<vars, viewVars>>
  PROVE  parents' \in Seq(Index) /\ CopyAlive' /\ views' \in 1 .. MaxViews
<1>1. parents \in Seq(Index) /\ views \in 1 .. MaxViews /\ fanout \in Lists
      /\ MaxViews \in Nat /\ IInv
  BY MaxViewsAssumption DEF VInv, VTypes
<1>2. views' \in 1 .. MaxViews
  <2>1. CASE VCopy
    BY <1>1, <2>1 DEF VCopy
  <2>2. QED
    BY <1>1, <2>1, CopyKinds
<1>3. CASE parents' = parents /\ (pc' = "scan" => pc = "scan")
  <2>1. CASE pc' = "scan"
    <3>1. calls = <<>> /\ Members(parents) \subseteq LiveGates
      BY <1>3, <2>1 DEF VInv, IInv, Scanning, CopyAlive
    <3>2. LiveGates \subseteq LiveGates'
      BY <3>1, NetworkKept DEF TakeOutEnter, InCall
    <3>3. QED
      BY <1>1, <1>2, <1>3, <3>1, <3>2 DEF CopyAlive
  <2>2. CASE pc' # "scan"
    BY <1>1, <1>2, <1>3, <2>2 DEF CopyAlive
  <2>3. QED
    BY <2>1, <2>2
<1>4. CASE VBegin
  <2>1. parents' = fanout[sub.old] /\ UNCHANGED netVars /\ sub.old \in Index
    BY <1>1, <1>4, AllocatedParts DEF VBegin
  <2>2. parents' \in Seq(Index) /\ Members(parents') \subseteq LiveGates
    BY <1>1, <2>1 DEF VInv, ListsCurrent, Lists
  <2>3. LiveGates' = LiveGates
    BY <2>1 DEF netVars, LiveGates, Nodes, IsGate, Dead
  <2>4. QED
    BY <1>2, <2>2, <2>3 DEF CopyAlive
<1>5. CASE VVisit
  <2>1. pc = "scan" /\ parents # <<>> /\ parents' = Tail(parents) /\ calls = <<>>
    BY <1>5, VisitKinds
  <2>2. parents' \in Seq(Index) /\ Members(parents') \subseteq Members(parents)
    <3>1. /\ Len(parents) \in Nat /\ DOMAIN parents = 1 .. Len(parents)
          /\ DOMAIN Tail(parents) = 1 .. Len(parents) - 1 /\ Tail(parents) \in Seq(Index)
          /\ \A i \in 1 .. Len(parents) - 1 : Tail(parents)[i] = parents[i + 1]
      BY <1>1, <2>1, HeadTailProperties
    <3>2. \A i \in 1 .. Len(parents) - 1 : i + 1 \in 1 .. Len(parents)
      BY <3>1
    <3>3. QED
      BY <2>1, <3>1, <3>2 DEF Members
  <2>3. Members(parents) \subseteq LiveGates
    BY <2>1 DEF VInv, CopyAlive
  <2>4. LiveGates \subseteq LiveGates'
    BY <2>1, NetworkKept DEF TakeOutEnter, InCall
  <2>5. QED
    BY <1>2, <2>2, <2>3, <2>4 DEF CopyAlive
<1>6. QED
  BY <1>3, <1>4, <1>5, CopyKinds

\* The empty view.
LEMMA InitVInv == VInit => VInv
<1> SUFFICES ASSUME VInit PROVE VInv
  OBVIOUS
<1>1. IInv /\ scan = {} /\ pc = "idle"
  BY InitIInv DEF VInit, Init
<1>2. fanout = [n \in Index |-> <<>>] /\ parents = <<>> /\ views = 1
  BY DEF VInit
<1>3. Members(<<>>) = {}
  BY DEF Members
<1>4. VTypes
  BY <1>2, MaxViewsAssumption DEF VTypes, Lists
<1>5. QED
  BY <1>1, <1>2, <1>3, <1>4 DEF VInv, ListsCurrent, CopyAlive

\* However many views and copies there are, whatever their clients replace,
\* complement, take out or revive, and at every step in the middle of that:
\* the lists of fanout_view hold no dead node and none that is not a fanout
\* any more, and substitute_node visits nothing that has been taken out.
THEOREM ListsNeverStale ==
  VAnySpec /\ []NoOverflow => [](NoStaleFanout /\ fanout \in Lists)
<1>1. VInv /\ NoOverflow /\ [VAnyNext]_<<vars, viewVars>> => VInv'
  BY NetworkKept, ListsStep, CopyStep DEF VInv, VTypes
<1>2. VInv => NoStaleFanout /\ fanout \in Lists
  BY StaleMembers DEF VInv, VTypes
<1>3. VAnySpec => VInit /\ [][VAnyNext]_<<vars, viewVars>>
  BY DEF VAnySpec, VAnyNext
<1>4. QED
  BY InitVInv, <1>1, <1>2, <1>3, PTL

-----------------------------------------------------------------------------
(* The counts under the view.                                              *)

\* No pair makes a node its own replacement, not even one that Drop discards.
Apart == pc \in {"begin", "scan"} => sub.new.node # sub.old

\* A step that calls at most revive_node, before the lists are visited, counts
\* nothing.
LEMMA QuietCounts ==
  ASSUME CInv, UNCHANGED netVars, calls = <<>>, pc # "scan",
         \/ calls' = <<>>
         \/ \E n \in Nodes : Dead(n) /\ calls' = <<Call("revive", n)>>
  PROVE  OneKind' /\ DeadUncounted' /\ CountsExact' /\ Nested'
<1>1. TypeOK /\ Nodes \subseteq Index /\ Nodes' = Nodes /\ UNCHANGED <<child, h1, outputs>>
  BY NodesType DEF CInv, IInv, netVars, Nodes
<1>2. LiveGates' = LiveGates /\ \A n \in Nodes : Dead(n)' <=> Dead(n)
  BY DEF netVars, LiveGates, Nodes, IsGate, Dead
<1>3. ASSUME NEW op, NEW m PROVE FaninsAhead(op, m)' = FaninsAhead(op, m)
  <2>1. FaninsAhead(op, m) = 0
    BY AheadNone DEF FaninsAhead, AheadOf
  <2>2. FaninsAhead(op, m)' = Cardinality(AheadOf(calls', op, m))
    BY <1>1, AheadPrimed
  <2>3. Cardinality(AheadOf(calls', op, m)) = 0
    BY <1>1, AheadNone, AheadOfOneCall
  <2>4. QED
    BY <2>1, <2>2, <2>3
<1>4. CountsExact'
  <2> SUFFICES ASSUME NEW m \in Nodes, ~Dead(m) PROVE Balanced(m)'
    BY <1>1, <1>2 DEF CountsExact, Exact, Balanced
  <2>1. m \notin Stale
    BY DEF Stale
  <2>2. Balanced(m)
    BY <2>1 DEF CInv, CountsExact, Exact, Balanced
  <2>3. QED
    BY <1>1, <1>2, <1>3, <2>2, QuietStep
<1>5. DeadUncounted'
  BY <1>1, <1>2 DEF CInv, DeadUncounted
<1>6. OneKind' /\ Nested'
  <2>1. CASE calls' = <<>>
    BY <2>1 DEF CInv, OneKind, Nested
  <2>2. ASSUME NEW n \in Nodes, Dead(n), calls' = <<Call("revive", n)>>
        PROVE  OneKind' /\ Nested'
    <3>1. calls' \in Seq(OfKind("revive"))
      BY <1>1, <2>2, KindOfCall
    <3>2. Head(calls') = Call("revive", n) /\ Tail(calls') = <<>>
      BY <2>2
    <3>3. Head(calls').op = "revive" /\ Head(calls').node = n
      BY <3>2 DEF Call
    <3>4. Nested'
      BY <1>2, <2>2, <3>2, <3>3 DEF Nested, InCall
    <3>5. QED
      BY <3>1, <3>4 DEF OneKind
  <2>3. QED
    BY <2>1, <2>2
<1>7. QED
  BY <1>4, <1>5, <1>6

\* The lists lead replace_in_node to other fanouts than a scan of all nodes, in
\* another order; the counts do not depend on that.
LEMMA VisitCounts ==
  ASSUME VInv, CInv, NoOverflow, VVisit, IInv'
  PROVE  CInv'
<1> DEFINE n == Head(parents)
           new == sub.new.node
<1>1. /\ pc = "scan" /\ calls = <<>> /\ UNCHANGED <<pc, restrash, sub, renamed, scan, calls>>
      /\ n \in LiveGates /\ scan = {}
  BY VisitKinds DEF VInv
<1>2. /\ IInv /\ TypeOK /\ TypeOK' /\ ~Dead(new) /\ new \in Index /\ sub \in GatePair
      /\ Nodes \subseteq Index /\ n \in Index /\ h1 \in [Index -> Nat]
  <2>1. IInv /\ TypeOK /\ TypeOK' /\ ~Dead(new) /\ sub \in GatePair
    BY <1>1 DEF CInv, IInv, Phases, OldGates
  <2>2. new \in Index /\ Nodes \subseteq Index /\ n \in Index
    BY <1>1, <2>1, AllocatedParts, NodesType
  <2>3. h1 \in [Index -> Nat]
    BY <2>1, DeadBitAssumption DEF TypeOK
  <2>4. QED
    BY <2>1, <2>2, <2>3
<1>3. Stale = {sub.old}
  BY <1>1 DEF Stale
<1> HIDE DEF n, new
<1>4. CASE UNCHANGED netVars
  <2>1. CountsExact' /\ DeadUncounted'
    <3>1. /\ Nodes' = Nodes /\ LiveGates' = LiveGates /\ UNCHANGED <<child, h1, outputs>>
          /\ \A m \in Nodes : Dead(m)' <=> Dead(m)
      BY <1>4 DEF netVars, Nodes, LiveGates, IsGate, Dead
    <3>2. Stale' = Stale
      BY <1>1, <1>3 DEF Stale
    <3>3. \A m : References(m)' = References(m)
      BY <3>1, SameReferences
    <3>4. \A op, m : FaninsAhead(op, m)' = FaninsAhead(op, m)
      BY <1>1, <3>1 DEF FaninsAhead
    <3>5. QED
      BY <3>1, <3>2, <3>3, <3>4 DEF CInv, CountsExact, Exact, DeadUncounted
  <2>2. GatePair' = GatePair
    BY <1>4 DEF netVars, GatePair, Nodes, IsGate
  <2>3. OldGates'
    <3>1. CASE todo' = todo
      BY <1>1, <2>2, <3>1 DEF CInv, OldGates
    <3>2. CASE CollapseNode(n)
      <4>1. Equal(Rewired(n)) \in Signal
        BY <1>2, <3>2, RewiredType, EqualType DEF CollapseNode
      <4>2. [old |-> n, new |-> Equal(Rewired(n))] \in GatePair
        BY <1>1, <4>1 DEF GatePair, LiveGates, n
      <4>3. todo \in Seq(GatePair)
        BY DEF CInv, OldGates
      <4>4. todo' \in Seq(GatePair)
        BY <3>2, <4>2, <4>3, PushInSeq DEF CollapseNode
      <4>5. QED
        BY <1>1, <1>2, <2>2, <4>4 DEF OldGates
    <3>3. QED
      BY <3>1, <3>2, VisitKinds DEF RestrashNode, RewireNode, n
  <2>4. Phases'
    BY <1>1, <1>2, <1>4 DEF Phases, new, netVars, Dead
  <2>5. OneKind' /\ Nested'
    BY <1>1 DEF CInv, OneKind, Nested
  <2>6. QED
    BY <2>1, <2>3, <2>4, <2>5 DEF CInv
<1>5. CASE sub.old \in FaninNodes(n) /\ (RestrashNode(n) \/ RewireNode(n))
  <2>1. /\ UNCHANGED <<size, isCi, outputs, todo>> /\ h1' = Incr(h1, new)
        /\ child' = [child EXCEPT ![n] = Rewired(n)] /\ sub.old \in FaninNodes(n)
    BY <1>5 DEF RestrashNode, RewireNode, new
  <2>2. ASSUME NEW m \in Index
        PROVE  /\ h1'[m] = h1[m] + One(m = new)
               /\ Dead(m)' <=> Dead(m)
    <3>1. h1'[m] = h1[m] + One(m = new)
      BY <1>2, <2>1, IncrCount
    <3>2. h1[m] \in Nat /\ h1[new] + Len(outputs) + 1 < DeadBit /\ Len(outputs) \in Nat
      BY <1>2 DEF NoOverflow, TypeOK
    <3>3. QED
      BY <1>2, <3>1, <3>2, DeadBitAssumption DEF Dead, One
  <2>3. /\ Nodes' = Nodes /\ GatePair' = GatePair /\ LiveGates' = LiveGates
        /\ \A m \in Nodes : Dead(m)' <=> Dead(m)
    BY <1>2, <2>1, <2>2 DEF Nodes, GatePair, IsGate, LiveGates
  <2>4. CountsExact'
    <3> SUFFICES ASSUME NEW m \in Nodes, m # sub.old, ~Dead(m) PROVE Balanced(m)'
      BY <1>1, <1>3, <2>3 DEF CountsExact, Exact, Balanced, Stale
    <3>1. Balanced(m)
      BY <1>3 DEF CInv, CountsExact, Exact, Balanced
    <3>2. QED
      BY <1>1, <1>2, <2>1, <2>3, <3>1, RewireBalance DEF n, new
  <2>5. DeadUncounted'
    <3>1. \A m \in Nodes : Dead(m) => h1'[m] = h1[m]
      BY <1>2, <2>2 DEF One
    <3>2. QED
      BY <2>3, <3>1 DEF CInv, DeadUncounted
  <2>6. OldGates' /\ OneKind' /\ Nested'
    BY <1>1, <2>1, <2>3 DEF CInv, OldGates, OneKind, Nested
  <2>7. Phases'
    BY <1>1, <1>2, <2>2 DEF Phases, new
  <2>8. QED
    BY <2>4, <2>5, <2>6, <2>7 DEF CInv
<1>6. QED
  BY <1>4, <1>5, VisitKinds DEF n, CollapseNode

-----------------------------------------------------------------------------
(* The lists are complete.                                                 *)

\* A gate whose own replacement has been asked for.
Leaving(g) ==
  \/ Awaiting(g)
  \/ pc \in {"resolve", "begin", "scan"} /\ sub.old = g
  \/ calls # <<>> /\ Head(calls) = Call("take_out", g)

\* A live gate is in the list of each fanin, unless the list has been emptied
\* because the fanin was taken out: the gate will follow it then.
Complete ==
  \A g \in LiveGates : \A m \in FaninNodes(g) :
     g \in Members(fanout[m]) \/ (m # g /\ Leaving(g))

\* What of the fanouts of _old is not in the copy any more has been dealt with.
ToVisit ==
  pc = "scan" =>
    \A g \in LiveGates :
       sub.old \in FaninNodes(g) => Awaiting(g) \/ g \in Members(parents)

\* One view lists a fanout once.
ListedOnce == views = 1 => \A m \in Index : Injective(fanout[m])

\* The inductive invariant.
VFullInv ==
  VInv /\ CInv /\ Unneeded /\ QuietIdle /\ Complete /\ ToVisit /\ ListedOnce

\* While the copy is visited nothing else happens.
LEMMA ScanSteps ==
  ASSUME VInv, pc = "scan", [VAnyNext]_<<vars, viewVars>>
  PROVE  UNCHANGED <<vars, viewVars>> \/ VVisit \/ VFinishPair
<1>1. calls = <<>>
  BY DEF VInv, IInv, Scanning
<1>2. CASE Idle
  BY <1>2 DEF Idle
<1>3. CASE VUnwind
  BY <1>1, <1>3 DEF VUnwind, TakeOutIgnored, TakeOutEnter, TakeOutFanin, ReviveEnter,
                    ReviveFanin, InCall
<1>4. CASE VSubstitute
  BY <1>4 DEF VSubstitute, Return, Pop, Follow, Resolved, Drop, VBegin
<1>5. QED
  BY <1>2, <1>3, <1>4
  DEF VAnyNext, VNext, CreatePi, CreatePo, VCreateAnd, CreateAnd, TakeOut, VSubstituteNode,
      VSubstituteNodeNoRestrash, SubstituteNodeNoRestrash, MaySubstitute, VCopy, UpdateFanout,
      VSomeComplement, SubstituteComplement

\* While a call runs nothing else does.
LEMMA CallSteps ==
  ASSUME CInv, calls # <<>>, [VAnyNext]_<<vars, viewVars>>
  PROVE  UNCHANGED <<vars, viewVars>> \/ VUnwind
<1>1. pc # "resolve" /\ pc # "scan"
  BY DEF CInv, Phases, IInv, Scanning
<1>2. CASE VSubstitute
  BY <1>1, <1>2 DEF VSubstitute, Return, Pop, Follow, Resolved, Drop, VBegin, VVisit,
                    VFinishPair, FinishPair
<1>3. QED
  BY <1>2
  DEF VAnyNext, VNext, Idle, CreatePi, CreatePo, VCreateAnd, CreateAnd, TakeOut,
      VSubstituteNode, VSubstituteNodeNoRestrash, SubstituteNodeNoRestrash, MaySubstitute,
      VCopy, UpdateFanout, VSomeComplement, SubstituteComplement

\* Between operations nothing is leaving.
LEMMA NoneLeaving ==
  ASSUME QuietIdle, Idle
  PROVE  \A g : ~Leaving(g)
<1>1. todo = <<>> /\ calls = <<>> /\ pc = "idle"
  BY DEF QuietIdle, Idle
<1>2. QED
  BY <1>1 DEF Leaving, Awaiting

\* The view keeps the network's counts and what take_out_node relies on.
LEMMA CountsKept ==
  ASSUME VInv, CInv, Unneeded, QuietIdle, ToVisit, NoOverflow, OldInputs = {}, Apart,
         ReviveEnter => RevivedUnreferenced, [VAnyNext]_<<vars, viewVars>>
  PROVE  CInv' /\ Unneeded' /\ QuietIdle'
<1>1. IInv' /\ scan' = {} /\ scan = {}
  BY NetworkKept DEF VInv
<1>2. CASE Plain
  <2>1. [AnyNext]_vars /\ NotSelf
    BY <1>2, PlainStep DEF NotSelf, Apart
  <2>2. CInv' /\ QuietIdle'
    BY <2>1, CInvStep, QuietIdleStep
  <2>3. CASE UNCHANGED vars
    <3>1. /\ UNCHANGED <<calls, todo, child, outputs>> /\ LiveGates' = LiveGates
          /\ \A m : Dead(m)' <=> Dead(m)
      BY <2>3 DEF vars, netVars, ctlVars, Dead, LiveGates, Nodes, IsGate
    <3>2. Unneeded'
      BY <3>1 DEF Unneeded, InCall, FaninNodes, Awaiting
    <3>3. QED
      BY <2>2, <3>2
  <2>4. CASE pc # "scan"
    <3>1. Missed
      BY <2>4 DEF Missed
    <3>2. QED
      BY <2>1, <2>2, <3>1, UnneededStep
  <2>5. CASE pc = "scan" /\ VFinishPair
    <3>1. Members(parents) = {}
      BY <2>5 DEF VFinishPair, Members
    <3>2. Missed
      BY <3>1 DEF Missed, ToVisit
    <3>3. QED
      BY <2>1, <2>2, <3>2, UnneededStep
  <2>6. CASE pc = "scan" /\ VVisit
    <3>1. calls' = <<>>
      BY <2>6, VisitKinds
    <3>2. QED
      BY <2>2, <3>1 DEF Unneeded, InCall
  <2>7. QED
    BY <2>3, <2>4, <2>5, <2>6, ScanSteps
<1>3. ASSUME NEW o \in Nodes, NEW s \in Signals, VSubstituteNode(o, s)
      PROVE  CInv' /\ Unneeded' /\ QuietIdle'
  <2>1. /\ calls = <<>> /\ pc # "scan" /\ UNCHANGED netVars /\ o \in LiveGates
        /\ s \in Signal /\ s.node \in Nodes
        /\ calls' = IF Dead(s.node) THEN <<Call("revive", s.node)>> ELSE <<>>
        /\ pc' = "pop" /\ todo' = <<[old |-> o, new |-> s]>>
    BY <1>3, NodesType DEF VSubstituteNode, MaySubstitute, Idle, Signals, VInv, IInv
  <2>2. OneKind' /\ DeadUncounted' /\ CountsExact' /\ Nested'
    BY <2>1, QuietCounts
  <2>3. OldGates'
    <3>1. [old |-> o, new |-> s] \in GatePair
      BY <2>1 DEF GatePair, LiveGates
    <3>2. GatePair' = GatePair
      BY <2>1 DEF netVars, GatePair, Nodes, IsGate
    <3>3. QED
      BY <2>1, <3>1, <3>2 DEF OldGates
  <2>4. Phases' /\ QuietIdle'
    BY <2>1 DEF Phases, QuietIdle
  <2>5. ~InCall("take_out", {0})'
    BY <2>1 DEF InCall, Call
  <2>6. QED
    BY <1>1, <2>2, <2>3, <2>4, <2>5 DEF CInv, Unneeded
<1>4. CASE Drop
  BY <1>4 DEF Drop, Apart
<1>5. CASE VBegin
  <2>1. /\ calls = <<>> /\ calls' = <<>> /\ pc = "begin" /\ pc' = "scan"
        /\ UNCHANGED <<netVars, todo, sub>>
    BY <1>5 DEF VBegin
  <2>2. OneKind' /\ DeadUncounted' /\ CountsExact' /\ Nested'
    BY <2>1, QuietCounts
  <2>3. OldGates'
    <3>1. GatePair' = GatePair
      BY <2>1 DEF netVars, GatePair, Nodes, IsGate
    <3>2. QED
      BY <2>1, <3>1 DEF CInv, OldGates
  <2>4. ~Dead(sub.new.node)
    BY <2>1 DEF CInv, Phases
  <2>5. Phases' /\ QuietIdle' /\ Unneeded'
    BY <1>1, <2>1, <2>4 DEF Phases, QuietIdle, Unneeded, InCall, netVars, Dead
  <2>6. QED
    BY <1>1, <2>2, <2>3, <2>5 DEF CInv
<1>6. CASE VVisit
  <2>1. CInv'
    BY <1>1, <1>6, VisitCounts
  <2>2. pc' = "scan" /\ calls' = <<>>
    BY <1>6, VisitKinds
  <2>3. QED
    BY <2>1, <2>2 DEF QuietIdle, Unneeded, InCall
<1>7. QED
  BY <1>2, <1>3, <1>4, <1>5, <1>6, StepKinds

\* The array grows by inputs, and by gates that are listed.
LEMMA SizeSteps ==
  ASSUME VInv, [VAnyNext]_<<vars, viewVars>>
  PROVE  \/ UNCHANGED <<size, isCi>>
         \/ CreatePi
         \/ \E a, b \in LiveSignals : VCreateAnd(a, b)
<1>1. CASE VVisit
  BY <1>1, VisitKinds DEF CollapseNode, RestrashNode, RewireNode, netVars
<1>2. CASE ~VVisit
  BY <1>2 DEF VAnyNext, VNext, vars, netVars, CreatePo, TakeOut, VSubstituteNode,
     VSubstituteNodeNoRestrash, SubstituteNodeNoRestrash, VUnwind, TakeOutIgnored,
     TakeOutEnter, TakeOutFanin, ReviveEnter, ReviveFanin, VSubstitute, Return, Pop, Follow,
     Resolved, Drop, VBegin, VFinishPair, FinishPair, VCopy, UpdateFanout, VSomeComplement,
     SubstituteComplement
<1>3. QED
  BY <1>1, <1>2

\* A visit brings no node to life, and what awaits its own pair goes on awaiting.
LEMMA VisitOnce ==
  ASSUME VInv, CInv, VVisit
  PROVE  /\ UNCHANGED <<size, isCi>>
         /\ \A m \in Nodes : Dead(m) => Dead(m)'
         /\ \A g : Awaiting(g) => Awaiting(g)'
<1>1. TypeOK /\ ~Dead(sub.new.node) /\ Nodes \subseteq Index /\ todo \in Seq(Substitution)
  BY VisitKinds, NodesType DEF CInv, IInv, TypeOK, Phases
<1>2. \/ UNCHANGED netVars
      \/ UNCHANGED <<size, isCi>> /\ h1' = Incr(h1, sub.new.node)
  BY VisitKinds DEF CollapseNode, RestrashNode, RewireNode
<1>3. \A m \in Nodes : Dead(m) => h1'[m] = h1[m]
  BY <1>1, <1>2 DEF Incr, TypeOK, netVars
<1>4. ASSUME NEW g, Awaiting(g) PROVE Awaiting(g)'
  <2>1. CASE todo' = todo
    BY <1>4, <2>1 DEF Awaiting
  <2>2. ASSUME NEW x, todo' = <<x>> \o todo PROVE Awaiting(g)'
    <3>1. PICK i \in DOMAIN todo : todo[i].old = g
      BY <1>4 DEF Awaiting
    <3>2. i + 1 \in DOMAIN todo' /\ todo'[i + 1] = todo[i]
      BY <1>1, <2>2, <3>1
    <3>3. QED
      BY <3>1, <3>2 DEF Awaiting
  <2>3. QED
    BY <2>1, <2>2, VisitKinds DEF CollapseNode, RestrashNode, RewireNode
<1>5. QED
  BY <1>2, <1>3, <1>4 DEF netVars, Dead

\* What comes to life is revived or created, and then listed.
LEMMA NewGates ==
  ASSUME VInv, CInv, NoOverflow, [VAnyNext]_<<vars, viewVars>>,
         NEW g \in LiveGates', g \notin LiveGates
  PROVE  fanout' = Added(g, child'[g])
<1>1. CASE ReviveEnter
  <2> DEFINE n == Head(calls).node
  <2>1. /\ calls # <<>> /\ Head(calls).op = "revive" /\ Head(calls).at = 0
        /\ UNCHANGED <<size, isCi>> /\ h1' = [h1 EXCEPT ![n] = 0]
    BY <1>1 DEF ReviveEnter, InCall
  <2>2. VUnwind
    <3>1. Dead(n) /\ n \in Index
      BY <1>1, <2>1, FrameParts, AllocatedParts DEF CInv, Nested, ReviveEnter
    <3>2. h1' # h1
      BY <2>1, <3>1, DeadBitAssumption DEF CInv, IInv, TypeOK, Dead
    <3>3. QED
      BY <2>1, <3>2, CallSteps DEF vars, netVars
  <2>3. OnAdd(n)
    <3>1. ~InCall("take_out", {0}) /\ ~InCall("take_out", {1, 2}) /\ ~InCall("revive", {1, 2})
      BY <2>1 DEF InCall
    <3>2. ~TakeOutIgnored /\ ~TakeOutFanin /\ ~ReviveFanin /\ ~TakeOutEnter
      BY <3>1 DEF TakeOutIgnored, TakeOutFanin, ReviveFanin, TakeOutEnter
    <3>3. QED
      BY <2>2, <3>2 DEF VUnwind
  <2>4. g = n
    BY <2>1 DEF CInv, IInv, TypeOK, LiveGates, Nodes, IsGate, Dead
  <2>5. QED
    BY <2>3, <2>4 DEF OnAdd
<1>2. ASSUME NEW a \in LiveSignals, NEW b \in LiveSignals, VCreateAnd(a, b)
      PROVE  fanout' = Added(g, child'[g])
  <2>1. [AnyNext]_vars /\ size' = size + 1 /\ isCi' = isCi /\ fanout' = Added(size, child'[size])
        /\ ~ReviveEnter
    BY <1>2 DEF AnyNext, Next, Build, VCreateAnd, CreateAnd, OnAdd, Idle, ReviveEnter, InCall
  <2>2. TypeOK /\ TypeOK' /\ Nodes' = Nodes \cup {size}
    BY <2>1, StepTypes, NodesOneMore
  <2>3. g \notin Nodes
    <3>1. ASSUME g \in Nodes PROVE Dead(g) /\ h1'[g] = h1[g]
      BY <2>1, <3>1, DeadStep DEF LiveGates, IsGate
    <3>2. QED
      BY <3>1 DEF LiveGates, Dead
  <2>4. g = size
    BY <2>2, <2>3 DEF LiveGates
  <2>5. QED
    BY <2>1, <2>4
<1>3. CASE ~ReviveEnter /\ ~\E a, b \in LiveSignals : VCreateAnd(a, b)
  <2>1. \A m \in Nodes : Dead(m) => Dead(m)'
    <3>1. CASE Plain
      <4>1. [AnyNext]_vars
        BY <3>1, PlainStep
      <4>2. QED
        BY <1>3, <4>1, DeadStep DEF Dead
    <3>2. CASE UNCHANGED netVars
      BY <3>2 DEF netVars, Dead
    <3>3. QED
      BY <3>1, <3>2, VisitOnce, StepKinds DEF VSubstituteNode, Drop, VBegin
  <2>2. CASE UNCHANGED <<size, isCi>>
    BY <2>1, <2>2 DEF LiveGates, Nodes, IsGate
  <2>3. CASE CreatePi
    <3>1. size' = size + 1 /\ isCi' = [isCi EXCEPT ![size] = TRUE] /\ h1' = h1
      BY <2>3 DEF CreatePi
    <3>2. /\ size \in Index /\ size \notin Nodes /\ Nodes' = Nodes \cup {size}
          /\ isCi \in [Index -> BOOLEAN] /\ Nodes \subseteq Index
      <4>1. TypeOK /\ TypeOK'
        BY NetworkKept DEF CInv, IInv
      <4>2. QED
        BY <3>1, <4>1, NodesOneMore, NodesType DEF TypeOK
    <3>3. isCi'[size] /\ \A m \in Nodes : isCi'[m] = isCi[m]
      BY <3>1, <3>2
    <3>4. QED
      BY <3>1, <3>2, <3>3 DEF LiveGates, IsGate, Dead
  <2>4. QED
    BY <1>3, <2>2, <2>3, SizeSteps
<1>4. QED
  BY <1>1, <1>2, <1>3

\* A gate that is leaving leaves, or is still leaving after the step.
LEMMA LeavingStep ==
  ASSUME VInv, CInv, QuietIdle, Apart, [VAnyNext]_<<vars, viewVars>>,
         NEW g \in LiveGates, g \in LiveGates', Leaving(g)
  PROVE  Leaving(g)'
<1>1. CASE UNCHANGED vars
  BY <1>1 DEF vars, ctlVars, Leaving, Awaiting
<1>2. CASE calls # <<>> /\ VUnwind
  <2>1. UNCHANGED <<pc, todo, sub>>
    BY <1>2 DEF VUnwind, TakeOutIgnored, TakeOutEnter, TakeOutFanin, ReviveEnter, ReviveFanin,
                ctlVars
  <2>2. CASE Head(calls) = Call("take_out", g)
    <3>1. Head(calls).op = "take_out" /\ Head(calls).node = g /\ Head(calls).at = 0
      BY <2>2 DEF Call
    <3>2. TakeOutEnter
      <4>1. /\ ~InCall("take_out", {1, 2})
            /\ \A at : ~InCall("revive", at)
        BY <3>1 DEF InCall
      <4>2. ~TakeOutFanin /\ ~ReviveFanin /\ ~ReviveEnter
        BY <4>1 DEF TakeOutFanin, ReviveFanin, ReviveEnter
      <4>3. ~TakeOutIgnored
        BY <3>1 DEF TakeOutIgnored, LiveGates
      <4>4. QED
        BY <1>2, <4>2, <4>3 DEF VUnwind
    <3>3. h1'[g] = DeadBit
      BY <3>1, <3>2, NodesType DEF TakeOutEnter, CInv, IInv, TypeOK
    <3>4. QED
      BY <3>3, DeadBitAssumption DEF LiveGates, Dead
  <2>3. CASE Head(calls) # Call("take_out", g)
    BY <2>1, <2>3 DEF Leaving, Awaiting
  <2>4. QED
    BY <2>2, <2>3
<1>3. CASE calls = <<>>
  <2>1. todo \in Seq(Substitution) /\ (Awaiting(g) \/ pc \in {"resolve", "begin", "scan"})
        /\ (~Awaiting(g) => sub.old = g) /\ pc # "idle"
    BY <1>3 DEF Leaving, Awaiting, QuietIdle, VInv, IInv, TypeOK
  <2>2. CASE Pop
    <3>1. todo # <<>> /\ sub' = Head(todo) /\ todo' = Tail(todo) /\ pc' \in {"resolve", "begin"}
          /\ pc = "pop"
      BY <2>2 DEF Pop
    <3>2. PICK i \in DOMAIN todo : todo[i].old = g
      BY <2>1, <3>1 DEF Awaiting
    <3>3. CASE i = 1
      BY <3>1, <3>2, <3>3 DEF Leaving
    <3>4. CASE i # 1
      <4>1. i - 1 \in DOMAIN Tail(todo) /\ Tail(todo)[i - 1] = todo[i]
        BY <2>1, <3>1, <3>4
      <4>2. QED
        BY <3>1, <3>2, <4>1 DEF Leaving, Awaiting
    <3>5. QED
      BY <3>3, <3>4
  <2>3. CASE Return
    BY <2>1, <2>3 DEF Return, Awaiting
  <2>4. CASE Drop
    BY <2>4 DEF Drop, Apart
  <2>5. CASE (Follow \/ Resolved \/ VBegin) /\ UNCHANGED todo
    <3>1. sub'.old = sub.old
      BY <2>5 DEF Follow, Resolved, VBegin, VInv, IInv, TypeOK, Substitution
    <3>2. pc' \in {"resolve", "begin", "scan"}
      BY <2>5 DEF Follow, Resolved, VBegin
    <3>3. QED
      BY <2>1, <2>5, <3>1, <3>2 DEF Leaving, Awaiting
  <2>6. CASE VVisit
    <3>1. pc' = pc /\ sub' = sub /\ pc = "scan"
      BY <2>6, VisitKinds
    <3>2. Awaiting(g) => Awaiting(g)'
      BY <2>6, VisitOnce
    <3>3. QED
      BY <2>1, <3>1, <3>2 DEF Leaving
  <2>7. CASE VFinishPair
    <3>1. pc = "scan" /\ todo' = todo /\ sub.old # sub.new.node
          /\ calls' = <<Call("take_out", sub.old)>>
      BY <2>7 DEF VFinishPair, FinishPair, Apart
    <3>2. calls' # <<>> /\ Head(calls') = Call("take_out", sub.old)
      BY <3>1
    <3>3. QED
      BY <2>1, <3>1, <3>2 DEF Leaving, Awaiting
  <2>8. CASE VUnwind
    BY <1>3, <2>8 DEF VUnwind, TakeOutIgnored, TakeOutEnter, TakeOutFanin, ReviveEnter,
                      ReviveFanin, InCall
  <2>9. ~Idle
    BY <2>1 DEF Idle
  <2>10. CASE VSubstitute
    BY <2>2, <2>3, <2>4, <2>5, <2>6, <2>7, <2>10 DEF VSubstitute, Follow, Resolved, VBegin
  <2>11. QED
    BY <1>1, <2>8, <2>9, <2>10
    DEF VAnyNext, VNext, CreatePi, CreatePo, VCreateAnd, CreateAnd, TakeOut, VSubstituteNode,
        VSubstituteNodeNoRestrash, SubstituteNodeNoRestrash, MaySubstitute, VCopy,
        UpdateFanout, VSomeComplement, SubstituteComplement
<1>4. QED
  BY <1>1, <1>2, <1>3, CallSteps

\* A gate that is still alive and unlisted is leaving.
LEMMA CompleteStep ==
  ASSUME VInv, CInv, Unneeded, QuietIdle, Complete, NoOverflow, Apart,
         [VAnyNext]_<<vars, viewVars>>
  PROVE  Complete'
<1> SUFFICES ASSUME NEW g \in LiveGates', NEW m \in FaninNodes(g)'
             PROVE  g \in Members(fanout'[m]) \/ (m # g /\ Leaving(g)')
  BY DEF Complete
<1>1. /\ IInv /\ TypeOK /\ IInv' /\ TypeOK' /\ fanout \in Lists /\ views \in Nat \ {0}
      /\ child \in [Index -> Pair] /\ child' \in [Index -> Pair]
  <2>1. IInv /\ IInv' /\ fanout \in Lists /\ views \in Nat \ {0}
    BY NetworkKept, MaxViewsAssumption DEF VInv, VTypes
  <2>2. TypeOK /\ TypeOK'
    BY <2>1 DEF IInv
  <2>3. QED
    BY <2>1, <2>2 DEF TypeOK
<1>2. g \in Index /\ LiveGates \subseteq Index
  <2>1. LiveGates \subseteq Index
    BY <1>1, NodesType
  <2>2. Nodes' \subseteq Index
    <3>1. size' \in 1 .. MaxNodes
      BY <1>1 DEF TypeOK
    <3>2. \A k \in 1 .. MaxNodes : 0 .. k - 1 \subseteq Index
      BY MaxNodesAssumption DEF Index
    <3>3. QED
      BY <3>1, <3>2 DEF Nodes
  <2>3. QED
    BY <2>1, <2>2 DEF LiveGates
<1>3. m \in NodesOf(child'[g]) /\ m \in Index
  <2>1. child'[g] \in Pair
    BY <1>1, <1>2
  <2>2. QED
    BY <2>1 DEF FaninNodes, NodesOf, Pair, Signal
<1>4. CASE g \notin LiveGates
  <2>1. fanout' = Added(g, child'[g])
    BY <1>4, NewGates
  <2>2. AddsTo(fanout', g, child'[g])
    BY <1>1, <1>2, <2>1, AddedMembers
  <2>3. QED
    BY <1>3, <2>2 DEF AddsTo, At
<1>5. CASE g \in LiveGates /\ child'[g] = child[g]
  <2>1. g \in Members(fanout[m]) \/ (m # g /\ Leaving(g))
    BY <1>3, <1>5 DEF Complete, FaninNodes, NodesOf
  <2>2. Leaving(g) => Leaving(g)'
    BY <1>5, LeavingStep
  <2>3. ASSUME g \in Members(fanout[m])
        PROVE  g \in Members(fanout'[m]) \/ (m # g /\ Leaving(g)')
    <3>1. CASE fanout' = fanout
      BY <2>3, <3>1
    <3>2. ASSUME NEW n \in Index, fanout' = Added(n, child'[n])
          PROVE  g \in Members(fanout'[m])
      BY <1>1, <1>3, <2>3, <3>2, AddedMembers DEF AddsTo
    <3>3. CASE TakeOutEnter /\ OnDelete(Head(calls).node)
      <4> DEFINE n == Head(calls).node
      <4>1. /\ fanout' = Deleted(n, child[n]) /\ h1' = [h1 EXCEPT ![n] = DeadBit]
            /\ n \in Index /\ todo' = todo /\ InCall("take_out", {0}) /\ ~Dead(n)
        BY <1>1, <3>3, FrameParts, AllocatedParts DEF OnDelete, TakeOutEnter, InCall, ctlVars
      <4>2. TakesFrom(fanout', n, child[n])
        BY <1>1, <4>1, DeletedMembers
      <4>3. g # n
        <5>1. h1'[n] = DeadBit
          BY <1>1, <4>1 DEF TypeOK
        <5>2. QED
          BY <5>1, DeadBitAssumption DEF LiveGates, Dead
      <4>4. CASE m # n
        BY <1>3, <2>3, <4>2, <4>3, <4>4 DEF TakesFrom, At
      <4>5. CASE m = n
        <5>1. n \in FaninNodes(g)
          BY <1>3, <1>5, <4>5 DEF FaninNodes, NodesOf
        <5>2. Awaiting(g)
          BY <1>5, <4>1, <5>1 DEF Unneeded
        <5>3. QED
          BY <4>1, <4>3, <4>5, <5>2 DEF Leaving, Awaiting
      <4>6. QED
        BY <4>4, <4>5
    <3>4. CASE VVisit /\ OnModified(Head(parents))
      <4> DEFINE n == Head(parents)
      <4>1. fanout' = Modified(n, child[n], child'[n]) /\ n \in Index
        BY <1>2, <3>4, VisitKinds DEF OnModified
      <4>2. MovesIn(fanout', n, child[n], child'[n])
        BY <1>1, <4>1, ModifiedMembers
      <4>3. QED
        BY <1>3, <2>3, <4>2 DEF MovesIn, At
    <3>5. CASE UpdateFanout
      <4>1. Members(fanout'[m]) = {x \in LiveGates : m \in FaninNodes(x)}
        BY <1>1, <1>3, <3>5, ComputedMembers DEF UpdateFanout
      <4>2. QED
        BY <1>3, <1>5, <4>1 DEF FaninNodes, NodesOf
    <3>6. \A a, b \in LiveSignals : VCreateAnd(a, b) => size \in Index /\ OnAdd(size)
      BY <1>1 DEF VCreateAnd, CreateAnd, TypeOK, Index
    <3>7. ReviveEnter => Head(calls).node \in Index
      BY <1>1, FrameParts, AllocatedParts DEF ReviveEnter, InCall
    <3>8. QED
      BY <3>1, <3>2, <3>3, <3>4, <3>5, <3>6, <3>7, ListKinds DEF OnAdd
  <2>4. ASSUME UpdateFanout PROVE ~Leaving(g)
    BY <2>4, NoneLeaving DEF UpdateFanout
  <2>5. QED
    BY <2>1, <2>2, <2>3
<1>6. CASE g \in LiveGates /\ child'[g] # child[g]
  <2>1. VVisit /\ OnModified(Head(parents)) /\ g = Head(parents)
    <3>1. CASE \E a, b \in LiveSignals : VCreateAnd(a, b)
      <4>1. child' = [child EXCEPT ![size] = child'[size]]
        BY <1>1, <3>1 DEF VCreateAnd, CreateAnd, TypeOK
      <4>2. g # size
        BY <1>1, <1>6 DEF LiveGates, Nodes, TypeOK
      <4>3. QED
        BY <1>1, <1>2, <1>6, <4>1, <4>2
    <3>2. CASE /\ VVisit /\ OnModified(Head(parents))
               /\ RestrashNode(Head(parents)) \/ RewireNode(Head(parents))
      <4>1. child' = [child EXCEPT ![Head(parents)] = Rewired(Head(parents))]
        BY <3>2 DEF RestrashNode, RewireNode
      <4>2. QED
        BY <1>1, <1>2, <1>6, <3>2, <4>1
    <3>3. TakeOutEnter \/ ReviveEnter \/ UpdateFanout => child' = child
      BY DEF TakeOutEnter, ReviveEnter, UpdateFanout, vars, netVars
    <3>4. QED
      BY <1>6, <3>1, <3>2, <3>3, ListKinds
  <2>2. fanout' = Modified(g, child[g], child'[g]) /\ child'[g] \in Pair
    BY <1>1, <1>2, <2>1 DEF OnModified
  <2>3. MovesIn(fanout', g, child[g], child'[g])
    BY <1>1, <1>2, <2>2, ModifiedMembers
  <2>4. QED
    BY <1>3, <2>3 DEF MovesIn, At
<1>7. QED
  BY <1>4, <1>5, <1>6

\* No fanout of _old is missed by the copy that is visited.
LEMMA ToVisitStep ==
  ASSUME VInv, CInv, QuietIdle, Complete, ToVisit, NoTwins, Apart, NoOverflow,
         [VAnyNext]_<<vars, viewVars>>
  PROVE  ToVisit'
<1> SUFFICES ASSUME pc' = "scan", NEW g \in LiveGates', sub'.old \in FaninNodes(g)'
             PROVE  Awaiting(g)' \/ g \in Members(parents')
  BY DEF ToVisit
<1>1. CASE VBegin
  <2>1. /\ calls = <<>> /\ pc = "begin" /\ UNCHANGED <<netVars, todo, sub>>
        /\ parents' = fanout[sub.old]
    BY <1>1 DEF VBegin
  <2>2. g \in LiveGates /\ sub.old \in FaninNodes(g)
    BY <2>1 DEF netVars, LiveGates, Nodes, IsGate, Dead, FaninNodes
  <2>3. g \in Members(fanout[sub.old]) \/ (sub.old # g /\ Leaving(g))
    BY <2>2 DEF Complete
  <2>4. QED
    BY <2>1, <2>3 DEF Leaving, Awaiting
<1>2. CASE VVisit
  <2> DEFINE n == Head(parents)
  <2>1. /\ pc = "scan" /\ parents # <<>> /\ parents \in Seq(Index) /\ parents' = Tail(parents)
        /\ calls = <<>> /\ sub' = sub /\ n \in LiveGates /\ sub.new.node # sub.old
        /\ TypeOK /\ n \in Index
    BY <1>2, VisitKinds, NodesType DEF Apart, VInv, IInv, VTypes
  <2>2. g \in LiveGates
    BY <1>2, VisitOnce DEF LiveGates, Nodes, IsGate
  <2>3. \A x \in Members(parents) : x = n \/ x \in Members(parents')
    <3>1. \A i \in 1 .. Len(parents) : i # 1 =>
             i - 1 \in DOMAIN Tail(parents) /\ Tail(parents)[i - 1] = parents[i]
      BY <2>1
    <3>2. Head(parents) = parents[1] /\ DOMAIN parents = 1 .. Len(parents)
      BY <2>1
    <3>3. QED
      BY <2>1, <3>1, <3>2 DEF Members
  <2>4. CASE g # n
    <3>1. child'[g] = child[g]
      <4>1. child' = child \/ child' = [child EXCEPT ![n] = Rewired(n)]
        BY <1>2, VisitKinds DEF CollapseNode, RestrashNode, RewireNode, netVars
      <4>2. child \in [Index -> Pair] /\ g \in Index
        BY <2>1, <2>2, NodesType DEF TypeOK
      <4>3. QED
        BY <2>4, <4>1, <4>2
    <3>2. Awaiting(g) \/ g \in Members(parents)
      BY <2>1, <2>2, <3>1 DEF ToVisit, FaninNodes
    <3>3. QED
      BY <1>2, <2>3, <2>4, <3>2, VisitOnce
  <2>5. CASE g = n
    <3>1. CASE CollapseNode(n)
      <4> DEFINE x == [old |-> n, new |-> Equal(Rewired(n))]
      <4>1. todo' = <<x>> \o todo /\ x.old = n
        BY <3>1 DEF CollapseNode
      <4> HIDE DEF x
      <4>2. 1 \in DOMAIN todo' /\ todo'[1] = x
        BY <4>1 DEF VInv, IInv, TypeOK
      <4>3. QED
        BY <2>5, <4>1, <4>2 DEF Awaiting
    <3>2. CASE sub.old \in FaninNodes(n) /\ (RestrashNode(n) \/ RewireNode(n))
      <4>1. child'[n] = Rewired(n)
        BY <2>1, <3>2 DEF RestrashNode, RewireNode, TypeOK
      <4>2. sub.old \notin {Rewired(n)[1].node, Rewired(n)[2].node}
        BY <2>1, <3>2, RewiredApart DEF NoTwins
      <4>3. QED
        BY <2>1, <2>5, <4>1, <4>2 DEF FaninNodes
    <3>3. CASE sub.old \notin FaninNodes(n) /\ UNCHANGED netVars
      BY <2>1, <2>5, <3>3 DEF FaninNodes, netVars
    <3>4. QED
      BY <1>2, <3>1, <3>2, <3>3 DEF VVisit
  <2>6. QED
    BY <2>4, <2>5
<1>3. CASE UNCHANGED <<vars, viewVars>>
  <2>1. /\ UNCHANGED <<pc, sub, todo, child, parents>> /\ LiveGates' = LiveGates
    BY <1>3 DEF vars, netVars, ctlVars, viewVars, LiveGates, Nodes, IsGate, Dead
  <2>2. QED
    BY <2>1 DEF ToVisit, Awaiting, FaninNodes
<1>4. QED
  BY <1>1, <1>2, <1>3, CopyKinds, ScanSteps DEF VFinishPair, FinishPair

\* A single view goes on listing a fanout once.
LEMMA ListedOnceStep ==
  ASSUME VInv, CInv, ListedOnce, NoTwins', NoOverflow, [VAnyNext]_<<vars, viewVars>>
  PROVE  ListedOnce'
<1> SUFFICES ASSUME views' = 1 PROVE \A m \in Index : Injective(fanout'[m])
  BY DEF ListedOnce
<1>1. /\ IInv /\ TypeOK /\ TypeOK' /\ fanout \in Lists /\ views \in Nat \ {0}
      /\ child \in [Index -> Pair] /\ child' \in [Index -> Pair]
  <2>1. IInv /\ IInv' /\ fanout \in Lists /\ views \in Nat \ {0}
    BY NetworkKept, MaxViewsAssumption DEF VInv, VTypes
  <2>2. TypeOK /\ TypeOK'
    BY <2>1 DEF IInv
  <2>3. QED
    BY <2>1, <2>2 DEF TypeOK
<1>2. views = 1
  BY <1>1, CopyKinds DEF VCopy
<1>3. \A m \in Index : Injective(fanout[m])
  BY <1>2 DEF ListedOnce
<1>4. \A m \in Index : \A x \in Members(fanout[m]) : x \in LiveGates /\ m \in NodesOf(child[x])
  BY DEF VInv, ListsCurrent, FaninNodes, NodesOf
<1>5. ASSUME NEW n \in Index, n \notin LiveGates, fanout' = Added(n, child'[n]),
             child'[n][1].node # child'[n][2].node
      PROVE  \A m \in Index : Injective(fanout'[m])
  <2>1. child'[n] \in Pair /\ \A m \in Index : n \notin Members(fanout[m])
    BY <1>1, <1>4, <1>5
  <2>2. fanout' = Pushed(fanout, n, child'[n])
    BY <1>1, <1>2, <1>5, <2>1, AddedMembers
  <2>3. QED
    BY <1>1, <1>3, <1>5, <2>1, <2>2, PushedMembers
<1>6. CASE \E a, b \in LiveSignals : VCreateAnd(a, b)
  <2>1. PICK a \in LiveSignals, b \in LiveSignals : VCreateAnd(a, b)
    BY <1>6
  <2>2. /\ size < MaxNodes /\ ~IsTrivial(Ordered(a, b)) /\ fanout' = Added(size, child'[size])
        /\ child' = [child EXCEPT ![size] = Ordered(a, b)]
    BY <2>1 DEF VCreateAnd, CreateAnd, OnAdd
  <2>3. size \in Index /\ size \notin LiveGates
    BY <1>1, <2>2, MaxNodesAssumption DEF TypeOK, Index, LiveGates, Nodes
  <2>4. child'[size][1].node # child'[size][2].node
    BY <1>1, <2>2, <2>3 DEF IsTrivial
  <2>5. QED
    BY <1>5, <2>2, <2>3, <2>4
<1>7. CASE ReviveEnter /\ OnAdd(Head(calls).node)
  <2> DEFINE n == Head(calls).node
  <2>1. /\ calls # <<>> /\ InCall("revive", {0}) /\ UNCHANGED <<size, isCi>>
        /\ h1' = [h1 EXCEPT ![n] = 0] /\ fanout' = Added(n, child'[n])
        /\ Head(calls).op = "revive"
    BY <1>7 DEF ReviveEnter, InCall, OnAdd
  <2>2. n \in Nodes /\ n \in Index /\ IsGate(n) /\ Dead(n)
    <3>1. n \in Nodes /\ n \in Index /\ IsGate(n)
      BY <1>1, <2>1, FrameParts, NodesType
    <3>2. Dead(n)
      BY <2>1 DEF CInv, Nested
    <3>3. QED
      BY <3>1, <3>2
  <2>3. n \in LiveGates'
    <3>1. h1'[n] = 0
      BY <1>1, <2>1, <2>2 DEF TypeOK
    <3>2. QED
      BY <2>1, <2>2, <3>1, DeadBitAssumption DEF LiveGates, Nodes, IsGate, Dead
  <2>4. n \notin LiveGates /\ child'[n][1].node # child'[n][2].node
    BY <2>2, <2>3 DEF NoTwins, LiveGates
  <2>5. QED
    BY <1>5, <2>1, <2>2, <2>4
<1>8. CASE TakeOutEnter /\ OnDelete(Head(calls).node)
  <2> DEFINE n == Head(calls).node
             emptied == [fanout EXCEPT ![n] = <<>>]
  <2>1. n \in Index /\ fanout' = Deleted(n, child[n])
    <3>1. calls # <<>> /\ child' = child
      BY <1>8 DEF TakeOutEnter, InCall
    <3>2. n \in Index
      BY <1>1, <3>1, FrameParts, NodesType
    <3>3. QED
      BY <1>8, <3>1, <3>2 DEF OnDelete
  <2>2. <<>> \in Seq(Index) /\ Injective(<<>>)
    BY DEF Injective
  <2>3. /\ emptied \in Lists
        /\ \A m \in Index : emptied[m] = IF m = n THEN <<>> ELSE fanout[m]
    BY <1>1, <2>1, <2>2 DEF Lists
  <2>4. fanout' = Removed(emptied, n, child[n])
    BY <1>1, <1>2, <2>1, DeletedMembers
  <2> HIDE DEF emptied, n
  <2>5. QED
    BY <1>3, <2>1, <2>2, <2>3, <2>4, RemovedMembers
<1>9. CASE /\ VVisit /\ OnModified(Head(parents))
           /\ RestrashNode(Head(parents)) \/ RewireNode(Head(parents))
  <2> DEFINE n == Head(parents)
             removed == Removed(fanout, n, child[n])
  <2>1. n \in LiveGates /\ n \in Index /\ calls = <<>>
    BY <1>1, <1>9, VisitKinds, NodesType
  <2>2. child'[n] \in Pair /\ fanout' = Modified(n, child[n], child'[n])
    BY <1>1, <1>9, <2>1 DEF OnModified
  <2>3. fanout' = Pushed(removed, n, child'[n])
    BY <1>1, <1>2, <2>1, <2>2, ModifiedMembers
  <2>4. child'[n][1].node # child'[n][2].node
    <3>1. LiveGates \subseteq LiveGates'
      BY <2>1, NetworkKept DEF TakeOutEnter, InCall
    <3>2. QED
      BY <2>1, <3>1 DEF NoTwins
  <2>5. removed \in Lists /\ \A m \in Index : Injective(removed[m]) /\ n \notin Members(removed[m])
    <3>1. /\ removed \in Lists
          /\ \A m \in Index : Members(removed[m]) = Members(fanout[m]) \ At(m, n, child[n])
          /\ \A m \in Index : Injective(removed[m])
      BY <1>1, <1>3, <2>1, RemovedMembers
    <3>2. \A m \in Index : n \notin Members(fanout[m]) \ At(m, n, child[n])
      BY <1>4 DEF At
    <3>3. QED
      BY <3>1, <3>2
  <2> HIDE DEF n, removed
  <2>6. QED
    BY <2>1, <2>2, <2>3, <2>4, <2>5, PushedMembers
<1>10. CASE UpdateFanout
  BY <1>1, <1>10, ComputedMembers DEF UpdateFanout
<1>11. QED
  BY <1>3, <1>6, <1>7, <1>8, <1>9, <1>10, ListKinds

\* The empty view satisfies the invariant.
LEMMA InitVFullInv == VInit => VFullInv
<1> SUFFICES ASSUME VInit PROVE VFullInv
  OBVIOUS
<1>1. VInv /\ CInv
  BY InitVInv, InitCInv DEF VInit
<1>2. calls = <<>> /\ todo = <<>> /\ pc = "idle" /\ fanout = [n \in Index |-> <<>>]
  BY DEF VInit, Init
<1>3. LiveGates = {}
  BY DEF VInit, Init, LiveGates, Nodes, IsGate
<1>4. Unneeded /\ QuietIdle /\ Complete /\ ToVisit
  BY <1>2, <1>3 DEF Unneeded, InCall, QuietIdle, Complete, ToVisit
<1>5. ListedOnce
  BY <1>2 DEF ListedOnce, Injective
<1>6. QED
  BY <1>1, <1>4, <1>5 DEF VFullInv

\* Every step keeps it.
LEMMA VFullInvStep ==
  ASSUME VFullInv, NoTwins, NoTwins', NoOverflow, Apart, RevivedUnreferenced, OldInputs = {},
         [VAnyNext]_<<vars, viewVars>>
  PROVE  VFullInv'
<1>1. VInv'
  BY NetworkKept, ListsStep, CopyStep DEF VFullInv, VInv, VTypes
<1>2. CInv' /\ Unneeded' /\ QuietIdle'
  BY CountsKept DEF VFullInv
<1>3. Complete' /\ ToVisit' /\ ListedOnce'
  BY CompleteStep, ToVisitStep, ListedOnceStep DEF VFullInv
<1>4. QED
  BY <1>1, <1>2, <1>3 DEF VFullInv

\* How often something is among the elements that differ.
LEMMA CountOnce ==
  ASSUME NEW S, \A i, j \in S : i = j
  PROVE  Cardinality(S) = IF S = {} THEN 0 ELSE 1
<1>1. CASE S = {}
  BY <1>1, FS_EmptySet
<1>2. CASE S # {}
  <2>1. PICK i : S = {i}
    BY <1>2
  <2>2. QED
    BY <1>2, <2>1, FS_Singleton
<1>3. QED
  BY <1>1, <1>2

\* The invariant says that the lists are exact.
LEMMA ExactAtRest ==
  ASSUME VFullInv, NoTwins, Idle, NEW m \in Nodes, ~Dead(m), NEW n \in Index
  PROVE  LET listed == Cardinality({i \in DOMAIN fanout[m] : fanout[m][i] = n})
         IN  /\ (listed = 0) = (Uses(n, m) = 0)
             /\ views = 1 => listed = Uses(n, m)
<1> DEFINE S == {i \in DOMAIN fanout[m] : fanout[m][i] = n}
           U == {i \in {1, 2} : child[n][i].node = m}
           Uses1 == n \in LiveGates /\ m \in FaninNodes(n)
<1>1. m \in Index /\ fanout[m] \in Seq(Index)
  BY NodesType DEF VFullInv, VInv, VTypes, IInv, Lists
<1>2. S # {} <=> Uses1
  <2>1. S # {} <=> n \in Members(fanout[m])
    BY DEF Members
  <2>2. ASSUME n \in Members(fanout[m]) PROVE Uses1
    BY <1>1, <2>2 DEF VFullInv, VInv, ListsCurrent
  <2>3. ASSUME Uses1 PROVE n \in Members(fanout[m])
    BY <2>3, NoneLeaving DEF VFullInv, Complete
  <2>4. QED
    BY <2>1, <2>2, <2>3
<1>3. Uses(n, m) = IF Uses1 THEN 1 ELSE 0
  <2>1. CASE n \in LiveGates
    <3>1. \A i, j \in U : i = j
      BY <2>1 DEF NoTwins
    <3>2. U # {} <=> m \in FaninNodes(n)
      BY DEF FaninNodes
    <3>3. Uses(n, m) = Cardinality(U)
      BY <2>1 DEF Uses
    <3>4. QED
      BY <2>1, <3>1, <3>2, <3>3, CountOnce
  <2>2. CASE n \notin LiveGates
    BY <2>2 DEF Uses
  <2>3. QED
    BY <2>1, <2>2
<1>4. Cardinality(S) = 0 <=> S = {}
  <2>1. IsFiniteSet(S)
    <3>1. DOMAIN fanout[m] = 1 .. Len(fanout[m]) /\ Len(fanout[m]) \in Nat
      BY <1>1
    <3>2. IsFiniteSet(1 .. Len(fanout[m]))
      BY <3>1, FS_Interval
    <3>3. QED
      BY <3>1, <3>2, FS_Subset
  <2>2. QED
    BY <2>1, FS_EmptySet
<1>5. views = 1 => Cardinality(S) = IF S = {} THEN 0 ELSE 1
  <2>1. views = 1 => \A i, j \in S : i = j
    BY <1>1 DEF VFullInv, ListedOnce, Injective
  <2>2. QED
    BY <2>1, CountOnce
<1> HIDE DEF S, U, Uses1
<1>6. /\ (Cardinality(S) = 0) = (Uses(n, m) = 0)
      /\ views = 1 => Cardinality(S) = Uses(n, m)
  BY <1>2, <1>3, <1>4, <1>5
<1>7. QED
  BY <1>6 DEF S

\* As long as no gate has the same node twice, counts stay below the dead bit,
\* clients replace gates only, no pair of a cascade is to replace a node by
\* itself and none revives a node that is referenced: between operations the
\* list of every live node holds exactly its fanouts, however often lists were
\* emptied, filled and copied from, and no fanout of a node that is replaced is
\* left out because its list is visited instead of the network.
THEOREM ListsAreExact ==
  VSpec /\ OldInputs = {} /\ []NoOverflow /\ []NoTwins /\ []Apart /\ []RevivedUnreferenced
    => [](FanoutExact /\ NoFanoutMissed)
<1>1. VFullInv /\ NoTwins => FanoutExact /\ NoFanoutMissed
  <2> SUFFICES ASSUME VFullInv, NoTwins PROVE FanoutExact /\ NoFanoutMissed
    OBVIOUS
  <2>1. FanoutExact
    BY ExactAtRest DEF FanoutExact
  <2>2. NoFanoutMissed
    BY DEF NoFanoutMissed, VFullInv, ToVisit, Members, Awaiting
  <2>3. QED
    BY <2>1, <2>2
<1>2. OldInputs = {} /\ VFullInv /\ NoTwins /\ NoTwins' /\ NoOverflow /\ Apart
      /\ RevivedUnreferenced /\ [VAnyNext]_<<vars, viewVars>> => VFullInv'
  BY VFullInvStep
<1>3. [VNext]_<<vars, viewVars>> => [VAnyNext]_<<vars, viewVars>>
  BY DEF VAnyNext
<1>4. CASE OldInputs = {}
  <2>1. VFullInv /\ NoTwins /\ NoTwins' /\ NoOverflow /\ Apart /\ RevivedUnreferenced
        /\ [VAnyNext]_<<vars, viewVars>> => VFullInv'
    BY <1>2, <1>4
  <2>2. QED
    BY InitVFullInv, <1>1, <1>3, <2>1, PTL DEF VSpec
<1>5. CASE OldInputs # {}
  BY <1>5
<1>6. QED
  BY <1>4, <1>5

-----------------------------------------------------------------------------
(* What the view does to the network.                                      *)

\* What nothing refers to when it has died.
VDeadInv == Frames /\ OutputsLive /\ DeadFaninPending

\* A visit takes nothing out, and leads no gate to a node that is dead.
LEMMA VisitKeepsAlive ==
  ASSUME VInv, CInv, NoOverflow, VVisit
  PROVE  /\ \A m \in Nodes : Dead(m)' <=> Dead(m)
         /\ LiveGates' = LiveGates
         /\ \A g \in LiveGates : FaninNodes(g)' \subseteq FaninNodes(g) \cup {sub.new.node}
         /\ ~Dead(sub.new.node) /\ UNCHANGED <<outputs, sub, pc, calls>>
<1> DEFINE n == Head(parents)
<1>1. /\ pc = "scan" /\ calls = <<>> /\ UNCHANGED <<outputs, sub, pc, calls>> /\ n \in LiveGates
      /\ child' = child \/ child' = [child EXCEPT ![n] = Rewired(n)]
  BY VisitKinds DEF CollapseNode, RestrashNode, RewireNode, netVars
<1>2. UNCHANGED <<size, isCi>> /\ \A m \in Nodes : Dead(m) => Dead(m)'
  BY VisitOnce
<1>3. /\ IInv /\ IInv' /\ TypeOK /\ ~Dead(sub.new.node)
      /\ LiveGates \subseteq LiveGates'
  <2>1. IInv /\ IInv' /\ LiveGates \subseteq LiveGates'
    <3>1. VAnyNext
      BY DEF VAnyNext, VNext, VSubstitute
    <3>2. QED
      BY <1>1, <3>1, NetworkKept DEF VInv, TakeOutEnter, InCall
  <2>2. TypeOK /\ ~Dead(sub.new.node)
    BY <1>1, <2>1 DEF IInv, CInv, Phases
  <2>3. QED
    BY <2>1, <2>2
<1>4. Nodes' = Nodes /\ \A m : IsGate(m)' <=> IsGate(m)
  BY <1>2 DEF Nodes, IsGate
<1>5. ASSUME NEW m \in Nodes, Dead(m)' PROVE Dead(m)
  <2>1. IsGate(m)
    BY <1>3, <1>4, <1>5 DEF IInv, OnlyGatesDie
  <2>2. m \notin LiveGates'
    BY <1>5 DEF LiveGates
  <2>3. QED
    BY <1>3, <2>1, <2>2 DEF LiveGates
<1>6. LiveGates' = LiveGates
  BY <1>2, <1>3, <1>4 DEF LiveGates
<1>7. ASSUME NEW g \in LiveGates
      PROVE  FaninNodes(g)' \subseteq FaninNodes(g) \cup {sub.new.node}
  <2>1. child \in [Index -> Pair] /\ g \in Index /\ n \in Index
    BY <1>1, <1>3, NodesType DEF TypeOK
  <2>2. CASE child'[g] = child[g]
    BY <2>2 DEF FaninNodes
  <2>3. CASE g = n /\ child'[g] = Rewired(g)
    BY <1>3, <2>1, <2>3, RewiredNodes DEF FaninNodes
  <2>4. QED
    BY <1>1, <2>1, <2>2, <2>3
<1>8. QED
  BY <1>1, <1>2, <1>3, <1>5, <1>6, <1>7

\* Steps by which nothing dies and no gate comes to refer to a dead node.
LEMMA QuietDead ==
  ASSUME VDeadInv, IInv, outputs' = outputs, LiveGates' = LiveGates, Frames',
         \A m \in Nodes : Dead(m)' <=> Dead(m),
         \A g \in LiveGates : \A d \in FaninNodes(g)' :
            Dead(d)' => d \in FaninNodes(g) /\ Dead(d),
         \A g \in LiveGates : Pending(g) => Pending(g)'
  PROVE  VDeadInv'
<1>1. OutputsLive'
  <2>1. ASSUME NEW i \in DOMAIN outputs PROVE outputs[i].node \in Nodes
    <3>1. outputs \in Seq(NodeSignal)
      BY DEF IInv, Allocated
    <3>2. outputs[i] \in NodeSignal
      BY <3>1
    <3>3. QED
      BY <3>2 DEF NodeSignal
  <2>2. QED
    BY <2>1 DEF VDeadInv, OutputsLive
<1>2. \A g \in LiveGates : (\E d \in FaninNodes(g) : Dead(d)) => Pending(g)
  BY PendingSplit DEF VDeadInv
<1>3. \A g \in LiveGates' : (\E d \in FaninNodes(g)' : Dead(d)') => Pending(g)'
  BY <1>2
<1>4. DeadFaninPending'
  BY <1>3 DEF DeadFaninPending, Pending, Awaiting, Occupied
<1>5. QED
  BY <1>1, <1>4 DEF VDeadInv

\* Every step keeps what dies unreferenced.
LEMMA VDeadInvStep ==
  ASSUME VInv, CInv, Unneeded, QuietIdle, ToVisit, VDeadInv, NoOverflow, NoTwins, Apart,
         [VAnyNext]_<<vars, viewVars>>
  PROVE  VDeadInv'
<1>1. IInv /\ IInv' /\ Frames /\ OutputsLive /\ DeadFaninPending /\ Nodes \subseteq Index
  BY NetworkKept, AllocatedParts DEF VInv, VDeadInv
<1>2. ASSUME UNCHANGED netVars
      PROVE  /\ outputs' = outputs /\ LiveGates' = LiveGates
             /\ \A m : (Dead(m)' <=> Dead(m)) /\ FaninNodes(m)' = FaninNodes(m)
  BY <1>2 DEF netVars, LiveGates, Nodes, IsGate, Dead, FaninNodes
<1>3. calls' = <<>> => Frames'
  BY DEF Frames
<1>4. CASE VVisit
  <2>1. /\ outputs' = outputs /\ LiveGates' = LiveGates /\ UNCHANGED <<sub, pc, calls>>
        /\ \A m \in Nodes : Dead(m)' <=> Dead(m)
        /\ calls = <<>> /\ sub.new.node \in Nodes /\ ~Dead(sub.new.node)
    BY <1>1, <1>4, VisitKeepsAlive, VisitKinds, AllocatedParts
  <2>2. ASSUME NEW g \in LiveGates, NEW d \in FaninNodes(g)', Dead(d)'
        PROVE  d \in FaninNodes(g) /\ Dead(d)
    <3>1. d \in FaninNodes(g) \cup {sub.new.node}
      BY <1>4, <2>2, VisitKeepsAlive
    <3>2. FaninNodes(g) \subseteq Nodes
      BY <1>1, AllocatedParts DEF FaninNodes, LiveGates
    <3>3. QED
      BY <2>1, <2>2, <3>1, <3>2
  <2>3. \A g \in LiveGates : Pending(g) => Pending(g)'
    BY <1>4, <2>1, VisitOnce DEF Pending
  <2>4. QED
    BY <1>1, <1>3, <2>1, <2>2, <2>3, QuietDead
<1>5. CASE Plain
  <2>1. [AnyNext]_vars /\ NotSelf
    BY <1>5, PlainStep DEF NotSelf, Apart
  <2>2. Frames' /\ OutputsLive'
    BY <1>1, <2>1, FramesStep, OutputsLiveStep
  <2>3. CASE Missed
    BY <1>1, <2>1, <2>2, <2>3, PendingStep DEF DInv, VDeadInv
  <2>4. CASE UNCHANGED vars
    <3>1. UNCHANGED <<netVars, calls, todo, pc, sub>>
      BY <2>4 DEF vars, ctlVars
    <3>2. \A g \in LiveGates : Pending(g) => Pending(g)'
      BY <3>1 DEF Pending, Awaiting
    <3>3. QED
      BY <1>1, <1>2, <2>2, <3>1, <3>2, QuietDead
  <2>5. CASE pc # "scan"
    BY <2>3, <2>5 DEF Missed
  <2>6. CASE pc = "scan" /\ VFinishPair
    <3>1. Members(parents) = {}
      BY <2>6 DEF VFinishPair, Members
    <3>2. QED
      BY <2>3, <3>1 DEF Missed, ToVisit
  <2>7. CASE pc = "scan" /\ VVisit
    BY <1>4, <2>7
  <2>8. QED
    BY <2>4, <2>5, <2>6, <2>7, ScanSteps
<1>6. ASSUME NEW o \in Nodes, NEW s \in Signals, VSubstituteNode(o, s)
      PROVE  VDeadInv'
  <2>1. /\ UNCHANGED netVars /\ calls = <<>> /\ pc = "idle" /\ todo = <<>> /\ s.node \in Nodes
        /\ calls' = IF Dead(s.node) THEN <<Call("revive", s.node)>> ELSE <<>>
    BY <1>6 DEF VSubstituteNode, MaySubstitute, Idle, QuietIdle
  <2>2. Frames'
    <3>1. CASE Dead(s.node)
      <4>1. Call("revive", s.node) \in Frame /\ Call("revive", s.node).at = 0
        BY <1>1, <2>1, KindOfCall DEF OfKind
      <4>2. Call("revive", s.node) \in Done'
        BY <4>1 DEF Done
      <4>3. QED
        BY <2>1, <3>1, <4>2 DEF Frames
    <3>2. QED
      BY <1>3, <2>1, <3>1
  <2>3. \A g : ~Pending(g)
    BY <2>1 DEF Pending, Awaiting, Occupied
  <2>4. QED
    BY <1>1, <1>2, <2>1, <2>2, <2>3, QuietDead
<1>7. CASE Drop
  BY <1>7 DEF Drop, Apart
<1>8. CASE VBegin
  <2>1. /\ UNCHANGED <<netVars, todo, sub, calls>> /\ calls = <<>> /\ pc' = "scan" /\ pc = "begin"
    BY <1>8 DEF VBegin
  <2>2. \A g \in LiveGates : Pending(g) => Pending(g)'
    BY <2>1 DEF Pending, Awaiting
  <2>3. QED
    BY <1>1, <1>2, <1>3, <2>1, <2>2, QuietDead
<1>9. QED
  BY <1>4, <1>5, <1>6, <1>7, <1>8, StepKinds

\* Under the assumptions of ListsAreExact, the view's own substitute_node, which
\* revives the new node first and visits lists where the network scans all
\* nodes, leaves the network as sound as that of the network does: the counts
\* are exact at every step, nothing that is referenced is taken out, a gate
\* refers to a dead node only while its own replacement is pending or a call is
\* about to deal with it, and between operations nothing does.
THEOREM ViewKeepsNetwork ==
  VSpec /\ OldInputs = {} /\ []NoOverflow /\ []NoTwins /\ []Apart /\ []RevivedUnreferenced
    => [](RefCountExact /\ OnlyUnreferencedDies /\ DeadFaninPending /\ NoDeadReference)
<1>1. VInit => VDeadInv
  BY InitDInv DEF VInit, DInv, VDeadInv
<1>2. VFullInv /\ VDeadInv
      => RefCountExact /\ OnlyUnreferencedDies /\ DeadFaninPending /\ NoDeadReference
  <2> SUFFICES ASSUME VFullInv, VDeadInv
               PROVE  /\ RefCountExact /\ OnlyUnreferencedDies /\ DeadFaninPending
                      /\ NoDeadReference
    OBVIOUS
  <2>1. RefCountExact /\ OnlyUnreferencedDies
    BY CInvExact DEF VFullInv
  <2>2. CASE Idle
    <3>1. Missed
      BY <2>2 DEF Idle, Missed
    <3>2. NoDeadReference
      BY <3>1, DInvAtRest DEF VFullInv, VDeadInv, DInv
    <3>3. QED
      BY <2>1, <3>2 DEF VDeadInv
  <2>3. CASE ~Idle
    BY <2>1, <2>3 DEF NoDeadReference, VDeadInv
  <2>4. QED
    BY <2>2, <2>3
<1>3. CASE OldInputs = {}
  <2>1. VFullInv /\ NoTwins /\ NoTwins' /\ NoOverflow /\ Apart /\ RevivedUnreferenced
        /\ [VNext]_<<vars, viewVars>> => VFullInv'
    BY <1>3, VFullInvStep DEF VAnyNext
  <2>2. VFullInv /\ VDeadInv /\ NoTwins /\ NoOverflow /\ Apart
        /\ [VNext]_<<vars, viewVars>> => VDeadInv'
    BY VDeadInvStep DEF VAnyNext, VFullInv
  <2>3. QED
    BY InitVFullInv, <1>1, <1>2, <2>1, <2>2, PTL DEF VSpec
<1>4. CASE OldInputs # {}
  BY <1>4
<1>5. QED
  BY <1>3, <1>4
=============================================================================
