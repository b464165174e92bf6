-------------------------- MODULE ChoiceViewProof --------------------------
(***************************************************************************)
(* Proof that the lists of choice_view keep its classes, for every number   *)
(* of nodes: they list the classes, and every operation does to the classes *)
(* what ChoiceClasses says.                                                 *)
(***************************************************************************)
EXTENDS ChoiceView, Paths, FiniteSetTheorems

-----------------------------------------------------------------------------
(* Lists through an array.                                                 *)

\* The nodes k steps down from x, and all that are met.
IsChain(f, x, c, last) == c = [k \in 0 .. last |-> IF k = 0 THEN x ELSE f[c[k - 1]]]
Chain(f, x) == CHOOSE c : IsChain(f, x, c, MaxNodes)
Along(f, x) == {Chain(f, x)[k] : k \in 0 .. MaxNodes}

\* The recursion is well founded.
LEMMA ChainExists ==
  ASSUME NEW f, NEW x
  PROVE  IsChain(f, x, Chain(f, x), MaxNodes)
<1> DEFINE T == {j \in Nat : \E c : IsChain(f, x, c, j)}
<1>1. 0 \in T
  <2>1. IsChain(f, x, [k \in 0 .. 0 |-> x], 0)
    BY DEF IsChain
  <2>2. QED
    BY <2>1
<1>2. ASSUME NEW j \in Nat, j \in T PROVE j + 1 \in T
  <2>1. PICK c : IsChain(f, x, c, j)
    BY <1>2
  <2> DEFINE d == [k \in 0 .. j + 1 |-> IF k = j + 1 THEN f[c[j]] ELSE c[k]]
             e == [k \in 0 .. j + 1 |-> IF k = 0 THEN x ELSE f[d[k - 1]]]
  <2>2. ASSUME NEW k \in 0 .. j + 1 PROVE d[k] = e[k]
    <3>1. CASE k = j + 1
      BY <3>1
    <3>2. CASE k = 0
      <4>1. d[k] = c[0] /\ c[0] = x
        BY <3>2, <2>1 DEF IsChain
      <4>2. QED
        BY <3>2, <4>1
    <3>3. CASE k \in 1 .. j
      <4>1. d[k] = c[k] /\ d[k - 1] = c[k - 1] /\ k \in 0 .. j /\ k # 0
        BY <3>3
      <4>2. c[k] = f[c[k - 1]]
        BY <2>1, <4>1 DEF IsChain
      <4>3. QED
        BY <4>1, <4>2
    <3>4. QED
      BY <3>1, <3>2, <3>3
  <2>3. d = e
    BY <2>2
  <2>4. IsChain(f, x, d, j + 1)
    BY <2>3 DEF IsChain
  <2>5. QED
    BY <2>4
<1>3. MaxNodes \in T
  <2> HIDE DEF T
  <2>1. Nat \subseteq T
    BY <1>1, <1>2, AllNumbers
  <2>2. QED
    BY <2>1, MaxNodesAssumption
<1>4. QED
  BY <1>3 DEF Chain

\* One step at a time.
LEMMA ChainUnfold ==
  ASSUME NEW f, NEW x
  PROVE  /\ Chain(f, x)[0] = x
         /\ \A k \in 0 .. MaxNodes - 1 : Chain(f, x)[k + 1] = f[Chain(f, x)[k]]
<1> DEFINE c == Chain(f, x)
<1>1. c = [k \in 0 .. MaxNodes |-> IF k = 0 THEN x ELSE f[c[k - 1]]] /\ MaxNodes \in Nat
  BY ChainExists, MaxNodesAssumption DEF IsChain
<1> HIDE DEF c
<1>2. c[0] = x
  BY <1>1
<1>3. ASSUME NEW k \in 0 .. MaxNodes - 1 PROVE c[k + 1] = f[c[k]]
  <2>1. k + 1 \in 0 .. MaxNodes /\ k + 1 # 0 /\ (k + 1) - 1 = k
    BY <1>1
  <2>2. QED
    BY <1>1, <2>1
<1>4. QED
  BY <1>2, <1>3 DEF c

\* The walks of choice_view.
LEMMA Walks ==
  /\ \A n : /\ Representative(n) = Chain(repr, n)[MaxNodes]
            /\ Onwards(n) = Along(repr, n)
  /\ \A ph, rp, r :
        Inverted(ph, rp, r) =
          [m \in Index |-> IF m \in {l \in Along(rp, ph[r].node) : rp[l] # l}
                           THEN Flipped(ph[m]) ELSE ph[m]]
<1>1. \A n : Down(n) = Chain(repr, n)
  BY DEF Down, Chain, IsChain
<1>2. QED
  BY <1>1 DEF Representative, Onwards, Along, Inverted, Chain, IsChain

\* The array rp leads every node to the one that leads its class, which is d
\* steps away, and no two nodes of a class are the same number of steps away.
Chained(rp, lead, d) ==
  /\ rp \in [Index -> Index] /\ lead \in [Index -> Index] /\ d \in [Index -> Nat]
  /\ \A n \in Index : (rp[n] = n <=> d[n] = 0) /\ (lead[n] = n <=> d[n] = 0)
  /\ \A n \in Index : rp[n] # n => d[n] = d[rp[n]] + 1 /\ lead[rp[n]] = lead[n]
  /\ \A m, n \in Index : lead[m] = lead[n] /\ d[m] = d[n] => m = n

\* h is the head of the list of r: no node of the class is further away.
Heads(lead, d, h, r) ==
  /\ h \in Index /\ lead[h] = r
  /\ \A m \in Index : lead[m] = r => d[m] <= d[h]

\* There are fewer steps to take than nodes.
LEMMA FewSteps ==
  ASSUME NEW rp, NEW lead, NEW d, Chained(rp, lead, d), NEW n \in Index
  PROVE  d[n] \in 0 .. MaxNodes - 1
<1> DEFINE B(x, k) == {m \in Index : lead[m] = lead[x] /\ d[m] <= k}
           K == {k \in Nat : \A x \in Index : d[x] = k => Cardinality(B(x, k)) >= k + 1}
<1>1. MaxNodes \in Nat /\ IsFiniteSet(Index) /\ Cardinality(Index) = MaxNodes
  <2>1. MaxNodes \in Nat /\ 0 \in Int /\ MaxNodes - 1 \in Int /\ MaxNodes > 0
    BY MaxNodesAssumption
  <2>2. IsFiniteSet(0 .. MaxNodes - 1)
        /\ Cardinality(0 .. MaxNodes - 1) = IF 0 > MaxNodes - 1 THEN 0 ELSE MaxNodes - 1 - 0 + 1
    BY ONLY <2>1, FS_Interval
  <2>3. QED
    BY <2>1, <2>2 DEF Index
<1>2. \A x, k : IsFiniteSet(B(x, k)) /\ Cardinality(B(x, k)) <= MaxNodes
                /\ Cardinality(B(x, k)) \in Nat
  <2>1. \A x, k : B(x, k) \subseteq Index
    OBVIOUS
  <2> HIDE DEF B
  <2>2. \A S : S \subseteq Index => IsFiniteSet(S) /\ Cardinality(S) <= MaxNodes
                                    /\ Cardinality(S) \in Nat
    BY <1>1, FS_Subset, FS_CardinalityType
  <2>3. QED
    BY <2>1, <2>2
<1>3. 0 \in K
  <2>1. ASSUME NEW x \in Index, d[x] = 0 PROVE Cardinality(B(x, 0)) >= 1
    <3>1. x \in B(x, 0)
      BY <2>1
    <3> HIDE DEF B
    <3>2. Cardinality(B(x, 0)) # 0
      BY <1>2, <3>1, FS_EmptySet
    <3>3. QED
      BY <1>2, <3>2
  <2>2. QED
    BY <2>1
<1>4. ASSUME NEW k \in Nat, k \in K PROVE k + 1 \in K
  <2> SUFFICES ASSUME NEW x \in Index, d[x] = k + 1
               PROVE  Cardinality(B(x, k + 1)) >= (k + 1) + 1
    OBVIOUS
  <2>1. PICK y \in Index : y = rp[x] /\ d[y] = k /\ lead[y] = lead[x]
    BY DEF Chained
  <2>2. Cardinality(B(y, k)) >= k + 1
    BY <1>4, <2>1
  <2>3. x \notin B(y, k) /\ B(y, k) \cup {x} \subseteq B(x, k + 1)
    BY <2>1 DEF Chained
  <2> HIDE DEF B
  <2>4. Cardinality(B(y, k) \cup {x}) = Cardinality(B(y, k)) + 1
    BY <1>2, <2>3, FS_AddElement
  <2>5. Cardinality(B(y, k) \cup {x}) <= Cardinality(B(x, k + 1))
    BY <1>2, <2>3, FS_Subset
  <2>6. QED
    BY <1>2, <2>2, <2>4, <2>5
<1> HIDE DEF K
<1>5. Nat \subseteq K
  BY <1>3, <1>4, AllNumbers
<1>6. d[n] \in Nat
  BY DEF Chained
<1>7. Cardinality(B(n, d[n])) >= d[n] + 1
  BY <1>5, <1>6 DEF K
<1> HIDE DEF B
<1>8. QED
  BY <1>1, <1>2, <1>6, <1>7

\* A walk that is long enough ends at the node that leads the class, and meets
\* what is not further away than its start.
LEMMA WalkMeets ==
  ASSUME NEW rp, NEW lead, NEW d, Chained(rp, lead, d), NEW n \in Index
  PROVE  /\ Chain(rp, n)[MaxNodes] = lead[n]
         /\ Along(rp, n) = {m \in Index : lead[m] = lead[n] /\ d[m] <= d[n]}
         /\ d[lead[n]] = 0 /\ lead[lead[n]] = lead[n] /\ rp[lead[n]] = lead[n]
<1> DEFINE at(k) == Chain(rp, n)[k]
           K == {k \in Nat : k <= MaxNodes =>
                   /\ at(k) \in Index /\ lead[at(k)] = lead[n]
                   /\ d[at(k)] = IF k <= d[n] THEN d[n] - k ELSE 0}
<1>1. MaxNodes \in Nat /\ d[n] \in 0 .. MaxNodes - 1 /\ d[n] \in Nat
  <2>1. d[n] \in 0 .. MaxNodes - 1
    BY FewSteps
  <2>2. QED
    BY <2>1, MaxNodesAssumption
<1>2. at(0) = n /\ \A k \in 0 .. MaxNodes - 1 : at(k + 1) = rp[at(k)]
  BY ChainUnfold
<1> HIDE DEF at
<1>3. 0 \in K
  BY <1>1, <1>2
<1>4. ASSUME NEW k \in Nat, k \in K PROVE k + 1 \in K
  <2> SUFFICES ASSUME k + 1 <= MaxNodes
               PROVE  /\ at(k + 1) \in Index /\ lead[at(k + 1)] = lead[n]
                      /\ d[at(k + 1)] = IF k + 1 <= d[n] THEN d[n] - (k + 1) ELSE 0
    OBVIOUS
  <2>1. /\ at(k) \in Index /\ lead[at(k)] = lead[n] /\ at(k + 1) = rp[at(k)]
        /\ d[at(k)] = IF k <= d[n] THEN d[n] - k ELSE 0
    BY <1>1, <1>2, <1>4
  <2>2. PICK y \in Index : y = rp[at(k)]
    BY <2>1 DEF Chained
  <2>3. CASE y = at(k)
    <3>1. d[at(k)] = 0
      BY <2>1, <2>2, <2>3 DEF Chained
    <3>2. QED
      BY <1>1, <2>1, <2>2, <2>3, <3>1
  <2>4. CASE y # at(k)
    <3>1. d[at(k)] = d[y] + 1 /\ lead[y] = lead[n] /\ d[y] \in Nat
      BY <2>1, <2>2, <2>4 DEF Chained
    <3>2. k <= d[n] /\ d[y] = d[n] - (k + 1)
      BY <1>1, <2>1, <3>1
    <3>3. k + 1 <= d[n]
      BY <1>1, <3>1, <3>2
    <3>4. QED
      BY <2>1, <2>2, <3>1, <3>2, <3>3
  <2>5. QED
    BY <2>3, <2>4
<1> HIDE DEF K
<1>5. Nat \subseteq K
  BY <1>3, <1>4, AllNumbers
<1>6. \A k \in 0 .. MaxNodes :
         /\ at(k) \in Index /\ lead[at(k)] = lead[n]
         /\ d[at(k)] = IF k <= d[n] THEN d[n] - k ELSE 0
  <2>1. \A k \in 0 .. MaxNodes : k \in K /\ k \in Nat /\ k <= MaxNodes
    BY <1>1, <1>5
  <2>2. QED
    BY <2>1 DEF K
<1>7. at(MaxNodes) = lead[n] /\ d[lead[n]] = 0
  <2>1. MaxNodes \in 0 .. MaxNodes /\ ~(MaxNodes <= d[n])
    BY <1>1
  <2>2. at(MaxNodes) \in Index /\ lead[at(MaxNodes)] = lead[n] /\ d[at(MaxNodes)] = 0
    BY <1>6, <2>1
  <2>3. lead[at(MaxNodes)] = at(MaxNodes)
    BY <2>2 DEF Chained
  <2>4. QED
    BY <2>2, <2>3
<1>8. lead[n] \in Index
  BY DEF Chained
<1>9. Along(rp, n) = {m \in Index : lead[m] = lead[n] /\ d[m] <= d[n]}
  <2>1. ASSUME NEW k \in 0 .. MaxNodes PROVE d[at(k)] <= d[n]
    BY <1>1, <1>6
  <2>2. ASSUME NEW m \in Index, lead[m] = lead[n], d[m] <= d[n]
        PROVE  \E k \in 0 .. MaxNodes : m = at(k)
    <3>1. d[m] \in Nat
      BY DEF Chained
    <3>2. PICK k \in 0 .. MaxNodes : k = d[n] - d[m] /\ k <= d[n] /\ d[n] - k = d[m]
      BY <1>1, <2>2, <3>1
    <3>3. at(k) \in Index /\ lead[at(k)] = lead[m] /\ d[at(k)] = d[m]
      BY <1>6, <2>2, <3>2
    <3>4. QED
      BY <3>3 DEF Chained
  <2>3. Along(rp, n) = {at(k) : k \in 0 .. MaxNodes}
    BY DEF Along, at
  <2>4. QED
    BY <1>6, <2>1, <2>2, <2>3
<1>10. QED
  BY <1>7, <1>8, <1>9 DEF Chained, at

\* Inverting a list turns all phases of the class but that of its leader.
LEMMA InvertedMeans ==
  ASSUME NEW rp, NEW lead, NEW d, Chained(rp, lead, d), NEW ph, NEW r \in Index, rp[r] = r,
         Heads(lead, d, ph[r].node, r)
  PROVE  Inverted(ph, rp, r) =
           [m \in Index |-> IF lead[m] = r /\ m # r THEN Flipped(ph[m]) ELSE ph[m]]
<1> DEFINE h == ph[r].node
<1>1. /\ h \in Index /\ lead[h] = r /\ \A m \in Index : lead[m] = r => d[m] <= d[h]
  BY DEF Heads
<1>2. Along(rp, h) = {m \in Index : lead[m] = r}
  BY <1>1, WalkMeets
<1>3. Inverted(ph, rp, r) =
        [m \in Index |-> IF m \in {l \in Along(rp, h) : rp[l] # l} THEN Flipped(ph[m]) ELSE ph[m]]
  BY Walks
<1>4. \A m \in Index : lead[m] = r => (rp[m] = m <=> m = r)
  BY DEF Chained
<1>5. \A m \in Index : m \in {l \in Along(rp, h) : rp[l] # l} <=> lead[m] = r /\ m # r
  BY <1>2, <1>4
<1> HIDE DEF h
<1>6. QED
  BY <1>3, <1>5

-----------------------------------------------------------------------------
(* What the arrays store.                                                  *)

\* The arrays rp and ph hold, for the nodes pr of the network, the classes of
\* lead.  kn are the nodes with an entry.
Lists(rp, ph, kn, pr, lead, d) ==
  /\ ph \in [Index -> Signal]
  /\ Chained(rp, lead, d)
  /\ pr \subseteq kn /\ kn \subseteq Index
  /\ \A r \in pr : rp[r] = r => Heads(lead, d, ph[r].node, r)
  /\ \A n \in Index : rp[n] # n => ph[n].node = n
  /\ \A n \in Index : lead[n] = n \/ (n \in pr /\ lead[n] \in pr)
  /\ \A n \in Index \ kn : ph[n].node = n

\* The polarities they hold.
Signs(lead, ph) == [n \in Index |-> lead[n] # n /\ ph[n].neg]

\* ph with the polarities of S turned if b.
Turned(ph, S, b) == [m \in Index |-> IF b /\ m \in S THEN Flipped(ph[m]) ELSE ph[m]]

\* Turning a polarity round leaves the node alone.
LEMMA FlippedSignal ==
  ASSUME NEW s \in Signal
  PROVE  Flipped(s) \in Signal /\ Flipped(s).node = s.node /\ Flipped(s).neg = ~s.neg
  BY DEF Flipped, Signal

\* Lists do not depend on polarities.
LEMMA TurnedLists ==
  ASSUME NEW rp, NEW ph, NEW kn, NEW pr, NEW lead, NEW d,
         Lists(rp, ph, kn, pr, lead, d), NEW S, NEW b \in BOOLEAN
  PROVE  Lists(rp, Turned(ph, S, b), kn, pr, lead, d)
<1> DEFINE t == Turned(ph, S, b)
<1>1. t \in [Index -> Signal] /\ \A m \in Index : t[m].node = ph[m].node
  <2>1. \A m \in Index : Flipped(ph[m]) \in Signal /\ Flipped(ph[m]).node = ph[m].node
    BY FlippedSignal DEF Lists
  <2>2. QED
    BY <2>1 DEF Turned, Lists
<1>2. pr \subseteq Index /\ Index \ kn \subseteq Index
  BY DEF Lists
<1> HIDE DEF t
<1>3. QED
  BY <1>1, <1>2 DEF Lists, t

\* What the walks of choice_view compute.
LEMMA ListsMean ==
  ASSUME NEW rp, NEW ph, NEW kn, NEW pr, NEW lead, NEW d, Lists(rp, ph, kn, pr, lead, d)
  PROVE  /\ \A n \in Index : /\ Chain(rp, n)[MaxNodes] = lead[n]
                             /\ lead[n] \in Index /\ lead[lead[n]] = lead[n]
                             /\ rp[lead[n]] = lead[n] /\ d[lead[n]] = 0
                             /\ Along(rp, n) = {m \in Index : lead[m] = lead[n] /\ d[m] <= d[n]}
         /\ \A n \in pr : /\ lead[n] \in pr /\ n \in Index
                          /\ Heads(lead, d, ph[lead[n]].node, lead[n])
                          /\ Along(rp, ph[lead[n]].node) = {m \in Index : lead[m] = lead[n]}
                          /\ {m \in Index : lead[m] = lead[n]} \subseteq pr
<1>1. Chained(rp, lead, d) /\ pr \subseteq Index
  BY DEF Lists
<1>2. ASSUME NEW n \in Index
      PROVE  /\ Chain(rp, n)[MaxNodes] = lead[n]
             /\ lead[n] \in Index /\ lead[lead[n]] = lead[n]
             /\ rp[lead[n]] = lead[n] /\ d[lead[n]] = 0
             /\ Along(rp, n) = {m \in Index : lead[m] = lead[n] /\ d[m] <= d[n]}
  <2>1. lead[n] \in Index
    BY <1>1 DEF Chained
  <2>2. QED
    BY <1>1, <2>1, WalkMeets
<1>3. ASSUME NEW n \in pr
      PROVE  /\ lead[n] \in pr
             /\ Heads(lead, d, ph[lead[n]].node, lead[n])
             /\ Along(rp, ph[lead[n]].node) = {m \in Index : lead[m] = lead[n]}
             /\ {m \in Index : lead[m] = lead[n]} \subseteq pr
  <2>1. lead[n] \in pr
    BY <1>1 DEF Lists
  <2>2. Heads(lead, d, ph[lead[n]].node, lead[n])
    BY <1>1, <1>2, <2>1 DEF Lists
  <2>3. Along(rp, ph[lead[n]].node) = {m \in Index : lead[m] = lead[n]}
    BY <1>2, <2>2 DEF Heads
  <2>4. {m \in Index : lead[m] = lead[n]} \subseteq pr
    BY <2>1 DEF Lists
  <2>5. QED
    BY <2>1, <2>2, <2>3, <2>4
<1>4. QED
  BY <1>1, <1>2, <1>3

-----------------------------------------------------------------------------
(* The operations on the arrays.                                           *)

\* The others that r leads.
Followers(lead, r) == {m \in Index : lead[m] = r /\ m # r}

\* What merging does, once the list of r2 is turned.
MergedRepr(rp, t, r1, r2) == [rp EXCEPT ![r2] = t[r1].node]
MergedPhase(t, r1, r2, inv) == [t EXCEPT ![r1] = t[r2], ![r2] = [node |-> r2, neg |-> inv]]

\* What electing n does, before the list is turned.
ElectedRepr(rp, ph, n, r) == [rp EXCEPT ![r] = ph[r].node, ![n] = n]
ElectedPhase(rp, ph, n, r) == [ph EXCEPT ![n] = Plain(rp[n]), ![r] = Plain(r)]

\* What taking out the representative n does, before the list is turned.
DeposedRepr(rp, ph, n, p, new) ==
  IF new = p THEN [rp EXCEPT ![new] = new] ELSE [rp EXCEPT ![p] = ph[n].node, ![new] = new]
DeposedPhase(rp, ph, n, p, new) ==
  [ph EXCEPT ![new] = IF new = p THEN ph[n] ELSE Plain(rp[new])]

\* Whom nodes follow when the class of r has another leader, when r is taken
\* out of it, and when n is.
Joined(lead, r, new) == [m \in Index |-> IF lead[m] = r THEN new ELSE lead[m]]
Deposed(lead, r, new) ==
  [m \in Index |-> IF lead[m] = r /\ m # r THEN new ELSE lead[m]]
Left(lead, n) == [lead EXCEPT ![n] = n]

\* What taking out any other node does: the head n of the list of r, or what
\* follows g.
HeadMoved(rp, ph, n, r) == [ph EXCEPT ![r] = Plain(rp[n])]
Skipped(rp, n, g) == [rp EXCEPT ![g] = rp[n], ![n] = n]

\* The nodes of the network afterwards: n may have been taken out of it, too.
Keeping(pr, n) == {pr, pr \ {n}}

\* The lists rp2 and ph2 hold the classes of lead without n, and the polarities
\* that ph holds.
Without(n, lead, ph, rp2, ph2, kn, pr2) ==
  \E lead2, d2 :
    /\ Lists(rp2, ph2, kn, pr2, lead2, d2)
    /\ lead2 = Left(lead, n)
    /\ \A m \in Index : Signs(lead2, ph2)[m] = IF m = n THEN FALSE ELSE Signs(lead, ph)[m]

\* The same if n was the leader and new takes over.
WithoutLeader(n, new, lead, ph, rp2, ph2, kn, pr2) ==
  \E lead2, d2 :
    /\ Lists(rp2, ph2, kn, pr2, lead2, d2)
    /\ lead2 = Deposed(lead, n, new)
    /\ \A m \in Index : Signs(lead2, ph2)[m] =
         IF lead[m] = n /\ m # n THEN Signs(lead, ph)[m] # Signs(lead, ph)[new]
         ELSE Signs(lead, ph)[m]

\* Merging: the list of r2, turned or not, goes to the front of that of r1.
LEMMA MergedLists ==
  ASSUME NEW rp, NEW ph, NEW kn, NEW pr, NEW lead, NEW d, Lists(rp, ph, kn, pr, lead, d),
         NEW r1 \in pr, NEW r2 \in pr, r1 # r2, lead[r1] = r1, lead[r2] = r2,
         NEW inv \in BOOLEAN, NEW t, t = Turned(ph, Followers(lead, r2), inv),
         NEW rp2, rp2 = MergedRepr(rp, t, r1, r2),
         NEW ph2, ph2 = MergedPhase(t, r1, r2, inv)
  PROVE  \E lead2, d2 :
           /\ Lists(rp2, ph2, kn, pr, lead2, d2)
           /\ lead2 = Joined(lead, r2, r1)
           /\ \A m \in Index : Signs(lead2, ph2)[m] =
                IF lead[m] = r2 THEN Signs(lead, ph)[m] # inv ELSE Signs(lead, ph)[m]
<1> USE DEF Followers, MergedRepr, MergedPhase, Joined
<1>1. /\ Lists(rp, t, kn, pr, lead, d) /\ Chained(rp, lead, d)
      /\ r1 \in Index /\ r2 \in Index /\ ph \in [Index -> Signal] /\ t \in [Index -> Signal]
      /\ rp \in [Index -> Index] /\ lead \in [Index -> Index] /\ d \in [Index -> Nat]
      /\ pr \subseteq kn /\ kn \subseteq Index
  <2>1. Lists(rp, t, kn, pr, lead, d)
    BY TurnedLists
  <2>2. QED
    BY <2>1 DEF Lists, Chained
<1>2. PICK h1 \in Index, h2 \in Index :
         /\ h1 = t[r1].node /\ h2 = t[r2].node
         /\ Heads(lead, d, h1, r1) /\ Heads(lead, d, h2, r2)
  <2>1. rp[r1] = r1 /\ rp[r2] = r2
    BY <1>1 DEF Chained
  <2>2. Heads(lead, d, t[r1].node, r1) /\ Heads(lead, d, t[r2].node, r2)
    BY <1>1, <2>1 DEF Lists
  <2>3. QED
    BY <2>2 DEF Heads
<1> DEFINE lead2 == [m \in Index |-> IF lead[m] = r2 THEN r1 ELSE lead[m]]
           d2 == [m \in Index |-> IF lead[m] = r2 THEN d[m] + d[h1] + 1 ELSE d[m]]
<1>3. /\ lead2 \in [Index -> Index] /\ d2 \in [Index -> Nat]
      /\ \A m \in Index : lead2[m] = IF lead[m] = r2 THEN r1 ELSE lead[m]
      /\ \A m \in Index : d2[m] = IF lead[m] = r2 THEN d[m] + d[h1] + 1 ELSE d[m]
  BY <1>1
<1>4. lead2 = [m \in Index |-> IF lead[m] = r2 THEN r1 ELSE lead[m]]
  OBVIOUS
<1> HIDE DEF lead2, d2
<1>5. /\ rp2 \in [Index -> Index] /\ rp2[r2] = h1
      /\ \A m \in Index : m # r2 => rp2[m] = rp[m]
  BY <1>1, <1>2
<1>6. /\ ph2 \in [Index -> Signal] /\ ph2[r2] = [node |-> r2, neg |-> inv] /\ ph2[r1] = t[r2]
      /\ \A m \in Index : m # r1 /\ m # r2 => ph2[m] = t[m]
  <2>1. t[r2] \in Signal /\ [node |-> r2, neg |-> inv] \in Signal
    BY <1>1 DEF Signal
  <2>2. QED
    BY <1>1, <2>1
<1>7. d[h1] \in Nat /\ lead[h1] = r1 /\ lead[h2] = r2 /\ d[r1] = 0 /\ d[r2] = 0
      /\ (\A m \in Index : lead[m] = r1 => d[m] <= d[h1])
      /\ (\A m \in Index : lead[m] = r2 => d[m] <= d[h2])
  BY <1>1, <1>2 DEF Heads, Chained
<1>8. Chained(rp2, lead2, d2)
  <2>1. ASSUME NEW n \in Index
        PROVE  /\ (rp2[n] = n <=> d2[n] = 0) /\ (lead2[n] = n <=> d2[n] = 0)
               /\ rp2[n] # n => d2[n] = d2[rp2[n]] + 1 /\ lead2[rp2[n]] = lead2[n]
    <3>1. CASE n = r2
      BY <1>1, <1>3, <1>5, <1>7, <3>1
    <3>2. CASE n # r2 /\ lead[n] = r2
      <4>1. rp2[n] = rp[n] /\ d[n] # 0 /\ d[n] \in Nat /\ rp[n] # n
            /\ rp[n] \in Index /\ d[n] = d[rp[n]] + 1 /\ lead[rp[n]] = r2
        BY <1>1, <1>5, <3>2 DEF Chained
      <4>2. lead2[n] = r1 /\ n # r1 /\ d2[n] = d[n] + d[h1] + 1
            /\ d2[rp[n]] = d[rp[n]] + d[h1] + 1 /\ lead2[rp[n]] = r1
        BY <1>3, <3>2, <4>1
      <4>3. d[rp[n]] \in Nat
        BY <1>1, <4>1
      <4>4. QED
        BY <1>7, <4>1, <4>2, <4>3
    <3>3. CASE n # r2 /\ lead[n] # r2
      <4>1. rp2[n] = rp[n] /\ d2[n] = d[n] /\ lead2[n] = lead[n]
        BY <1>3, <1>5, <3>3
      <4>2. (rp[n] = n <=> d[n] = 0) /\ (lead[n] = n <=> d[n] = 0)
            /\ (rp[n] # n => d[n] = d[rp[n]] + 1 /\ lead[rp[n]] = lead[n])
            /\ rp[n] \in Index
        BY <1>1 DEF Chained
      <4>3. rp[n] # n => d2[rp[n]] = d[rp[n]] /\ lead2[rp[n]] = lead[rp[n]]
        BY <1>3, <3>3, <4>2
      <4>4. QED
        BY <4>1, <4>2, <4>3
    <3>4. QED
      BY <3>1, <3>2, <3>3
  <2>2. ASSUME NEW m \in Index, NEW n \in Index, lead2[m] = lead2[n], d2[m] = d2[n]
        PROVE  m = n
    <3>1. d[m] \in Nat /\ d[n] \in Nat
      BY <1>1
    <3>2. lead[m] = r2 <=> lead[n] = r2
      BY <1>3, <1>7, <2>2, <3>1
    <3>3. lead[m] = lead[n] /\ d[m] = d[n]
      BY <1>3, <1>7, <2>2, <3>1, <3>2
    <3>4. QED
      BY <1>1, <3>3 DEF Chained
  <2>3. QED
    BY <1>3, <1>5, <2>1, <2>2 DEF Chained
<1>9. ASSUME NEW r \in pr, rp2[r] = r PROVE Heads(lead2, d2, ph2[r].node, r)
  <2>1. r \in Index /\ r # r2 /\ rp[r] = r
    BY <1>1, <1>2, <1>5, <1>7, <1>9
  <2>2. lead[r] = r
    BY <1>1, <2>1 DEF Chained
  <2>3. CASE r = r1
    <3>1. ph2[r].node = h2
      BY <1>2, <1>6, <2>3
    <3>2. lead2[h2] = r1 /\ d2[h2] = d[h2] + d[h1] + 1 /\ d[h2] \in Nat
      BY <1>1, <1>2, <1>3, <1>7
    <3>3. ASSUME NEW m \in Index, lead2[m] = r1 PROVE d2[m] <= d2[h2]
      <4>1. d[m] \in Nat /\ (lead[m] = r2 \/ lead[m] = r1)
        BY <1>1, <1>3, <3>3
      <4>2. CASE lead[m] = r2
        BY <1>3, <1>7, <3>2, <4>1, <4>2
      <4>3. CASE lead[m] = r1
        BY <1>3, <1>7, <3>2, <4>1, <4>3
      <4>4. QED
        BY <4>1, <4>2, <4>3
    <3>4. QED
      BY <1>2, <2>3, <3>1, <3>2, <3>3 DEF Heads
  <2>4. CASE r # r1
    <3>1. ph2[r].node = t[r].node /\ Heads(lead, d, t[r].node, r)
      BY <1>1, <1>6, <2>1, <2>4 DEF Lists
    <3>2. \A m \in Index : lead2[m] = r => lead[m] = r /\ d2[m] = d[m]
      BY <1>3, <2>1, <2>4
    <3>3. \A m \in Index : lead[m] = r => lead2[m] = r /\ d2[m] = d[m]
      BY <1>3, <2>1, <2>4
    <3>4. QED
      BY <3>1, <3>2, <3>3 DEF Heads
  <2>5. QED
    BY <2>3, <2>4
<1>10. ASSUME NEW n \in Index, rp2[n] # n PROVE ph2[n].node = n
  <2>1. CASE n = r2
    BY <1>6, <2>1
  <2>2. CASE n # r2
    <3>1. rp[n] # n
      BY <1>5, <1>10, <2>2
    <3>2. n # r1 /\ t[n].node = n
      BY <1>1, <3>1 DEF Lists, Chained
    <3>3. QED
      BY <1>6, <2>2, <3>2
  <2>3. QED
    BY <2>1, <2>2
<1>11. ASSUME NEW n \in Index PROVE lead2[n] = n \/ (n \in pr /\ lead2[n] \in pr)
  <2>1. lead[n] = n \/ (n \in pr /\ lead[n] \in pr)
    BY <1>1 DEF Lists
  <2>2. QED
    BY <1>3, <2>1
<1>12. ASSUME NEW n \in Index \ kn PROVE ph2[n].node = n
  <2>1. t[n].node = n /\ n # r1 /\ n # r2
    BY <1>1 DEF Lists
  <2>2. QED
    BY <1>6, <2>1
<1>13. Lists(rp2, ph2, kn, pr, lead2, d2)
  BY <1>1, <1>6, <1>8, <1>9, <1>10, <1>11, <1>12 DEF Lists
<1>14. ASSUME NEW m \in Index
       PROVE  Signs(lead2, ph2)[m] =
                IF lead[m] = r2 THEN Signs(lead, ph)[m] # inv ELSE Signs(lead, ph)[m]
  <2>1. Signs(lead2, ph2)[m] = (lead2[m] # m /\ ph2[m].neg)
        /\ Signs(lead, ph)[m] = (lead[m] # m /\ ph[m].neg)
    BY DEF Signs
  <2>2. ph[m].neg \in BOOLEAN
    BY <1>1 DEF Signal
  <2>3. CASE m = r2
    <3>1. lead2[m] = r1 /\ ph2[m].neg = inv
      BY <1>3, <1>6, <2>3
    <3>2. Signs(lead2, ph2)[m] = inv /\ Signs(lead, ph)[m] = FALSE /\ lead[m] = r2
      BY <2>1, <2>3, <3>1
    <3>3. QED
      BY <3>2
  <2>4. CASE m # r2 /\ lead[m] = r2
    <3>1. m # r1 /\ lead2[m] = r1 /\ ph2[m] = t[m]
      BY <1>3, <1>6, <2>4
    <3>2. t[m] = IF inv THEN Flipped(ph[m]) ELSE ph[m]
      BY <2>4 DEF Turned
    <3>3. Flipped(ph[m]).neg = ~ph[m].neg
      BY <1>1, FlippedSignal
    <3>4. CASE inv
      BY <2>1, <2>2, <2>4, <3>1, <3>2, <3>3, <3>4
    <3>5. CASE ~inv
      BY <2>1, <2>2, <2>4, <3>1, <3>2, <3>5
    <3>6. QED
      BY <3>4, <3>5
  <2>5. CASE lead[m] # r2
    <3>1. lead2[m] = lead[m] /\ m # r2
      BY <1>3, <2>5
    <3>2. m # r1 => ph2[m] = ph[m]
      BY <1>6, <2>5, <3>1 DEF Turned
    <3>3. QED
      BY <2>1, <2>5, <3>1, <3>2
  <2>6. QED
    BY <2>3, <2>4, <2>5
<1>15. QED
  BY <1>4, <1>13, <1>14

\* Inverting turns round what a representative leads.
LEMMA InvertedTurns ==
  ASSUME NEW rp, NEW ph, NEW kn, NEW pr, NEW lead, NEW d, Lists(rp, ph, kn, pr, lead, d),
         NEW n \in Index, rp[n] = n, Heads(lead, d, ph[n].node, n), NEW b \in BOOLEAN
  PROVE  (IF b THEN Inverted(ph, rp, n) ELSE ph) =
           Turned(ph, Followers(lead, n), b)
<1> USE DEF Followers
<1>1. Chained(rp, lead, d) /\ ph \in [Index -> Signal]
  BY DEF Lists
<1>2. Inverted(ph, rp, n) = [m \in Index |-> IF lead[m] = n /\ m # n THEN Flipped(ph[m]) ELSE ph[m]]
  BY <1>1, InvertedMeans
<1>3. CASE b
  BY <1>2, <1>3 DEF Turned
<1>4. CASE ~b
  <2>1. ph = [m \in Index |-> ph[m]]
    BY <1>1
  <2>2. Turned(ph, {m \in Index : lead[m] = n /\ m # n}, b) = [m \in Index |-> ph[m]]
    BY <1>4 DEF Turned
  <2>3. QED
    BY <1>4, <2>1, <2>2
<1>5. QED
  BY <1>3, <1>4

\* Turning round the polarities of what the new representative leads.
LEMMA TurnedToLeader ==
  ASSUME NEW rp, NEW ph, NEW kn, NEW pr, NEW lead, NEW d, Lists(rp, ph, kn, pr, lead, d),
         NEW n \in Index, rp[n] = n, Heads(lead, d, ph[n].node, n), NEW b \in BOOLEAN,
         NEW ph2, ph2 = IF b THEN Inverted(ph, rp, n) ELSE ph
  PROVE  /\ Lists(rp, ph2, kn, pr, lead, d)
         /\ \A m \in Index : Signs(lead, ph2)[m] =
              IF lead[m] = n /\ m # n THEN Signs(lead, ph)[m] # b ELSE Signs(lead, ph)[m]
<1> DEFINE S == {m \in Index : lead[m] = n /\ m # n}
<1> USE DEF Followers
<1>1. Chained(rp, lead, d) /\ ph \in [Index -> Signal]
  BY DEF Lists
<1>2. ph2 = Turned(ph, S, b)
  BY InvertedTurns
<1>3. Lists(rp, ph2, kn, pr, lead, d)
  <2> HIDE DEF S
  <2>1. QED
    BY <1>2, TurnedLists
<1>4. ASSUME NEW m \in Index
      PROVE  Signs(lead, ph2)[m] =
              IF lead[m] = n /\ m # n THEN Signs(lead, ph)[m] # b ELSE Signs(lead, ph)[m]
  <2>1. Signs(lead, ph2)[m] = (lead[m] # m /\ ph2[m].neg)
        /\ Signs(lead, ph)[m] = (lead[m] # m /\ ph[m].neg)
    BY DEF Signs
  <2>2. ph[m].neg \in BOOLEAN /\ Flipped(ph[m]).neg = ~ph[m].neg
    <3>1. ph[m] \in Signal
      BY <1>1
    <3>2. QED
      BY <3>1, FlippedSignal DEF Signal
  <2>3. ph2[m] = IF b /\ lead[m] = n /\ m # n THEN Flipped(ph[m]) ELSE ph[m]
    BY <1>2 DEF Turned
  <2>4. CASE b
    BY <2>1, <2>2, <2>3, <2>4
  <2>5. CASE ~b
    BY <2>1, <2>2, <2>3, <2>5
  <2>6. QED
    BY <2>4, <2>5
<1>5. QED
  BY <1>3, <1>4

\* Electing n: the list is a ring but for one link, and is cut elsewhere.
LEMMA ElectedLists ==
  ASSUME NEW rp, NEW ph, NEW kn, NEW pr, NEW lead, NEW d, Lists(rp, ph, kn, pr, lead, d),
         NEW n \in pr, NEW r, r = lead[n], r # n,
         NEW rp2, rp2 = ElectedRepr(rp, ph, n, r),
         NEW ph1, ph1 = ElectedPhase(rp, ph, n, r),
         NEW ph2, ph2 = IF ph[n].neg THEN Inverted(ph1, rp2, n) ELSE ph1
  PROVE  \E lead2, d2 :
           /\ Lists(rp2, ph2, kn, pr, lead2, d2)
           /\ lead2 = Joined(lead, r, n)
           /\ \A m \in Index : Signs(lead2, ph2)[m] =
                IF lead[m] = r THEN Signs(lead, ph)[m] # Signs(lead, ph)[n]
                ELSE Signs(lead, ph)[m]
<1> USE DEF ElectedRepr, ElectedPhase, Joined
<1>1. /\ Chained(rp, lead, d) /\ n \in Index /\ r \in Index /\ r \in pr
      /\ ph \in [Index -> Signal] /\ rp \in [Index -> Index]
      /\ lead \in [Index -> Index] /\ d \in [Index -> Nat] /\ rp[n] \in Index
      /\ pr \subseteq kn /\ kn \subseteq Index
  <2>1. r \in pr
    BY ListsMean
  <2>2. QED
    BY <2>1 DEF Lists, Chained
<1>2. PICK h \in Index : h = ph[r].node /\ Heads(lead, d, h, r)
  <2>1. Heads(lead, d, ph[r].node, r)
    BY ListsMean
  <2>2. QED
    BY <2>1 DEF Heads
<1>3. /\ d[h] \in Nat /\ d[n] \in Nat /\ d[n] # 0 /\ d[r] = 0 /\ lead[r] = r /\ lead[h] = r
      /\ d[n] <= d[h] /\ rp[n] # n /\ d[n] = d[rp[n]] + 1 /\ lead[rp[n]] = r
      /\ d[rp[n]] \in Nat /\ rp[r] = r
      /\ \A m \in Index : lead[m] = r => d[m] <= d[h]
  <2>1. d[r] = 0 /\ lead[r] = r /\ rp[r] = r
    BY <1>1, ListsMean
  <2>2. QED
    BY <1>1, <1>2, <2>1 DEF Heads, Chained
<1> DEFINE lead2 == [m \in Index |-> IF lead[m] = r THEN n ELSE lead[m]]
           far(m) == IF d[m] >= d[n] THEN d[m] - d[n] ELSE d[m] + d[h] + 1 - d[n]
           d2 == [m \in Index |-> IF lead[m] = r THEN far(m) ELSE d[m]]
<1>4. \A m \in Index : far(m) \in Nat
  BY <1>1, <1>3
<1>5. /\ lead2 \in [Index -> Index] /\ d2 \in [Index -> Nat]
      /\ \A m \in Index : lead2[m] = IF lead[m] = r THEN n ELSE lead[m]
      /\ \A m \in Index : d2[m] = IF lead[m] = r THEN far(m) ELSE d[m]
  BY <1>1, <1>4
<1>6. lead2 = [m \in Index |-> IF lead[m] = r THEN n ELSE lead[m]]
  OBVIOUS
<1> HIDE DEF lead2, d2
<1>7. /\ rp2 \in [Index -> Index] /\ rp2[r] = h /\ rp2[n] = n
      /\ \A m \in Index : m # r /\ m # n => rp2[m] = rp[m]
  BY <1>1, <1>2
<1>8. /\ ph1 \in [Index -> Signal] /\ ph1[n] = Plain(rp[n]) /\ ph1[r] = Plain(r)
      /\ \A m \in Index : m # r /\ m # n => ph1[m] = ph[m]
  <2>1. Plain(rp[n]) \in Signal /\ Plain(r) \in Signal
    BY <1>1 DEF Signal, Plain
  <2>2. QED
    BY <1>1, <2>1
<1>9. Chained(rp2, lead2, d2)
  <2>1. ASSUME NEW m \in Index
        PROVE  /\ (rp2[m] = m <=> d2[m] = 0) /\ (lead2[m] = m <=> d2[m] = 0)
               /\ rp2[m] # m => d2[m] = d2[rp2[m]] + 1 /\ lead2[rp2[m]] = lead2[m]
    <3>1. CASE m = n
      <4>1. lead2[m] = n /\ d2[m] = 0 /\ rp2[m] = n
        BY <1>3, <1>5, <1>7, <3>1
      <4>2. QED
        BY <3>1, <4>1
    <3>2. CASE m = r
      <4>1. lead2[m] = n /\ d2[m] = d[h] + 1 - d[n] /\ rp2[m] = h
        BY <1>1, <1>3, <1>5, <1>7, <3>2
      <4>2. lead2[h] = n /\ d2[h] = d[h] - d[n] /\ h # r
        BY <1>1, <1>3, <1>5, <1>7, <3>2
      <4>3. QED
        BY <1>3, <3>2, <4>1, <4>2
    <3>3. CASE m # n /\ m # r /\ lead[m] = r
      <4>1. rp2[m] = rp[m] /\ d[m] # 0 /\ d[m] \in Nat /\ rp[m] # m
            /\ rp[m] \in Index /\ d[m] = d[rp[m]] + 1 /\ lead[rp[m]] = r
        BY <1>1, <1>7, <3>3 DEF Chained
      <4>2. lead2[m] = n /\ lead2[rp[m]] = n /\ d2[m] = far(m) /\ d2[rp[m]] = far(rp[m])
        BY <1>5, <3>3, <4>1
      <4>3. d[m] # d[n] /\ d[rp[m]] \in Nat
        BY <1>1, <3>3, <4>1 DEF Chained
      <4>4. far(m) # 0 /\ far(m) = far(rp[m]) + 1
        BY <1>3, <3>3, <4>1, <4>3
      <4>5. QED
        BY <3>3, <4>1, <4>2, <4>4
    <3>4. CASE lead[m] # r
      <4>1. m # n /\ m # r /\ rp2[m] = rp[m] /\ d2[m] = d[m] /\ lead2[m] = lead[m]
        BY <1>3, <1>5, <1>7, <3>4
      <4>2. (rp[m] = m <=> d[m] = 0) /\ (lead[m] = m <=> d[m] = 0)
            /\ (rp[m] # m => d[m] = d[rp[m]] + 1 /\ lead[rp[m]] = lead[m])
            /\ rp[m] \in Index
        BY <1>1 DEF Chained
      <4>3. rp[m] # m => d2[rp[m]] = d[rp[m]] /\ lead2[rp[m]] = lead[rp[m]]
        BY <1>5, <3>4, <4>2
      <4>4. QED
        BY <4>1, <4>2, <4>3
    <3>5. QED
      BY <3>1, <3>2, <3>3, <3>4
  <2>2. ASSUME NEW m \in Index, NEW k \in Index, lead2[m] = lead2[k], d2[m] = d2[k]
        PROVE  m = k
    <3>1. d[m] \in Nat /\ d[k] \in Nat
      BY <1>1
    <3>2. ASSUME NEW x \in Index PROVE lead2[x] = n <=> lead[x] = r
      <4>1. lead[x] # n
        BY <1>1, <1>3, ListsMean
      <4>2. QED
        BY <1>5, <4>1
    <3>3. lead[m] = r <=> lead[k] = r
      BY <2>2, <3>2
    <3>4. CASE lead[m] = r
      <4>1. d2[m] = far(m) /\ d2[k] = far(k) /\ d[m] <= d[h] /\ d[k] <= d[h]
        BY <1>3, <1>5, <3>3, <3>4
      <4>2. d[m] = d[k]
        <5>1. \A i, j, b, e \in Nat :
                i <= e /\ j <= e
                /\ (IF i >= b THEN i - b ELSE i + e + 1 - b) =
                   (IF j >= b THEN j - b ELSE j + e + 1 - b) => i = j
          OBVIOUS
        <5>2. far(m) = far(k)
          BY <2>2, <4>1
        <5>3. QED
          BY <1>3, <3>1, <4>1, <5>1, <5>2
      <4>3. QED
        BY <1>1, <3>3, <3>4, <4>2 DEF Chained
    <3>5. CASE lead[m] # r
      <4>1. lead[m] = lead[k] /\ d[m] = d[k]
        BY <1>5, <2>2, <3>3, <3>5
      <4>2. QED
        BY <1>1, <4>1 DEF Chained
    <3>6. QED
      BY <3>4, <3>5
  <2>3. QED
    BY <1>5, <1>7, <2>1, <2>2 DEF Chained
<1>10. ASSUME NEW x \in Index PROVE lead2[x] = n <=> lead[x] = r
  <2>1. lead[x] # n
    BY <1>1, <1>3, ListsMean
  <2>2. QED
    BY <1>5, <2>1
<1>11. Heads(lead2, d2, ph1[n].node, n)
  <2>1. ph1[n].node = rp[n] /\ lead2[rp[n]] = n
    BY <1>3, <1>5, <1>1, <1>8 DEF Plain
  <2>2. d2[rp[n]] = d[h]
    BY <1>1, <1>3, <1>5
  <2>3. ASSUME NEW m \in Index, lead2[m] = n PROVE d2[m] <= d[h]
    <3>1. lead[m] = r /\ d[m] \in Nat /\ d[m] <= d[h] /\ d2[m] = far(m)
      BY <1>1, <1>3, <1>5, <1>10, <2>3
    <3>2. QED
      BY <1>3, <3>1
  <2>4. QED
    BY <1>1, <2>1, <2>2, <2>3 DEF Heads
<1>12. ASSUME NEW x \in pr, rp2[x] = x PROVE Heads(lead2, d2, ph1[x].node, x)
  <2>1. CASE x = n
    BY <1>11, <2>1
  <2>2. CASE x # n
    <3>1. x \in Index /\ x # r
      BY <1>1, <1>3, <1>7, <1>9, <1>12, <2>2 DEF Chained
    <3>2. rp[x] = x /\ ph1[x] = ph[x]
      BY <1>7, <1>8, <1>12, <2>2, <3>1
    <3>3. Heads(lead, d, ph[x].node, x) /\ lead[x] = x
      BY <3>1, <3>2 DEF Lists, Chained
    <3>4. \A m \in Index : (lead2[m] = x <=> lead[m] = x) /\ (lead[m] = x => d2[m] = d[m])
      BY <1>5, <2>2, <3>1
    <3>5. QED
      BY <3>2, <3>3, <3>4 DEF Heads
  <2>3. QED
    BY <2>1, <2>2
<1>13. ASSUME NEW x \in Index, rp2[x] # x PROVE ph1[x].node = x
  <2>1. CASE x = r
    BY <1>8, <2>1 DEF Plain
  <2>2. CASE x # r
    <3>1. x # n /\ rp[x] # x
      BY <1>7, <1>13, <2>2
    <3>2. QED
      BY <1>8, <2>2, <3>1 DEF Lists
  <2>3. QED
    BY <2>1, <2>2
<1>14. ASSUME NEW x \in Index PROVE lead2[x] = x \/ (x \in pr /\ lead2[x] \in pr)
  <2>1. lead[x] = x \/ (x \in pr /\ lead[x] \in pr)
    BY DEF Lists
  <2>2. QED
    BY <1>1, <1>5, <2>1
<1>15. ASSUME NEW x \in Index \ kn PROVE ph1[x].node = x
  BY <1>1, <1>8 DEF Lists
<1>16. Lists(rp2, ph1, kn, pr, lead2, d2)
  BY <1>1, <1>8, <1>9, <1>12, <1>13, <1>14, <1>15 DEF Lists
<1>17. PICK b \in BOOLEAN : b = ph[n].neg
  BY <1>1 DEF Signal
<1>18. /\ Lists(rp2, ph2, kn, pr, lead2, d2)
       /\ \A m \in Index : Signs(lead2, ph2)[m] =
            IF lead2[m] = n /\ m # n THEN Signs(lead2, ph1)[m] # b ELSE Signs(lead2, ph1)[m]
  <2>1. ph2 = IF b THEN Inverted(ph1, rp2, n) ELSE ph1
    BY <1>17
  <2>2. rp2[n] = n
    BY <1>7
  <2>3. QED
    BY ONLY <1>1, <2>2, <1>11, <1>16, <1>17, <2>1, TurnedToLeader
<1>19. ASSUME NEW m \in Index
       PROVE  Signs(lead2, ph2)[m] =
                IF lead[m] = r THEN Signs(lead, ph)[m] # Signs(lead, ph)[n]
                ELSE Signs(lead, ph)[m]
  <2>1. Signs(lead2, ph1)[m] = (lead2[m] # m /\ ph1[m].neg)
        /\ Signs(lead, ph)[m] = (lead[m] # m /\ ph[m].neg)
        /\ Signs(lead, ph)[n] = (lead[n] # n /\ ph[n].neg)
    BY <1>1 DEF Signs
  <2>2. Signs(lead, ph)[n] = b
    BY <1>17, <2>1
  <2>3. CASE m = n
    <3>1. Signs(lead2, ph2)[m] = FALSE /\ lead[m] = r
      BY <1>5, <1>18, <2>1, <2>3
    <3>2. QED
      BY <2>3, <3>1
  <2>4. CASE m = r
    <3>1. lead2[m] = n /\ lead[m] = m /\ ph1[m].neg = FALSE
      BY <1>3, <1>5, <1>8, <2>4 DEF Plain
    <3>2. Signs(lead2, ph2)[m] = b /\ Signs(lead, ph)[m] = FALSE
      <4>1. Signs(lead2, ph1)[m] = FALSE
        BY <2>1, <3>1
      <4>2. Signs(lead2, ph2)[m] = (Signs(lead2, ph1)[m] # b)
        BY <1>18, <2>4, <3>1
      <4>3. QED
        BY <1>17, <2>1, <3>1, <4>1, <4>2
    <3>3. QED
      BY <1>17, <2>2, <2>4, <3>1, <3>2
  <2>5. CASE m # n /\ m # r /\ lead[m] = r
    <3>1. lead2[m] = n /\ ph1[m] = ph[m]
      BY <1>5, <1>8, <2>5
    <3>2. QED
      BY <1>18, <2>1, <2>2, <2>5, <3>1
  <2>6. CASE lead[m] # r
    <3>1. lead2[m] = lead[m] /\ m # n /\ m # r /\ lead2[m] # n
      BY <1>3, <1>5, <1>10, <2>6
    <3>2. ph1[m] = ph[m]
      BY <1>8, <3>1
    <3>3. QED
      BY <1>18, <2>1, <2>6, <3>1, <3>2
  <2>7. QED
    BY <2>3, <2>4, <2>5, <2>6
<1>20. QED
  <2>1. \A m \in Index : Signs(lead2, ph2)[m] =
           IF lead[m] = r THEN Signs(lead, ph)[m] # Signs(lead, ph)[n] ELSE Signs(lead, ph)[m]
    BY <1>19
  <2>2. QED
    BY ONLY <1>6, <1>18, <2>1

\* Taking out a representative n that leads others: p is the last before it, and
\* new takes over.
LEMMA DeposedLists ==
  ASSUME NEW rp, NEW ph, NEW kn, NEW pr, NEW lead, NEW d, Lists(rp, ph, kn, pr, lead, d),
         NEW n \in pr, lead[n] = n, NEW h, h = ph[n].node,
         NEW new \in Index, new # n, lead[new] = n,
         NEW p \in Index, p # n, lead[p] = n, rp[p] = n,
         NEW rp2, rp2 = DeposedRepr(rp, ph, n, p, new),
         NEW ph1, ph1 = DeposedPhase(rp, ph, n, p, new),
         NEW ph2, ph2 = IF ph[new].neg THEN Inverted(ph1, rp2, new) ELSE ph1
  PROVE  WithoutLeader(n, new, lead, ph, rp2, ph2, kn, pr \ {n})
<1> USE DEF DeposedRepr, DeposedPhase, Deposed
<1>1. /\ Chained(rp, lead, d) /\ n \in Index
      /\ ph \in [Index -> Signal] /\ rp \in [Index -> Index]
      /\ lead \in [Index -> Index] /\ d \in [Index -> Nat] /\ rp[new] \in Index
      /\ pr \subseteq kn /\ kn \subseteq Index /\ new \in pr /\ p \in pr
  <2>1. {m \in Index : lead[m] = n} \subseteq pr
    BY ListsMean
  <2>2. QED
    BY <2>1 DEF Lists, Chained
<1>2. /\ h \in Index /\ lead[h] = n /\ \A m \in Index : lead[m] = n => d[m] <= d[h]
  <2>1. Heads(lead, d, ph[n].node, n)
    BY ListsMean
  <2>2. QED
    BY <2>1 DEF Heads
<1>3. d[h] \in Nat /\ d[n] = 0 /\ rp[n] = n /\ d[p] = 1
  BY <1>1, <1>2 DEF Chained
<1>4. ASSUME NEW m \in Index, lead[m] = n, m # n
      PROVE  /\ d[m] \in 1 .. d[h] /\ d[m] \in Nat /\ rp[m] # m /\ rp[m] \in Index
             /\ lead[rp[m]] = n /\ d[rp[m]] \in Nat /\ d[m] = d[rp[m]] + 1
             /\ (d[m] = 1 <=> m = p) /\ (m # p => rp[m] # n)
  <2>1. /\ d[m] \in Nat /\ d[m] # 0 /\ rp[m] # m /\ rp[m] \in Index
        /\ lead[rp[m]] = n /\ d[rp[m]] \in Nat /\ d[m] = d[rp[m]] + 1
    BY <1>1, <1>4 DEF Chained
  <2>2. d[m] = 1 <=> m = p
    BY <1>1, <1>3, <1>4 DEF Chained
  <2>3. m # p => rp[m] # n
    BY <1>3, <2>1, <2>2
  <2>4. d[m] \in 1 .. d[h]
    BY <1>2, <1>3, <1>4, <2>1
  <2>5. QED
    BY <2>1, <2>2, <2>3, <2>4
<1> DEFINE lead2 == [m \in Index |-> IF lead[m] = n /\ m # n THEN new ELSE lead[m]]
           far(m) == IF d[m] >= d[new] THEN d[m] - d[new] ELSE d[m] + d[h] - d[new]
           d2 == [m \in Index |-> IF lead[m] = n /\ m # n THEN far(m) ELSE d[m]]
<1>5. d[new] \in 1 .. d[h] /\ d[new] \in Nat /\ \A m \in Index : far(m) \in Nat
  <2>1. d[new] \in 1 .. d[h] /\ d[new] \in Nat
    BY <1>4
  <2>2. QED
    BY <1>1, <1>3, <2>1
<1>6. /\ lead2 \in [Index -> Index] /\ d2 \in [Index -> Nat]
      /\ \A m \in Index : lead2[m] = IF lead[m] = n /\ m # n THEN new ELSE lead[m]
      /\ \A m \in Index : d2[m] = IF lead[m] = n /\ m # n THEN far(m) ELSE d[m]
  BY <1>1, <1>5
<1>7. lead2 = [m \in Index |-> IF lead[m] = n /\ m # n THEN new ELSE lead[m]]
  OBVIOUS
<1> HIDE DEF lead2, d2
<1>8. /\ rp2 \in [Index -> Index] /\ rp2[new] = new /\ (new # p => rp2[p] = h)
      /\ \A m \in Index : m # p /\ m # new => rp2[m] = rp[m]
  BY <1>1, <1>2
<1>9. /\ ph1 \in [Index -> Signal] /\ ph1[new] = IF new = p THEN ph[n] ELSE Plain(rp[new])
      /\ \A m \in Index : m # new => ph1[m] = ph[m]
  <2>1. Plain(rp[new]) \in Signal /\ ph[n] \in Signal
    BY <1>1 DEF Signal, Plain
  <2>2. QED
    BY <1>1, <2>1
<1>10. \A x \in Index : lead2[x] = new <=> lead[x] = n /\ x # n
  <2>1. \A x \in Index : lead[x] # new
    BY <1>1, ListsMean
  <2>2. QED
    BY <1>6, <2>1
<1>11. Chained(rp2, lead2, d2)
  <2>1. ASSUME NEW m \in Index
        PROVE  /\ (rp2[m] = m <=> d2[m] = 0) /\ (lead2[m] = m <=> d2[m] = 0)
               /\ rp2[m] # m => d2[m] = d2[rp2[m]] + 1 /\ lead2[rp2[m]] = lead2[m]
    <3>1. CASE m = new
      <4>1. lead2[m] = new /\ d2[m] = 0 /\ rp2[m] = new
        BY <1>5, <1>6, <1>8, <3>1
      <4>2. QED
        BY <3>1, <4>1
    <3>2. CASE m = p /\ m # new
      <4>1. d[new] # 1 /\ d[new] >= 1 /\ d[new] <= d[h]
        BY <1>4, <1>5, <3>2
      <4>2. lead2[m] = new /\ d2[m] = 1 + d[h] - d[new] /\ rp2[m] = h
        BY <1>3, <1>5, <1>6, <1>8, <3>2, <4>1
      <4>3. h # n /\ h # p
        BY <1>3, <1>5, <4>1
      <4>4. lead2[h] = new /\ d2[h] = d[h] - d[new]
        BY <1>2, <1>6, <4>1, <4>3
      <4>5. QED
        BY <1>3, <1>5, <3>2, <4>1, <4>2, <4>3, <4>4
    <3>3. CASE m # p /\ m # new /\ lead[m] = n /\ m # n
      <4>1. /\ rp2[m] = rp[m] /\ rp[m] # m /\ rp[m] \in Index /\ rp[m] # n /\ lead[rp[m]] = n
            /\ d[m] = d[rp[m]] + 1 /\ d[rp[m]] \in Nat /\ d[m] \in 1 .. d[h]
        BY <1>4, <1>8, <3>3
      <4>2. lead2[m] = new /\ lead2[rp[m]] = new /\ d2[m] = far(m) /\ d2[rp[m]] = far(rp[m])
        BY <1>6, <3>3, <4>1
      <4>3. d[m] # d[new]
        BY <1>1, <3>3 DEF Chained
      <4>4. far(m) # 0 /\ far(m) = far(rp[m]) + 1
        BY <1>3, <1>5, <4>1, <4>3
      <4>5. QED
        BY <3>3, <4>1, <4>2, <4>4
    <3>4. CASE lead[m] # n \/ m = n
      <4>1. m # p /\ m # new /\ rp2[m] = rp[m] /\ d2[m] = d[m] /\ lead2[m] = lead[m]
        BY <1>6, <1>8, <3>4
      <4>2. (rp[m] = m <=> d[m] = 0) /\ (lead[m] = m <=> d[m] = 0)
            /\ (rp[m] # m => d[m] = d[rp[m]] + 1 /\ lead[rp[m]] = lead[m])
            /\ rp[m] \in Index
        BY <1>1 DEF Chained
      <4>3. rp[m] # m => lead[rp[m]] # n
        BY <1>3, <3>4, <4>2
      <4>4. rp[m] # m => d2[rp[m]] = d[rp[m]] /\ lead2[rp[m]] = lead[rp[m]]
        BY <1>6, <4>2, <4>3
      <4>5. QED
        BY <4>1, <4>2, <4>4
    <3>5. QED
      BY <3>1, <3>2, <3>3, <3>4
  <2>2. ASSUME NEW m \in Index, NEW k \in Index, lead2[m] = lead2[k], d2[m] = d2[k]
        PROVE  m = k
    <3>1. (lead[m] = n /\ m # n) <=> (lead[k] = n /\ k # n)
      BY <1>10, <2>2
    <3>2. CASE lead[m] = n /\ m # n
      <4>1. \A i, j, b, e \in Nat :
              i \in 1 .. e /\ j \in 1 .. e
              /\ (IF i >= b THEN i - b ELSE i + e - b) =
                 (IF j >= b THEN j - b ELSE j + e - b) => i = j
        OBVIOUS
      <4>2. far(m) = far(k) /\ d[m] \in 1 .. d[h] /\ d[k] \in 1 .. d[h]
            /\ d[m] \in Nat /\ d[k] \in Nat
        BY <1>4, <1>6, <2>2, <3>1, <3>2
      <4>3. d[m] = d[k]
        BY <1>3, <1>5, <4>1, <4>2
      <4>4. QED
        BY <1>1, <3>1, <3>2, <4>3 DEF Chained
    <3>3. CASE ~(lead[m] = n /\ m # n)
      <4>1. lead[m] = lead[k] /\ d[m] = d[k]
        BY <1>6, <2>2, <3>1, <3>3
      <4>2. QED
        BY <1>1, <4>1 DEF Chained
    <3>4. QED
      BY <3>2, <3>3
  <2>3. QED
    BY <1>6, <1>8, <2>1, <2>2 DEF Chained
<1>12. Heads(lead2, d2, ph1[new].node, new)
  <2>1. PICK x \in Index : x = ph1[new].node /\ lead[x] = n /\ x # n /\ far(x) = d[h] - 1
    <3>1. CASE new = p
      <4>1. ph1[new].node = h /\ d[h] >= 1 /\ h # n /\ d[new] = 1
        BY <1>3, <1>5, <1>9, <3>1
      <4>2. far(h) = d[h] - 1
        BY <1>3, <4>1
      <4>3. QED
        BY <1>2, <4>1, <4>2
    <3>2. CASE new # p
      <4>1. ph1[new].node = rp[new]
        BY <1>9, <3>2 DEF Plain
      <4>2. rp[new] \in Index /\ lead[rp[new]] = n /\ rp[new] # n /\ d[rp[new]] \in Nat
            /\ d[new] = d[rp[new]] + 1
        BY <1>4, <3>2
      <4>3. far(rp[new]) = d[h] - 1
        BY <1>3, <1>5, <4>2
      <4>4. QED
        BY <4>1, <4>2, <4>3
    <3>3. QED
      BY <3>1, <3>2
  <2>2. lead2[x] = new /\ d2[x] = d[h] - 1
    BY <1>6, <2>1
  <2>3. ASSUME NEW m \in Index, lead2[m] = new PROVE d2[m] <= d[h] - 1
    <3>1. lead[m] = n /\ m # n
      BY <1>10, <2>3
    <3>2. d[m] \in 1 .. d[h] /\ d[m] \in Nat /\ d2[m] = far(m)
      BY <1>4, <1>6, <3>1
    <3>3. QED
      BY <1>3, <1>5, <3>2
  <2>4. QED
    BY <2>1, <2>2, <2>3 DEF Heads
<1>13. ASSUME NEW x \in pr \ {n}, rp2[x] = x PROVE Heads(lead2, d2, ph1[x].node, x)
  <2>1. CASE x = new
    BY <1>12, <2>1
  <2>2. CASE x # new
    <3>1. x \in Index /\ lead2[x] = x /\ lead[x] # n
      BY <1>1, <1>6, <1>11, <1>13, <2>2 DEF Chained
    <3>2. rp[x] = x /\ ph1[x] = ph[x]
      BY <1>8, <1>9, <1>13, <2>2, <3>1
    <3>3. Heads(lead, d, ph[x].node, x) /\ lead[x] = x
      BY <1>13, <3>1, <3>2 DEF Lists, Chained
    <3>4. \A m \in Index : (lead2[m] = x <=> lead[m] = x) /\ (lead[m] = x => d2[m] = d[m])
      BY <1>6, <1>13, <2>2, <3>1, <3>3
    <3>5. QED
      BY <3>2, <3>3, <3>4 DEF Heads
  <2>3. QED
    BY <2>1, <2>2
<1>14. ASSUME NEW x \in Index, rp2[x] # x PROVE ph1[x].node = x
  <2>1. x # new /\ rp[x] # x
    BY <1>8, <1>14
  <2>2. QED
    BY <1>9, <2>1 DEF Lists
<1>15. ASSUME NEW x \in Index
       PROVE  lead2[x] = x \/ (x \in pr \ {n} /\ lead2[x] \in pr \ {n})
  <2>1. lead[x] = x \/ (x \in pr /\ lead[x] \in pr)
    BY DEF Lists
  <2>2. QED
    BY <1>1, <1>6, <2>1
<1>16. ASSUME NEW x \in Index \ kn PROVE ph1[x].node = x
  BY <1>1, <1>9 DEF Lists
<1>17. Lists(rp2, ph1, kn, pr \ {n}, lead2, d2)
  BY <1>1, <1>9, <1>11, <1>13, <1>14, <1>15, <1>16 DEF Lists
<1>18. PICK b \in BOOLEAN : b = ph[new].neg
  BY <1>1 DEF Signal
<1>19. /\ Lists(rp2, ph2, kn, pr \ {n}, lead2, d2)
       /\ \A m \in Index : Signs(lead2, ph2)[m] =
            IF lead2[m] = new /\ m # new THEN Signs(lead2, ph1)[m] # b ELSE Signs(lead2, ph1)[m]
  <2>1. ph2 = IF b THEN Inverted(ph1, rp2, new) ELSE ph1
    BY <1>18
  <2>2. rp2[new] = new /\ new \in Index
    BY <1>8
  <2>3. QED
    BY ONLY <2>2, <1>12, <1>17, <1>18, <2>1, TurnedToLeader
<1>20. ASSUME NEW m \in Index
       PROVE  Signs(lead2, ph2)[m] =
                IF lead[m] = n /\ m # n THEN Signs(lead, ph)[m] # Signs(lead, ph)[new]
                ELSE Signs(lead, ph)[m]
  <2>1. Signs(lead2, ph1)[m] = (lead2[m] # m /\ ph1[m].neg)
        /\ Signs(lead, ph)[m] = (lead[m] # m /\ ph[m].neg)
        /\ Signs(lead, ph)[new] = (lead[new] # new /\ ph[new].neg)
    BY DEF Signs
  <2>2. Signs(lead, ph)[new] = b
    BY <1>18, <2>1
  <2>3. CASE m = new
    <3>1. Signs(lead2, ph2)[m] = FALSE /\ lead[m] = n /\ m # n
      BY <1>6, <1>19, <2>1, <2>3
    <3>2. QED
      BY <2>3, <3>1
  <2>4. CASE m # new /\ lead[m] = n /\ m # n
    <3>1. lead2[m] = new /\ ph1[m] = ph[m]
      BY <1>6, <1>9, <2>4
    <3>2. QED
      BY <1>19, <2>1, <2>2, <2>4, <3>1
  <2>5. CASE ~(lead[m] = n /\ m # n)
    <3>1. lead2[m] = lead[m] /\ m # new /\ lead2[m] # new
      BY <1>6, <1>10, <2>5
    <3>2. ph1[m] = ph[m]
      BY <1>9, <3>1
    <3>3. QED
      BY <1>19, <2>1, <2>5, <3>1, <3>2
  <2>6. QED
    BY <2>3, <2>4, <2>5
<1>21. QED
  <2>1. \A m \in Index : Signs(lead2, ph2)[m] =
           IF lead[m] = n /\ m # n THEN Signs(lead, ph)[m] # Signs(lead, ph)[new]
           ELSE Signs(lead, ph)[m]
    BY <1>20
  <2>2. QED
    BY ONLY <1>7, <1>19, <2>1 DEF WithoutLeader

\* Taking out the head of a list, perhaps its only node.
LEMMA HeadLeftLists ==
  ASSUME NEW rp, NEW ph, NEW kn, NEW pr, NEW lead, NEW d, Lists(rp, ph, kn, pr, lead, d),
         NEW n \in pr, NEW r, r = lead[n], ph[r].node = n,
         NEW rp2, rp2 = Left(rp, n),
         NEW ph2, ph2 = HeadMoved(rp, ph, n, r),
         NEW pr2 \in Keeping(pr, n)
  PROVE  Without(n, lead, ph, rp2, ph2, kn, pr2)
<1>0. pr2 \subseteq pr /\ pr \ {n} \subseteq pr2
  BY DEF Keeping
<1> USE <1>0 DEF Left, HeadMoved
<1>1. /\ Chained(rp, lead, d) /\ n \in Index /\ r \in Index /\ r \in pr
      /\ ph \in [Index -> Signal] /\ rp \in [Index -> Index]
      /\ lead \in [Index -> Index] /\ d \in [Index -> Nat] /\ rp[n] \in Index
      /\ pr \subseteq kn /\ kn \subseteq Index
  <2>1. r \in pr
    BY ListsMean
  <2>2. QED
    BY <2>1 DEF Lists, Chained
<1>2. /\ lead[r] = r /\ rp[r] = r /\ d[r] = 0 /\ d[n] \in Nat
      /\ \A m \in Index : lead[m] = r => d[m] <= d[n]
  <2>1. Heads(lead, d, ph[r].node, r) /\ lead[r] = r /\ rp[r] = r /\ d[r] = 0
    BY <1>1, ListsMean
  <2>2. QED
    BY <1>1, <2>1 DEF Heads
<1>3. ASSUME NEW m \in Index, m # n PROVE rp[m] # n /\ lead[m] # n
  <2>1. rp[m] # n
    <3>1. rp[m] = n => lead[m] = r /\ d[m] = d[n] + 1 /\ d[m] \in Nat
      BY <1>1, <1>3 DEF Chained
    <3>2. QED
      BY <1>2, <3>1
  <2>2. lead[m] # n
    <3>1. lead[m] = n => r = n /\ d[m] \in Nat /\ d[m] # 0
      BY <1>1, <1>3, ListsMean DEF Chained
    <3>2. QED
      BY <1>2, <3>1
  <2>3. QED
    BY <2>1, <2>2
<1> DEFINE lead2 == [lead EXCEPT ![n] = n]
           d2 == [d EXCEPT ![n] = 0]
<1>4. /\ lead2 \in [Index -> Index] /\ d2 \in [Index -> Nat]
      /\ \A m \in Index : lead2[m] = IF m = n THEN n ELSE lead[m]
      /\ \A m \in Index : d2[m] = IF m = n THEN 0 ELSE d[m]
  BY <1>1
<1>5. lead2 = [lead EXCEPT ![n] = n]
  OBVIOUS
<1> HIDE DEF lead2, d2
<1>6. /\ rp2 \in [Index -> Index] /\ rp2[n] = n
      /\ \A m \in Index : m # n => rp2[m] = rp[m]
  BY <1>1
<1>7. /\ ph2 \in [Index -> Signal] /\ ph2[r] = Plain(rp[n])
      /\ \A m \in Index : m # r => ph2[m] = ph[m]
  <2>1. Plain(rp[n]) \in Signal
    BY <1>1 DEF Signal, Plain
  <2>2. QED
    BY <1>1, <2>1
<1>8. Chained(rp2, lead2, d2)
  <2>1. ASSUME NEW m \in Index
        PROVE  /\ (rp2[m] = m <=> d2[m] = 0) /\ (lead2[m] = m <=> d2[m] = 0)
               /\ rp2[m] # m => d2[m] = d2[rp2[m]] + 1 /\ lead2[rp2[m]] = lead2[m]
    <3>1. CASE m = n
      BY <1>4, <1>6, <3>1
    <3>2. CASE m # n
      <4>1. rp2[m] = rp[m] /\ d2[m] = d[m] /\ lead2[m] = lead[m] /\ rp[m] # n
        BY <1>3, <1>4, <1>6, <3>2
      <4>2. (rp[m] = m <=> d[m] = 0) /\ (lead[m] = m <=> d[m] = 0)
            /\ (rp[m] # m => d[m] = d[rp[m]] + 1 /\ lead[rp[m]] = lead[m])
            /\ rp[m] \in Index
        BY <1>1 DEF Chained
      <4>3. d2[rp[m]] = d[rp[m]] /\ lead2[rp[m]] = lead[rp[m]]
        BY <1>4, <4>1, <4>2
      <4>4. QED
        BY <4>1, <4>2, <4>3
    <3>3. QED
      BY <3>1, <3>2
  <2>2. ASSUME NEW m \in Index, NEW k \in Index, lead2[m] = lead2[k], d2[m] = d2[k]
        PROVE  m = k
    <3>1. m = n <=> k = n
      BY <1>3, <1>4, <2>2
    <3>2. m # n => lead[m] = lead[k] /\ d[m] = d[k]
      BY <1>4, <2>2, <3>1
    <3>3. QED
      BY <1>1, <3>1, <3>2 DEF Chained
  <2>3. QED
    BY <1>4, <1>6, <2>1, <2>2 DEF Chained
<1>9. ASSUME NEW x \in pr2, rp2[x] = x PROVE Heads(lead2, d2, ph2[x].node, x)
  <2>0. x \in Index /\ x \in pr
    BY <1>1
  <2>1. CASE x = n
    <3>1. ph2[x].node = n
      <4>1. CASE r = n
        BY <1>2, <1>7, <2>1, <4>1 DEF Plain
      <4>2. CASE r # n
        <5>1. rp[n] # n
          BY <1>1, <4>2 DEF Chained
        <5>2. ph[n].node = n
          BY <1>1, <5>1 DEF Lists
        <5>3. QED
          BY <1>7, <2>0, <2>1, <4>2, <5>2
      <4>3. QED
        BY <4>1, <4>2
    <3>2. \A m \in Index : lead2[m] = n => m = n
      BY <1>3, <1>4
    <3>3. QED
      BY <1>4, <2>0, <2>1, <3>1, <3>2 DEF Heads
  <2>2. CASE x = r /\ r # n
    <3>1. rp[n] # n /\ d[n] = d[rp[n]] + 1 /\ lead[rp[n]] = r /\ d[rp[n]] \in Nat
      BY <1>1, <2>2 DEF Chained
    <3>2. ph2[x].node = rp[n] /\ lead2[rp[n]] = r /\ d2[rp[n]] = d[n] - 1
      BY <1>1, <1>2, <1>4, <1>7, <2>2, <3>1 DEF Plain
    <3>3. ASSUME NEW m \in Index, lead2[m] = r PROVE d2[m] <= d[n] - 1
      <4>1. m # n /\ lead[m] = r /\ d2[m] = d[m]
        BY <1>4, <2>2, <3>3
      <4>2. d[m] # d[n] /\ d[m] \in Nat /\ d[m] <= d[n]
        BY <1>1, <1>2, <4>1 DEF Chained
      <4>3. QED
        BY <1>2, <4>1, <4>2
    <3>4. QED
      BY <1>1, <2>2, <3>2, <3>3 DEF Heads
  <2>3. CASE x # n /\ x # r
    <3>1. rp[x] = x /\ ph2[x] = ph[x]
      BY <1>6, <1>7, <1>9, <2>0, <2>3
    <3>2. Heads(lead, d, ph[x].node, x) /\ lead[x] = x
      BY <1>1, <2>0, <3>1 DEF Lists, Chained
    <3>3. \A m \in Index : (lead2[m] = x <=> lead[m] = x) /\ (lead[m] = x => d2[m] = d[m])
      BY <1>4, <2>3
    <3>4. QED
      BY <3>1, <3>2, <3>3 DEF Heads
  <2>4. QED
    BY <2>1, <2>2, <2>3
<1>10. ASSUME NEW x \in Index, rp2[x] # x PROVE ph2[x].node = x
  <2>1. x # n /\ rp[x] # x /\ x # r
    BY <1>2, <1>6, <1>10
  <2>2. QED
    BY <1>7, <2>1 DEF Lists
<1>11. ASSUME NEW x \in Index PROVE lead2[x] = x \/ (x \in pr2 /\ lead2[x] \in pr2)
  <2>1. lead[x] = x \/ (x \in pr /\ lead[x] \in pr)
    BY DEF Lists
  <2>2. QED
    BY <1>3, <1>4, <2>1
<1>12. ASSUME NEW x \in Index \ kn PROVE ph2[x].node = x
  BY <1>1, <1>7 DEF Lists
<1>13. pr2 \subseteq kn
  BY <1>1
<1>14. Lists(rp2, ph2, kn, pr2, lead2, d2)
  BY <1>1, <1>7, <1>8, <1>9, <1>10, <1>11, <1>12, <1>13 DEF Lists
<1>15. \A m \in Index : Signs(lead2, ph2)[m] = IF m = n THEN FALSE ELSE Signs(lead, ph)[m]
  <2> SUFFICES ASSUME NEW m \in Index
               PROVE  Signs(lead2, ph2)[m] = IF m = n THEN FALSE ELSE Signs(lead, ph)[m]
    OBVIOUS
  <2>1. Signs(lead2, ph2)[m] = (lead2[m] # m /\ ph2[m].neg)
        /\ Signs(lead, ph)[m] = (lead[m] # m /\ ph[m].neg)
    BY DEF Signs
  <2>2. CASE m = r
    BY <1>2, <1>4, <2>1, <2>2
  <2>3. CASE m # r
    BY <1>4, <1>7, <2>1, <2>3
  <2>4. QED
    BY <2>2, <2>3
<1>16. QED
  BY ONLY <1>5, <1>14, <1>15 DEF Without

\* Taking out an inner node: g is the one before it.
LEMMA InnerLeftLists ==
  ASSUME NEW rp, NEW ph, NEW kn, NEW pr, NEW lead, NEW d, Lists(rp, ph, kn, pr, lead, d),
         NEW n \in pr, rp[n] # n, NEW g \in Index, g # n, rp[g] = n,
         NEW rp2, rp2 = Skipped(rp, n, g),
         NEW pr2 \in Keeping(pr, n)
  PROVE  Without(n, lead, ph, rp2, ph, kn, pr2)
<1>0. pr2 \subseteq pr /\ pr \ {n} \subseteq pr2
  BY DEF Keeping
<1> USE <1>0 DEF Left, Skipped
<1>1. PICK r : r = lead[n]
  OBVIOUS
<1>2. /\ Chained(rp, lead, d) /\ n \in Index /\ r \in Index /\ r \in pr
      /\ ph \in [Index -> Signal] /\ rp \in [Index -> Index]
      /\ lead \in [Index -> Index] /\ d \in [Index -> Nat] /\ rp[n] \in Index
      /\ pr \subseteq kn /\ kn \subseteq Index
  <2>1. r \in pr
    BY <1>1, ListsMean
  <2>2. QED
    BY <2>1 DEF Lists, Chained
<1>3. PICK h \in Index :
         h = ph[r].node /\ lead[h] = r /\ \A m \in Index : lead[m] = r => d[m] <= d[h]
  <2>1. Heads(lead, d, ph[r].node, r)
    BY <1>1, ListsMean
  <2>2. QED
    BY <2>1 DEF Heads
<1>4. /\ lead[r] = r /\ rp[r] = r /\ r # n /\ d[h] \in Nat /\ d[n] \in Nat /\ d[n] # 0
      /\ d[n] = d[rp[n]] + 1 /\ lead[rp[n]] = r /\ d[rp[n]] \in Nat
      /\ d[g] = d[n] + 1 /\ lead[g] = r
  <2>1. lead[r] = r /\ rp[r] = r
    BY <1>1, <1>2, ListsMean
  <2>2. QED
    BY <1>1, <1>2, <1>3, <2>1 DEF Chained
<1>5. d[n] < d[h] /\ h # n
  <2>1. d[g] <= d[h]
    BY <1>3, <1>4
  <2>2. QED
    BY <1>4, <2>1
<1> DEFINE lead2 == [lead EXCEPT ![n] = n]
           far(m) == IF d[m] > d[n] THEN d[m] - 1 ELSE d[m]
           d2 == [m \in Index |-> IF m = n THEN 0 ELSE IF lead[m] = r THEN far(m) ELSE d[m]]
<1>6. \A m \in Index : far(m) \in Nat
  BY <1>2, <1>4
<1>7. /\ lead2 \in [Index -> Index] /\ d2 \in [Index -> Nat]
      /\ \A m \in Index : lead2[m] = IF m = n THEN n ELSE lead[m]
      /\ \A m \in Index : d2[m] = IF m = n THEN 0 ELSE IF lead[m] = r THEN far(m) ELSE d[m]
  BY <1>2, <1>6
<1>8. lead2 = [lead EXCEPT ![n] = n]
  OBVIOUS
<1> HIDE DEF lead2, d2
<1>9. /\ rp2 \in [Index -> Index] /\ rp2[n] = n /\ rp2[g] = rp[n]
      /\ \A m \in Index : m # n /\ m # g => rp2[m] = rp[m]
  BY <1>2
<1>10. \A m \in Index : lead[m] # n
  BY <1>1, <1>4, ListsMean
<1>11. ASSUME NEW m \in Index, m # n, lead[m] = r
       PROVE  d[m] # d[n] /\ d[m] \in Nat /\ d[m] <= d[h]
  BY <1>1, <1>2, <1>3, <1>11 DEF Chained
<1>12. Chained(rp2, lead2, d2)
  <2>1. ASSUME NEW m \in Index
        PROVE  /\ (rp2[m] = m <=> d2[m] = 0) /\ (lead2[m] = m <=> d2[m] = 0)
               /\ rp2[m] # m => d2[m] = d2[rp2[m]] + 1 /\ lead2[rp2[m]] = lead2[m]
    <3>1. CASE m = n
      BY <1>7, <1>9, <3>1
    <3>2. CASE m = g
      <4>1. rp2[m] = rp[n] /\ lead2[m] = r /\ d2[m] = d[n]
        BY <1>4, <1>7, <1>9, <3>2
      <4>2. rp[n] # n /\ lead2[rp[n]] = r /\ d2[rp[n]] = d[rp[n]]
        BY <1>2, <1>4, <1>7
      <4>3. m # r /\ rp[n] # g
        <5>1. d[r] = 0
          BY <1>2, <1>4 DEF Chained
        <5>2. QED
          BY <1>4, <3>2, <5>1
      <4>4. QED
        BY <1>4, <3>2, <4>1, <4>2, <4>3
    <3>3. CASE m # n /\ m # g
      <4>1. (rp[m] = m <=> d[m] = 0) /\ (lead[m] = m <=> d[m] = 0)
            /\ (rp[m] # m => d[m] = d[rp[m]] + 1 /\ lead[rp[m]] = lead[m])
            /\ rp[m] \in Index /\ d[m] \in Nat /\ d[rp[m]] \in Nat
        BY <1>2 DEF Chained
      <4>2. rp[m] # n
        <5>1. rp[m] = n => d[m] = d[g] /\ lead[m] = lead[g]
          BY <1>1, <1>4, <3>3, <4>1
        <5>2. QED
          BY <1>2, <3>3, <5>1 DEF Chained
      <4>3. rp2[m] = rp[m] /\ lead2[m] = lead[m] /\ lead2[rp[m]] = lead[rp[m]]
        BY <1>7, <1>9, <3>3, <4>1, <4>2
      <4>4. CASE lead[m] = r
        <5>1. d2[m] = far(m) /\ d[m] # d[n]
          BY <1>7, <1>11, <3>3, <4>4
        <5>2. d2[m] = 0 <=> d[m] = 0
          BY <1>4, <4>1, <5>1
        <5>3. rp[m] # m => d2[rp[m]] = far(rp[m]) /\ d[rp[m]] # d[n]
          BY <1>7, <1>11, <4>1, <4>2, <4>4
        <5>4. rp[m] # m => d2[m] = d2[rp[m]] + 1
          BY <1>4, <4>1, <5>1, <5>3
        <5>5. QED
          BY <4>1, <4>3, <5>2, <5>4
      <4>5. CASE lead[m] # r
        <5>1. d2[m] = d[m] /\ (rp[m] # m => d2[rp[m]] = d[rp[m]])
          BY <1>7, <3>3, <4>1, <4>2, <4>5
        <5>2. QED
          BY <4>1, <4>3, <5>1
      <4>6. QED
        BY <4>4, <4>5
    <3>4. QED
      BY <3>1, <3>2, <3>3
  <2>2. ASSUME NEW m \in Index, NEW k \in Index, lead2[m] = lead2[k], d2[m] = d2[k]
        PROVE  m = k
    <3>1. m = n <=> k = n
      BY <1>7, <1>10, <2>2
    <3>2. CASE m # n /\ lead[m] = r
      <4>1. lead[k] = r /\ far(m) = far(k)
        BY <1>7, <2>2, <3>1, <3>2
      <4>2. d[m] # d[n] /\ d[k] # d[n] /\ d[m] \in Nat /\ d[k] \in Nat
        BY <1>11, <3>1, <3>2, <4>1
      <4>3. d[m] = d[k]
        BY <1>4, <4>1, <4>2
      <4>4. QED
        BY <1>2, <3>2, <4>1, <4>3 DEF Chained
    <3>3. CASE m # n /\ lead[m] # r
      <4>1. lead[m] = lead[k] /\ d[m] = d[k]
        BY <1>7, <2>2, <3>1, <3>3
      <4>2. QED
        BY <1>2, <4>1 DEF Chained
    <3>4. QED
      BY <3>1, <3>2, <3>3
  <2>3. QED
    BY <1>7, <1>9, <2>1, <2>2 DEF Chained
<1>13. ASSUME NEW x \in pr2, rp2[x] = x PROVE Heads(lead2, d2, ph[x].node, x)
  <2>0. x \in Index /\ x \in pr
    BY <1>2
  <2>1. CASE x = n
    <3>1. ph[n].node = n
      BY <1>2 DEF Lists
    <3>2. \A m \in Index : lead2[m] = n => m = n
      BY <1>7, <1>10
    <3>3. QED
      BY <1>7, <2>0, <2>1, <3>1, <3>2 DEF Heads
  <2>2. CASE x = r
    <3>1. lead2[h] = r /\ d2[h] = d[h] - 1
      BY <1>3, <1>5, <1>7
    <3>2. ASSUME NEW m \in Index, lead2[m] = r PROVE d2[m] <= d[h] - 1
      <4>1. m # n /\ lead[m] = r
        BY <1>4, <1>7, <3>2
      <4>2. d2[m] = far(m) /\ d[m] # d[n] /\ d[m] \in Nat /\ d[m] <= d[h]
        BY <1>7, <1>11, <4>1
      <4>3. QED
        BY <1>4, <1>5, <4>2
    <3>3. QED
      BY <1>3, <2>2, <3>1, <3>2 DEF Heads
  <2>3. CASE x # n /\ x # r
    <3>1. x # g
      <4>1. lead2[x] = x
        BY <1>12, <1>13, <2>0 DEF Chained
      <4>2. QED
        BY <1>4, <1>7, <2>0, <2>3, <4>1
    <3>2. rp[x] = x
      BY <1>9, <1>13, <2>0, <2>3, <3>1
    <3>3. Heads(lead, d, ph[x].node, x) /\ lead[x] = x
      BY <1>2, <2>0, <3>2 DEF Lists, Chained
    <3>4. \A m \in Index : (lead2[m] = x <=> lead[m] = x) /\ (lead[m] = x => d2[m] = d[m])
      BY <1>1, <1>7, <2>3
    <3>5. QED
      BY <3>3, <3>4 DEF Heads
  <2>4. QED
    BY <2>1, <2>2, <2>3
<1>14. ASSUME NEW x \in Index, rp2[x] # x PROVE ph[x].node = x
  <2>1. rp[x] # x
    BY <1>9, <1>14
  <2>2. QED
    BY <2>1 DEF Lists
<1>15. ASSUME NEW x \in Index PROVE lead2[x] = x \/ (x \in pr2 /\ lead2[x] \in pr2)
  <2>1. lead[x] = x \/ (x \in pr /\ lead[x] \in pr)
    BY DEF Lists
  <2>2. QED
    BY <1>7, <1>10, <2>1
<1>16. pr2 \subseteq kn /\ \A x \in Index \ kn : ph[x].node = x
  BY <1>2 DEF Lists
<1>17. Lists(rp2, ph, kn, pr2, lead2, d2)
  BY <1>2, <1>12, <1>13, <1>14, <1>15, <1>16 DEF Lists
<1>18. \A m \in Index : Signs(lead2, ph)[m] = IF m = n THEN FALSE ELSE Signs(lead, ph)[m]
  BY <1>7 DEF Signs
<1>19. QED
  BY ONLY <1>8, <1>17, <1>18 DEF Without

-----------------------------------------------------------------------------
(* The invariant.                                                          *)

\* The nodes with an entry are those up to some number, and the lists hold the
\* classes of lead.
Stored(lead, d) ==
  /\ Lists(repr, phase, known, Present, lead, d)
  /\ deleted \subseteq known
  /\ \E k \in 1 .. MaxNodes : known = 0 .. k - 1

CInv == \E lead, d : Stored(lead, d)

\* What ChoiceClasses sees of the state.
LEMMA Seen ==
  ASSUME NEW lead, NEW d, Lists(repr, phase, known, Present, lead, d)
  PROVE  /\ [n \in Index |-> Representative(n)] = lead
         /\ [n \in Index |-> Negated(n)] = Signs(lead, phase)
<1>1. /\ lead \in [Index -> Index]
      /\ \A n \in Index : repr[n] = n <=> lead[n] = n
  BY DEF Lists, Chained
<1>2. \A n \in Index : Representative(n) = lead[n]
  BY Walks, ListsMean
<1>3. \A n \in Index : Negated(n) = (lead[n] # n /\ phase[n].neg)
  BY <1>1 DEF Negated, IsRepresentative
<1>4. QED
  BY <1>1, <1>2, <1>3 DEF Signs

\* The same after a step.
LEMMA SeenNext ==
  ASSUME NEW lead, NEW d, Lists(repr', phase', known', Present', lead, d)
  PROVE  /\ [n \in Index |-> Representative(n)]' = lead
         /\ [n \in Index |-> Negated(n)]' = Signs(lead, phase')
<1>1. /\ lead \in [Index -> Index]
      /\ \A n \in Index : repr'[n] = n <=> lead[n] = n
  BY DEF Lists, Chained
<1>2. \A n \in Index : Representative(n)' = Chain(repr', n)[MaxNodes]
  BY DEF Representative, Down, Chain, IsChain
<1>3. \A n \in Index : Representative(n)' = lead[n]
  BY <1>2, ListsMean
<1>4. \A n \in Index : Negated(n)' = (lead[n] # n /\ phase'[n].neg)
  BY <1>1 DEF Negated, IsRepresentative
<1>5. QED
  BY <1>1, <1>3, <1>4 DEF Signs

\* What foreach_choice visits.
LEMMA ChoicesAre ==
  ASSUME NEW lead, NEW d, Stored(lead, d), NEW n \in Present
  PROVE  /\ ChoicesOf(n) = {m \in Index : lead[m] = lead[n]}
         /\ Returns(n)
<1>1. Lists(repr, phase, known, Present, lead, d) /\ n \in Index
  BY DEF Stored, Lists
<1>2. Representative(n) = lead[n]
  BY <1>1, Walks, ListsMean
<1>3. lead[n] \in Present /\ repr[lead[n]] = lead[n]
  BY <1>1, ListsMean
<1>4. Onwards(HeadOf(Representative(n))) = {m \in Index : lead[m] = lead[n]}
  BY <1>1, <1>2, Walks, ListsMean DEF HeadOf
<1>5. Onwards(n) \subseteq {m \in Index : lead[m] = lead[n]}
  BY <1>1, Walks, ListsMean
<1>6. Returns(n)
  BY <1>1, <1>2, <1>3, <1>4 DEF Returns, IsRepresentative
<1>7. ChoicesOf(n) = {m \in Index : lead[m] = lead[n]}
  BY <1>4, <1>5 DEF ChoicesOf
<1>8. QED
  BY <1>6, <1>7

\* The invariant implies that the lists list the classes.
LEMMA StoredListed ==
  ASSUME NEW lead, NEW d, Stored(lead, d)
  PROVE  ClassesListed
<1>1. Lists(repr, phase, known, Present, lead, d) /\ Present \subseteq Index
  BY DEF Stored, Lists
<1>2. SUFFICES ASSUME NEW n \in Present
               PROVE  ChoicesOf(n) = {m \in Present : Representative(m) = Representative(n)}
  BY ChoicesAre DEF ClassesListed
<1>3. \A m \in Index : Representative(m) = lead[m]
  BY <1>1, Walks, ListsMean
<1>4. ChoicesOf(n) = {m \in Index : lead[m] = lead[n]}
  BY ChoicesAre
<1>5. {m \in Index : lead[m] = lead[n]} \subseteq Present
  BY <1>1, ListsMean
<1>6. QED
  BY <1>1, <1>3, <1>4, <1>5

-----------------------------------------------------------------------------
(* The steps.                                                              *)

\* Of two numbers one is the lower.
LEMMA LowerOfTwo ==
  ASSUME NEW x \in Nat, NEW y \in Nat
  PROVE  /\ Min({x, y}) = (IF x <= y THEN x ELSE y)
         /\ Max({x, y}) = (IF x <= y THEN y ELSE x)
<1> DEFINE w == IF x <= y THEN x ELSE y
           l == IF x <= y THEN y ELSE x
<1>1. w \in {x, y} /\ \A z \in {x, y} : w <= z
  OBVIOUS
<1>2. l \in {x, y} /\ \A z \in {x, y} : l >= z
  OBVIOUS
<1>3. \A v \in {x, y} : (\A z \in {x, y} : v <= z) => v = w
  OBVIOUS
<1>4. \A v \in {x, y} : (\A z \in {x, y} : v >= z) => v = l
  OBVIOUS
<1> HIDE DEF w, l
<1>5. Min({x, y}) = w
  BY <1>1, <1>3 DEF Min
<1>6. Max({x, y}) = l
  BY <1>2, <1>4 DEF Max
<1>7. QED
  BY <1>5, <1>6 DEF w, l

\* A set of numbers that is not empty has a lowest one.
LEMMA LowestIn ==
  ASSUME NEW S \in SUBSET Nat, S # {}
  PROVE  Min(S) \in S
<1> DEFINE K == {k \in Nat : k \in S => \E x \in S : \A y \in S : x <= y}
           T == {k \in Nat : \A j \in 0 .. k : j \in K}
<1>1. 0 \in T
  OBVIOUS
<1>2. ASSUME NEW k \in Nat, k \in T PROVE k + 1 \in T
  <2>1. ASSUME k + 1 \in S PROVE \E x \in S : \A y \in S : x <= y
    <3>1. CASE \E j \in 0 .. k : j \in S
      BY <1>2, <3>1
    <3>2. CASE \A j \in 0 .. k : j \notin S
      <4>1. \A y \in S : y \in Nat /\ y \notin 0 .. k
        BY <3>2
      <4>2. \A y \in S : k + 1 <= y
        BY <4>1
      <4>3. QED
        BY <2>1, <4>2
    <3>3. QED
      BY <3>1, <3>2
  <2>2. \A j \in 0 .. k + 1 : j \in 0 .. k \/ j = k + 1
    OBVIOUS
  <2>3. QED
    BY <1>2, <2>1, <2>2
<1> HIDE DEF T
<1>3. Nat \subseteq T
  BY <1>1, <1>2, AllNumbers
<1>4. PICK k \in S : k \in Nat /\ k \in 0 .. k
  <2>1. PICK k \in S : TRUE
    OBVIOUS
  <2>2. k \in Nat
    OBVIOUS
  <2>3. QED
    BY <2>1, <2>2
<1>5. \E x \in S : \A y \in S : x <= y
  BY <1>3, <1>4 DEF T
<1>6. QED
  BY <1>5 DEF Min

\* add_choice merges two classes.
LEMMA AddChoiceStep ==
  ASSUME CInv, NEW n1 \in Present, NEW n2 \in Present, NEW c \in BOOLEAN, AddChoice(n1, n2, c)
  PROVE  CInv' /\ Classes!Merge(n1, n2, c)
<1> DEFINE L == [n \in Index |-> Representative(n)]
           P == [n \in Index |-> Negated(n)]
<1>1. PICK lead, d : Stored(lead, d)
  BY DEF CInv
<1>2. /\ Lists(repr, phase, known, Present, lead, d)
      /\ n1 \in Index /\ n2 \in Index /\ lead \in [Index -> Index]
      /\ L = lead /\ P = Signs(lead, phase)
  <2>1. Lists(repr, phase, known, Present, lead, d)
    BY <1>1 DEF Stored
  <2>2. QED
    BY <2>1, Seen DEF Lists, Chained
<1>3. /\ Representative(n1) = lead[n1] /\ Representative(n2) = lead[n2]
      /\ Negated(n1) = P[n1] /\ Negated(n2) = P[n2]
  BY <1>2
<1>4. lead[n1] \in Nat /\ lead[n2] \in Nat
  BY <1>2, MaxNodesAssumption DEF Index
<1>5. PICK r1, r2 : /\ r1 = Min({lead[n1], lead[n2]}) /\ r2 = Max({lead[n1], lead[n2]})
  OBVIOUS
<1>6. PICK inv \in BOOLEAN : inv = ((P[n1] # c) # P[n2])
  OBVIOUS
<1>7. PICK t : t = IF inv THEN Inverted(phase, repr, r2) ELSE phase
  OBVIOUS
<1>8. /\ r1 # r2 /\ repr' = MergedRepr(repr, t, r1, r2)
      /\ phase' = MergedPhase(t, r1, r2, inv)
      /\ UNCHANGED <<known, deleted>>
  BY <1>3, <1>5, <1>6, <1>7 DEF AddChoice, MergedRepr, MergedPhase
<1>9. r1 \in {lead[n1], lead[n2]} /\ r2 \in {lead[n1], lead[n2]}
  BY <1>4, <1>5, LowerOfTwo
<1>10. /\ r1 \in Present /\ r2 \in Present /\ r1 \in Index /\ r2 \in Index
       /\ lead[r1] = r1 /\ lead[r2] = r2 /\ repr[r2] = r2
       /\ Heads(lead, d, phase[r2].node, r2)
  BY <1>2, <1>9, ListsMean
<1>11. t = Turned(phase, Followers(lead, r2), inv)
  BY <1>2, <1>7, <1>10, InvertedTurns
<1>12. PICK lead2, d2 :
         /\ Lists(repr', phase', known, Present, lead2, d2)
         /\ lead2 = Joined(lead, r2, r1)
         /\ \A m \in Index : Signs(lead2, phase')[m] =
              IF lead[m] = r2 THEN Signs(lead, phase)[m] # inv ELSE Signs(lead, phase)[m]
  BY ONLY <1>2, <1>8, <1>10, <1>11, MergedLists
<1>13. known' = known /\ deleted' = deleted /\ Present' = Present
  BY <1>8 DEF Present
<1>14. CInv'
  <2>1. Lists(repr', phase', known', Present', lead2, d2)
    BY <1>12, <1>13
  <2>2. Stored(lead2, d2)'
    BY <1>1, <1>13, <2>1 DEF Stored
  <2>3. QED
    BY <2>2 DEF CInv
<1>15. L' = lead2 /\ P' = Signs(lead2, phase')
  BY <1>12, <1>13, SeenNext
<1>16. Classes!Index = Index
  BY DEF Classes!Index, Index
<1>17. P \in [Index -> BOOLEAN]
  BY DEF Negated, IsRepresentative
<1>18. PICK flip : flip = ((P[n1] # P[n2]) # c)
  OBVIOUS
<1>19. flip = inv
  BY <1>2, <1>6, <1>17, <1>18
<1> HIDE DEF L, P
<1>20. Signs(lead2, phase') = [m \in Index |-> IF lead[m] = r2 THEN P[m] # flip ELSE P[m]]
  BY <1>2, <1>12, <1>19 DEF Signs
<1> DEFINE ww == Classes!Min({L[n1], L[n2]})
           ll == Classes!Max({L[n1], L[n2]})
           mv == {m \in Classes!Index : L[m] = ll}
<1>21. ww = r1 /\ ll = r2
  BY <1>2, <1>5 DEF Classes!Min, Classes!Max, Min, Max
<1> HIDE DEF ww, ll
<1>22. L' = [m \in Classes!Index |-> IF m \in mv THEN ww ELSE L[m]]
  BY <1>2, <1>12, <1>15, <1>16, <1>21 DEF Joined
<1>23. P' = [m \in Classes!Index |-> IF m \in mv THEN P[m] # ((P[n1] # P[n2]) # c) ELSE P[m]]
  BY <1>2, <1>15, <1>16, <1>18, <1>20, <1>21
<1>24. ww # ll
  BY <1>8, <1>21
<1>25. Classes!Merge(n1, n2, c)
  BY <1>13, <1>22, <1>23, <1>24 DEF Classes!Merge, L, P, ww, ll
<1>26. QED
  BY <1>14, <1>25

\* update_choice_representative elects.
LEMMA UpdateStep ==
  ASSUME CInv, NEW n \in Present, UpdateRepresentative(n)
  PROVE  CInv' /\ Classes!Elect(n)
<1> DEFINE L == [m \in Index |-> Representative(m)]
           P == [m \in Index |-> Negated(m)]
<1>1. PICK lead, d : Stored(lead, d)
  BY DEF CInv
<1>2. /\ Lists(repr, phase, known, Present, lead, d) /\ Chained(repr, lead, d)
      /\ n \in Index /\ lead \in [Index -> Index] /\ phase \in [Index -> Signal]
      /\ Present \subseteq known /\ known \subseteq Index
      /\ L = lead /\ P = Signs(lead, phase)
  <2>1. Lists(repr, phase, known, Present, lead, d)
    BY <1>1 DEF Stored
  <2>2. QED
    BY <2>1, Seen DEF Lists, Chained
<1>3. PICK r : r = lead[n]
  OBVIOUS
<1>4. Representative(n) = r /\ repr[n] # n
  BY <1>2, <1>3 DEF UpdateRepresentative, IsRepresentative
<1>5. r # n
  BY <1>2, <1>3, <1>4 DEF Chained
<1>6. PICK ph1 : ph1 = ElectedPhase(repr, phase, n, r)
  OBVIOUS
<1>7. /\ repr' = ElectedRepr(repr, phase, n, r)
      /\ phase' = IF phase[n].neg THEN Inverted(ph1, repr', n) ELSE ph1
      /\ UNCHANGED <<known, deleted>>
  BY <1>4, <1>6 DEF UpdateRepresentative, ElectedRepr, ElectedPhase, HeadOf
<1>8. PICK lead2, d2 :
        /\ Lists(repr', phase', known, Present, lead2, d2)
        /\ lead2 = Joined(lead, r, n)
        /\ \A m \in Index : Signs(lead2, phase')[m] =
             IF lead[m] = r THEN Signs(lead, phase)[m] # Signs(lead, phase)[n]
             ELSE Signs(lead, phase)[m]
  BY ONLY <1>2, <1>3, <1>5, <1>6, <1>7, ElectedLists
<1>9. known' = known /\ deleted' = deleted /\ Present' = Present
  BY <1>7 DEF Present
<1>10. CInv'
  <2>1. Lists(repr', phase', known', Present', lead2, d2)
    BY <1>8, <1>9
  <2>2. Stored(lead2, d2)'
    BY <1>1, <1>9, <2>1 DEF Stored
  <2>3. QED
    BY <2>2 DEF CInv
<1>11. L' = lead2 /\ P' = Signs(lead2, phase')
  BY <1>8, <1>9, SeenNext
<1>12. Classes!Index = Index
  BY DEF Classes!Index, Index
<1> HIDE DEF L, P
<1>13. Signs(lead2, phase') = [m \in Index |-> IF lead[m] = r THEN P[m] # P[n] ELSE P[m]]
  BY <1>2, <1>8 DEF Signs
<1> DEFINE cl == {m \in known : L[m] = L[n]}
<1>14. \A m \in Index : m \in cl <=> lead[m] = r
  <2>1. \A m \in Index : lead[m] = r => m \in Present
    BY <1>2, <1>3, ListsMean
  <2>2. QED
    BY <1>2, <1>3, <2>1
<1> HIDE DEF cl
<1>15. L' = [m \in Classes!Index |-> IF m \in cl THEN n ELSE L[m]]
  BY <1>2, <1>8, <1>11, <1>12, <1>14 DEF Joined
<1>16. P' = [m \in Classes!Index |-> IF m \in cl THEN P[m] # P[n] ELSE P[m]]
  BY <1>11, <1>12, <1>13, <1>14
<1>17. Classes!Elect(n)
  BY <1>9, <1>15, <1>16 DEF Classes!Elect, Classes!Led, Classes!ClassOf, L, P, cl
<1>18. QED
  BY <1>10, <1>17

\* Who is left when n leaves, whom they follow then, and with which polarities.
Rest(lead, n) == {m \in known : lead[m] = lead[n]} \ {n}
LeaveLeads(lead, n, rest, ld) ==
  [m \in Index |-> IF m = n THEN n ELSE IF m \in rest THEN ld ELSE lead[m]]
LeaveSigns(P, n, rest, ld) ==
  [m \in Index |-> IF m = n THEN FALSE ELSE IF m \in rest THEN P[m] # P[ld] ELSE P[m]]

\* Who leaves its class, with the lowest of the others to take over.
LEMMA LeaveAbstract ==
  ASSUME NEW L, NEW P, NEW n \in Index, NEW rest, NEW ld,
         L = [m \in Index |-> Representative(m)], P = [m \in Index |-> Negated(m)],
         rest = Rest(L, n),
         ld = IF L[n] = n /\ rest # {} THEN Min(rest) ELSE L[n],
         [m \in Index |-> Representative(m)]' = LeaveLeads(L, n, rest, ld),
         [m \in Index |-> Negated(m)]' = LeaveSigns(P, n, rest, ld),
         known' = known
  PROVE  Classes!Leave(n)
<1> DEFINE K == [m \in Index |-> Representative(m)]
           Q == [m \in Index |-> Negated(m)]
           re == {m \in known : K[m] = K[n]} \ {n}
           le == IF K[n] = n /\ re # {} THEN Classes!Min(re) ELSE K[n]
           k2 == [m \in Classes!Index |-> IF m \in re THEN le ELSE K[m]]
           q2 == [m \in Classes!Index |-> IF m \in re THEN Q[m] # Q[le] ELSE Q[m]]
<1>1. Classes!Index = Index
  BY DEF Classes!Index, Index
<1>2. K = L /\ Q = P /\ re = rest
  BY DEF Rest
<1>3. K' = [m \in Index |-> IF m = n THEN n ELSE IF m \in rest THEN ld ELSE L[m]]
      /\ Q' = [m \in Index |-> IF m = n THEN FALSE ELSE IF m \in rest THEN P[m] # P[ld] ELSE P[m]]
  BY DEF LeaveLeads, LeaveSigns
<1> HIDE DEF K, Q, re
<1>4. le = ld
  BY <1>2 DEF Classes!Min, Min
<1> HIDE DEF le
<1>5. K' = [k2 EXCEPT ![n] = n]
  BY <1>1, <1>2, <1>3, <1>4
<1>6. Q' = [q2 EXCEPT ![n] = FALSE]
  BY <1>1, <1>2, <1>3, <1>4
<1>7. QED
  BY <1>5, <1>6 DEF Classes!Leave, Classes!Led, Classes!ClassOf, K, Q, re, le

\* Taking out a node that leads no other.
LEMMA LeftStep ==
  ASSUME CInv, NEW n \in Present, RemoveOther(n), known' = known,
         deleted' = deleted \/ deleted' = deleted \cup {n}
  PROVE  CInv' /\ Classes!Leave(n)
<1>1. PICK lead, d : Stored(lead, d)
  BY DEF CInv
<1>2. /\ Lists(repr, phase, known, Present, lead, d) /\ Chained(repr, lead, d)
      /\ n \in Index /\ lead \in [Index -> Index] /\ phase \in [Index -> Signal]
      /\ repr \in [Index -> Index] /\ Present \subseteq known /\ known \subseteq Index
      /\ [m \in Index |-> Representative(m)] = lead
      /\ [m \in Index |-> Negated(m)] = Signs(lead, phase)
  <2>1. Lists(repr, phase, known, Present, lead, d)
    BY <1>1 DEF Stored
  <2>2. QED
    BY <2>1, Seen DEF Lists, Chained
<1>3. PICK r : r = lead[n]
  OBVIOUS
<1>4. Representative(n) = r
  BY <1>2, <1>3
<1>5. r \in Index /\ lead[r] = r /\ Heads(lead, d, phase[r].node, r)
  BY <1>2, <1>3, ListsMean
<1>6. PICK h \in Index : h = phase[r].node
  BY <1>5 DEF Heads
<1>7. repr[n] = n => h = n
  BY <1>4, <1>6 DEF RemoveOther, IsRepresentative, HeadOf
<1>8. Present' \in Keeping(Present, n) /\ deleted' \subseteq known'
  <2>1. CASE deleted' = deleted
    BY <1>1, <2>1 DEF Present, Stored, Keeping
  <2>2. CASE deleted' = deleted \cup {n}
    <3>1. Present' = Present \ {n}
      BY <2>2 DEF Present
    <3>2. QED
      BY <1>1, <2>2, <3>1 DEF Present, Stored, Keeping
  <2>3. QED
    BY <2>1, <2>2
<1>9. PICK lead2, d2 :
        /\ Lists(repr', phase', known, Present', lead2, d2)
        /\ lead2 = Left(lead, n)
        /\ \A m \in Index : Signs(lead2, phase')[m] =
             IF m = n THEN FALSE ELSE Signs(lead, phase)[m]
  <2>1. CASE h = n
    <3>1. phase' = HeadMoved(repr, phase, n, r) /\ repr' = Left(repr, n)
      BY <1>4, <1>6, <2>1 DEF RemoveOther, HeadOf, HeadMoved, Left
    <3>2. phase[r].node = n
      BY <1>6, <2>1
    <3>3. QED
      <4>1. Lists(repr, phase, known, Present, lead, d)
        BY <1>2
      <4>2. PICK pr2 \in Keeping(Present, n) : pr2 = Present'
        BY <1>8
      <4>3. Without(n, lead, phase, repr', phase', known, pr2)
        BY ONLY n \in Present, <1>3, <3>1, <3>2, <4>1, <4>2, HeadLeftLists
      <4>4. QED
        BY <4>2, <4>3 DEF Without
  <2>2. CASE h # n
    <3>1. phase' = phase
      BY <1>4, <1>6, <2>2 DEF RemoveOther, HeadOf
    <3>2. PICK g \in Onwards(h) \ {n} : repr[g] = n /\ repr' = Skipped(repr, n, g)
      BY <1>4, <1>6, <2>2 DEF RemoveOther, HeadOf, Skipped
    <3>3. g \in Index /\ g # n /\ repr[n] # n
      BY <1>2, <1>6, <1>7, <2>2, <3>2, Walks, ListsMean
    <3>4. QED
      <4>1. Lists(repr, phase, known, Present, lead, d)
        BY <1>2
      <4>2. PICK pr2 \in Keeping(Present, n) : pr2 = Present'
        BY <1>8
      <4>3. Without(n, lead, phase, repr', phase, known, pr2)
        BY ONLY n \in Present, <3>2, <3>3, <4>1, <4>2, InnerLeftLists
      <4>4. QED
        BY <3>1, <4>2, <4>3 DEF Without
  <2>3. QED
    BY <2>1, <2>2
<1>10. Lists(repr', phase', known', Present', lead2, d2)
  BY <1>9
<1>11. CInv'
  <2>1. Stored(lead2, d2)'
    BY <1>1, <1>8, <1>10 DEF Stored
  <2>2. QED
    BY <2>1 DEF CInv
<1>12. /\ [m \in Index |-> Representative(m)]' = lead2
       /\ [m \in Index |-> Negated(m)]' = Signs(lead2, phase')
  BY <1>10, SeenNext
<1>13. PICK P : P = Signs(lead, phase)
  OBVIOUS
<1>14. PICK rest : rest = Rest(lead, n)
  OBVIOUS
<1>15. lead[n] = n => rest = {}
  <2>1. ASSUME lead[n] = n, NEW m \in rest PROVE FALSE
    <3>1. repr[n] = n /\ d[n] = 0
      BY <1>2, <2>1 DEF Chained
    <3>2. m \in Index /\ lead[m] = n /\ m # n /\ d[m] \in Nat
      BY <1>2, <1>14, <2>1 DEF Chained, Rest
    <3>3. d[m] <= d[n]
      BY <1>3, <1>5, <1>6, <1>7, <2>1, <3>1, <3>2 DEF Heads
    <3>4. QED
      BY <1>2, <2>1, <3>1, <3>2, <3>3 DEF Chained
  <2>2. QED
    BY <2>1
<1>16. /\ P \in [Index -> BOOLEAN] /\ P[r] = FALSE
       /\ \A m \in Index : Signs(lead2, phase')[m] = IF m = n THEN FALSE ELSE P[m]
  BY <1>2, <1>5, <1>9, <1>13 DEF Signs
<1>17. lead2 = LeaveLeads(lead, n, rest, r)
  BY <1>2, <1>3, <1>9, <1>14 DEF Left, Rest, LeaveLeads
<1>18. Signs(lead2, phase') = LeaveSigns(P, n, rest, r)
  <2>1. \A m \in Index : Signs(lead2, phase')[m] =
           IF m = n THEN FALSE ELSE IF m \in rest THEN P[m] # P[r] ELSE P[m]
    BY <1>16
  <2>2. QED
    BY <2>1 DEF Signs, LeaveSigns
<1>19. r = IF lead[n] = n /\ rest # {} THEN Min(rest) ELSE lead[n]
  BY <1>3, <1>15
<1>20. Classes!Leave(n)
  BY ONLY <1>2, <1>12, <1>13, <1>14, <1>17, <1>18, <1>19, known' = known, LeaveAbstract
<1>21. QED
  BY <1>11, <1>20

\* Taking out a node that leads others, and will not be used any more.
LEMMA DeposedStep ==
  ASSUME CInv, NEW n \in Present, RemoveRepresentative(n), known' = known,
         deleted' = deleted \cup {n}
  PROVE  CInv' /\ Classes!Leave(n)
<1>1. PICK lead, d : Stored(lead, d)
  BY DEF CInv
<1>2. /\ Lists(repr, phase, known, Present, lead, d) /\ Chained(repr, lead, d)
      /\ n \in Index /\ lead \in [Index -> Index] /\ phase \in [Index -> Signal]
      /\ repr \in [Index -> Index] /\ Present \subseteq known /\ known \subseteq Index
      /\ [m \in Index |-> Representative(m)] = lead
      /\ [m \in Index |-> Negated(m)] = Signs(lead, phase)
  <2>1. Lists(repr, phase, known, Present, lead, d)
    BY <1>1 DEF Stored
  <2>2. QED
    BY <2>1, Seen DEF Lists, Chained
<1>3. repr[n] = n /\ lead[n] = n
  BY <1>2 DEF RemoveRepresentative, IsRepresentative, Chained
<1>4. PICK h \in Index : h = phase[n].node /\ lead[h] = n /\ h # n
  <2>1. Heads(lead, d, phase[n].node, n)
    BY <1>2, <1>3, ListsMean
  <2>2. phase[n].node # n
    BY DEF RemoveRepresentative, HeadOf
  <2>3. QED
    BY <2>1, <2>2 DEF Heads
<1>5. {m \in Index : lead[m] = n} \subseteq Present
  BY <1>2, <1>3, ListsMean
<1>6. PICK rest : rest = Rest(lead, n)
  OBVIOUS
<1>7. rest = ChoicesOf(h) \ {n} /\ h \in rest
  <2>1. ChoicesOf(h) = {m \in Index : lead[m] = n}
    BY <1>1, <1>4, <1>5, ChoicesAre
  <2>2. QED
    BY <1>2, <1>3, <1>4, <1>5, <1>6, <2>1 DEF Rest
<1>8. PICK new : new = Min(rest)
  OBVIOUS
<1>9. new \in rest /\ new \in Index /\ new # n /\ lead[new] = n
  <2>1. rest \in SUBSET Nat /\ rest # {}
    <3>1. \A m \in Index : m \in Nat
      BY MaxNodesAssumption DEF Index
    <3>2. rest \subseteq Index
      BY <1>2, <1>6 DEF Rest
    <3>3. QED
      BY <1>7, <3>1, <3>2
  <2>2. QED
    BY <1>2, <1>3, <1>6, <1>8, <2>1, LowestIn DEF Rest
<1>10. PICK p \in rest :
         /\ repr[p] = n
         /\ repr' = IF new = p THEN [repr EXCEPT ![new] = new]
                    ELSE [repr EXCEPT ![p] = h, ![new] = new]
         /\ phase' = IF phase[new].neg
                     THEN Inverted([phase EXCEPT ![new] = IF new = p THEN phase[n]
                                                          ELSE Plain(repr[new])], repr', new)
                     ELSE [phase EXCEPT ![new] = IF new = p THEN phase[n] ELSE Plain(repr[new])]
  BY <1>4, <1>7, <1>8 DEF RemoveRepresentative, HeadOf
<1>11. PICK ph1 : ph1 = DeposedPhase(repr, phase, n, p, new)
  OBVIOUS
<1>12. /\ p \in Index /\ p # n /\ lead[p] = n /\ repr[p] = n
       /\ repr' = DeposedRepr(repr, phase, n, p, new)
       /\ phase' = IF phase[new].neg THEN Inverted(ph1, repr', new) ELSE ph1
  BY <1>2, <1>3, <1>4, <1>6, <1>10, <1>11 DEF DeposedRepr, DeposedPhase, Rest
<1>13. PICK lead2, d2 :
         /\ Lists(repr', phase', known, Present \ {n}, lead2, d2)
         /\ lead2 = Deposed(lead, n, new)
         /\ \A m \in Index : Signs(lead2, phase')[m] =
              IF lead[m] = n /\ m # n THEN Signs(lead, phase)[m] # Signs(lead, phase)[new]
              ELSE Signs(lead, phase)[m]
  <2>1. Lists(repr, phase, known, Present, lead, d)
    BY <1>2
  <2>2. WithoutLeader(n, new, lead, phase, repr', phase', known, Present \ {n})
    BY ONLY n \in Present, <1>3, <1>4, <1>9, <1>11, <1>12, <2>1, DeposedLists
  <2>3. QED
    BY <2>2 DEF WithoutLeader
<1>14. Present' = Present \ {n} /\ deleted' \subseteq known'
  BY <1>1, <1>2 DEF Present, Stored
<1>15. Lists(repr', phase', known', Present', lead2, d2)
  BY <1>13, <1>14
<1>16. CInv'
  <2>1. Stored(lead2, d2)'
    BY <1>1, <1>14, <1>15 DEF Stored
  <2>2. QED
    BY <2>1 DEF CInv
<1>17. /\ [m \in Index |-> Representative(m)]' = lead2
       /\ [m \in Index |-> Negated(m)]' = Signs(lead2, phase')
  BY <1>15, SeenNext
<1>18. PICK P : P = Signs(lead, phase)
  OBVIOUS
<1>19. \A m \in Index : m \in rest <=> lead[m] = n /\ m # n
  BY <1>2, <1>3, <1>5, <1>6 DEF Rest
<1>20. lead2 = LeaveLeads(lead, n, rest, new)
  BY <1>3, <1>13, <1>19 DEF Deposed, LeaveLeads
<1>21. Signs(lead2, phase') = LeaveSigns(P, n, rest, new)
  <2>1. P[n] = FALSE
    BY <1>2, <1>3, <1>18 DEF Signs
  <2>2. \A m \in Index : Signs(lead2, phase')[m] =
           IF m = n THEN FALSE ELSE IF m \in rest THEN P[m] # P[new] ELSE P[m]
    BY <1>13, <1>18, <1>19, <2>1
  <2>3. QED
    BY <2>2 DEF Signs, LeaveSigns
<1>22. new = IF lead[n] = n /\ rest # {} THEN Min(rest) ELSE lead[n]
  BY <1>3, <1>7, <1>8
<1>23. Classes!Leave(n)
  BY ONLY <1>2, <1>6, <1>17, <1>18, <1>20, <1>21, <1>22, known' = known, LeaveAbstract
<1>24. QED
  BY <1>16, <1>23

\* Where every node is alone.
LEMMA AloneStored ==
  ASSUME NEW rp, rp = [n \in Index |-> n], NEW ph, ph = [n \in Index |-> Plain(n)],
         NEW kn, kn \subseteq Index, NEW pr, pr \subseteq kn
  PROVE  /\ Lists(rp, ph, kn, pr, rp, [n \in Index |-> 0])
         /\ Signs(rp, ph) = [n \in Index |-> FALSE]
<1> DEFINE d == [n \in Index |-> 0]
<1>1. /\ rp \in [Index -> Index] /\ d \in [Index -> Nat] /\ ph \in [Index -> Signal]
      /\ \A n \in Index : rp[n] = n /\ d[n] = 0 /\ ph[n].node = n
  BY DEF Plain, Signal
<1> HIDE DEF d
<1>2. Chained(rp, rp, d)
  BY <1>1 DEF Chained
<1>3. \A r \in pr : Heads(rp, d, ph[r].node, r)
  BY <1>1 DEF Heads
<1>4. Lists(rp, ph, kn, pr, rp, d)
  BY <1>1, <1>2, <1>3 DEF Lists
<1>5. Signs(rp, ph) = [n \in Index |-> FALSE]
  BY <1>1 DEF Signs
<1>6. QED
  BY <1>4, <1>5 DEF d

\* clear_choices.
LEMMA ClearStep ==
  ASSUME CInv, ClearChoices
  PROVE  CInv' /\ Classes!Clear
<1>1. PICK lead, d : Stored(lead, d)
  BY DEF CInv
<1>2. Present \subseteq known /\ known \subseteq Index
  BY <1>1 DEF Stored, Lists
<1>3. /\ repr' = [n \in Index |-> n] /\ phase' = [n \in Index |-> Plain(n)]
      /\ known' = known /\ deleted' = deleted /\ Present' = Present
  BY DEF ClearChoices, Present
<1>4. PICK d2 : d2 = [n \in Index |-> 0]
  OBVIOUS
<1>5. /\ Lists(repr', phase', known', Present', repr', d2)
      /\ Signs(repr', phase') = [n \in Index |-> FALSE]
  BY <1>2, <1>3, <1>4, AloneStored
<1>6. PICK lead2 : lead2 = repr'
  OBVIOUS
<1>7. Stored(lead2, d2)'
  BY <1>1, <1>3, <1>5, <1>6 DEF Stored
<1>8. CInv'
  BY <1>7 DEF CInv
<1>9. /\ [n \in Index |-> Representative(n)]' = [n \in Index |-> n]
      /\ [n \in Index |-> Negated(n)]' = [n \in Index |-> FALSE]
  BY <1>3, <1>5, <1>6, SeenNext
<1>10. Classes!Clear
  BY <1>3, <1>9 DEF Classes!Clear, Classes!Index, Index
<1>11. QED
  BY <1>8, <1>10

\* on_add.
LEMMA OnAddStep ==
  ASSUME CInv, OnAdd
  PROVE  CInv' /\ Classes!Add
<1>1. PICK lead, d : Stored(lead, d)
  BY DEF CInv
<1>2. /\ Lists(repr, phase, known, Present, lead, d) /\ Chained(repr, lead, d)
      /\ Present \subseteq known /\ known \subseteq Index /\ deleted \subseteq known
  BY <1>1 DEF Stored, Lists
<1>3. PICK k \in 1 .. MaxNodes : known = 0 .. k - 1
  BY <1>1 DEF Stored
<1>4. Cardinality(known) = k
  <2>1. k \in Nat /\ k >= 1
    BY <1>3, MaxNodesAssumption
  <2>2. 0 \in Int /\ k - 1 \in Int
    BY <2>1
  <2>3. Cardinality(0 .. k - 1) = IF 0 > k - 1 THEN 0 ELSE k - 1 - 0 + 1
    BY ONLY <2>2, FS_Interval
  <2>4. QED
    BY <1>3, <2>1, <2>3
<1>5. /\ known' = known \cup {k} /\ k < MaxNodes
      /\ deleted' = deleted /\ repr' = repr /\ phase' = phase
  BY <1>4 DEF OnAdd
<1>6. k \in Index /\ k \notin known /\ known' = 0 .. (k + 1) - 1 /\ k + 1 \in 1 .. MaxNodes
  <2>1. k \in Nat /\ k >= 1
    BY <1>3, MaxNodesAssumption
  <2>2. \A j : j \in (0 .. k - 1) \cup {k} <=> j \in 0 .. (k + 1) - 1
    BY <2>1
  <2>3. k \notin 0 .. k - 1 /\ k \in 0 .. MaxNodes - 1 /\ k + 1 \in 1 .. MaxNodes
    BY <1>5, <2>1, MaxNodesAssumption
  <2>4. QED
    BY <1>3, <1>5, <2>2, <2>3 DEF Index
<1>7. Present' = Present \cup {k}
  BY <1>2, <1>5, <1>6 DEF Present
<1>8. PICK kn, pr : kn = known \cup {k} /\ pr = Present \cup {k}
  OBVIOUS
<1>9. ASSUME NEW r \in pr, repr[r] = r PROVE Heads(lead, d, phase[r].node, r)
  <2>1. CASE r = k
    <3>1. phase[k].node = k /\ k \notin Present
      BY <1>2, <1>6 DEF Lists
    <3>2. \A m \in Index : lead[m] = k => m = k
      BY <1>2, <3>1 DEF Lists
    <3>3. lead[k] = k /\ d[k] \in Nat
      BY <1>2, <1>6, <3>1 DEF Lists, Chained
    <3>4. QED
      BY <1>6, <2>1, <3>1, <3>2, <3>3 DEF Heads
  <2>2. CASE r # k
    BY <1>2, <1>8, <1>9, <2>2 DEF Lists
  <2>3. QED
    BY <2>1, <2>2
<1>10. Lists(repr, phase, kn, pr, lead, d)
  <2>1. pr \subseteq kn /\ kn \subseteq Index /\ known \subseteq kn /\ Present \subseteq pr
    BY <1>2, <1>6, <1>8
  <2>2. \A m \in Index : lead[m] = m \/ (m \in pr /\ lead[m] \in pr)
    BY <1>2, <2>1 DEF Lists
  <2>3. \A m \in Index \ kn : phase[m].node = m
    BY <1>2, <2>1 DEF Lists
  <2>4. QED
    BY <1>2, <1>9, <2>1, <2>2, <2>3 DEF Lists
<1>11. Lists(repr', phase', known', Present', lead, d)
  BY <1>5, <1>7, <1>8, <1>10
<1>12. CInv'
  <2>1. deleted' \subseteq known'
    BY <1>2, <1>5
  <2>2. Stored(lead, d)'
    BY <1>6, <1>11, <2>1 DEF Stored
  <2>3. QED
    BY <2>2 DEF CInv
<1>13. /\ [n \in Index |-> Representative(n)]' = [n \in Index |-> Representative(n)]
       /\ [n \in Index |-> Negated(n)]' = [n \in Index |-> Negated(n)]
  <2>1. Signs(lead, phase') = Signs(lead, phase)
    BY <1>5
  <2>2. QED
    BY <1>2, <1>11, <2>1, Seen, SeenNext
<1>14. Classes!Add
  BY <1>5, <1>6, <1>13 DEF Classes!Add, Classes!Index, Index
<1>15. QED
  BY <1>12, <1>14

-----------------------------------------------------------------------------
(* The theorems.                                                           *)

\* The initial states.
LEMMA InitListed ==
  ASSUME Init
  PROVE  CInv /\ Classes!Init
<1>1. /\ repr = [n \in Index |-> n] /\ phase = [n \in Index |-> Plain(n)]
      /\ known = {0} /\ deleted = {} /\ Present = {0}
  BY DEF Init, Present
<1>2. 0 \in Index /\ known = 0 .. 1 - 1 /\ 1 \in 1 .. MaxNodes
  BY <1>1, MaxNodesAssumption DEF Index
<1>3. PICK d : d = [n \in Index |-> 0]
  OBVIOUS
<1>4. /\ Lists(repr, phase, known, Present, repr, d)
      /\ Signs(repr, phase) = [n \in Index |-> FALSE]
  BY <1>1, <1>2, <1>3, AloneStored
<1>5. PICK lead : lead = repr
  OBVIOUS
<1>6. Stored(lead, d)
  BY <1>1, <1>2, <1>4, <1>5 DEF Stored
<1>7. /\ [n \in Index |-> Representative(n)] = [n \in Index |-> n]
      /\ [n \in Index |-> Negated(n)] = [n \in Index |-> FALSE]
  BY <1>1, <1>4, Seen
<1>8. Classes!Init
  BY <1>1, <1>7 DEF Classes!Init, Classes!Index, Index
<1>9. QED
  BY <1>6, <1>8 DEF CInv

\* Every step keeps the invariant and is one of ChoiceClasses, or none.
LEMMA NextListed ==
  ASSUME CInv, [Next]_vars
  PROVE  /\ CInv'
         /\ [Classes!Next]_<<known, [n \in Index |-> Representative(n)],
                             [n \in Index |-> Negated(n)]>>
<1>1. \A n : n \in Present => n \in known
  BY DEF Present
<1>2. CASE OnAdd
  BY <1>2, OnAddStep DEF Classes!Next
<1>3. ASSUME NEW n1 \in Present, NEW n2 \in Present, NEW c \in BOOLEAN, AddChoice(n1, n2, c)
      PROVE  CInv' /\ Classes!Next
  <2>1. CInv' /\ Classes!Merge(n1, n2, c)
    BY <1>3, AddChoiceStep
  <2>2. QED
    BY <1>1, <2>1 DEF Classes!Next
<1>4. ASSUME NEW n \in Present, UpdateRepresentative(n)
      PROVE  CInv' /\ Classes!Next
  <2>1. CInv' /\ Classes!Elect(n)
    BY <1>4, UpdateStep
  <2>2. QED
    BY <1>1, <2>1 DEF Classes!Next
<1>5. ASSUME NEW n \in Present, DeleteChoice(n)
      PROVE  CInv' /\ Classes!Next
  <2>1. CInv' /\ Classes!Leave(n)
    BY <1>5, LeftStep, DeposedStep DEF DeleteChoice
  <2>2. QED
    BY <1>1, <2>1 DEF Classes!Next
<1>6. CASE ClearChoices
  BY <1>6, ClearStep DEF Classes!Next
<1>7. ASSUME NEW n \in Present, ChoicesOf(n) = {n} \/ ~IsRepresentative(n), RemoveChoice(n)
      PROVE  CInv' /\ Classes!Next
  <2>1. ~RemoveRepresentative(n)
    <3>1. SUFFICES ASSUME RemoveRepresentative(n) PROVE FALSE
      OBVIOUS
    <3>2. repr[n] = n /\ HeadOf(n) # n /\ ChoicesOf(n) = {n}
      BY <1>7, <3>1 DEF RemoveRepresentative, IsRepresentative
    <3>3. PICK lead, d : Stored(lead, d)
      BY DEF CInv
    <3>4. Lists(repr, phase, known, Present, lead, d) /\ n \in Index /\ lead[n] = n
      BY <3>2, <3>3 DEF Stored, Lists, Chained
    <3>5. HeadOf(n) \in Index /\ lead[HeadOf(n)] = n
      BY <3>4, ListsMean DEF Heads, HeadOf
    <3>6. HeadOf(n) \in ChoicesOf(n)
      BY <3>3, <3>4, <3>5, ChoicesAre
    <3>7. QED
      BY <3>2, <3>6
  <2>2. RemoveOther(n) /\ known' = known /\ deleted' = deleted
    BY <1>7, <2>1 DEF RemoveChoice
  <2>3. CInv' /\ Classes!Leave(n)
    BY <2>2, LeftStep
  <2>4. QED
    BY <1>1, <2>3 DEF Classes!Next
<1>8. CASE UNCHANGED vars
  <2>1. CInv'
    BY <1>8 DEF CInv, Stored, Present, vars
  <2>2. UNCHANGED <<known, [n \in Index |-> Representative(n)], [n \in Index |-> Negated(n)]>>
    BY <1>8 DEF vars, Representative, Down, Negated, IsRepresentative
  <2>3. QED
    BY <2>1, <2>2
<1>9. QED
  BY <1>2, <1>3, <1>4, <1>5, <1>6, <1>7, <1>8 DEF Next, Common

\* The lists hold the classes, always.
THEOREM ListsHoldClasses == Spec => []CInv
<1>1. Init => CInv
  BY InitListed
<1>2. CInv /\ [Next]_vars => CInv'
  BY NextListed
<1>3. QED
  BY <1>1, <1>2, PTL DEF Spec

\* foreach_choice comes back to the node it starts at and visits its class,
\* all of it and nothing else.
THEOREM ListsListClasses == Spec => []ClassesListed
<1>1. CInv => ClassesListed
  BY StoredListed DEF CInv
<1>2. QED
  BY <1>1, ListsHoldClasses, PTL

\* The lists implement the classes that choice_view promises.
THEOREM ListsKeepClasses == Spec => ClassesKept
<1>1. Init => Classes!Init
  BY InitListed
<1>2. CInv /\ [Next]_vars =>
        [Classes!Next]_<<known, [n \in Index |-> Representative(n)],
                         [n \in Index |-> Negated(n)]>>
  BY NextListed
<1>3. QED
  BY <1>1, <1>2, ListsHoldClasses, PTL DEF Spec, ClassesKept, Classes!Spec
=============================================================================
