------------------------------ MODULE RankView ------------------------------
(***************************************************************************)
(* rank_view (views/rank_view.hpp) on top of depth_view                     *)
(* (views/depth_view.hpp): the level of every node, the depth, and an order *)
(* of the nodes of each level.                                              *)
(*                                                                          *)
(* Several view objects exist on one network.  Each has two handlers of     *)
(* on_add: that of its depth_view sets the level of a new node, and its own *)
(* enters the node at the end of the rank of that level.  The levels and    *)
(* the positions are node_maps (utils/node_map.hpp): a copy of a node_map   *)
(* shares its data with the original, while ranks and depths are copied.    *)
(*                                                                          *)
(* The network only grows: the view documents that it does not follow       *)
(* modifications and deletions.                                             *)
(***************************************************************************)
EXTENDS Naturals, SequencesExt

CONSTANTS
  Views,    (* the objects of class rank_view                              *)
  MaxNodes, (* bound on the nodes of the network, without the constant     *)
  MaxPis    (* bound on its inputs                                         *)

ASSUME RankBoundsAssumption == MaxNodes \in Nat /\ MaxPis \in Nat
ASSUME ViewsAssumption == IsFiniteSet(Views)

VARIABLES
  fanins,    (* the fanins of nodes 1, 2, ...; none at an input            *)
  outs,      (* the nodes that drive outputs                               *)
  live,      (* the views that exist                                       *)
  handlers,  (* on_add: the views, in the order their rank handlers were   *)
             (* registered                                                 *)
  levelMap,  (* the data _levels of every view points to                   *)
  posMap,    (* the data rank_pos of every view points to                  *)
  levels,    (* those data: vectors of levels,                             *)
  positions, (* and of positions in ranks                                  *)
  depth,     (* _depth of every view                                       *)
  ranks,     (* ranks of every view, the rank of level 0 first             *)
  width      (* max_rank_width of every view                               *)

netVars == <<fanins, outs>>
shapeVars == <<live, handlers, levelMap, posMap>>
vars == <<netVars, shapeVars, levels, positions, depth, ranks, width>>

\* As many vectors as there may be views.
Data == 1 .. Cardinality(Views)
Nodes == 1 .. Len(fanins)
IsPi(n) == fanins[n] = {}
Pis == {n \in Nodes : IsPi(n)}
Highest(S) == Max(S \cup {0})

-----------------------------------------------------------------------------
(* Levels.                                                                 *)

\* The nodes outputs are computed from.
Reached ==
  LET below[k \in 0 .. MaxNodes] ==
        IF k = 0 THEN outs
        ELSE LET last == below[k - 1] IN last \cup UNION {fanins[n] : n \in last}
  IN  below[MaxNodes]

\* update_levels: the levels are computed from the outputs down, and those of
\* other nodes are 0.
ComputedLevels ==
  LET reached == Reached
      upTo[k \in 0 .. Len(fanins)] ==
        IF k = 0 THEN <<>>
        ELSE LET lower == upTo[k - 1]
             IN  Append(lower, IF k \in reached /\ ~IsPi(k)
                               THEN 1 + Max({lower[c] : c \in fanins[k]}) ELSE 0)
  IN  upTo[Len(fanins)]

ComputedDepth == LET l == ComputedLevels IN Highest({l[n] : n \in outs})

\* node_map::resize.
Resized(vector, k) ==
  vector \o [i \in 1 .. (IF k > Len(vector) THEN k - Len(vector) ELSE 0) |-> 0]

-----------------------------------------------------------------------------
(* Ranks; v is the view, and n goes into the rank of level l.              *)

\* A view, as its handlers see it: the vector of positions and its own data.
Ranking == [pos |-> positions, ranks |-> ranks, width |-> width]

\* insert_in_rank, into the rank of level l; p is the vector of positions of v.
InsertInRank(r, v, p, n, l) ==
  LET rank == Append(r.ranks[v][l + 1], n)
  IN  [pos |-> [r.pos EXCEPT ![p] = [@ EXCEPT ![n] = Len(rank) - 1]],
       ranks |-> [r.ranks EXCEPT ![v] = [@ EXCEPT ![l + 1] = rank]],
       width |-> [r.width EXCEPT ![v] = Max({@, Len(rank)})]]

\* Ranks up to level l.
Grown(rankList, l) ==
  rankList \o [i \in 1 .. (IF l >= Len(rankList) THEN l - Len(rankList) + 1 ELSE 0) |-> <<>>]

\* on_add makes room for the level and for the node.
OnAdd(r, v, n, l) ==
  InsertInRank([pos |-> [r.pos EXCEPT ![posMap[v]] = Resized(@, n)],
                ranks |-> [r.ranks EXCEPT ![v] = Grown(@, l)],
                width |-> r.width], v, posMap[v], n, l)

\* on_add of every view, in the order of the handlers; l has the levels of n.
AllOnAdd(n, l) ==
  LET after[i \in 0 .. Len(handlers)] ==
        IF i = 0 THEN Ranking ELSE OnAdd(after[i - 1], handlers[i], n, l[handlers[i]])
  IN  after[Len(handlers)]

\* init_ranks enters every node in the rank of its level, in the order of the
\* nodes.
InitRanks(v, p, l) ==
  LET upTo[n \in 0 .. Len(fanins)] ==
        IF n = 0
        THEN [pos |-> [positions EXCEPT ![p] = [m \in Nodes |-> 0]],
              ranks |-> [ranks EXCEPT ![v] = [i \in 1 .. ComputedDepth + 1 |-> <<>>]],
              width |-> [width EXCEPT ![v] = 0]]
        ELSE InsertInRank(upTo[n - 1], v, p, n, l[n])
  IN  upTo[Len(fanins)]

Ranked(r) == positions' = r.pos /\ ranks' = r.ranks /\ width' = r.width

-----------------------------------------------------------------------------
(* The network.                                                            *)

Init ==
  /\ fanins = <<>>
  /\ outs = {}
  /\ live = {}
  /\ handlers = <<>>
  /\ levelMap = [v \in Views |-> 1]
  /\ posMap = [v \in Views |-> 1]
  /\ levels = [d \in Data |-> <<>>]
  /\ positions = [d \in Data |-> <<>>]
  /\ depth = [v \in Views |-> 0]
  /\ ranks = [v \in Views |-> <<>>]
  /\ width = [v \in Views |-> 0]

\* create_pi of the network: no event is fired.
CreatePiBelow ==
  /\ Len(fanins) < MaxNodes /\ Cardinality(Pis) < MaxPis
  /\ fanins' = Append(fanins, {})
  /\ UNCHANGED <<outs, shapeVars, levels, positions, depth, ranks, width>>

\* Slip: no room is made for the level of the input.
CreatePiUnsized(v) ==
  LET n == Len(fanins) + 1
  IN  /\ v \in live
      /\ n <= MaxNodes /\ Cardinality(Pis) < MaxPis
      /\ fanins' = Append(fanins, {})
      /\ Ranked(OnAdd(Ranking, v, n, 0))
      /\ UNCHANGED <<outs, shapeVars, levels, depth>>

\* create_pi of a view: it makes room for the level and calls its own on_add.
CreatePi(v) ==
  LET n == Len(fanins) + 1
      room == Resized(levels[levelMap[v]], n)
  IN  /\ v \in live
      /\ n <= MaxNodes /\ Cardinality(Pis) < MaxPis
      /\ fanins' = Append(fanins, {})
      /\ levels' = [levels EXCEPT ![levelMap[v]] = room]
      /\ Ranked(OnAdd(Ranking, v, n, room[n]))
      /\ UNCHANGED <<outs, shapeVars, depth>>

\* The level every view has for a new gate n when its rank handler runs: its
\* depth_view has heard of n first.
LevelsOfNew(n, F) ==
  [v \in Views |-> LET vector == Resized(levels[levelMap[v]], n)
                   IN  1 + Max({vector[c] : c \in F})]

\* A gate of any view, or of the network: on_add fires.
CreateGate(F) ==
  LET n == Len(fanins) + 1
      l == LevelsOfNew(n, F)
  IN  /\ n <= MaxNodes
      /\ fanins' = Append(fanins, F)
      /\ levels' = [d \in Data |->
                      LET users == {v \in live : levelMap[v] = d}
                      IN  IF users = {} THEN levels[d]
                          ELSE [Resized(levels[d], n) EXCEPT
                                  ![n] = 1 + Max({Resized(levels[d], n)[c] : c \in F})]]
      /\ Ranked(AllOnAdd(n, l))
      /\ UNCHANGED <<outs, shapeVars, depth>>

\* Slip: the depth follows the latest output.
CreatePoLatest(v, n) ==
  /\ v \in live
  /\ outs' = outs \cup {n}
  /\ depth' = [depth EXCEPT ![v] = levels[levelMap[v]][n]]
  /\ UNCHANGED <<fanins, shapeVars, levels, positions, ranks, width>>

\* create_po of a view; other views do not hear of it.
CreatePo(v, n) ==
  /\ v \in live
  /\ outs' = outs \cup {n}
  /\ depth' = [depth EXCEPT ![v] = Max({@, levels[levelMap[v]][n]})]
  /\ UNCHANGED <<fanins, shapeVars, levels, positions, ranks, width>>

-----------------------------------------------------------------------------
(* View objects.                                                           *)

Unused(map) == CHOOSE d \in Data : \A v \in live : map[v] # d

\* rank_view( ntk ): every node is entered in the rank of its level.
Construct(v) ==
  LET d == Unused(levelMap)
      p == Unused(posMap)
      l == ComputedLevels
  IN  /\ v \notin live
      /\ live' = live \cup {v}
      /\ handlers' = Append(handlers, v)
      /\ levelMap' = [levelMap EXCEPT ![v] = d]
      /\ posMap' = [posMap EXCEPT ![v] = p]
      /\ levels' = [levels EXCEPT ![d] = l]
      /\ depth' = [depth EXCEPT ![v] = ComputedDepth]
      /\ Ranked(InitRanks(v, p, l))
      /\ UNCHANGED netVars

\* The copy constructor: the node_maps of the copy share their data.
Copy(v, w) ==
  /\ v \notin live /\ w \in live
  /\ live' = live \cup {v}
  /\ handlers' = Append(handlers, v)
  /\ levelMap' = [levelMap EXCEPT ![v] = levelMap[w]]
  /\ posMap' = [posMap EXCEPT ![v] = posMap[w]]
  /\ depth' = [depth EXCEPT ![v] = depth[w]]
  /\ ranks' = [ranks EXCEPT ![v] = ranks[w]]
  /\ width' = [width EXCEPT ![v] = width[w]]
  /\ UNCHANGED <<netVars, levels, positions>>

\* A vector no view uses any more is freed.
Kept(vectors, map, views) ==
  [d \in Data |-> IF \E v \in views : map[v] = d THEN vectors[d] ELSE <<>>]

\* Its handler is the only one a view gives back.
Released(v) == RemoveAt(handlers, CHOOSE i \in DOMAIN handlers : handlers[i] = v)

\* v = w: positions, ranks and width, but neither the levels nor the depth.
Assign(v, w) ==
  /\ v \in live /\ w \in live
  /\ handlers' = Append(Released(v), v)
  /\ posMap' = [posMap EXCEPT ![v] = posMap[w]]
  /\ ranks' = [ranks EXCEPT ![v] = ranks[w]]
  /\ positions' = Kept(positions, posMap', live)
  /\ width' = [width EXCEPT ![v] = width[w]]
  /\ UNCHANGED <<netVars, live, levelMap, levels, depth>>

\* The destructor; nothing of the view can be read any more.
Destroy(v) ==
  /\ v \in live
  /\ live' = live \ {v}
  /\ handlers' = Released(v)
  /\ levelMap' = [levelMap EXCEPT ![v] = 1]
  /\ posMap' = [posMap EXCEPT ![v] = 1]
  /\ levels' = Kept(levels, levelMap, live')
  /\ positions' = Kept(positions, posMap, live')
  /\ depth' = [depth EXCEPT ![v] = 0]
  /\ ranks' = [ranks EXCEPT ![v] = <<>>]
  /\ width' = [width EXCEPT ![v] = 0]
  /\ UNCHANGED netVars

-----------------------------------------------------------------------------
(* Operations of a view.                                                   *)

\* update_levels of depth_view: the ranks stay.
UpdateLevels(v) ==
  /\ v \in live
  /\ levels' = [levels EXCEPT ![levelMap[v]] = ComputedLevels]
  /\ depth' = [depth EXCEPT ![v] = ComputedDepth]
  /\ UNCHANGED <<netVars, shapeVars, positions, ranks, width>>

\* The position of a node in a view, and its level.
Pos(v, n) == positions[posMap[v]][n]
Level(v, n) == levels[levelMap[v]][n]

\* Slip: the positions stay.
SwapRanksOnly(v, n, m) ==
  /\ v \in live
  /\ Level(v, n) = Level(v, m)
  /\ ranks' = LET rank == ranks[v][Level(v, n) + 1]
              IN  [ranks EXCEPT ![v][Level(v, n) + 1] =
                     [rank EXCEPT ![Pos(v, n) + 1] = rank[Pos(v, m) + 1],
                                  ![Pos(v, m) + 1] = rank[Pos(v, n) + 1]]]
  /\ UNCHANGED <<netVars, shapeVars, levels, positions, depth, width>>

\* swap of two nodes of a rank.
Swap(v, n, m) ==
  LET rank == ranks[v][Level(v, n) + 1]
  IN  /\ v \in live
      /\ Level(v, n) = Level(v, m)
      /\ ranks' = [ranks EXCEPT ![v][Level(v, n) + 1] =
                     [rank EXCEPT ![Pos(v, n) + 1] = rank[Pos(v, m) + 1],
                                  ![Pos(v, m) + 1] = rank[Pos(v, n) + 1]]]
      /\ positions' = [positions EXCEPT ![posMap[v]] =
                         [@ EXCEPT ![n] = Pos(v, m), ![m] = Pos(v, n)]]
      /\ UNCHANGED <<netVars, shapeVars, levels, depth, width>>

\* sort_rank, by a comparator that puts the nodes in this order.
SortRank(v, l, order) ==
  /\ v \in live
  /\ l < Len(ranks[v])
  /\ ToSet(order) = ToSet(ranks[v][l + 1]) /\ Len(order) = Len(ranks[v][l + 1])
  /\ ranks' = [ranks EXCEPT ![v][l + 1] = order]
  /\ positions' = [positions EXCEPT ![posMap[v]] =
                     [n \in DOMAIN @ |-> IF \E i \in DOMAIN order : order[i] = n
                                         THEN (CHOOSE i \in DOMAIN order : order[i] = n) - 1
                                         ELSE @[n]]]
  /\ UNCHANGED <<netVars, shapeVars, levels, depth, width>>

-----------------------------------------------------------------------------
(* The specification.                                                      *)

\* Views come and go, and are copied and assigned, while gates are added.
Objects ==
  \/ \E F \in SUBSET Nodes : Cardinality(F) = 2 /\ CreateGate(F)
  \/ \E v, w \in Views : Copy(v, w) \/ Assign(v, w)
  \/ \E v \in Views : Destroy(v)

\* Levels are computed while every gate is in the cone of an output.
NoDangling == \A n \in Nodes : IsPi(n) \/ n \in Reached
Recompute == NoDangling /\ \E v \in Views : Construct(v) \/ UpdateLevels(v)

\* One view at a time creates inputs and outputs and changes the order.
Ordering(v) ==
  \/ CreatePi(v)
  \/ \E n \in Nodes : CreatePo(v, n)
  \/ \E n, m \in Nodes : Swap(v, n, m)
  \/ \E l \in 0 .. MaxNodes - 1 : l < Len(ranks[v]) /\ SortRank(v, l, Reverse(ranks[v][l + 1]))
Alone == \E v \in Views : live = {v} /\ Ordering(v)

Next ==
  \/ live = {} /\ CreatePiBelow
  \/ Objects
  \/ Recompute
  \/ Alone

Spec == Init /\ [][Next]_vars

\* Other clients change the order in one of several views.
AnyNext == Next \/ \E v \in Views : Ordering(v)
AnySpec == Init /\ [][AnyNext]_vars

-----------------------------------------------------------------------------
(* Safety.                                                                 *)

Heights ==
  LET upTo[k \in 0 .. Len(fanins)] ==
        IF k = 0 THEN <<>>
        ELSE LET lower == upTo[k - 1]
             IN  Append(lower, IF IsPi(k) THEN 0 ELSE 1 + Max({lower[c] : c \in fanins[k]}))
  IN  upTo[Len(fanins)]

\* Every view has the exact level of every node and, when it is the only one,
\* the exact depth, through any copies, assignments and recomputations.
LevelsExact == \A v \in live : levels[levelMap[v]] = Heights
DepthExact ==
  \A v \in Views : live = {v} => depth[v] = Highest({Heights[n] : n \in outs})

\* rank_position and at_rank_position are inverse to each other in every view,
\* the ranks hold every node once, and the width is that of the widest rank.
RanksExact ==
  \A v \in live :
     /\ \A n \in Nodes :
           /\ Level(v, n) < Len(ranks[v])
           /\ Pos(v, n) < Len(ranks[v][Level(v, n) + 1])
           /\ ranks[v][Level(v, n) + 1][Pos(v, n) + 1] = n
     /\ \A i \in DOMAIN ranks[v] : \A j \in DOMAIN ranks[v][i] :
           LET n == ranks[v][i][j] IN n \in Nodes /\ Level(v, n) = i - 1 /\ Pos(v, n) = j - 1
     /\ width[v] = Highest({Len(ranks[v][i]) : i \in DOMAIN ranks[v]})
=============================================================================
