---------------------------- MODULE WindowLevels ----------------------------
(***************************************************************************)
(* The levels that algorithms/window_rewriting.hpp keeps while it           *)
(* substitutes: it hears of every node that is created, rewired or deleted  *)
(* in the middle of substitute_nodes, and brings the levels of the          *)
(* depth_view up to date from that node on, while other nodes still have    *)
(* fanins that have been taken out.                                         *)
(*                                                                          *)
(* The fanouts of a node are those a fanout_view lists, which is exact by   *)
(* then (see FanoutView); they are visited by index.                        *)
(***************************************************************************)
EXTENDS SubstituteNodes

CONSTANTS
  Wrap,    (* levels are counted modulo this, 2^32 in the code             *)
  MaxWork  (* bound on the nodes that one update visits                    *)

VARIABLES
  strategy,  (* level_update_strategy; "none" in aig.hpp, without levels   *)
  level,     (* the levels of depth_view                                   *)
  depth,     (* its depth                                                  *)
  asserted,  (* the assertions in the loop of update_node_level_precise    *)
             (* have all held                                              *)
  coneAlive  (* and so has the one before the loop                         *)

levelVars == <<strategy, level, depth, asserted, coneAlive>>

Highest(S) == Max(S \cup {0})

-----------------------------------------------------------------------------
(* Updates; net holds the fanins and counts the network has by then.       *)

Kids(net, p) == {net.child[p][1].node, net.child[p][2].node}
Alive(net, p) == net.h1[p] < DeadBit
Parents(net, p) ==
  SelectSeq([g \in 1 .. size - 1 |-> g],
            LAMBDA g : IsGate(g) /\ Alive(net, g) /\ p \in Kids(net, g))

\* Slip: fanins that have been taken out count.
HeightAll(net, lv, p) == (1 + Highest({lv[c] : c \in Kids(net, p)})) % Wrap

\* One more than the fanins; the precise update passes over those that have
\* been taken out, and the eager one does not.
Height(net, lv, p) ==
  (1 + Highest({lv[c] : c \in {k \in Kids(net, p) :
                                  strategy = "eager" \/ Alive(net, k)}})) % Wrap

\* The work an update has left: nodes with the index of the vector of levels
\* that each is put in.
Work == [at : Nat, node : Index]

\* The nodes whose turn comes next: the first vector that is not empty.
NextUp(work) ==
  CHOOSE i \in DOMAIN work :
     \A j \in DOMAIN work : work[i].at < work[j].at \/ (work[i].at = work[j].at /\ i <= j)

\* update_node_level_precise, one node: if its level changes its fanouts go
\* into the vectors of their levels.  What goes into a vector that has been
\* passed is never visited.
PreciseStep(net, offset, s) ==
  LET i == NextUp(s.work)
      p == s.work[i].node
      lvl == Height(net, s.level, p)
      reached == [s.level EXCEPT ![p] = lvl]
      target(f) == Max({reached[f], (lvl + 1) % Wrap})
      entry(f) == [at |-> (target(f) + Wrap - offset) % Wrap, node |-> f]
      fanouts == Parents(net, p)
      more == [k \in DOMAIN fanouts |-> entry(fanouts[k])]
  IN  IF lvl = s.level[p] THEN [s EXCEPT !.work = RemoveAt(@, i)]
      ELSE [level |-> reached,
            work |-> RemoveAt(s.work, i) \o
                     SelectSeq(more, LAMBDA e : e.at >= s.work[i].at),
            ok |-> /\ s.ok
                   /\ lvl > 0
                   /\ \A k \in DOMAIN more :
                         more[k].at >= s.work[i].at /\ target(more[k].node) >= offset]

\* The node whose turn it is gets another level, and its fanouts come next.
Releveled(net, s, lvl) ==
  LET p == Head(s.work).node
      fanouts == Parents(net, p)
      more == [k \in DOMAIN fanouts |-> [at |-> 0, node |-> fanouts[k]]]
  IN  [s EXCEPT !.level[p] = lvl, !.work = more \o Tail(@)]

\* Slip: levels only rise.
EagerRise(net, s) ==
  LET p == Head(s.work).node
      lvl == Height(net, s.level, p)
  IN  IF lvl <= s.level[p] THEN [s EXCEPT !.work = Tail(@)] ELSE Releveled(net, s, lvl)

\* update_node_level_eager, one activation.
EagerStep(net, s) ==
  LET p == Head(s.work).node
      lvl == Height(net, s.level, p)
  IN  IF lvl = s.level[p] THEN [s EXCEPT !.work = Tail(@)] ELSE Releveled(net, s, lvl)

\* What update_levels( n ) makes of the levels.
Update(net, n) ==
  LET offset == (1 + Highest({level[c] : c \in Kids(net, n)})) % Wrap
      run[k \in 0 .. MaxWork] ==
        IF k = 0 THEN [level |-> level, work |-> <<[at |-> 0, node |-> n]>>, ok |-> asserted]
        ELSE LET s == run[k - 1]
             IN  IF s.work = <<>> THEN s
                 ELSE IF strategy = "eager" THEN EagerStep(net, s)
                 ELSE PreciseStep(net, offset, s)
  IN  run[MaxWork]

\* count_reachable_dead_nodes_from_node( ntk, n ) == 0u.
NoneDeadBelow(net, n) ==
  LET below[k \in 0 .. MaxNodes] ==
        IF k = 0 THEN {n}
        ELSE LET last == below[k - 1]
             IN  last \cup UNION {Kids(net, m) : m \in last}
  IN  \A m \in below[MaxNodes] : Alive(net, m)

Updated(net, n) ==
  LET s == Update(net, n)
  IN  /\ level' = s.level
      /\ asserted' = (s.ok /\ s.work = <<>>)
      /\ coneAlive' = (coneAlive /\ (strategy = "precise" => NoneDeadBelow(net, n)))

-----------------------------------------------------------------------------
(* The handlers, in the steps that fire their events.                      *)

LevelsKept == UNCHANGED <<level, asserted, coneAlive>>

\* Slip: a rewired node keeps its level.
ModifiedIgnored == LevelsKept

\* update_level_of_existing_node; only RestrashNode changes fanins.
OnModified ==
  IF child' = child \/ strategy = "none" THEN LevelsKept
  ELSE Updated([child |-> child', h1 |-> h1'], CHOOSE n \in Index : child'[n] # child[n])

\* depth_view gives a new node its level; update_level_of_new_node finds
\* nothing left to do.
OnAdd ==
  /\ level' = [level EXCEPT ![size] =
                   1 + Max({level[child'[size][i].node] : i \in {1, 2}})]
  /\ UNCHANGED <<asserted, coneAlive>>

\* update_level_of_deleted_node: the level of a dead node is -1.
OnDelete ==
  /\ level' = [level EXCEPT ![Head(calls).node] = Wrap - 1]
  /\ UNCHANGED <<asserted, coneAlive>>

\* update_depth.
DepthUpdated == Highest({level[outputs[i].node] : i \in DOMAIN outputs})

-----------------------------------------------------------------------------
(* The specification.                                                      *)

\* What update_levels of depth_view computes from the outputs down.
Computed ==
  LET cone == UNION {Cone(outputs[i].node) : i \in DOMAIN outputs}
      round[k \in 0 .. MaxNodes] ==
        IF k = 0 THEN [n \in Index |-> 0]
        ELSE LET last == round[k - 1]
             IN  [n \in Index |-> IF n \in cone /\ IsGate(n)
                                  THEN 1 + Max({last[c] : c \in FaninNodes(n)}) ELSE 0]
  IN  round[MaxNodes]

LInit ==
  /\ window \in BOOLEAN
  /\ strategy \in IF window THEN {"precise", "eager"} ELSE {"none"}
  /\ level = Computed
  /\ depth = DepthUpdated
  /\ asserted = TRUE
  /\ coneAlive = TRUE

\* insert_ntk creates the gates of the new nodes.
LBuild ==
  /\ \E a, b \in LiveSignals : CreateAnd(a, b)
  /\ OnAdd
  /\ UNCHANGED <<subVars, strategy, depth>>

LCall == SCall /\ UNCHANGED levelVars

\* The depth is brought up to date when substitute_nodes has returned.
LReturn ==
  SReturn /\ depth' = DepthUpdated /\ UNCHANGED <<strategy, level, asserted, coneAlive>>

LVisit == SVisit /\ OnModified /\ UNCHANGED <<strategy, depth>>

LTakeOut == STakeOutEnter /\ OnDelete /\ UNCHANGED <<strategy, depth>>

LOther ==
  (PopFront \/ SFinishPair \/ Release \/ SUnwind \/ SClean) /\ UNCHANGED levelVars

LRun == LReturn \/ LVisit \/ LTakeOut \/ LOther

-----------------------------------------------------------------------------
(* Safety.                                                                 *)

\* Levels and depth are what the fanins make them.
Exact ==
  /\ \A g \in LiveGates : level[g] = 1 + Max({level[c] : c \in FaninNodes(g)})
  /\ depth = DepthUpdated

\* When a call has returned the precise update has left every level exact, as
\* optimize asserts with check_network_levels of debugging_utils.hpp, whatever was
\* computed from fanins that were dead or not up to date at the time; and so is
\* the depth.
LevelsExact == Idle /\ strategy = "precise" => Exact

\* So has the eager update, of which the comments at window_rewriting.hpp:68 and
\* :76 say that some levels will be wrong, and for which the code asserts nothing:
\* it comes to a node once more whenever the level of a fanin has changed.
EagerLevelsExact == Idle /\ strategy = "eager" => Exact

\* The assertions in the loop of update_node_level_precise hold: nothing is
\* put in a vector that has been passed, which would never be visited.
AssertionsHold == asserted

\* An update never starts at a node above a dead one, as
\* update_node_level_precise asserts first of all.
ConeAlive == coneAlive
=============================================================================
