-------------------------- MODULE SubstituteNodes --------------------------
(***************************************************************************)
(* Substituting several nodes of an AIG in one call: substitute_nodes of    *)
(* networks/aig.hpp, and that of algorithms/window_rewriting.hpp, which     *)
(* visits the fanouts of a fanout_view and also takes out a new node that   *)
(* nothing refers to in the end.                                            *)
(*                                                                          *)
(* Each pair of the list holds a reference to its new node.  A delete       *)
(* handler, called in the middle of take_out_node, drops the pairs whose    *)
(* old node has died, and gives their references back; this may take out    *)
(* the new nodes of these pairs, so that the handler runs again before it   *)
(* has returned.                                                            *)
(*                                                                          *)
(* todo of Aig holds the list, sub the pair being carried out.              *)
(***************************************************************************)
EXTENDS Aig, SequencesExt

CONSTANT MaxPairs (* bound on the pairs that clients put on the list *)

VARIABLES
  window, (* the substitute_nodes of window_rewriting.hpp                  *)
  cleans, (* activations of clean_substitutions, innermost first           *)
  promise (* the functions the clients expect of the outputs               *)

subVars == <<window, cleans, promise>>

\* An activation for a node that has died while depth activations of
\* take_out_node were running: first and result are the iterators of
\* std::remove_if, as positions; result is 0 until something was found.
Clean == [node : Index, depth : Nat, first : Nat, result : Nat]
Began(n, d) == [node |-> n, depth |-> d, first |-> 1, result |-> 0]

SubTypeOK ==
  /\ size \in 1 .. MaxNodes
  /\ child \in [Index -> Pair]
  /\ h1 \in [Index -> 0 .. 2 * DeadBit - 1]
  /\ hash \in [DOMAIN hash -> Index]
  /\ pc \in {"idle", "next", "scan", "release", "undefined"}
  /\ todo \in Seq(Substitution)
  /\ sub \in Substitution
  /\ calls \in Seq(Frame)
  /\ cleans \in Seq(Clean)

-----------------------------------------------------------------------------
(* What the outputs compute, as in AigFunction, for several nodes at once. *)

Inputs == {n \in Nodes : isCi[n]}
Assignments == SUBSET Inputs
Literal(table, f) ==
  IF f.neg THEN Assignments \ table[f.node] ELSE table[f.node]

Tables ==
  LET round[k \in 0 .. MaxNodes] ==
        IF k = 0 THEN [n \in Nodes |-> {}]
        ELSE LET last == round[k - 1]
             IN  [n \in Nodes |->
                    IF isCi[n] THEN {a \in Assignments : n \in a}
                    ELSE IF n = 0 THEN {}
                    ELSE Literal(last, child[n][1]) \cap Literal(last, child[n][2])]
  IN  round[MaxNodes]
Functions == LET table == Tables IN [i \in DOMAIN outputs |-> Literal(table, outputs[i])]

-----------------------------------------------------------------------------
(* The call.                                                               *)

SInit ==
  /\ Init
  /\ window \in BOOLEAN
  /\ cleans = <<>>
  /\ promise = <<>>

Olds(list) == {list[i].old : i \in DOMAIN list}

\* The substitutions clients may ask for: a live gate by a live signal that
\* computes the same function and does not depend on it.
Candidates ==
  LET table == Tables
  IN  {s \in [old : LiveGates, new : LiveSignals] :
         table[s.old] = Literal(table, s.new) /\ s.old \notin Cone(s.new.node)}

\* Every gate once, and no new node depends on any of the gates.
Apart(list) ==
  /\ Cardinality(Olds(list)) = Len(list)
  /\ \A i \in DOMAIN list : Cone(list[i].new.node) \cap Olds(list) = {}

\* Every gate once, and the pairs close no cycle when they are put together:
\* from no gate does one come back to it by fanins and from old to new nodes.
NoCycle(list) ==
  LET next(n) == IF n \in Olds(list)
                 THEN {list[i].new.node : i \in {j \in DOMAIN list : list[j].old = n}}
                 ELSE IF IsGate(n) THEN FaninNodes(n) ELSE {}
      below(o) ==
        LET reached[k \in 0 .. MaxNodes] ==
              IF k = 0 THEN next(o)
              ELSE LET last == reached[k - 1]
                   IN  last \cup UNION {next(m) : m \in last}
        IN  reached[MaxNodes]
  IN  /\ Cardinality(Olds(list)) = Len(list)
      /\ \A o \in Olds(list) : o \notin below(o)

\* Every new node gets a reference for each pair that names it.
SubstituteList(list) ==
  /\ Idle
  /\ todo' = list
  /\ h1' = FoldLeft(LAMBDA count, s : Incr(count, s.new.node), h1, list)
  /\ pc' = "next"
  /\ UNCHANGED <<size, isCi, child, hash, outputs, restrash, sub, renamed, scan, calls,
                 subVars>>

\* The list is empty.
SReturn ==
  /\ pc = "next" /\ calls = <<>>
  /\ todo = <<>>
  /\ pc' = "idle"
  /\ sub' = [old |-> 0, new |-> Const0]
  /\ UNCHANGED <<netVars, restrash, todo, renamed, scan, calls, subVars>>

PopFront ==
  /\ pc = "next" /\ calls = <<>>
  /\ todo # <<>>
  /\ sub' = Head(todo)
  /\ todo' = Tail(todo)
  /\ scan' = Fanouts(sub'.old)
  /\ pc' = "scan"
  /\ UNCHANGED <<netVars, restrash, renamed, calls, subVars>>

\* A node that is to be replaced itself keeps its fanins.
Skip(n) == n \in Olds(todo) /\ UNCHANGED <<netVars, todo>>

\* n is equal to another node: it goes to the end of the list.
Collapse(n) ==
  /\ n \notin Olds(todo)
  /\ IsEqual(Rewired(n))
  /\ todo' = Append(todo, [old |-> n, new |-> Equal(Rewired(n))])
  /\ h1' = Incr(h1, Equal(Rewired(n)).node)
  /\ UNCHANGED <<size, isCi, child, hash, outputs>>

\* n gets its new fanins; on_modified fires.
Rewire(n) == n \notin Olds(todo) /\ RestrashNode(n)

\* Slip: the loop runs as long as the old node has fanouts.  A node that keeps its
\* fanins stays one of them: the loop comes to it over and over, and never ends.
StillFanouts(n) == {m \in LiveGates' : sub.old \in FaninNodes(m)'}

\* The fanouts that are left after n: those the node had when the loop began.
Unvisited(n) == scan \ {n}

\* aig.hpp visits the nodes in the order of their indices, and
\* window_rewriting.hpp in that of the list of fanouts.
SVisit ==
  /\ pc = "scan"
  /\ \E n \in scan :
        /\ window \/ \A m \in scan : n <= m
        /\ Skip(n) \/ Collapse(n) \/ Rewire(n)
        /\ scan' = Unvisited(n)
  /\ UNCHANGED <<pc, restrash, sub, renamed, calls, subVars>>

\* Slip: a pair may go on naming the node that is being replaced.
FollowNone(list) == list

\* Slip: the complement of the pair is forgotten.
FollowPlain(list) ==
  [i \in DOMAIN list |->
     IF list[i].new.node = sub.old THEN [list[i] EXCEPT !.new = sub.new] ELSE list[i]]

\* The pairs that name the old node name the new one from now on.
Followed(list) ==
  [i \in DOMAIN list |->
     IF list[i].new.node = sub.old
     THEN [list[i] EXCEPT !.new = Xor(sub.new, @.neg)] ELSE list[i]]

\* Outputs and pairs follow, each with a reference; the old node is taken out.
SFinishPair ==
  LET followers == {i \in DOMAIN todo : todo[i].new.node = sub.old}
  IN  /\ pc = "scan"
      /\ scan = {}
      /\ outputs' = RedirectedOutputs
      /\ todo' = Followed(todo)
      /\ h1' = [h1 EXCEPT ![sub.new.node] =
                  (@ + Cardinality(Redirected) + Cardinality(followers)) % (2 * DeadBit)]
      /\ calls' = <<Call("take_out", sub.old)>>
      /\ pc' = "release"
      /\ UNCHANGED <<size, isCi, child, hash, restrash, sub, renamed, scan, subVars>>

\* The pair gives its reference back.
Release ==
  LET n == sub.new.node
      released == Decr(h1, n)
  IN  /\ pc = "release" /\ calls = <<>>
      /\ h1' = released
      /\ calls' = IF window /\ released[n] % DeadBit = 0
                  THEN <<Call("take_out", n)>> ELSE <<>>
      /\ pc' = "next"
      /\ UNCHANGED <<size, isCi, child, hash, outputs, restrash, todo, sub, renamed, scan,
                     subVars>>

-----------------------------------------------------------------------------
(* take_out_node with its delete handler.                                  *)

\* The innermost activation is one of clean_substitutions.
Cleaning == cleans # <<>> /\ Head(cleans).depth = Len(calls)

STakeOutEnter ==
  /\ ~Cleaning
  /\ TakeOutEnter
  /\ cleans' = <<Began(Head(calls).node, Len(calls))>> \o cleans
  /\ UNCHANGED <<window, promise>>

SUnwind ==
  /\ ~Cleaning
  /\ TakeOutIgnored \/ TakeOutFanin
  /\ UNCHANGED subVars

\* Slip: the pairs that lead to the dead node, not those that replace it.
LeadsTo(pair, n) == pair.new.node = n

\* The pairs the handler drops when n has died.
Replaces(pair, n) == pair.old = n

\* std::remove_if goes past a pair that stays, which moves to the place of
\* the first that does not.
CleanKeep ==
  /\ Cleaning
  /\ LET c == Head(cleans)
     IN  /\ c.first <= Len(todo)
         /\ ~Replaces(todo[c.first], c.node)
         /\ todo' = IF c.result = 0 THEN todo
                    ELSE [todo EXCEPT ![c.result] = todo[c.first]]
         /\ cleans' = <<[c EXCEPT !.first = @ + 1,
                                  !.result = IF @ = 0 THEN 0 ELSE @ + 1]>> \o Tail(cleans)
  /\ UNCHANGED <<netVars, pc, restrash, sub, renamed, scan, calls, window, promise>>

\* Slip: the new node keeps the reference of the pair.
DropKeepsReference ==
  /\ Cleaning
  /\ LET c == Head(cleans)
     IN  /\ c.first <= Len(todo)
         /\ Replaces(todo[c.first], c.node)
         /\ cleans' = <<[c EXCEPT !.first = @ + 1,
                                  !.result = IF @ = 0 THEN c.first ELSE @]>> \o Tail(cleans)
  /\ UNCHANGED <<netVars, pc, calls, restrash, todo, sub, renamed, scan, window, promise>>

\* A pair goes; its new node loses a reference, and is taken out if that was
\* the last.
CleanDrop ==
  /\ Cleaning
  /\ LET c == Head(cleans)
         n == todo[c.first].new.node
         count == IF FanoutSize(n) > 0 THEN Decr(h1, n) ELSE h1
     IN  /\ c.first <= Len(todo)
         /\ Replaces(todo[c.first], c.node)
         /\ cleans' = <<[c EXCEPT !.first = @ + 1,
                                  !.result = IF @ = 0 THEN c.first ELSE @]>> \o Tail(cleans)
         /\ IF Dead(n) THEN UNCHANGED <<h1, calls>>
            ELSE /\ h1' = count
                 /\ calls' = IF count[n] % DeadBit = 0
                             THEN <<Call("take_out", n)>> \o calls ELSE calls
  /\ UNCHANGED <<size, isCi, child, hash, outputs, pc, restrash, todo, sub, renamed, scan,
                 window, promise>>

\* The end of the list is erased.  If the iterators of an activation further
\* out pointed there, what happens next is undefined, and not modelled.
CleanErase ==
  /\ Cleaning
  /\ LET c == Head(cleans)
         list == IF c.result = 0 THEN todo ELSE SubSeq(todo, 1, c.result - 1)
     IN  /\ c.first > Len(todo)
         /\ todo' = list
         /\ cleans' = Tail(cleans)
         /\ pc' = IF \E i \in DOMAIN cleans \ {1} :
                        list # todo /\ cleans[i].first - 1 > Len(list)
                  THEN "undefined" ELSE pc
  /\ UNCHANGED <<netVars, restrash, sub, renamed, scan, calls, window, promise>>

-----------------------------------------------------------------------------
(* The specification.                                                      *)

Lists == LET pairs == Candidates IN UNION {[1 .. k -> pairs] : k \in 1 .. MaxPairs}

SBuild ==
  /\ \/ CreatePi /\ UNCHANGED promise
     \/ \E f \in LiveSignals :
           CreatePo(f) /\ promise' = Append(promise, Literal(Tables, f))
     \/ \E a, b \in LiveSignals : CreateAnd(a, b) /\ UNCHANGED promise
  /\ UNCHANGED <<window, cleans>>

SCall == Idle /\ \E list \in Lists : Apart(list) /\ SubstituteList(list)

SRun == SReturn \/ PopFront \/ SVisit \/ SFinishPair \/ Release
        \/ STakeOutEnter \/ SUnwind

SClean == CleanKeep \/ CleanDrop \/ CleanErase

SNext == SBuild \/ SCall \/ SRun \/ SClean

\* Clients that only see to it that no cycle arises.
SomeNoCycle == Idle /\ \E list \in Lists : NoCycle(list) /\ SubstituteList(list)

\* A call that has been made runs on until it returns.
SFairness == WF_<<vars, subVars>>(SRun) /\ WF_<<vars, subVars>>(SClean)

SSpec == SInit /\ [][SNext]_<<vars, subVars>>

-----------------------------------------------------------------------------
(* Safety.                                                                 *)

\* Every output computes what it computed with all new nodes in the place of
\* the old ones at once, although they are put there one after the other and
\* pairs are added, led to other nodes and dropped meanwhile.
SOutputsKept == Idle => Functions = promise

\* When a call has returned, counts are the numbers of references again:
\* every reference held by a pair has been given back exactly once.
SRefCountExact == Idle => \A n \in Nodes : ~Dead(n) => FanoutSize(n) = References(n)

\* assert( !is_dead( old_node ) ), aig.hpp:817.
OldAlive == pc = "scan" /\ scan = {} => ~Dead(sub.old)

\* A pair on the list keeps its new node alive.
PairsHold == \A i \in DOMAIN todo : cleans = <<>> => ~Dead(todo[i].new.node)

\* No activation of clean_substitutions is left with an iterator into the
\* part of the list that an activation inside it has erased.
IteratorsValid == pc # "undefined"

\* Every call returns, although pairs are added while others are carried out.
STerminates == ~Idle ~> Idle
=============================================================================
