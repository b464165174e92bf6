------------------------------ MODULE AigProof ------------------------------
(***************************************************************************)
(* Proofs about Aig, for every value of its constants and for all clients   *)
(* (AnySpec): the types, the structural hash table, the reference counts.   *)
(***************************************************************************)
EXTENDS Aig, SequenceTheorems, FiniteSetTheorems, TLAPS

\* Pushing an element keeps a stack in its set of sequences.
LEMMA PushInSeq ==
  ASSUME NEW S, NEW x \in S, NEW s \in Seq(S)
  PROVE  <<x>> \o s \in Seq(S)
<1>1. <<x>> \in Seq(S)
  OBVIOUS
<1>2. QED
  BY <1>1, ConcatProperties

\* 32-bit arithmetic: a count stays in its range.
LEMMA Wraps ==
  ASSUME NEW x \in Nat
  PROVE  x % (2 * DeadBit) \in 0 .. 2 * DeadBit - 1
  BY DeadBitAssumption

\* A count that is in its range does not change.
LEMMA WrapsNot ==
  ASSUME NEW x \in Nat, x < 2 * DeadBit
  PROVE  x % (2 * DeadBit) = x
  BY DeadBitAssumption

\* Below the dead bit a count is the fanout size.
LEMMA FanoutSizeOfLive ==
  ASSUME NEW x \in Nat, x < DeadBit
  PROVE  x % DeadBit = x
  BY DeadBitAssumption

\* The counts of all nodes.
Counts == [Index -> 0 .. 2 * DeadBit - 1]

\* ++ and -- of a count give a count.
LEMMA CountType ==
  ASSUME NEW c \in Counts, NEW n \in Index
  PROVE  Incr(c, n) \in Counts /\ Decr(c, n) \in Counts
<1>1. c[n] + 1 \in Nat /\ c[n] + 2 * DeadBit - 1 \in Nat
  BY DeadBitAssumption DEF Counts
<1>2. /\ (c[n] + 1) % (2 * DeadBit) \in 0 .. 2 * DeadBit - 1
      /\ (c[n] + 2 * DeadBit - 1) % (2 * DeadBit) \in 0 .. 2 * DeadBit - 1
  BY <1>1, Wraps
<1>3. QED
  BY <1>2 DEF Counts, Incr, Decr

\* Insert keeps the type of a table.
LEMMA InsertType ==
  ASSUME NEW S, NEW T, NEW table, NEW p \in S, NEW n \in T,
         DOMAIN table \subseteq S, table \in [DOMAIN table -> T]
  PROVE  /\ DOMAIN Insert(table, p, n) \subseteq S
         /\ Insert(table, p, n) \in [DOMAIN Insert(table, p, n) -> T]
  BY DEF Insert

\* A signal that is complemented keeps its node.
LEMMA XorType ==
  ASSUME NEW S, NEW s \in [node : S, neg : BOOLEAN], NEW c \in BOOLEAN
  PROVE  Xor(s, c) \in [node : S, neg : BOOLEAN] /\ Xor(s, c).node = s.node
  BY DEF Xor

\* Ordering two fanins keeps them.
LEMMA OrderedType ==
  ASSUME NEW S, NEW a \in S, NEW b \in S
  PROVE  Ordered(a, b) \in S \X S
  BY DEF Ordered

\* The top of a stack, and what is below it.
LEMMA PopFromSeq ==
  ASSUME NEW S, NEW s \in Seq(S), s # <<>>
  PROVE  Head(s) \in S /\ Tail(s) \in Seq(S)
  BY HeadTailProperties

\* A frame that advances is still a frame.
LEMMA AdvanceType ==
  ASSUME TypeOK, calls # <<>>
  PROVE  Advance \in Seq(Frame) /\ Head(calls) \in Frame /\ Tail(calls) \in Seq(Frame)
<1> DEFINE f == Head(calls)
<1>1. f \in Frame /\ Tail(calls) \in Seq(Frame)
  BY PopFromSeq DEF TypeOK
<1>2. CASE f.at < 2
  <2>1. [f EXCEPT !.at = @ + 1] \in Frame
    BY <1>1, <1>2 DEF Frame
  <2>2. QED
    BY <1>1, <1>2, <2>1, PushInSeq DEF Advance
<1>3. CASE ~(f.at < 2)
  BY <1>1, <1>3 DEF Advance
<1>4. QED
  BY <1>1, <1>2, <1>3

\* A new frame is a frame.
LEMMA CallType ==
  ASSUME NEW op \in {"take_out", "revive"}, NEW n \in Index
  PROVE  Call(op, n) \in Frame /\ <<Call(op, n)>> \in Seq(Frame)
<1>1. Call(op, n) \in Frame
  BY DEF Call, Frame
<1>2. QED
  BY <1>1

\* What replace_in_node computes is a pair of fanins, and what it finds it to
\* be equal to a signal.
LEMMA RewiredType ==
  ASSUME TypeOK, NEW n \in Index
  PROVE  Rewired(n) \in Pair
<1>1. child[n] \in Pair /\ sub.new \in Signal
  BY DEF TypeOK, Substitution
<1>2. \A i \in {1, 2} : child[n][i] \in Signal /\ child[n][3 - i] \in Signal
  BY <1>1 DEF Pair
<1>3. \A i \in {1, 2} : Xor(sub.new, child[n][i].neg) \in Signal
  BY <1>1, <1>2, XorType DEF Signal
<1>4. PICK i \in {1, 2} : Rewired(n) = Ordered(child[n][3 - i], Xor(sub.new, child[n][i].neg))
  BY DEF Rewired
<1>5. QED
  BY <1>2, <1>3, <1>4, OrderedType DEF Pair

\* What replace_in_node finds the new fanins to be equal to is a signal.
LEMMA EqualType ==
  ASSUME TypeOK, NEW p \in Pair, IsEqual(p)
  PROVE  Equal(p) \in Signal
<1>1. 0 \in Index /\ Const0 \in Signal
  BY MaxNodesAssumption DEF Index, Const0, Signal
<1>2. CASE IsTrivial(p)
  BY <1>1, <1>2 DEF Equal, TrivialAnd, Pair
<1>3. CASE ~IsTrivial(p)
  BY <1>3 DEF Equal, IsEqual, Signal, TypeOK
<1>4. QED
  BY <1>2, <1>3

\* The initial state has the types, and each kind of step keeps them.
LEMMA InitType == Init => TypeOK
<1> SUFFICES ASSUME Init PROVE TypeOK
  OBVIOUS
<1>1. 0 \in Index /\ 1 \in 1 .. MaxNodes /\ 0 \in 0 .. 2 * DeadBit - 1
  BY MaxNodesAssumption, DeadBitAssumption DEF Index
<1>2. Const0 \in Signal
  BY <1>1 DEF Const0, Signal
<1>3. child \in [Index -> Pair] /\ sub \in Substitution
  BY <1>1, <1>2 DEF Init, Pair, Substitution
<1>4. /\ DOMAIN hash \subseteq Pair /\ hash \in [DOMAIN hash -> Index]
      /\ DOMAIN renamed \subseteq Index /\ renamed \in [DOMAIN renamed -> Signal]
  BY DEF Init
<1>5. QED
  BY <1>1, <1>3, <1>4 DEF Init, TypeOK

\* The nodes there are and the signals that clients pass.
LEMMA NodesType ==
  ASSUME TypeOK
  PROVE  Nodes \subseteq Index /\ LiveGates \subseteq Index /\ Signals \subseteq Signal
  BY MaxNodesAssumption, PolarityAssumption
  DEF TypeOK, Nodes, LiveGates, Index, Signals, Signal

\* create_pi, create_po and create_and.
LEMMA BuildType ==
  ASSUME TypeOK, Build
  PROVE  TypeOK'
<1> USE MaxNodesAssumption, NodesType
<1>1. CASE CreatePi
  <2>1. size' \in 1 .. MaxNodes /\ isCi' \in [Index -> BOOLEAN]
    BY <1>1 DEF CreatePi, TypeOK, Index
  <2>2. QED
    BY <1>1, <2>1 DEF CreatePi, TypeOK, ctlVars
<1>2. ASSUME NEW f \in LiveSignals, CreatePo(f)
      PROVE  TypeOK'
  <2>1. f \in Signal /\ f.node \in Index
    BY DEF LiveSignals, Signal
  <2>2. h1' \in [Index -> 0 .. 2 * DeadBit - 1]
    BY <1>2, <2>1, CountType DEF CreatePo, TypeOK, Counts
  <2>3. outputs' \in Seq(Signal)
    BY <1>2, <2>1 DEF CreatePo, TypeOK
  <2>4. QED
    BY <1>2, <2>2, <2>3 DEF CreatePo, TypeOK, ctlVars
<1>3. ASSUME NEW a \in LiveSignals, NEW b \in LiveSignals, CreateAnd(a, b)
      PROVE  TypeOK'
  <2> DEFINE p == Ordered(a, b)
  <2>1. a \in Signal /\ b \in Signal /\ a.node \in Index /\ b.node \in Index
    BY DEF LiveSignals, Signal
  <2>2. p \in Pair /\ size \in Index
    BY <1>3, <2>1, OrderedType DEF Pair, CreateAnd, TypeOK, Index
  <2>3. h1' \in [Index -> 0 .. 2 * DeadBit - 1]
    BY <1>3, <2>1, CountType DEF CreateAnd, TypeOK, Counts
  <2>4. DOMAIN hash' \subseteq Pair /\ hash' \in [DOMAIN hash' -> Index]
    <3>1. hash' = Insert(hash, p, size)
      BY <1>3 DEF CreateAnd
    <3>2. DOMAIN hash \subseteq Pair /\ hash \in [DOMAIN hash -> Index]
      BY DEF TypeOK
    <3>3. QED
      BY <2>2, <3>1, <3>2, InsertType
  <2>5. child' \in [Index -> Pair] /\ size' \in 1 .. MaxNodes
    BY <1>3, <2>2 DEF CreateAnd, TypeOK, Index
  <2>6. QED
    BY <1>3, <2>3, <2>4, <2>5 DEF CreateAnd, TypeOK, ctlVars
<1>4. QED
  BY <1>1, <1>2, <1>3 DEF Build

\* take_out_node and revive_node.
LEMMA UnwindType ==
  ASSUME TypeOK, Unwind
  PROVE  TypeOK'
<1> DEFINE f == Head(calls)
           n == f.node
<1>1. calls # <<>>
  BY DEF Unwind, TakeOutIgnored, TakeOutEnter, TakeOutFanin, ReviveEnter, ReviveFanin, InCall
<1>2. /\ Advance \in Seq(Frame) /\ Tail(calls) \in Seq(Frame)
      /\ n \in Index /\ f.at \in 0 .. 2
  BY <1>1, AdvanceType DEF Frame
<1>3. CASE TakeOutIgnored
  BY <1>2, <1>3 DEF TakeOutIgnored, TypeOK, netVars, ctlVars
<1>4. CASE TakeOutEnter
  <2>1. h1' \in [Index -> 0 .. 2 * DeadBit - 1]
    BY <1>2, <1>4, DeadBitAssumption DEF TakeOutEnter, TypeOK
  <2>2. DOMAIN hash' \subseteq Pair /\ hash' \in [DOMAIN hash' -> Index]
    BY <1>4 DEF TakeOutEnter, TypeOK, Erase
  <2>3. QED
    BY <1>2, <1>4, <2>1, <2>2 DEF TakeOutEnter, TypeOK, ctlVars
<1>5. CASE TakeOutFanin
  <2> DEFINE c == child[n][f.at].node
  <2>1. f.at \in {1, 2}
    BY <1>5 DEF TakeOutFanin, InCall
  <2>2. c \in Index
    BY <1>2, <2>1 DEF TypeOK, Pair, Signal
  <2>3. h1' \in [Index -> 0 .. 2 * DeadBit - 1]
    <3>1. h1' = h1 \/ h1' = Decr(h1, c)
      BY <1>5 DEF TakeOutFanin
    <3>2. h1 \in Counts
      BY DEF TypeOK, Counts
    <3>3. Decr(h1, c) \in Counts
      BY <2>2, <3>2, CountType
    <3>4. QED
      BY <3>1, <3>2, <3>3 DEF Counts
  <2>4. <<Call("take_out", c)>> \o Advance \in Seq(Frame)
    BY <1>2, <2>2, CallType, PushInSeq
  <2>5. calls' \in Seq(Frame)
    BY <1>2, <1>5, <2>4 DEF TakeOutFanin
  <2>6. QED
    BY <1>5, <2>3, <2>5 DEF TakeOutFanin, TypeOK, ctlVars
<1>6. CASE ReviveEnter
  <2>1. h1' \in [Index -> 0 .. 2 * DeadBit - 1]
    BY <1>2, <1>6, DeadBitAssumption DEF ReviveEnter, TypeOK
  <2>2. child[n] \in Pair
    BY <1>2 DEF TypeOK
  <2>3. DOMAIN hash' \subseteq Pair /\ hash' \in [DOMAIN hash' -> Index]
    <3>1. hash' = Insert(hash, child[n], n)
      BY <1>6 DEF ReviveEnter
    <3>2. DOMAIN hash \subseteq Pair /\ hash \in [DOMAIN hash -> Index]
      BY DEF TypeOK
    <3>3. QED
      BY <1>2, <2>2, <3>1, <3>2, InsertType
  <2>4. QED
    BY <1>2, <1>6, <2>1, <2>3 DEF ReviveEnter, TypeOK, ctlVars
<1>7. CASE ReviveFanin
  <2> DEFINE c == child[n][f.at].node
  <2>1. f.at \in {1, 2}
    BY <1>7 DEF ReviveFanin, InCall
  <2>2. c \in Index
    BY <1>2, <2>1 DEF TypeOK, Pair, Signal
  <2>3. h1' \in [Index -> 0 .. 2 * DeadBit - 1]
    <3>1. h1' = h1 \/ h1' = Incr(h1, c)
      BY <1>7 DEF ReviveFanin
    <3>2. h1 \in Counts
      BY DEF TypeOK, Counts
    <3>3. Incr(h1, c) \in Counts
      BY <2>2, <3>2, CountType
    <3>4. QED
      BY <3>1, <3>2, <3>3 DEF Counts
  <2>4. <<Call("revive", c)>> \o calls \in Seq(Frame)
    BY <2>2, CallType, PushInSeq DEF TypeOK
  <2>5. calls' \in Seq(Frame)
    BY <1>2, <1>7, <2>4 DEF ReviveFanin
  <2>6. QED
    BY <1>7, <2>3, <2>5 DEF ReviveFanin, TypeOK, ctlVars
<1>8. QED
  BY <1>3, <1>4, <1>5, <1>6, <1>7 DEF Unwind

\* replace_in_node and replace_in_node_no_restrash.
LEMMA ReplaceInNodeType ==
  ASSUME TypeOK, NEW n \in Index, ReplaceInNode(n)
  PROVE  /\ DOMAIN hash' \subseteq Pair /\ hash' \in [DOMAIN hash' -> Index]
         /\ child' \in [Index -> Pair]
         /\ h1' \in [Index -> 0 .. 2 * DeadBit - 1]
         /\ todo' \in Seq(Substitution)
         /\ UNCHANGED <<size, isCi, outputs>>
<1> DEFINE p == Rewired(n)
           erased == Erase(hash, child[n])
<1>1. p \in Pair /\ child[n] \in Pair
  BY RewiredType DEF TypeOK
<1>2. sub.new.node \in Index
  BY DEF TypeOK, Substitution, Signal
<1>3. h1 \in Counts /\ Incr(h1, sub.new.node) \in Counts
  BY <1>2, CountType DEF TypeOK, Counts
<1>4. [child EXCEPT ![n] = p] \in [Index -> Pair]
  BY <1>1 DEF TypeOK
<1>5. /\ DOMAIN erased \subseteq Pair
      /\ erased \in [DOMAIN erased -> Index]
  BY DEF TypeOK, Erase
<1>6. /\ DOMAIN Insert(erased, p, n) \subseteq Pair
      /\ Insert(erased, p, n) \in [DOMAIN Insert(erased, p, n) -> Index]
  BY <1>1, <1>5, InsertType
<1>7. CASE CollapseNode(n)
  <2>1. Equal(p) \in Signal
    BY <1>1, <1>7, EqualType DEF CollapseNode
  <2>2. [old |-> n, new |-> Equal(p)] \in Substitution
    BY <2>1 DEF Substitution
  <2>3. todo' \in Seq(Substitution)
    BY <1>7, <2>2, PushInSeq DEF CollapseNode, TypeOK
  <2>4. QED
    BY <1>7, <2>3 DEF CollapseNode, TypeOK, netVars
<1>8. CASE RestrashNode(n)
  BY <1>3, <1>4, <1>6, <1>8 DEF RestrashNode, TypeOK, Counts
<1>9. CASE RewireNode(n)
  <2>1. hash' = erased \/ hash' = Insert(erased, p, n)
    BY <1>9 DEF RewireNode
  <2>2. DOMAIN hash' \subseteq Pair /\ hash' \in [DOMAIN hash' -> Index]
    BY <1>5, <1>6, <2>1
  <2>3. QED
    BY <1>3, <1>4, <1>9, <2>2 DEF RewireNode, TypeOK, Counts
<1>10. QED
  BY <1>7, <1>8, <1>9 DEF ReplaceInNode

\* The outputs that replace_in_outputs redirects are no more than there are.
LEMMA RedirectedCount ==
  ASSUME TypeOK
  PROVE  Cardinality(Redirected) \in 0 .. Len(outputs)
<1>1. Redirected \subseteq 1 .. Len(outputs) /\ Len(outputs) \in Nat
  BY DEF Redirected, TypeOK
<1>2. IsFiniteSet(1 .. Len(outputs)) /\ Cardinality(1 .. Len(outputs)) = Len(outputs)
  BY <1>1, FS_Interval
<1>3. IsFiniteSet(Redirected) /\ Cardinality(Redirected) <= Len(outputs)
  BY <1>1, <1>2, FS_Subset
<1>4. Cardinality(Redirected) \in Nat
  BY <1>3, FS_CardinalityType
<1>5. QED
  BY <1>1, <1>3, <1>4

\* The end of the substitution of one pair.
LEMMA FinishPairType ==
  ASSUME TypeOK, FinishPair
  PROVE  TypeOK'
<1>1. /\ sub.old \in Index /\ sub.new \in Signal
      /\ sub.new.node \in Index /\ sub.new.neg \in BOOLEAN
  BY DEF TypeOK, Substitution, Signal
<1>2. outputs' \in Seq(Signal)
  <2>1. outputs \in Seq(Signal) /\ DOMAIN outputs = 1 .. Len(outputs) /\ Len(outputs) \in Nat
    BY DEF TypeOK
  <2>2. \A i \in 1 .. Len(outputs) :
           outputs[i] \in Signal /\ Xor(sub.new, outputs[i].neg) \in Signal
    <3>1. \A i \in 1 .. Len(outputs) : outputs[i] \in Signal
      BY <2>1
    <3>2. \A i \in 1 .. Len(outputs) : outputs[i].neg \in BOOLEAN
      BY <3>1 DEF Signal
    <3>3. QED
      BY <1>1, <3>1, <3>2, XorType DEF Signal
  <2>3. outputs' \in [1 .. Len(outputs) -> Signal]
    BY <2>1, <2>2 DEF FinishPair, RedirectedOutputs
  <2>4. QED
    BY <2>1, <2>3
<1>3. h1' \in [Index -> 0 .. 2 * DeadBit - 1]
  <2> DEFINE k == Cardinality(Redirected)
  <2>1. h1[sub.new.node] \in Nat /\ k \in Nat
    BY <1>1, RedirectedCount, DeadBitAssumption DEF TypeOK
  <2>2. (h1[sub.new.node] + k) % (2 * DeadBit) \in 0 .. 2 * DeadBit - 1
    BY <2>1, Wraps
  <2>3. QED
    BY <2>2 DEF FinishPair, TypeOK
<1>4. DOMAIN renamed' \subseteq Index /\ renamed' \in [DOMAIN renamed' -> Signal]
  <2>1. DOMAIN renamed \subseteq Index /\ renamed \in [DOMAIN renamed -> Signal]
    BY DEF TypeOK
  <2>2. LET new == Insert(renamed, sub.old, sub.new)
        IN  DOMAIN new \subseteq Index /\ new \in [DOMAIN new -> Signal]
    BY <1>1, <2>1, InsertType
  <2>3. renamed' = renamed \/ renamed' = Insert(renamed, sub.old, sub.new)
    BY DEF FinishPair
  <2>4. QED
    BY <2>1, <2>2, <2>3
<1>5. calls' \in Seq(Frame)
  BY <1>1, CallType DEF FinishPair
<1>6. QED
  BY <1>2, <1>3, <1>4, <1>5 DEF FinishPair, TypeOK

\* The steps of substitute_node.
LEMMA SubstituteType ==
  ASSUME TypeOK, Substitute
  PROVE  TypeOK'
<1>1. /\ sub.old \in Index /\ sub.new \in Signal
      /\ sub.new.node \in Index /\ sub.new.neg \in BOOLEAN
  BY DEF TypeOK, Substitution, Signal
<1>2. CASE Return
  <2>1. [old |-> 0, new |-> Const0] \in Substitution
    BY MaxNodesAssumption DEF Substitution, Const0, Signal, Index
  <2>2. QED
    BY <1>2, <2>1 DEF Return, TypeOK, netVars
<1>3. CASE Pop
  <2>1. Head(todo) \in Substitution /\ Tail(todo) \in Seq(Substitution)
    BY <1>3, PopFromSeq DEF Pop, TypeOK
  <2>2. QED
    BY <1>3, <2>1 DEF Pop, TypeOK, netVars
<1>4. CASE Follow
  <2>1. renamed[sub.new.node] \in Signal
    BY <1>4 DEF Follow, TypeOK
  <2>2. Xor(renamed[sub.new.node], sub.new.neg) \in Signal
    BY <1>1, <2>1, XorType DEF Signal
  <2>3. sub' \in Substitution
    BY <1>1, <1>4, <2>2 DEF Follow, TypeOK, Substitution
  <2>4. QED
    BY <1>4, <2>3 DEF Follow, TypeOK, netVars
<1>5. CASE Resolved
  BY <1>1, <1>5, CallType DEF Resolved, TypeOK, netVars
<1>6. CASE Begin
  <2>1. Fanouts(sub.old) \subseteq Index
    BY NodesType DEF Fanouts
  <2>2. QED
    BY <1>6, <2>1 DEF Begin, TypeOK, netVars
<1>7. CASE Visit
  <2>1. PICK n \in scan : ReplaceInNode(n) /\ scan' = scan \ {n}
    BY <1>7 DEF Visit
  <2>2. n \in Index /\ scan' \subseteq Index
    BY <2>1 DEF TypeOK
  <2>3. QED
    BY <1>7, <2>1, <2>2, ReplaceInNodeType DEF Visit, TypeOK
<1>8. CASE FinishPair
  BY <1>8, FinishPairType
<1>9. QED
  BY <1>2, <1>3, <1>4, <1>5, <1>6, <1>7, <1>8 DEF Substitute

\* The calls of the restructuring operations.
LEMMA CallsType ==
  ASSUME TypeOK,
         \/ \E n \in Nodes : TakeOut(n)
         \/ \E o \in Nodes, s \in Signals : SubstituteNode(o, s)
         \/ SomeNoRestrash \/ SomeComplement
  PROVE  TypeOK'
<1> USE NodesType
<1>1. ASSUME NEW n \in Nodes, TakeOut(n)
      PROVE  TypeOK'
  BY <1>1, CallType DEF TakeOut, TypeOK, netVars, ctlVars
<1>2. ASSUME NEW o \in Nodes, NEW s \in Signals, SubstituteNode(o, s)
      PROVE  TypeOK'
  <2>1. [old |-> o, new |-> s] \in Substitution
    BY DEF Substitution
  <2>2. QED
    BY <1>2, <2>1 DEF SubstituteNode, TypeOK, netVars
<1>3. ASSUME NEW o \in Nodes, NEW s \in Signals, SubstituteNodeNoRestrash(o, s)
      PROVE  TypeOK'
  <2>1. [old |-> o, new |-> s] \in Substitution /\ s.node \in Index
    BY DEF Substitution, Signal
  <2>2. calls' \in Seq(Frame)
    BY <1>3, <2>1, CallType DEF SubstituteNodeNoRestrash
  <2>3. QED
    BY <1>3, <2>1, <2>2 DEF SubstituteNodeNoRestrash, TypeOK, netVars
<1>4. ASSUME NEW o \in Nodes, SubstituteComplement(o)
      PROVE  TypeOK'
  <2>1. [old |-> o, new |-> [node |-> o, neg |-> TRUE]] \in Substitution
    BY DEF Substitution, Signal
  <2>2. QED
    BY <1>4, <2>1 DEF SubstituteComplement, TypeOK, netVars
<1>5. QED
  BY <1>1, <1>2, <1>3, <1>4 DEF SomeNoRestrash, SomeComplement

\* Every step.
LEMMA NextType ==
  ASSUME TypeOK, [AnyNext]_vars
  PROVE  TypeOK'
<1>1. CASE UNCHANGED vars
  BY <1>1 DEF TypeOK, vars, netVars, ctlVars
<1>2. QED
  BY <1>1, BuildType, CallsType, UnwindType, SubstituteType DEF AnyNext, Next

\* Every variable of the network and of a running operation keeps its type:
\* the counts stay in their 32 bits, every index in the node array, and the
\* frames of take_out_node and revive_node at one of their three points.
THEOREM TypeCorrect == AnySpec => []TypeOK
<1>1. TypeOK /\ [AnyNext]_vars => TypeOK'
  BY NextType
<1>2. QED
  BY InitType, <1>1, PTL DEF AnySpec

-----------------------------------------------------------------------------
(* The inductive invariant behind HashSound.                               *)

\* Signals of nodes that exist, and frames of such nodes; only gates are revived.
NodeSignal == [node : Nodes, neg : BOOLEAN]
NodeFrame == {f \in Frame : f.node \in Nodes /\ (f.op = "revive" => IsGate(f.node))}

\* Whatever the network or the running substitution refers to exists.
Allocated ==
  /\ child \in [Index -> NodeSignal \X NodeSignal]
  /\ outputs \in Seq(NodeSignal)
  /\ todo \in Seq([old : Nodes, new : NodeSignal])
  /\ sub \in [old : Nodes, new : NodeSignal]
  /\ renamed \in [DOMAIN renamed -> NodeSignal]
  /\ calls \in Seq(NodeFrame)

\* A node that does not exist yet has no reference and is no input.
Fresh == \A n \in Index \ Nodes : h1[n] = 0 /\ ~isCi[n]
\* Neither the constant nor an input is ever dead.
OnlyGatesDie == \A n \in Nodes : Dead(n) => IsGate(n)
\* While the loop runs no call is active, and what it has to visit is live.
Scanning == pc = "scan" => calls = <<>> /\ scan \subseteq LiveGates

\* The inductive invariant.
IInv == TypeOK /\ Allocated /\ Fresh /\ OnlyGatesDie /\ Scanning /\ HashSound

\* The initial state satisfies the invariant.
LEMMA InitIInv == Init => IInv
<1> SUFFICES ASSUME Init PROVE IInv
  OBVIOUS
<1>1. TypeOK
  BY InitType
<1>2. Nodes = {0} /\ Const0 \in NodeSignal
  BY DEF Init, Nodes, Const0, NodeSignal
<1>3. Allocated
  <2>1. child \in [Index -> NodeSignal \X NodeSignal]
    BY <1>2 DEF Init
  <2>2. renamed \in [DOMAIN renamed -> NodeSignal]
    BY DEF Init
  <2>3. sub \in [old : Nodes, new : NodeSignal]
    BY <1>2 DEF Init
  <2>4. QED
    BY <1>2, <2>1, <2>2, <2>3 DEF Init, Allocated
<1>4. Fresh /\ OnlyGatesDie
  BY <1>2, DeadBitAssumption, MaxNodesAssumption DEF Init, Fresh, OnlyGatesDie, Dead, Index
<1>5. Scanning /\ HashSound
  BY DEF Init, Scanning, HashSound
<1>6. QED
  BY <1>1, <1>3, <1>4, <1>5 DEF IInv

-----------------------------------------------------------------------------
(* The counts.                                                             *)

\* Where a count that has reached neither end of its range is afterwards.
LEMMA CountsUp ==
  ASSUME TypeOK, NoOverflow, NEW n \in Index, NEW k \in 0 .. Len(outputs) + 1,
         NEW m \in Index, ~Dead(m)
  PROVE  [h1 EXCEPT ![n] = (@ + k) % (2 * DeadBit)][m] < DeadBit
<1>1. h1 \in [Index -> Nat] /\ Len(outputs) \in Nat /\ DeadBit \in Nat
  BY DeadBitAssumption DEF TypeOK
<1>2. h1[m] < DeadBit /\ h1[m] + Len(outputs) + 1 < DeadBit
  BY <1>1 DEF Dead, NoOverflow
<1>3. (h1[m] + k) % (2 * DeadBit) = h1[m] + k
  BY <1>1, <1>2, WrapsNot
<1>4. QED
  BY <1>1, <1>2, <1>3

\* -- of a count that is not 0, and a live node whose count goes down.
LEMMA OneDown ==
  ASSUME NEW x \in Nat, x # 0, x < DeadBit
  PROVE  (x + 2 * DeadBit - 1) % (2 * DeadBit) = x - 1
  BY DeadBitAssumption

\* Releasing a reference that is there makes no live node dead.
LEMMA CountsDown ==
  ASSUME TypeOK, NEW n \in Index, FanoutSize(n) # 0, NEW m \in Index, ~Dead(m)
  PROVE  Decr(h1, n)[m] < DeadBit
<1>1. h1 \in [Index -> Nat] /\ DeadBit \in Nat
  BY DeadBitAssumption DEF TypeOK
<1>2. h1[m] < DeadBit
  BY <1>1 DEF Dead
<1>3. CASE m = n
  <2>1. h1[m] # 0
    BY <1>1, <1>2, <1>3, FanoutSizeOfLive DEF FanoutSize
  <2>2. QED
    BY <1>1, <1>2, <1>3, <2>1, OneDown DEF Decr
<1>4. CASE m # n
  BY <1>1, <1>2, <1>4 DEF Decr
<1>5. QED
  BY <1>3, <1>4

\* What Allocated says of the parts that the actions read.
LEMMA AllocatedParts ==
  ASSUME IInv
  PROVE  /\ Nodes \subseteq Index /\ 0 \in Nodes /\ NodeSignal \subseteq Signal
         /\ sub.old \in Nodes /\ sub.new \in NodeSignal /\ sub.new.node \in Nodes
         /\ \A n \in Index, i \in {1, 2} :
               child[n][i] \in NodeSignal /\ child[n][i].node \in Nodes
<1>1. Nodes \subseteq Index /\ 0 \in Nodes
  BY NodesType DEF IInv, TypeOK, Nodes
<1>2. QED
  BY <1>1 DEF IInv, Allocated, NodeSignal, Signal

\* The innermost frame and what is below it.
LEMMA FrameParts ==
  ASSUME IInv, calls # <<>>
  PROVE  /\ Head(calls) \in NodeFrame /\ Head(calls).node \in Nodes
         /\ Head(calls).at \in 0 .. 2
         /\ Head(calls).op = "revive" => IsGate(Head(calls).node)
         /\ Tail(calls) \in Seq(NodeFrame)
         /\ Advance \in Seq(NodeFrame)
<1> DEFINE f == Head(calls)
<1>1. f \in NodeFrame /\ Tail(calls) \in Seq(NodeFrame)
  BY PopFromSeq DEF IInv, Allocated
<1>2. /\ f \in Frame /\ f.node \in Nodes /\ f.at \in 0 .. 2
      /\ f.op = "revive" => IsGate(f.node)
  BY <1>1 DEF NodeFrame, Frame
<1>3. CASE f.at < 2
  <2>1. [f EXCEPT !.at = @ + 1] \in Frame
    BY <1>2, <1>3 DEF Frame
  <2>2. [f EXCEPT !.at = @ + 1] \in NodeFrame
    BY <1>2, <2>1 DEF NodeFrame, Frame
  <2>3. QED
    BY <1>1, <1>2, <1>3, <2>2, PushInSeq DEF Advance
<1>4. CASE ~(f.at < 2)
  BY <1>1, <1>2, <1>4 DEF Advance
<1>5. QED
  BY <1>1, <1>2, <1>3, <1>4

\* A step changes no count outside of the network, and kills at most the
\* node that take_out_node enters.
LEMMA CountsStep ==
  ASSUME IInv, NoOverflow, [AnyNext]_vars
  PROVE  /\ \A m \in Index \ Nodes : h1'[m] = h1[m]
         /\ \A m \in Nodes : ~Dead(m) /\ Dead(m)' =>
               TakeOutEnter /\ m = Head(calls).node
<1> DEFINE Goal == /\ \A m \in Index \ Nodes : h1'[m] = h1[m]
                   /\ \A m \in Nodes : ~Dead(m) /\ Dead(m)' =>
                         TakeOutEnter /\ m = Head(calls).node
<1> USE AllocatedParts
<1>1. /\ TypeOK /\ h1 \in [Index -> Nat] /\ DeadBit \in Nat
      /\ Len(outputs) \in Nat
  <2>1. TypeOK
    BY DEF IInv
  <2>2. QED
    BY ONLY <2>1, DeadBitAssumption DEF TypeOK
<1>counts. \A m \in Index : h1'[m] \in Nat
  <2>1. TypeOK'
    BY <1>1, NextType
  <2>2. h1' \in [Index -> 0 .. 2 * DeadBit - 1]
    BY <2>1 DEF TypeOK
  <2>3. QED
    BY <1>1, <2>2
<1>2. CASE h1' = h1
  BY <1>2 DEF Dead
<1>3. ASSUME NEW n \in Nodes, NEW k \in 0 .. Len(outputs) + 1,
             h1' = [h1 EXCEPT ![n] = (@ + k) % (2 * DeadBit)]
      PROVE  Goal
  <2>1. \A m \in Index \ Nodes : h1'[m] = h1[m]
    BY <1>1, <1>3
  <2>2. \A m \in Nodes : ~Dead(m) => h1'[m] < DeadBit
    BY <1>1, <1>3, CountsUp
  <2>3. QED
    BY <1>1, <1>counts, <2>1, <2>2 DEF Dead
<1>4. ASSUME NEW n \in Nodes, h1' = Incr(h1, n)
      PROVE  Goal
  <2>1. 1 \in 0 .. Len(outputs) + 1
    BY <1>1
  <2>2. h1' = [h1 EXCEPT ![n] = (@ + 1) % (2 * DeadBit)]
    BY <1>4 DEF Incr
  <2>3. QED
    BY <1>3, <2>1, <2>2
<1>5. ASSUME NEW n \in Nodes, FanoutSize(n) # 0, h1' = Decr(h1, n)
      PROVE  Goal
  <2>1. \A m \in Index \ Nodes : h1'[m] = h1[m]
    BY <1>1, <1>5 DEF Decr
  <2>2. \A m \in Nodes : ~Dead(m) => h1'[m] < DeadBit
    BY <1>1, <1>5, CountsDown
  <2>3. QED
    BY <1>1, <1>counts, <2>1, <2>2 DEF Dead
<1>6. CASE Build
  <2>1. CASE CreatePi
    BY <1>2, <2>1 DEF CreatePi
  <2>2. ASSUME NEW f \in LiveSignals, CreatePo(f)
        PROVE  Goal
    BY <1>4, <2>2 DEF CreatePo, LiveSignals, Signals
  <2>3. ASSUME NEW a \in LiveSignals, NEW b \in LiveSignals, CreateAnd(a, b)
        PROVE  Goal
    <3>1. a.node \in Nodes /\ b.node \in Nodes
      BY DEF LiveSignals, Signals
    <3>2. a.node # b.node
      BY <2>3 DEF CreateAnd, IsTrivial, Ordered
    <3>3. h1' = [h1 EXCEPT ![a.node] = (@ + 1) % (2 * DeadBit),
                           ![b.node] = (@ + 1) % (2 * DeadBit)]
      BY <1>1, <2>3, <3>1, <3>2 DEF CreateAnd, Incr
    <3>4. \A m \in Index : \/ h1'[m] = h1[m]
                           \/ /\ m \in Nodes
                              /\ h1'[m] = [h1 EXCEPT ![m] = (@ + 1) % (2 * DeadBit)][m]
      BY <1>1, <3>1, <3>3
    <3>5. 1 \in 0 .. Len(outputs) + 1
      BY <1>1
    <3>6. \A m \in Nodes : ~Dead(m) =>
             [h1 EXCEPT ![m] = (@ + 1) % (2 * DeadBit)][m] < DeadBit
      BY <1>1, <3>5, CountsUp
    <3>7. \A m \in Index \ Nodes : h1'[m] = h1[m]
      BY <3>4
    <3>8. \A m \in Nodes : ~Dead(m) => h1'[m] < DeadBit
      <4> SUFFICES ASSUME NEW m \in Nodes, ~Dead(m)  PROVE h1'[m] < DeadBit
        OBVIOUS
      <4>1. m \in Index /\ h1[m] < DeadBit
        BY <1>1 DEF Dead, Nodes, Index, TypeOK
      <4>2. QED
        BY <3>4, <3>6, <4>1
    <3>9. QED
      BY <1>1, <1>counts, <3>7, <3>8 DEF Dead
  <2>4. QED
    BY <1>6, <2>1, <2>2, <2>3 DEF Build
<1>7. CASE Unwind
  <2> DEFINE f == Head(calls)
             c == child[f.node][f.at].node
  <2>1. calls # <<>>
    BY <1>7 DEF Unwind, TakeOutIgnored, TakeOutEnter, TakeOutFanin, ReviveEnter, ReviveFanin, InCall
  <2>2. f.node \in Nodes /\ f.node \in Index
    BY <2>1, FrameParts
  <2>3. CASE TakeOutIgnored
    BY <1>2, <2>3 DEF TakeOutIgnored, netVars
  <2>4. CASE TakeOutEnter
    BY <1>1, <2>2, <2>4 DEF TakeOutEnter, Dead
  <2>5. CASE TakeOutFanin
    <3>1. f.at \in {1, 2}
      BY <2>5 DEF TakeOutFanin, InCall
    <3>2. c \in Nodes
      BY <2>2, <3>1
    <3>3. h1' = h1 \/ (FanoutSize(c) # 0 /\ h1' = Decr(h1, c))
      BY <2>5 DEF TakeOutFanin
    <3>4. QED
      BY <1>2, <1>5, <3>2, <3>3
  <2>6. CASE ReviveEnter
    BY <1>1, <2>2, <2>6, DeadBitAssumption DEF ReviveEnter, Dead
  <2>7. CASE ReviveFanin
    <3>1. f.at \in {1, 2}
      BY <2>7 DEF ReviveFanin, InCall
    <3>2. c \in Nodes
      BY <2>2, <3>1
    <3>3. h1' = h1 \/ h1' = Incr(h1, c)
      BY <2>7 DEF ReviveFanin
    <3>4. QED
      BY <1>2, <1>4, <3>2, <3>3
  <2>8. QED
    BY <1>7, <2>3, <2>4, <2>5, <2>6, <2>7 DEF Unwind
<1>8. CASE Substitute
  <2>1. CASE Return \/ Pop \/ Follow \/ Resolved \/ Begin
    BY <1>2, <2>1 DEF Return, Pop, Follow, Resolved, Begin, netVars
  <2>2. CASE Visit
    <3>1. h1' = h1 \/ h1' = Incr(h1, sub.new.node)
      BY <2>2 DEF Visit, ReplaceInNode, CollapseNode, RestrashNode, RewireNode, netVars
    <3>2. QED
      BY <1>2, <1>4, <3>1
  <2>3. CASE FinishPair
    <3> DEFINE k == Cardinality(Redirected)
    <3>1. k \in 0 .. Len(outputs) + 1
      BY <1>1, RedirectedCount
    <3>2. h1' = [h1 EXCEPT ![sub.new.node] = (@ + k) % (2 * DeadBit)]
      BY <2>3 DEF FinishPair
    <3>3. QED
      BY <1>3, <3>1, <3>2
  <2>4. QED
    BY <1>8, <2>1, <2>2, <2>3 DEF Substitute
<1>9. CASE \/ \E n \in Nodes : TakeOut(n)
           \/ \E o \in Nodes, s \in Signals : SubstituteNode(o, s)
           \/ SomeNoRestrash \/ SomeComplement \/ UNCHANGED vars
  BY <1>2, <1>9 DEF TakeOut, SubstituteNode, SomeNoRestrash, SomeComplement,
                    SubstituteNodeNoRestrash, SubstituteComplement, netVars, vars
<1>10. QED
  BY <1>6, <1>7, <1>8, <1>9 DEF AnyNext, Next

-----------------------------------------------------------------------------
(* What exists.                                                            *)

\* Nodes are never removed, and none becomes or ceases to be an input.
LEMMA NodesGrow ==
  ASSUME IInv, [AnyNext]_vars
  PROVE  /\ \/ UNCHANGED <<size, isCi>>
            \/ CreatePi
            \/ \E a, b \in LiveSignals : CreateAnd(a, b)
         /\ Nodes \subseteq Nodes'
         /\ \A n \in Nodes : isCi'[n] = isCi[n]
         /\ \A n \in Index \ Nodes' : isCi'[n] = isCi[n]
<1>1. \/ UNCHANGED <<size, isCi>>
      \/ CreatePi
      \/ \E a, b \in LiveSignals : CreateAnd(a, b)
  BY DEF AnyNext, Next, Build, CreatePo, TakeOut, SubstituteNode, SomeNoRestrash,
         SomeComplement, SubstituteNodeNoRestrash, SubstituteComplement, Unwind, TakeOutIgnored,
         TakeOutEnter, TakeOutFanin, ReviveEnter, ReviveFanin, Substitute, Return,
         Pop, Follow, Resolved, Begin, Visit, ReplaceInNode, CollapseNode,
         RestrashNode, RewireNode, FinishPair, netVars, vars
<1>2. size \in Nat /\ isCi \in [Index -> BOOLEAN] /\ Nodes \subseteq Index
  BY AllocatedParts DEF IInv, TypeOK
<1>3. CASE UNCHANGED <<size, isCi>>
  BY <1>1, <1>3 DEF Nodes
<1>4. CASE CreatePi
  <2>1. size' = size + 1 /\ isCi' = [isCi EXCEPT ![size] = TRUE]
    BY <1>4 DEF CreatePi
  <2>2. Nodes \subseteq Nodes' /\ size \in Nodes' \ Nodes
    BY <1>2, <2>1 DEF Nodes
  <2>3. QED
    BY <1>1, <1>2, <2>1, <2>2
<1>5. CASE \E a, b \in LiveSignals : CreateAnd(a, b)
  <2>1. size' = size + 1 /\ isCi' = isCi
    BY <1>5 DEF CreateAnd
  <2>2. Nodes \subseteq Nodes'
    BY <1>2, <2>1 DEF Nodes
  <2>3. QED
    BY <1>1, <2>1, <2>2
<1>6. QED
  BY <1>1, <1>3, <1>4, <1>5

\* What exists goes on existing when the network grows.
LEMMA AllocatedWiden ==
  ASSUME IInv, [AnyNext]_vars, UNCHANGED <<outputs, todo, sub, renamed, calls>>
  PROVE  /\ NodeSignal \subseteq NodeSignal'
         /\ child \in [Index -> NodeSignal' \X NodeSignal']
         /\ outputs' \in Seq(NodeSignal') /\ calls' \in Seq(NodeFrame')
         /\ todo' \in Seq([old : Nodes', new : NodeSignal'])
         /\ sub' \in [old : Nodes', new : NodeSignal']
         /\ renamed' \in [DOMAIN renamed' -> NodeSignal']
<1>1. Nodes \subseteq Nodes' /\ \A n \in Nodes : isCi'[n] = isCi[n]
  BY NodesGrow
<1>2. NodeSignal \subseteq NodeSignal' /\ NodeFrame \subseteq NodeFrame'
  BY <1>1 DEF NodeSignal, NodeFrame, IsGate
<1>3. [old : Nodes, new : NodeSignal] \subseteq [old : Nodes', new : NodeSignal']
  BY <1>1, <1>2
<1>4. /\ outputs \in Seq(NodeSignal) /\ calls \in Seq(NodeFrame)
      /\ todo \in Seq([old : Nodes, new : NodeSignal])
      /\ sub \in [old : Nodes, new : NodeSignal]
      /\ renamed \in [DOMAIN renamed -> NodeSignal]
      /\ child \in [Index -> NodeSignal \X NodeSignal]
  BY DEF IInv, Allocated
<1>5. /\ outputs \in Seq(NodeSignal') /\ calls \in Seq(NodeFrame')
      /\ todo \in Seq([old : Nodes', new : NodeSignal'])
  BY <1>2, <1>3, <1>4, SeqMonotonic
<1>6. QED
  BY <1>2, <1>3, <1>4, <1>5

\* Clients build on what exists.
LEMMA AllocatedBuild ==
  ASSUME IInv, Build
  PROVE  Allocated'
<1> USE AllocatedParts
<1>1. [AnyNext]_vars
  BY DEF AnyNext, Next
<1>2. CASE CreatePi
  <2>1. UNCHANGED <<child, outputs, todo, sub, renamed, calls>>
    BY <1>2 DEF CreatePi, ctlVars
  <2>2. QED
    BY <1>1, <2>1, AllocatedWiden DEF Allocated
<1>3. ASSUME NEW f \in LiveSignals, CreatePo(f)
      PROVE  Allocated'
  <2>1. f \in NodeSignal
    BY PolarityAssumption DEF LiveSignals, Signals, NodeSignal
  <2>2. outputs' \in Seq(NodeSignal)
    BY <1>3, <2>1 DEF CreatePo, IInv, Allocated
  <2>3. UNCHANGED <<size, isCi, child, ctlVars, calls>>
    BY <1>3 DEF CreatePo
  <2>4. QED
    BY <2>2, <2>3 DEF IInv, Allocated, Nodes, NodeSignal, NodeFrame, IsGate, ctlVars
<1>4. ASSUME NEW a \in LiveSignals, NEW b \in LiveSignals, CreateAnd(a, b)
      PROVE  Allocated'
  <2> DEFINE p == Ordered(a, b)
  <2>1. a \in NodeSignal /\ b \in NodeSignal
    BY PolarityAssumption DEF LiveSignals, Signals, NodeSignal
  <2>2. p \in NodeSignal \X NodeSignal
    BY <2>1, OrderedType
  <2>3. UNCHANGED <<outputs, todo, sub, renamed, calls>>
    BY <1>4 DEF CreateAnd, ctlVars
  <2>4. NodeSignal \subseteq NodeSignal'
    BY <1>1, <2>3, AllocatedWiden
  <2>5. child' \in [Index -> NodeSignal' \X NodeSignal']
    <3>1. p \in NodeSignal' \X NodeSignal'
      BY <2>2, <2>4
    <3>2. child \in [Index -> NodeSignal' \X NodeSignal']
      BY <1>1, <2>3, AllocatedWiden
    <3>3. child' = [child EXCEPT ![size] = p]
      BY <1>4 DEF CreateAnd
    <3>4. QED
      BY <3>1, <3>2, <3>3
  <2>6. QED
    BY <1>1, <2>3, <2>5, AllocatedWiden DEF Allocated
<1>5. QED
  BY <1>2, <1>3, <1>4 DEF Build

\* A new frame for a node that exists.
LEMMA NodeCallType ==
  ASSUME NEW op \in {"take_out", "revive"}, NEW n \in Nodes, Nodes \subseteq Index,
         op = "revive" => IsGate(n)
  PROVE  Call(op, n) \in NodeFrame /\ <<Call(op, n)>> \in Seq(NodeFrame)
<1>1. Call(op, n) \in NodeFrame
  BY CallType DEF Call, NodeFrame
<1>2. QED
  BY <1>1

\* take_out_node and revive_node refer to what exists: they follow fanins.
LEMMA AllocatedUnwind ==
  ASSUME IInv, Unwind
  PROVE  Allocated'
<1> DEFINE f == Head(calls)
           n == f.node
           c == child[n][f.at].node
<1> USE AllocatedParts
<1>1. calls # <<>>
  BY DEF Unwind, TakeOutIgnored, TakeOutEnter, TakeOutFanin, ReviveEnter, ReviveFanin, InCall
<1>2. /\ Tail(calls) \in Seq(NodeFrame) /\ Advance \in Seq(NodeFrame)
      /\ calls \in Seq(NodeFrame) /\ n \in Index
  BY <1>1, FrameParts DEF IInv, Allocated
<1>3. UNCHANGED <<size, isCi, child, outputs, ctlVars>>
  BY DEF Unwind, TakeOutIgnored, TakeOutEnter, TakeOutFanin, ReviveEnter, ReviveFanin, netVars
<1>4. calls' \in Seq(NodeFrame)
  <2>1. CASE TakeOutIgnored \/ TakeOutEnter \/ ReviveEnter
    BY <1>2, <2>1 DEF TakeOutIgnored, TakeOutEnter, ReviveEnter
  <2>2. CASE TakeOutFanin
    <3>1. c \in Nodes
      BY <1>2, <2>2 DEF TakeOutFanin, InCall
    <3>2. <<Call("take_out", c)>> \o Advance \in Seq(NodeFrame)
      BY <1>2, <3>1, NodeCallType, PushInSeq
    <3>3. QED
      BY <1>2, <2>2, <3>2 DEF TakeOutFanin
  <2>3. CASE ReviveFanin
    <3>1. c \in Nodes
      BY <1>2, <2>3 DEF ReviveFanin, InCall
    <3>2. CASE Dead(c)
      <4>1. IsGate(c)
        BY <3>1, <3>2 DEF IInv, OnlyGatesDie
      <4>2. <<Call("revive", c)>> \o calls \in Seq(NodeFrame)
        BY <1>2, <3>1, <4>1, NodeCallType, PushInSeq
      <4>3. QED
        BY <2>3, <3>2, <4>2 DEF ReviveFanin
    <3>3. CASE ~Dead(c)
      BY <1>2, <2>3, <3>3 DEF ReviveFanin
    <3>4. QED
      BY <3>2, <3>3
  <2>4. QED
    BY <2>1, <2>2, <2>3 DEF Unwind
<1>5. QED
  BY <1>3, <1>4 DEF IInv, Allocated, Nodes, NodeSignal, NodeFrame, IsGate, ctlVars

\* What replace_in_node computes and finds exists.
LEMMA RewiredAllocated ==
  ASSUME IInv, NEW n \in Index
  PROVE  /\ Rewired(n) \in NodeSignal \X NodeSignal
         /\ IsEqual(Rewired(n)) => Equal(Rewired(n)) \in NodeSignal
<1> DEFINE p == Rewired(n)
<1>1. \A i \in {1, 2} : child[n][i] \in NodeSignal /\ child[n][3 - i] \in NodeSignal
  BY AllocatedParts
<1>2. \A i \in {1, 2} : Xor(sub.new, child[n][i].neg) \in NodeSignal
  BY <1>1, AllocatedParts, XorType DEF NodeSignal
<1>3. PICK i \in {1, 2} : p = Ordered(child[n][3 - i], Xor(sub.new, child[n][i].neg))
  BY DEF Rewired
<1>4. p \in NodeSignal \X NodeSignal
  BY <1>1, <1>2, <1>3, OrderedType
<1>5. Const0 \in NodeSignal
  BY AllocatedParts DEF Const0, NodeSignal
<1>6. ASSUME IsEqual(p) PROVE Equal(p) \in NodeSignal
  <2>1. CASE IsTrivial(p)
    BY <1>4, <1>5, <2>1 DEF Equal, TrivialAnd
  <2>2. CASE ~IsTrivial(p)
    BY <1>6, <2>2 DEF Equal, IsEqual, NodeSignal, IInv, HashSound, LiveGates
  <2>3. QED
    BY <2>1, <2>2
<1>7. QED
  BY <1>4, <1>6

\* substitute_node refers to what exists: old_to_new and the table say so.
LEMMA AllocatedSubstitute ==
  ASSUME IInv, Substitute
  PROVE  Allocated'
<1> USE AllocatedParts
<1> DEFINE Pending == [old : Nodes, new : NodeSignal]
<1>1. /\ child \in [Index -> NodeSignal \X NodeSignal]
      /\ outputs \in Seq(NodeSignal)
      /\ todo \in Seq(Pending) /\ sub \in Pending
      /\ renamed \in [DOMAIN renamed -> NodeSignal]
      /\ calls \in Seq(NodeFrame)
  BY DEF IInv, Allocated
<1>2. /\ Const0 \in NodeSignal /\ [old |-> 0, new |-> Const0] \in Pending
      /\ sub.new \in [node : Nodes, neg : BOOLEAN] /\ sub.new.neg \in BOOLEAN
  BY DEF Const0, NodeSignal
<1>3. UNCHANGED <<size, isCi>>
  BY DEF Substitute, Return, Pop, Follow, Resolved, Begin, Visit, ReplaceInNode,
         CollapseNode, RestrashNode, RewireNode, FinishPair, netVars
<1>4. SUFFICES /\ child' \in [Index -> NodeSignal \X NodeSignal]
               /\ outputs' \in Seq(NodeSignal)
               /\ todo' \in Seq(Pending) /\ sub' \in Pending
               /\ renamed' \in [DOMAIN renamed' -> NodeSignal]
               /\ calls' \in Seq(NodeFrame)
  BY <1>3 DEF Allocated, Nodes, NodeSignal, NodeFrame, IsGate
<1>5. CASE Return
  BY <1>1, <1>2, <1>5 DEF Return, netVars
<1>6. CASE Pop
  <2>1. Head(todo) \in Pending /\ Tail(todo) \in Seq(Pending)
    BY <1>1, <1>6, PopFromSeq DEF Pop
  <2>2. QED
    BY <1>1, <1>6, <2>1 DEF Pop, netVars
<1>7. CASE Follow
  <2>1. renamed[sub.new.node] \in NodeSignal
    BY <1>1, <1>7 DEF Follow
  <2>2. Xor(renamed[sub.new.node], sub.new.neg) \in NodeSignal
    BY <1>2, <2>1, XorType DEF NodeSignal
  <2>3. sub' \in Pending
    BY <1>1, <1>7, <2>2 DEF Follow
  <2>4. QED
    BY <1>1, <1>7, <2>3 DEF Follow, netVars
<1>8. CASE Resolved
  <2>1. calls' \in Seq(NodeFrame)
    <3>1. Dead(sub.new.node) => IsGate(sub.new.node)
      BY DEF IInv, OnlyGatesDie
    <3>2. Dead(sub.new.node) => <<Call("revive", sub.new.node)>> \in Seq(NodeFrame)
      BY <3>1, NodeCallType
    <3>3. QED
      BY <1>8, <3>2 DEF Resolved
  <2>2. QED
    BY <1>1, <1>8, <2>1 DEF Resolved, netVars
<1>9. CASE Begin
  BY <1>1, <1>9 DEF Begin, netVars
<1>10. CASE Visit
  <2>1. PICK n \in scan : ReplaceInNode(n)
    BY <1>10 DEF Visit
  <2>2. n \in Index /\ n \in Nodes
    BY <1>10, <2>1 DEF IInv, TypeOK, Scanning, Visit, LiveGates
  <2>3. child' \in [Index -> NodeSignal \X NodeSignal]
    BY <1>1, <2>1, <2>2, RewiredAllocated
    DEF ReplaceInNode, CollapseNode, RestrashNode, RewireNode, netVars
  <2>4. todo' \in Seq(Pending)
    <3>1. CASE CollapseNode(n)
      <4>1. [old |-> n, new |-> Equal(Rewired(n))] \in Pending
        BY <2>2, <3>1, RewiredAllocated DEF CollapseNode
      <4>2. QED
        BY <1>1, <3>1, <4>1, PushInSeq DEF CollapseNode
    <3>2. CASE RestrashNode(n) \/ RewireNode(n)
      BY <1>1, <3>2 DEF RestrashNode, RewireNode
    <3>3. QED
      BY <2>1, <3>1, <3>2 DEF ReplaceInNode
  <2>5. UNCHANGED <<outputs, sub, renamed, calls>>
    BY <1>10, <2>1 DEF Visit, ReplaceInNode, CollapseNode, RestrashNode, RewireNode, netVars
  <2>6. QED
    BY <1>1, <2>3, <2>4, <2>5
<1>11. CASE FinishPair
  <2>1. outputs' \in Seq(NodeSignal)
    <3>1. DOMAIN outputs = 1 .. Len(outputs) /\ Len(outputs) \in Nat
      BY <1>1
    <3>2. \A i \in 1 .. Len(outputs) : outputs[i] \in NodeSignal
      BY <1>1
    <3>3. \A i \in 1 .. Len(outputs) : outputs[i].neg \in BOOLEAN
      BY <3>2 DEF NodeSignal
    <3>4. \A i \in 1 .. Len(outputs) : Xor(sub.new, outputs[i].neg) \in NodeSignal
      BY <1>2, <3>3, XorType DEF NodeSignal
    <3>5. outputs' \in [1 .. Len(outputs) -> NodeSignal]
      BY <1>11, <3>1, <3>2, <3>4 DEF FinishPair, RedirectedOutputs
    <3>6. QED
      BY <3>1, <3>5
  <2>2. renamed' \in [DOMAIN renamed' -> NodeSignal]
    <3>1. LET new == Insert(renamed, sub.old, sub.new)
          IN  new \in [DOMAIN new -> NodeSignal]
      BY <1>1 DEF Insert
    <3>2. QED
      BY <1>1, <1>11, <3>1 DEF FinishPair
  <2>3. calls' \in Seq(NodeFrame)
    BY <1>11, NodeCallType DEF FinishPair
  <2>4. QED
    BY <1>1, <1>11, <2>1, <2>2, <2>3 DEF FinishPair
<1>12. QED
  BY <1>5, <1>6, <1>7, <1>8, <1>9, <1>10, <1>11 DEF Substitute

\* Every step.
LEMMA AllocatedStep ==
  ASSUME IInv, [AnyNext]_vars
  PROVE  Allocated'
<1> USE AllocatedParts
<1>1. CASE Build
  BY <1>1, AllocatedBuild
<1>2. ASSUME NEW n \in Nodes, TakeOut(n)
      PROVE  Allocated'
  <2>1. calls' \in Seq(NodeFrame)
    BY <1>2, NodeCallType DEF TakeOut
  <2>2. QED
    BY <1>2, <2>1 DEF TakeOut, IInv, Allocated, Nodes, NodeSignal, NodeFrame, IsGate,
                      netVars, ctlVars
<1>3. ASSUME NEW o \in Nodes, NEW s \in Signals, SubstituteNode(o, s)
      PROVE  Allocated'
  <2>1. s \in NodeSignal
    BY PolarityAssumption DEF Signals, NodeSignal
  <2>2. todo' \in Seq([old : Nodes, new : NodeSignal])
    BY <1>3, <2>1 DEF SubstituteNode
  <2>3. QED
    BY <1>3, <2>2 DEF SubstituteNode, IInv, Allocated, Nodes, NodeSignal, NodeFrame,
                      IsGate, netVars
<1>4. ASSUME NEW o \in Nodes, NEW s \in Signals, SubstituteNodeNoRestrash(o, s)
      PROVE  Allocated'
  <2>1. s \in NodeSignal /\ s.node \in Nodes
    BY PolarityAssumption DEF Signals, NodeSignal
  <2>2. calls' \in Seq(NodeFrame)
    BY <1>4, <2>1, NodeCallType DEF SubstituteNodeNoRestrash, IInv, OnlyGatesDie
  <2>3. sub' \in [old : Nodes, new : NodeSignal]
    BY <1>4, <2>1 DEF SubstituteNodeNoRestrash
  <2>4. QED
    BY <1>4, <2>2, <2>3 DEF SubstituteNodeNoRestrash, IInv, Allocated, Nodes,
                            NodeSignal, NodeFrame, IsGate, netVars
<1>5. ASSUME NEW o \in Nodes, SubstituteComplement(o)
      PROVE  Allocated'
  <2>1. todo' \in Seq([old : Nodes, new : NodeSignal])
    BY <1>5 DEF SubstituteComplement, NodeSignal
  <2>2. QED
    BY <1>5, <2>1 DEF SubstituteComplement, IInv, Allocated, Nodes, NodeSignal,
                      NodeFrame, IsGate, netVars
<1>6. CASE UNCHANGED vars
  BY <1>6 DEF IInv, Allocated, Nodes, NodeSignal, NodeFrame, IsGate, vars, netVars, ctlVars
<1>7. QED
  BY <1>1, <1>2, <1>3, <1>4, <1>5, <1>6, AllocatedUnwind, AllocatedSubstitute
  DEF AnyNext, Next, SomeNoRestrash, SomeComplement

-----------------------------------------------------------------------------
(* The hash table.                                                         *)

\* A new node starts without references, and only gates die.
LEMMA FreshStep ==
  ASSUME IInv, NoOverflow, [AnyNext]_vars
  PROVE  Fresh' /\ OnlyGatesDie'
<1>1. /\ Nodes \subseteq Index /\ Nodes \subseteq Nodes'
      /\ \A n \in Nodes : isCi'[n] = isCi[n]
      /\ \A n \in Index \ Nodes' : isCi'[n] = isCi[n]
  BY AllocatedParts, NodesGrow
<1>2. Fresh'
  BY <1>1, CountsStep DEF IInv, Fresh
<1>3. OnlyGatesDie'
  <2> SUFFICES ASSUME NEW n \in Nodes', Dead(n)'
               PROVE  IsGate(n)'
    BY DEF OnlyGatesDie
  <2>1. CASE n \notin Nodes
    <3>1. size' \in 1 .. MaxNodes
      BY NextType DEF IInv, TypeOK
    <3>2. \A k \in 1 .. MaxNodes : 0 .. k - 1 \subseteq Index
      BY MaxNodesAssumption DEF Index
    <3>3. n \in Index
      BY <3>1, <3>2 DEF Nodes
    <3>4. h1'[n] = 0
      BY <2>1, <3>3, CountsStep DEF IInv, Fresh
    <3>5. QED
      BY <3>4, DeadBitAssumption DEF Dead
  <2>2. CASE n \in Nodes /\ Dead(n)
    BY <1>1, <2>2 DEF IInv, OnlyGatesDie, IsGate
  <2>3. CASE n \in Nodes /\ ~Dead(n)
    <3>1. IsGate(n)
      BY <2>3, CountsStep DEF TakeOutEnter
    <3>2. QED
      BY <1>1, <2>3, <3>1 DEF IsGate
  <2>4. QED
    BY <2>1, <2>2, <2>3
<1>4. QED
  BY <1>2, <1>3

\* A live gate stays one, unless take_out_node enters it.
LEMMA LiveStep ==
  ASSUME IInv, NoOverflow, [AnyNext]_vars, NEW n \in LiveGates,
         ~(TakeOutEnter /\ n = Head(calls).node)
  PROVE  n \in LiveGates'
<1>1. n \in Nodes /\ IsGate(n) /\ ~Dead(n)
  BY DEF LiveGates
<1>2. n \in Nodes' /\ IsGate(n)'
  BY <1>1, NodesGrow DEF IsGate
<1>3. ~Dead(n)'
  BY <1>1, CountsStep
<1>4. QED
  BY <1>2, <1>3 DEF LiveGates

\* The nodes that the loop has still to visit stay live: nothing is taken out
\* while it runs.
LEMMA ScanningStep ==
  ASSUME IInv, NoOverflow, [AnyNext]_vars
  PROVE  Scanning'
<1>1. CASE Begin
  <2>1. ~TakeOutEnter
    BY <1>1 DEF Begin, TakeOutEnter, InCall
  <2>2. scan' \subseteq LiveGates /\ calls' = <<>>
    BY <1>1 DEF Begin, Fanouts
  <2>3. QED
    BY <2>1, <2>2, LiveStep DEF Scanning
<1>2. CASE Visit
  <2>1. calls = <<>> /\ calls' = <<>> /\ scan' \subseteq LiveGates
    BY <1>2 DEF Visit, IInv, Scanning
  <2>2. ~TakeOutEnter
    BY <2>1 DEF TakeOutEnter, InCall
  <2>3. QED
    BY <2>1, <2>2, LiveStep DEF Scanning
<1>3. CASE /\ pc' = "scan" => pc = "scan" /\ calls # <<>>
  BY <1>3 DEF IInv, Scanning
<1>4. CASE UNCHANGED vars
  BY <1>4 DEF IInv, Scanning, LiveGates, Nodes, IsGate, Dead, vars, netVars, ctlVars
<1>5. CASE Build \/ (\E n \in Nodes : TakeOut(n))
  <2>1. pc' = "idle"
    BY <1>5 DEF Build, CreatePi, CreatePo, CreateAnd, TakeOut, Idle, ctlVars
  <2>2. QED
    BY <2>1 DEF Scanning
<1>6. CASE \/ \E o \in Nodes, s \in Signals : SubstituteNode(o, s)
           \/ SomeNoRestrash \/ SomeComplement
  <2>1. pc' # "scan"
    BY <1>6 DEF SubstituteNode, SomeNoRestrash, SomeComplement,
                SubstituteNodeNoRestrash, SubstituteComplement
  <2>2. QED
    BY <2>1 DEF Scanning
<1>7. CASE Unwind
  <2>1. calls # <<>> /\ pc' = pc
    BY <1>7 DEF Unwind, TakeOutIgnored, TakeOutEnter, TakeOutFanin, ReviveEnter,
                ReviveFanin, InCall, ctlVars
  <2>2. QED
    BY <1>3, <2>1
<1>8. CASE Return \/ Pop \/ Follow \/ Resolved \/ FinishPair
  <2>1. pc' # "scan"
    BY <1>8 DEF Return, Pop, Follow, Resolved, FinishPair
  <2>2. QED
    BY <2>1 DEF Scanning
<1>9. QED
  BY <1>1, <1>2, <1>4, <1>5, <1>6, <1>7, <1>8 DEF AnyNext, Next, Substitute

\* The table after n got the fanins p: what the two changes to it, and that
\* to the fanins, come to together.
LEMMA Rehash ==
  ASSUME IInv, NoOverflow, [AnyNext]_vars, ~TakeOutEnter,
         NEW n \in LiveGates, NEW p,
         child' = [child EXCEPT ![n] = p],
         \/ hash' = Erase(hash, child[n])
         \/ hash' = Insert(Erase(hash, child[n]), p, n)
  PROVE  HashSound'
<1> SUFFICES ASSUME NEW q \in DOMAIN hash'
             PROVE  hash'[q] \in LiveGates' /\ child'[hash'[q]] = q
  BY DEF HashSound
<1>1. LiveGates \subseteq Index /\ child \in [Index -> Pair] /\ LiveGates \subseteq LiveGates'
  BY LiveStep, NodesType DEF IInv, TypeOK
<1>2. CASE q = p /\ hash'[q] = n
  BY <1>1, <1>2
<1>3. CASE q \in DOMAIN hash \ {child[n]} /\ hash'[q] = hash[q]
  <2>1. hash[q] \in LiveGates /\ child[hash[q]] = q
    BY <1>3 DEF IInv, HashSound
  <2>2. QED
    BY <1>1, <1>3, <2>1
<1>4. QED
  BY <1>2, <1>3 DEF Erase, Insert

\* Every step keeps the table sound.
LEMMA HashStep ==
  ASSUME IInv, NoOverflow, [AnyNext]_vars
  PROVE  HashSound'
<1> USE AllocatedParts
<1>1. CASE UNCHANGED <<child, hash>> /\ ~TakeOutEnter
  BY <1>1, LiveStep DEF IInv, HashSound
<1>2. ASSUME NEW a \in LiveSignals, NEW b \in LiveSignals, CreateAnd(a, b)
      PROVE  HashSound'
  <2> DEFINE p == Ordered(a, b)
  <2>1. /\ hash' = Insert(hash, p, size) /\ child' = [child EXCEPT ![size] = p]
        /\ size' = size + 1 /\ UNCHANGED <<isCi, calls>> /\ calls = <<>>
        /\ size \in Index /\ size \notin Nodes /\ size # 0 /\ size \in Nodes'
        /\ child \in [Index -> Pair]
    <3>1. size \in 1 .. MaxNodes /\ child \in [Index -> Pair]
      BY DEF IInv, TypeOK
    <3>2. /\ calls = <<>> /\ size < MaxNodes /\ hash' = Insert(hash, p, size)
          /\ child' = [child EXCEPT ![size] = p]
          /\ size' = size + 1 /\ UNCHANGED <<isCi, calls>>
      BY <1>2 DEF CreateAnd, Idle
    <3>3. QED
      BY <3>1, <3>2, MaxNodesAssumption DEF Nodes, Index
  <2>2. ~TakeOutEnter
    BY <2>1 DEF TakeOutEnter, InCall
  <2>3. size \in LiveGates'
    <3>1. h1'[size] = 0 /\ ~isCi'[size]
      BY <2>1, CountsStep DEF IInv, Fresh
    <3>2. QED
      BY <2>1, <3>1, DeadBitAssumption DEF LiveGates, IsGate, Dead
  <2>4. ASSUME NEW q \in DOMAIN hash \ {p}
        PROVE  hash[q] \in LiveGates' /\ child'[hash[q]] = q
    <3>1. hash[q] \in LiveGates /\ child[hash[q]] = q
      BY DEF IInv, HashSound
    <3>2. hash[q] \in LiveGates' /\ hash[q] # size
      BY <2>1, <2>2, <3>1, LiveStep DEF LiveGates
    <3>3. QED
      BY <2>1, <3>1, <3>2
  <2>5. QED
    BY <2>1, <2>3, <2>4 DEF HashSound, Insert
<1>3. CASE TakeOutEnter
  <2> DEFINE n == Head(calls).node
  <2>1. hash' = Erase(hash, child[n]) /\ child' = child
    BY <1>3 DEF TakeOutEnter
  <2>2. ASSUME NEW q \in DOMAIN hash \ {child[n]}
        PROVE  hash[q] \in LiveGates' /\ child[hash[q]] = q
    <3>1. hash[q] \in LiveGates /\ child[hash[q]] = q /\ hash[q] # n
      BY DEF IInv, HashSound
    <3>2. QED
      BY <3>1, LiveStep
  <2>3. QED
    BY <2>1, <2>2 DEF HashSound, Erase
<1>4. CASE ReviveEnter
  <2> DEFINE n == Head(calls).node
  <2>1. /\ hash' = Insert(hash, child[n], n) /\ child' = child
        /\ h1' = [h1 EXCEPT ![n] = 0] /\ UNCHANGED <<size, isCi>>
        /\ calls # <<>> /\ Head(calls).op = "revive"
    BY <1>4 DEF ReviveEnter, InCall
  <2>2. n \in Nodes /\ IsGate(n) /\ n \in Index
    BY <2>1, FrameParts
  <2>3. n \in LiveGates'
    <3>1. h1'[n] = 0
      BY <2>1, <2>2 DEF IInv, TypeOK
    <3>2. QED
      BY <2>1, <2>2, <3>1, DeadBitAssumption DEF LiveGates, Nodes, IsGate, Dead
  <2>4. ~TakeOutEnter
    BY <1>4 DEF ReviveEnter, TakeOutEnter, InCall
  <2>5. \A q \in DOMAIN hash : hash[q] \in LiveGates' /\ child[hash[q]] = q
    BY <2>4, LiveStep DEF IInv, HashSound
  <2>6. QED
    BY <2>1, <2>3, <2>5 DEF HashSound, Insert
<1>5. CASE Visit
  <2>1. PICK n \in scan : ReplaceInNode(n)
    BY <1>5 DEF Visit
  <2>2. n \in LiveGates /\ calls = <<>>
    BY <1>5, <2>1 DEF Visit, IInv, Scanning
  <2>3. ~TakeOutEnter
    BY <2>2 DEF TakeOutEnter, InCall
  <2>4. CASE CollapseNode(n)
    BY <1>1, <2>3, <2>4 DEF CollapseNode, netVars
  <2>5. CASE RestrashNode(n) \/ RewireNode(n)
    <3>1. /\ child' = [child EXCEPT ![n] = Rewired(n)]
          /\ \/ hash' = Erase(hash, child[n])
             \/ hash' = Insert(Erase(hash, child[n]), Rewired(n), n)
      BY <2>5 DEF RestrashNode, RewireNode
    <3>2. QED
      BY <2>2, <2>3, <3>1, Rehash
  <2>6. QED
    BY <2>1, <2>4, <2>5 DEF ReplaceInNode
<1>6. CASE CreatePi \/ (\E f \in LiveSignals : CreatePo(f))
           \/ (\E n \in Nodes : TakeOut(n))
           \/ (\E o \in Nodes, s \in Signals : SubstituteNode(o, s))
           \/ SomeNoRestrash \/ SomeComplement
  <2>1. UNCHANGED <<child, hash>> /\ calls = <<>>
    BY <1>6 DEF CreatePi, CreatePo, TakeOut, SubstituteNode, SomeNoRestrash, SomeComplement,
                SubstituteNodeNoRestrash, SubstituteComplement, MaySubstitute, Idle, netVars
  <2>2. QED
    BY <1>1, <2>1 DEF TakeOutEnter, InCall
<1>7. CASE TakeOutIgnored \/ TakeOutFanin \/ ReviveFanin
  <2>1. UNCHANGED <<child, hash>>
    BY <1>7 DEF TakeOutIgnored, TakeOutFanin, ReviveFanin, netVars
  <2>2. QED
    BY <1>1, <1>3, <2>1
<1>8. CASE Return \/ Pop \/ Follow \/ Resolved \/ Begin \/ FinishPair
  <2>1. UNCHANGED <<child, hash>>
    BY <1>8 DEF Return, Pop, Follow, Resolved, Begin, FinishPair, netVars
  <2>2. QED
    BY <1>1, <1>3, <2>1
<1>9. CASE UNCHANGED vars
  <2>1. UNCHANGED <<child, hash>>
    BY <1>9 DEF vars, netVars
  <2>2. QED
    BY <1>1, <1>3, <2>1
<1>10. QED
  BY <1>2, <1>3, <1>4, <1>5, <1>6, <1>7, <1>8, <1>9 DEF AnyNext, Next, Build, Unwind, Substitute

\* As long as no count reaches the dead bit, everything that is referred to
\* exists and every entry of the hash table leads to a live gate with the
\* fanins of its key: take_out_node, revive_node and replace_in_node leave no
\* entry behind that create_and could return a dead or a different node for.
THEOREM HashTableSound == AnySpec /\ []NoOverflow => [](HashSound /\ Allocated)
<1>1. IInv /\ NoOverflow /\ [AnyNext]_vars => IInv'
  BY NextType, AllocatedStep, FreshStep, ScanningStep, HashStep DEF IInv
<1>2. IInv => HashSound /\ Allocated
  BY DEF IInv
<1>3. QED
  BY InitIInv, <1>1, <1>2, PTL DEF AnySpec

\* A sound table has no more entries than there are live gates.
LEMMA SoundTableIsSmall ==
  ASSUME TypeOK, HashSound
  PROVE  Cardinality(DOMAIN hash) <= Cardinality(LiveGates)
<1>1. IsFiniteSet(LiveGates)
  <2>1. 0 \in Int /\ size - 1 \in Int
    BY MaxNodesAssumption DEF TypeOK
  <2>2. IsFiniteSet(0 .. size - 1)
    BY ONLY <2>1, FS_Interval
  <2>3. QED
    BY <2>2, FS_Subset DEF LiveGates, Nodes
<1>2. hash \in [DOMAIN hash -> LiveGates]
  BY DEF TypeOK, HashSound
<1>3. ASSUME NEW p \in DOMAIN hash, NEW q \in DOMAIN hash, hash[p] = hash[q]
      PROVE  p = q
  BY <1>3 DEF HashSound
<1>4. hash \in Injection(DOMAIN hash, LiveGates)
  BY <1>2, <1>3 DEF Injection, IsInjective
<1>5. QED
  BY <1>1, <1>4, FS_Injection

\* num_gates, the size of the hash table, may fall behind the number of live
\* gates (the property NumGates does not hold) but is never ahead of it: no
\* entry is left over from a gate that was taken out or rehashed.
THEOREM NumGatesNeverAhead ==
  AnySpec /\ []NoOverflow => [](Cardinality(DOMAIN hash) <= Cardinality(LiveGates))
<1>1. TypeOK /\ HashSound => Cardinality(DOMAIN hash) <= Cardinality(LiveGates)
  BY SoundTableIsSmall
<1>2. QED
  BY TypeCorrect, HashTableSound, <1>1, PTL

-----------------------------------------------------------------------------
(* Counting references.                                                    *)

One(b) == IF b THEN 1 ELSE 0

\* The live gates with m as their fanin j, and the outputs m drives.
Users(j, m) == {g \in LiveGates : child[g][j].node = m}
Driven(m) == {i \in DOMAIN outputs : outputs[i].node = m}

\* The references that n makes to m.
Own(n, m) == One(child[n][1].node = m) + One(child[n][2].node = m)

\* Everything that is counted is finite.
LEMMA Finite ==
  ASSUME TypeOK
  PROVE  /\ IsFiniteSet(LiveGates)
         /\ \A j, m : IsFiniteSet(Users(j, m)) /\ Cardinality(Users(j, m)) \in Nat
         /\ \A m : IsFiniteSet(Driven(m)) /\ Cardinality(Driven(m)) \in Nat
<1>1. IsFiniteSet(LiveGates)
  <2>1. 0 \in Int /\ size - 1 \in Int
    BY MaxNodesAssumption DEF TypeOK
  <2>2. IsFiniteSet(0 .. size - 1)
    BY ONLY <2>1, FS_Interval
  <2>3. QED
    BY <2>2, FS_Subset DEF LiveGates, Nodes
<1>2. IsFiniteSet(DOMAIN outputs)
  <2>1. DOMAIN outputs = 1 .. Len(outputs) /\ Len(outputs) \in Int /\ 1 \in Int
    BY DEF TypeOK
  <2>2. IsFiniteSet(1 .. Len(outputs))
    BY ONLY <2>1, FS_Interval
  <2>3. QED
    BY <2>1, <2>2
<1>3. ASSUME NEW j, NEW m
      PROVE  IsFiniteSet(Users(j, m)) /\ Cardinality(Users(j, m)) \in Nat
  <2>1. Users(j, m) \subseteq LiveGates
    BY DEF Users
  <2>2. QED
    BY <1>1, <2>1, FS_Subset, FS_CardinalityType
<1>4. ASSUME NEW m
      PROVE  IsFiniteSet(Driven(m)) /\ Cardinality(Driven(m)) \in Nat
  <2>1. Driven(m) \subseteq DOMAIN outputs
    BY DEF Driven
  <2>2. QED
    BY <1>2, <2>1, FS_Subset, FS_CardinalityType
<1>5. QED
  BY <1>1, <1>3, <1>4

\* References, by what they come from.
LEMMA ReferencesSplit ==
  ASSUME NEW m
  PROVE  References(m) = Cardinality(Users(1, m)) + Cardinality(Users(2, m))
                           + Cardinality(Driven(m))
  BY DEF References, Users, Driven

\* The users of m but n.
LEMMA UsersWithout ==
  ASSUME TypeOK, NEW n, NEW j, NEW m
  PROVE  /\ Cardinality(Users(j, m) \ {n}) \in Nat
         /\ Cardinality(Users(j, m)) = Cardinality(Users(j, m) \ {n})
              + (IF n \in LiveGates THEN One(child[n][j].node = m) ELSE 0)
<1>1. IsFiniteSet(Users(j, m)) /\ Cardinality(Users(j, m)) \in Nat
  BY Finite
<1>2. /\ IsFiniteSet(Users(j, m) \ {n})
      /\ Cardinality(Users(j, m) \ {n}) =
            IF n \in Users(j, m) THEN Cardinality(Users(j, m)) - 1
                                 ELSE Cardinality(Users(j, m))
  BY <1>1, FS_RemoveElement
<1>3. Cardinality(Users(j, m) \ {n}) \in Nat
  BY <1>2, FS_CardinalityType
<1>4. n \in Users(j, m) <=> n \in LiveGates /\ child[n][j].node = m
  BY DEF Users
<1>5. QED
  BY <1>1, <1>2, <1>3, <1>4 DEF One

\* A step that changes at most whether n is a live gate and the fanins of n
\* changes the references to m by those that n makes.
LEMMA OneGateChanges ==
  ASSUME TypeOK, TypeOK', NEW n, NEW m,
         LiveGates' \ {n} = LiveGates \ {n},
         \A g \in LiveGates \ {n} : child'[g] = child[g],
         outputs' = outputs
  PROVE  /\ References(m) \in Nat /\ References(m)' \in Nat
         /\ References(m)' + (IF n \in LiveGates THEN Own(n, m) ELSE 0)
              = References(m) + (IF n \in LiveGates' THEN Own(n, m)' ELSE 0)
<1>1. \A j : Users(j, m)' \ {n} = Users(j, m) \ {n}
  <2> SUFFICES ASSUME NEW j, NEW g
               PROVE  g \in Users(j, m)' \ {n} <=> g \in Users(j, m) \ {n}
    OBVIOUS
  <2>1. g \in LiveGates' \ {n} <=> g \in LiveGates \ {n}
    OBVIOUS
  <2>2. QED
    BY <2>1 DEF Users
<1>2. Driven(m)' = Driven(m)
  BY DEF Driven
<1>3. \A j : /\ Cardinality(Users(j, m) \ {n}) \in Nat
             /\ Cardinality(Users(j, m)) = Cardinality(Users(j, m) \ {n})
                  + (IF n \in LiveGates THEN One(child[n][j].node = m) ELSE 0)
  BY UsersWithout
<1>4. \A j : Cardinality(Users(j, m)') = Cardinality(Users(j, m)' \ {n})
               + (IF n \in LiveGates' THEN One(child'[n][j].node = m) ELSE 0)
  <2> SUFFICES ASSUME NEW j
               PROVE  Cardinality(Users(j, m)') = Cardinality(Users(j, m)' \ {n})
                        + (IF n \in LiveGates' THEN One(child'[n][j].node = m) ELSE 0)
    OBVIOUS
  <2>1. IsFiniteSet(LiveGates')
    <3>1. 0 \in Int /\ size' - 1 \in Int
      BY MaxNodesAssumption DEF TypeOK
    <3>2. IsFiniteSet(0 .. size' - 1)
      BY ONLY <3>1, FS_Interval
    <3>3. QED
      BY <3>2, FS_Subset DEF LiveGates, Nodes
  <2>2. IsFiniteSet(Users(j, m)') /\ Cardinality(Users(j, m)') \in Nat
    <3>1. Users(j, m)' \subseteq LiveGates'
      BY DEF Users
    <3>2. QED
      BY <2>1, <3>1, FS_Subset, FS_CardinalityType
  <2>3. Cardinality(Users(j, m)' \ {n}) =
            IF n \in Users(j, m)' THEN Cardinality(Users(j, m)') - 1
                                  ELSE Cardinality(Users(j, m)')
    BY <2>2, FS_RemoveElement
  <2>4. n \in Users(j, m)' <=> n \in LiveGates' /\ child'[n][j].node = m
    BY DEF Users
  <2>5. QED
    BY <2>2, <2>3, <2>4 DEF One
<1>5. Cardinality(Driven(m)) \in Nat
  BY Finite
<1>6. References(m)' = Cardinality(Users(1, m)') + Cardinality(Users(2, m)')
                           + Cardinality(Driven(m)')
  BY DEF References, Users, Driven
<1> DEFINE One1 == One(child[n][1].node = m)
           One2 == One(child[n][2].node = m)
           New1 == One(child'[n][1].node = m)
           New2 == One(child'[n][2].node = m)
<1>7. /\ One1 \in Nat /\ One2 \in Nat /\ New1 \in Nat /\ New2 \in Nat
      /\ Own(n, m) = One1 + One2 /\ Own(n, m)' = New1 + New2
  BY DEF One, Own
<1>8. /\ Cardinality(Users(1, m)) = Cardinality(Users(1, m) \ {n})
           + (IF n \in LiveGates THEN One1 ELSE 0)
      /\ Cardinality(Users(2, m)) = Cardinality(Users(2, m) \ {n})
           + (IF n \in LiveGates THEN One2 ELSE 0)
      /\ Cardinality(Users(1, m)') = Cardinality(Users(1, m) \ {n})
           + (IF n \in LiveGates' THEN New1 ELSE 0)
      /\ Cardinality(Users(2, m)') = Cardinality(Users(2, m) \ {n})
           + (IF n \in LiveGates' THEN New2 ELSE 0)
      /\ Cardinality(Users(1, m) \ {n}) \in Nat
      /\ Cardinality(Users(2, m) \ {n}) \in Nat
  BY <1>1, <1>3, <1>4
<1>9. References(m) = Cardinality(Users(1, m)) + Cardinality(Users(2, m))
                           + Cardinality(Driven(m))
  BY ReferencesSplit
<1> HIDE DEF One1, One2, New1, New2
<1>10. CASE n \in LiveGates /\ n \in LiveGates'
  BY <1>2, <1>5, <1>6, <1>7, <1>8, <1>9, <1>10
<1>11. CASE n \in LiveGates /\ n \notin LiveGates'
  BY <1>2, <1>5, <1>6, <1>7, <1>8, <1>9, <1>11
<1>12. CASE n \notin LiveGates /\ n \in LiveGates'
  BY <1>2, <1>5, <1>6, <1>7, <1>8, <1>9, <1>12
<1>13. CASE n \notin LiveGates /\ n \notin LiveGates'
  BY <1>2, <1>5, <1>6, <1>7, <1>8, <1>9, <1>13
<1>14. QED
  BY <1>10, <1>11, <1>12, <1>13

\* The same for one live gate that appears, or changes its fanins to p.
LEMMA OneGateAdded ==
  ASSUME TypeOK, TypeOK', NEW n, NEW m, NEW p,
         LiveGates' \ {n} = LiveGates \ {n}, n \in LiveGates', child'[n] = p,
         \A g \in LiveGates \ {n} : child'[g] = child[g],
         outputs' = outputs
  PROVE  /\ References(m) \in Nat /\ References(m)' \in Nat
         /\ References(m)' + (IF n \in LiveGates THEN Own(n, m) ELSE 0)
              = References(m) + (One(p[1].node = m) + One(p[2].node = m))
  BY OneGateChanges DEF Own

\* Nothing that is counted changes.
LEMMA SameReferences ==
  ASSUME LiveGates' = LiveGates, UNCHANGED <<child, outputs>>, NEW m
  PROVE  References(m)' = References(m)
  BY DEF References

-----------------------------------------------------------------------------
(* Counting the fanins that calls have still to visit.                     *)

\* What FaninsAhead counts, for any stack.
AheadOf(s, op, m) ==
  {u \in (DOMAIN s) \X {1, 2} :
     LET f == s[u[1]]
     IN  /\ f.op = op
         /\ f.at \in 1 .. u[2]
         /\ child[f.node][u[2]].node = m}

\* What one frame contributes.
Part(f, op, m) ==
  One(f.op = op /\ f.at = 1 /\ child[f.node][1].node = m)
  + One(f.op = op /\ f.at \in {1, 2} /\ child[f.node][2].node = m)

\* A frame that is pushed adds what it contributes.
LEMMA AheadPush ==
  ASSUME NEW s \in Seq(Frame), NEW f \in Frame, NEW op, NEW m
  PROVE  /\ Cardinality(AheadOf(s, op, m)) \in Nat
         /\ Cardinality(AheadOf(<<f>> \o s, op, m))
              = Part(f, op, m) + Cardinality(AheadOf(s, op, m))
<1> DEFINE t == <<f>> \o s
           S == AheadOf(s, op, m)
           T == AheadOf(t, op, m)
           L == {u \in T : u[1] # 1}
<1>1. /\ Len(s) \in Nat /\ DOMAIN s = 1 .. Len(s) /\ DOMAIN t = 1 .. Len(s) + 1
      /\ t[1] = f /\ \A i \in 1 .. Len(s) : t[i + 1] = s[i]
  <2>1. <<f>> \in Seq(Frame) /\ Len(<<f>>) = 1 /\ <<f>>[1] = f
    OBVIOUS
  <2>2. /\ t \in Seq(Frame) /\ Len(t) = 1 + Len(s)
        /\ \A i \in 1 .. 1 + Len(s) : t[i] = IF i <= 1 THEN <<f>>[i] ELSE s[i - 1]
    BY <2>1, ConcatProperties
  <2>3. Len(s) \in Nat /\ DOMAIN s = 1 .. Len(s) /\ DOMAIN t = 1 .. Len(t)
    BY <2>2
  <2>4. t[1] = f
    BY <2>1, <2>2, <2>3
  <2>5. \A i \in 1 .. Len(s) : t[i + 1] = s[i]
    BY <2>2, <2>3
  <2>6. QED
    BY <2>2, <2>3, <2>4, <2>5
<1>2. IsFiniteSet(S) /\ Cardinality(S) \in Nat
  <2>1. IsFiniteSet(1 .. Len(s))
    <3>1. 1 \in Int /\ Len(s) \in Int
      BY <1>1
    <3>2. QED
      BY ONLY <3>1, FS_Interval
  <2>2. IsFiniteSet({1, 2})
    <3>1. IsFiniteSet({1})
      BY FS_Singleton
    <3>2. IsFiniteSet({1} \cup {2})
      BY <3>1, FS_AddElement
    <3>3. {1, 2} = {1} \cup {2}
      OBVIOUS
    <3>4. QED
      BY <3>2, <3>3
  <2>3. IsFiniteSet((1 .. Len(s)) \X {1, 2})
    BY <2>1, <2>2, FS_Product
  <2>4. S \subseteq (1 .. Len(s)) \X {1, 2}
    BY <1>1 DEF AheadOf
  <2>5. QED
    BY <2>3, <2>4, FS_Subset, FS_CardinalityType
<1>3. IsFiniteSet(L) /\ Cardinality(L) = Cardinality(S)
  <2> DEFINE g == [u \in S |-> <<u[1] + 1, u[2]>>]
  <2>1. ASSUME NEW u \in S PROVE <<u[1] + 1, u[2]>> \in L
    BY <1>1 DEF AheadOf
  <2>2. ASSUME NEW u \in S, NEW v \in S, <<u[1] + 1, u[2]>> = <<v[1] + 1, v[2]>>
        PROVE  u = v
    BY <1>1, <2>2 DEF AheadOf
  <2>3. ASSUME NEW v \in L PROVE \E u \in S : <<u[1] + 1, u[2]>> = v
    <3> DEFINE u == <<v[1] - 1, v[2]>>
    <3>1. v \in (1 .. Len(s) + 1) \X {1, 2} /\ v[1] # 1
      BY <1>1 DEF AheadOf
    <3>2. v[1] - 1 \in 1 .. Len(s) /\ (v[1] - 1) + 1 = v[1]
      BY <1>1, <3>1
    <3>3. t[v[1]] = s[v[1] - 1]
      BY <1>1, <3>2
    <3>4. u \in S
      BY <1>1, <3>1, <3>2, <3>3 DEF AheadOf
    <3>5. <<u[1] + 1, u[2]>> = v
      BY <3>1, <3>2
    <3>6. QED
      BY <3>4, <3>5
  <2>4. g \in Bijection(S, L)
    BY <2>1, <2>2, <2>3, Zenon DEF Bijection, Injection, Surjection, IsInjective
  <2>5. ExistsBijection(S, L)
    BY <2>4 DEF ExistsBijection
  <2>6. QED
    BY <1>2, <2>5, FS_Bijection
<1>4. /\ <<1, 1>> \in T <=> f.op = op /\ f.at = 1 /\ child[f.node][1].node = m
      /\ <<1, 2>> \in T <=> f.op = op /\ f.at \in {1, 2} /\ child[f.node][2].node = m
  <2>1. f.at \in 0 .. 2
    BY DEF Frame
  <2>2. QED
    BY <1>1, <2>1 DEF AheadOf
<1> DEFINE A == IF <<1, 1>> \in T THEN L \cup {<<1, 1>>} ELSE L
           B == IF <<1, 2>> \in T THEN A \cup {<<1, 2>>} ELSE A
<1>5. T = B
  <2>1. T \subseteq (1 .. Len(s) + 1) \X {1, 2}
    BY <1>1 DEF AheadOf
  <2>2. \A u \in T : u[1] = 1 => u = <<1, 1>> \/ u = <<1, 2>>
    BY <2>1
  <2>3. QED
    BY <2>2
<1>6. <<1, 1>> \notin L /\ <<1, 2>> \notin L /\ <<1, 1>> # <<1, 2>>
  OBVIOUS
<1> HIDE DEF L, T
<1>7. IsFiniteSet(A) /\ Cardinality(A) = Cardinality(L) + One(<<1, 1>> \in T)
  <2>1. /\ IsFiniteSet(L \cup {<<1, 1>>})
        /\ Cardinality(L \cup {<<1, 1>>}) = Cardinality(L) + 1
    BY <1>3, <1>6, FS_AddElement
  <2>2. Cardinality(L) \in Nat
    BY <1>2, <1>3
  <2>3. QED
    BY <1>3, <2>1, <2>2 DEF One
<1>8. Cardinality(B) = Cardinality(A) + One(<<1, 2>> \in T)
  <2>1. <<1, 2>> \notin A
    BY <1>6
  <2>2. Cardinality(A) \in Nat
    BY <1>7, FS_CardinalityType
  <2>3. Cardinality(A \cup {<<1, 2>>}) = Cardinality(A) + 1
    BY <1>7, <2>1, FS_AddElement
  <2>4. QED
    BY <2>2, <2>3 DEF One
<1>9. Part(f, op, m) = One(<<1, 1>> \in T) + One(<<1, 2>> \in T)
  BY <1>4 DEF Part, One
<1>10. One(<<1, 1>> \in T) \in Nat /\ One(<<1, 2>> \in T) \in Nat
  BY DEF One
<1> HIDE DEF A, B, S
<1>11. Cardinality(T) = Part(f, op, m) + Cardinality(S)
  BY <1>2, <1>3, <1>5, <1>7, <1>8, <1>9, <1>10
<1>12. QED
  BY <1>2, <1>11 DEF S, T

\* The stack is its innermost frame on top of the others.
LEMMA CallsSplit ==
  ASSUME TypeOK, calls # <<>>
  PROVE  /\ Head(calls) \in Frame /\ Tail(calls) \in Seq(Frame)
         /\ calls = <<Head(calls)>> \o Tail(calls)
  BY PopFromSeq DEF TypeOK

\* What FaninsAhead counts, by the innermost frame and the others.
LEMMA AheadSplit ==
  ASSUME TypeOK, calls # <<>>, NEW op, NEW m
  PROVE  /\ Cardinality(AheadOf(Tail(calls), op, m)) \in Nat
         /\ FaninsAhead(op, m) = Part(Head(calls), op, m)
                                   + Cardinality(AheadOf(Tail(calls), op, m))
<1>1. FaninsAhead(op, m) = Cardinality(AheadOf(calls, op, m))
  BY DEF FaninsAhead, AheadOf
<1> DEFINE f == Head(calls)
           s == Tail(calls)
<1>2. f \in Frame /\ s \in Seq(Frame) /\ calls = <<f>> \o s
  BY CallsSplit
<1> HIDE DEF f, s
<1>3. /\ Cardinality(AheadOf(s, op, m)) \in Nat
      /\ Cardinality(AheadOf(<<f>> \o s, op, m))
           = Part(f, op, m) + Cardinality(AheadOf(s, op, m))
  BY <1>2, AheadPush
<1>4. FaninsAhead(op, m) = Part(f, op, m) + Cardinality(AheadOf(s, op, m))
  BY <1>1, <1>2, <1>3, Zenon
<1>5. QED
  BY <1>3, <1>4 DEF f, s

\* No call, nothing ahead.
LEMMA AheadNone ==
  ASSUME NEW op, NEW m
  PROVE  Cardinality(AheadOf(<<>>, op, m)) = 0
<1>1. AheadOf(<<>>, op, m) = {}
  BY DEF AheadOf
<1>2. QED
  BY <1>1, FS_EmptySet

\* The number of fanins ahead is a number.
LEMMA AheadType ==
  ASSUME TypeOK, NEW op, NEW m
  PROVE  FaninsAhead(op, m) \in Nat
<1>1. CASE calls = <<>>
  BY <1>1, AheadNone DEF FaninsAhead, AheadOf
<1>2. CASE calls # <<>>
  <2>1. Part(Head(calls), op, m) \in Nat
    BY DEF Part, One
  <2>2. QED
    BY <1>2, <2>1, AheadSplit
<1>3. QED
  BY <1>1, <1>2

\* What the innermost frame, when it advances, has no longer ahead of it.
LEMMA AheadAdvance ==
  ASSUME TypeOK, calls # <<>>, NEW op, NEW m
  PROVE  LET f == Head(calls)
             ahead == Cardinality(AheadOf(Advance, op, m))
         IN  /\ ahead \in Nat
             /\ f.op # op => ahead = FaninsAhead(op, m)
             /\ f.op = op /\ f.at = 0 => ahead = FaninsAhead(op, m) + Own(f.node, m)
             /\ f.op = op /\ f.at # 0 =>
                   ahead + One(child[f.node][f.at].node = m) = FaninsAhead(op, m)
<1> DEFINE f == Head(calls)
           g == [f EXCEPT !.at = @ + 1]
           rest == Cardinality(AheadOf(Tail(calls), op, m))
           ahead == Cardinality(AheadOf(Advance, op, m))
<1>1. /\ f \in Frame /\ Tail(calls) \in Seq(Frame) /\ f.at \in 0 .. 2
  BY CallsSplit DEF Frame
<1>2. rest \in Nat /\ FaninsAhead(op, m) = Part(f, op, m) + rest
  BY AheadSplit
<1>3. CASE f.at < 2
  <2>1. g \in Frame /\ g.at = f.at + 1 /\ g.op = f.op /\ g.node = f.node
    BY <1>1, <1>3 DEF Frame
  <2>2. Advance = <<g>> \o Tail(calls)
    BY <1>3 DEF Advance
  <2>3. ahead = Part(g, op, m) + rest
    <3> HIDE DEF g
    <3>1. Cardinality(AheadOf(<<g>> \o Tail(calls), op, m)) = Part(g, op, m) + rest
      <4> DEFINE t == Tail(calls)
      <4>1. t \in Seq(Frame)
        BY <1>1
      <4> HIDE DEF t
      <4>2. Cardinality(AheadOf(<<g>> \o t, op, m))
              = Part(g, op, m) + Cardinality(AheadOf(t, op, m))
        BY ONLY <2>1, <4>1, AheadPush
      <4>3. QED
        BY ONLY <4>2 DEF t
    <3>2. QED
      BY <2>2, <3>1, Zenon
  <2>4. /\ Part(g, op, m) \in Nat
        /\ f.op # op => Part(g, op, m) = 0 /\ Part(f, op, m) = 0
        /\ f.op = op /\ f.at = 0 =>
              Part(g, op, m) = Own(f.node, m) /\ Part(f, op, m) = 0
        /\ f.op = op /\ f.at = 1 =>
              Part(g, op, m) + One(child[f.node][1].node = m) = Part(f, op, m)
    BY <1>1, <1>3, <2>1 DEF Part, Own, One
  <2>5. /\ Own(f.node, m) \in Nat /\ One(child[f.node][1].node = m) \in Nat
        /\ f.at \in {0, 1}
    BY <1>1, <1>3 DEF Own, One
  <2> HIDE DEF f, g, rest, ahead
  <2>6. /\ ahead \in Nat
        /\ f.op # op => ahead = FaninsAhead(op, m)
        /\ f.op = op /\ f.at = 0 => ahead = FaninsAhead(op, m) + Own(f.node, m)
    BY <1>2, <2>3, <2>4, <2>5
  <2>7. f.op = op /\ f.at # 0 =>
           ahead + One(child[f.node][f.at].node = m) = FaninsAhead(op, m)
    BY <1>2, <2>3, <2>4, <2>5
  <2>8. QED
    BY <2>6, <2>7 DEF f, ahead
<1>4. CASE f.at = 2
  <2>1. ahead = rest
    BY <1>4 DEF Advance
  <2>2. /\ f.op # op => Part(f, op, m) = 0
        /\ f.op = op => Part(f, op, m) = One(child[f.node][2].node = m)
    BY <1>4 DEF Part, One
  <2>3. One(child[f.node][2].node = m) \in Nat
    BY DEF One
  <2>4. QED
    BY <1>2, <1>4, <2>1, <2>2, <2>3
<1>5. QED
  BY <1>1, <1>3, <1>4

-----------------------------------------------------------------------------
(* The inductive invariant behind RefCountExact.                           *)

\* The activations on the stack are all of one kind.
OfKind(op) == {f \in Frame : f.op = op}
OneKind == \E op \in {"take_out", "revive"} : calls \in Seq(OfKind(op))

\* Only gates are replaced.
GatePair == [old : {n \in Nodes : IsGate(n)}, new : Signal]
OldGates ==
  /\ todo \in Seq(GatePair)
  /\ pc \in {"resolve", "begin", "scan"} => sub \in GatePair

\* While the loop runs _new is live, having been revived if necessary, and
\* what is visited has _old as a fanin.
Phases ==
  /\ pc = "resolve" => calls = <<>>
  /\ pc = "begin" =>
       /\ calls \in Seq(OfKind("revive"))
       /\ Dead(sub.new.node) => calls = <<Call("revive", sub.new.node)>>
  /\ pc = "scan" =>
       /\ ~Dead(sub.new.node)
       /\ \A n \in scan : sub.old \in FaninNodes(n)

\* Nothing is counted at a dead node.
DeadUncounted == \A n \in Nodes : Dead(n) => h1[n] = DeadBit

\* _old from its first rewired fanout until take_out_node enters it.
Stale ==
  IF \/ pc = "scan"
     \/ calls = <<Call("take_out", sub.old)>> /\ IsGate(sub.old)
  THEN {sub.old} ELSE {}

Exact(n) ==
  ~Dead(n) => h1[n] + FaninsAhead("revive", n)
                = References(n) + FaninsAhead("take_out", n)
CountsExact == \A n \in Nodes \ Stale : Exact(n)

\* Only the innermost activation can have its node still to enter; when it
\* is called by another one to take a node out, nothing is counted there, and
\* what is to be revived is dead.
Visiting == {f \in Frame : f.at # 0}
Nested ==
  calls # <<>> =>
    /\ Tail(calls) \in Seq(Visiting)
    /\ Tail(calls) # <<>> /\ InCall("take_out", {0}) =>
          ~Dead(Head(calls).node) /\ h1[Head(calls).node] = 0
    /\ InCall("revive", {0}) => Dead(Head(calls).node)

\* The inductive invariant.
CInv == IInv /\ OneKind /\ OldGates /\ Phases /\ DeadUncounted /\ CountsExact /\ Nested

\* The initial state satisfies the invariant.
LEMMA InitCInv == Init => CInv
<1> SUFFICES ASSUME Init PROVE CInv
  OBVIOUS
<1>1. IInv
  BY InitIInv
<1>2. OneKind /\ OldGates /\ Phases /\ Nested
  BY DEF Init, OneKind, OldGates, Phases, Nested
<1>3. DeadUncounted
  BY <1>1, DeadBitAssumption, NodesType DEF Init, DeadUncounted, Dead, IInv
<1>4. CountsExact
  <2> SUFFICES ASSUME NEW m \in Nodes, ~Dead(m) PROVE
                 h1[m] + FaninsAhead("revive", m) = References(m) + FaninsAhead("take_out", m)
    BY DEF CountsExact, Exact
  <2>1. h1[m] = 0
    BY <1>1, NodesType DEF Init, IInv
  <2>2. FaninsAhead("revive", m) = 0 /\ FaninsAhead("take_out", m) = 0
    BY AheadNone DEF Init, FaninsAhead, AheadOf
  <2>3. References(m) = 0
    <3>1. Nodes = {0} /\ ~IsGate(0)
      BY DEF Init, Nodes, IsGate
    <3>2. LiveGates = {} /\ DOMAIN outputs = {}
      BY <3>1 DEF Init, LiveGates
    <3>3. Users(1, m) = {} /\ Users(2, m) = {} /\ Driven(m) = {}
      BY <3>2 DEF Users, Driven
    <3>4. QED
      BY <3>3, ReferencesSplit, FS_EmptySet
  <2>4. QED
    BY <2>1, <2>2, <2>3
<1>5. QED
  BY <1>1, <1>2, <1>3, <1>4 DEF CInv

\* The types before and after a step.
LEMMA StepTypes ==
  ASSUME CInv, NoOverflow, [AnyNext]_vars
  PROVE  /\ IInv /\ IInv' /\ TypeOK /\ TypeOK'
         /\ Nodes \subseteq Index /\ Nodes' \subseteq Index /\ Nodes \subseteq Nodes'
         /\ \A n \in Nodes : isCi'[n] = isCi[n] /\ (IsGate(n)' <=> IsGate(n))
         /\ DeadBit \in Nat /\ DeadBit # 0
         /\ h1 \in [Index -> Nat] /\ h1' \in [Index -> Nat]
<1>1. IInv /\ TypeOK
  BY DEF CInv, IInv
<1>2. IInv' /\ TypeOK'
  BY <1>1, NextType, AllocatedStep, FreshStep, ScanningStep, HashStep DEF IInv
<1>3. Nodes \subseteq Index /\ Nodes' \subseteq Index
  <2>1. size \in 1 .. MaxNodes /\ size' \in 1 .. MaxNodes
    BY <1>1, <1>2 DEF TypeOK
  <2>2. \A k \in 1 .. MaxNodes : 0 .. k - 1 \subseteq Index
    BY MaxNodesAssumption DEF Index
  <2>3. QED
    BY <2>1, <2>2 DEF Nodes
<1>4. Nodes \subseteq Nodes' /\ \A n \in Nodes : isCi'[n] = isCi[n]
  BY <1>1, NodesGrow
<1>5. h1 \in [Index -> Nat] /\ h1' \in [Index -> Nat]
  <2>1. /\ h1 \in [Index -> 0 .. 2 * DeadBit - 1] /\ h1' \in [Index -> 0 .. 2 * DeadBit - 1]
        /\ 0 .. 2 * DeadBit - 1 \subseteq Nat
    BY <1>1, <1>2, DeadBitAssumption DEF TypeOK
  <2>2. QED
    BY <2>1
<1>6. QED
  BY <1>1, <1>2, <1>3, <1>4, <1>5, DeadBitAssumption DEF IsGate

-----------------------------------------------------------------------------
(* The stack and the phases of a substitution.                             *)

\* A client starts from an empty stack, outside of any substitution.
ClientCall ==
  \/ \E n \in Nodes : TakeOut(n)
  \/ \E o \in Nodes, s \in Signals : SubstituteNode(o, s)
  \/ SomeNoRestrash \/ SomeComplement

\* A new frame, alone on the stack or on top of frames of its kind.
LEMMA KindOfCall ==
  ASSUME NEW op \in {"take_out", "revive"}, NEW n \in Index
  PROVE  /\ Call(op, n) \in OfKind(op) /\ <<Call(op, n)>> \in Seq(OfKind(op))
         /\ Call(op, n).op = op /\ Call(op, n).node = n /\ Call(op, n).at = 0
<1>1. Call(op, n) \in OfKind(op)
  BY CallType DEF OfKind, Call
<1>2. QED
  BY <1>1 DEF Call

\* A stack of one kind stays so when its innermost frame advances or returns,
\* and the others have entered their nodes.
LEMMA KindOfRest ==
  ASSUME CInv, calls # <<>>
  PROVE  LET op == Head(calls).op
         IN  /\ op \in {"take_out", "revive"} /\ calls \in Seq(OfKind(op))
             /\ Tail(calls) \in Seq(OfKind(op)) /\ Advance \in Seq(OfKind(op))
             /\ \A q : calls \in Seq(OfKind(q)) => q = op
             /\ Tail(calls) \in Seq(Visiting) /\ Advance \in Seq(Visiting)
<1> DEFINE f == Head(calls)
           g == [f EXCEPT !.at = @ + 1]
<1>1. f \in Frame /\ f.op \in {"take_out", "revive"} /\ f.at \in 0 .. 2
  BY CallsSplit DEF CInv, IInv, Frame
<1>2. \A q : calls \in Seq(OfKind(q)) => f.op = q /\ Tail(calls) \in Seq(OfKind(q))
  BY PopFromSeq DEF OfKind
<1>3. calls \in Seq(OfKind(f.op)) /\ Tail(calls) \in Seq(OfKind(f.op))
  BY <1>2 DEF CInv, OneKind
<1>4. Tail(calls) \in Seq(Visiting)
  BY DEF CInv, Nested
<1>5. CASE f.at < 2
  <2>1. g \in OfKind(f.op) /\ g \in Visiting
    BY <1>1, <1>5 DEF OfKind, Visiting, Frame
  <2>2. Advance = <<g>> \o Tail(calls)
    BY <1>5 DEF Advance
  <2> HIDE DEF g, f
  <2>3. Advance \in Seq(OfKind(f.op)) /\ Advance \in Seq(Visiting)
    BY <1>3, <1>4, <2>1, <2>2, PushInSeq
  <2>4. QED
    BY <1>1, <1>2, <1>3, <1>4, <2>3 DEF f
<1>6. CASE ~(f.at < 2)
  BY <1>1, <1>2, <1>3, <1>4, <1>6 DEF Advance
<1>7. QED
  BY <1>5, <1>6

-----------------------------------------------------------------------------
(* Single counts.                                                          *)

\* ++ of the count of a live node.
LEMMA IncrCount ==
  ASSUME TypeOK, NoOverflow, NEW n \in Index, ~Dead(n), NEW m \in Index
  PROVE  Incr(h1, n)[m] = h1[m] + One(m = n)
<1>1. h1 \in [Index -> Nat] /\ Len(outputs) \in Nat /\ DeadBit \in Nat
  BY DeadBitAssumption DEF TypeOK
<1>2. h1[n] < DeadBit /\ h1[n] + 1 \in Nat /\ h1[n] + 1 < 2 * DeadBit
  BY <1>1, DeadBitAssumption DEF Dead
<1>3. (h1[n] + 1) % (2 * DeadBit) = h1[n] + 1
  BY <1>2, WrapsNot
<1>4. QED
  BY <1>1, <1>3 DEF Incr, One

\* -- of the count of a live node that has references.
LEMMA DecrCount ==
  ASSUME TypeOK, NEW n \in Index, ~Dead(n), h1[n] # 0, NEW m \in Index
  PROVE  Decr(h1, n)[m] + One(m = n) = h1[m]
<1>1. h1 \in [Index -> Nat] /\ DeadBit \in Nat
  BY DeadBitAssumption DEF TypeOK
<1>2. h1[n] < DeadBit
  BY <1>1 DEF Dead
<1>3. (h1[n] + 2 * DeadBit - 1) % (2 * DeadBit) = h1[n] - 1
  BY <1>1, <1>2, OneDown
<1>4. QED
  BY <1>1, <1>3 DEF Decr, One

\* The fanout size of a node is its count, or 0 if it is dead.
LEMMA FanoutSizes ==
  ASSUME CInv, NEW n \in Nodes
  PROVE  FanoutSize(n) = IF Dead(n) THEN 0 ELSE h1[n]
<1>1. n \in Index /\ h1[n] \in Nat /\ DeadBit \in Nat /\ DeadBit # 0
  BY NodesType, DeadBitAssumption DEF CInv, IInv, TypeOK
<1>2. CASE Dead(n)
  <2>1. h1[n] = DeadBit
    BY <1>2 DEF CInv, DeadUncounted
  <2>2. DeadBit % DeadBit = 0
    BY <1>1
  <2>3. QED
    BY <1>2, <2>1, <2>2 DEF FanoutSize
<1>3. CASE ~Dead(n)
  BY <1>1, <1>3, FanoutSizeOfLive DEF FanoutSize, Dead
<1>4. QED
  BY <1>2, <1>3

\* The fanin that a frame is at.
LEMMA FaninOfFrame ==
  ASSUME CInv, calls # <<>>, Head(calls).at \in {1, 2}
  PROVE  LET f == Head(calls)
         IN  f.node \in Nodes /\ child[f.node][f.at].node \in Nodes
  BY FrameParts, AllocatedParts DEF CInv

\* The count of a dead node changes only when it is revived.
LEMMA DeadStep ==
  ASSUME CInv, NoOverflow, [AnyNext]_vars, NEW m \in Nodes, Dead(m)
  PROVE  h1'[m] = h1[m] \/ (ReviveEnter /\ m = Head(calls).node)
<1> USE StepTypes
<1>1. m \in Index
  OBVIOUS
<1>2. CASE h1' = h1
  BY <1>2
<1>3. ASSUME NEW n \in Index, n # m,
             \/ h1' = Incr(h1, n) \/ h1' = Decr(h1, n)
             \/ \E k : h1' = [h1 EXCEPT ![n] = k]
      PROVE  h1'[m] = h1[m]
  BY <1>1, <1>3 DEF Incr, Decr
<1>4. CASE Build
  <2>1. CASE CreatePi
    BY <1>2, <2>1 DEF CreatePi
  <2>2. ASSUME NEW f \in LiveSignals, CreatePo(f)
        PROVE  h1'[m] = h1[m]
    BY <1>3, <2>2 DEF CreatePo, LiveSignals, Signals
  <2>3. ASSUME NEW a \in LiveSignals, NEW b \in LiveSignals, CreateAnd(a, b)
        PROVE  h1'[m] = h1[m]
    <3>1. a.node # m /\ b.node # m
      BY DEF LiveSignals
    <3>2. QED
      BY <1>1, <2>3, <3>1 DEF CreateAnd, Incr
  <2>4. QED
    BY <1>4, <2>1, <2>2, <2>3 DEF Build
<1>5. CASE Unwind
  <2> DEFINE f == Head(calls)
             c == child[f.node][f.at].node
  <2>1. calls # <<>>
    BY <1>5 DEF Unwind, TakeOutIgnored, TakeOutEnter, TakeOutFanin, ReviveEnter, ReviveFanin, InCall
  <2>2. f.node \in Nodes /\ (f.at \in {1, 2} => c \in Nodes)
    BY <2>1, FrameParts, FaninOfFrame DEF CInv
  <2>3. CASE TakeOutIgnored
    BY <1>2, <2>3 DEF TakeOutIgnored, netVars
  <2>4. CASE TakeOutEnter
    BY <1>3, <2>2, <2>4 DEF TakeOutEnter
  <2>5. CASE TakeOutFanin
    <3>1. c \in Nodes /\ (h1' = h1 \/ (FanoutSize(c) # 0 /\ h1' = Decr(h1, c)))
      BY <2>2, <2>5 DEF TakeOutFanin, InCall
    <3>2. FanoutSize(c) # 0 => c # m
      BY FanoutSizes
    <3>3. QED
      BY <1>2, <1>3, <3>1, <3>2
  <2>6. CASE ReviveEnter
    BY <1>3, <2>2, <2>6 DEF ReviveEnter
  <2>7. CASE ReviveFanin
    <3>1. c \in Nodes /\ (h1' = h1 \/ (~Dead(c) /\ h1' = Incr(h1, c)))
      BY <2>2, <2>7 DEF ReviveFanin, InCall
    <3>2. QED
      BY <1>2, <1>3, <3>1
  <2>8. QED
    BY <1>5, <2>3, <2>4, <2>5, <2>6, <2>7 DEF Unwind
<1>6. CASE Substitute
  <2>1. CASE Return \/ Pop \/ Follow \/ Resolved \/ Begin
    BY <1>2, <2>1 DEF Return, Pop, Follow, Resolved, Begin, netVars
  <2>2. CASE Visit \/ FinishPair
    <3>1. pc = "scan"
      BY <2>2 DEF Visit, FinishPair
    <3>2. sub.new.node \in Index /\ sub.new.node # m
      BY <3>1, AllocatedParts DEF CInv, Phases
    <3>3. \/ h1' = h1 \/ h1' = Incr(h1, sub.new.node)
          \/ \E k : h1' = [h1 EXCEPT ![sub.new.node] = k]
      BY <2>2 DEF Visit, ReplaceInNode, CollapseNode, RestrashNode, RewireNode, netVars, FinishPair
    <3>4. QED
      BY <1>2, <1>3, <3>2, <3>3
  <2>3. QED
    BY <1>6, <2>1, <2>2 DEF Substitute
<1>7. CASE ClientCall \/ UNCHANGED vars
  BY <1>2, <1>7 DEF ClientCall, TakeOut, SubstituteNode, SomeNoRestrash, SomeComplement,
                    SubstituteNodeNoRestrash, SubstituteComplement, netVars, vars
<1>8. QED
  BY <1>4, <1>5, <1>6, <1>7 DEF AnyNext, Next, ClientCall

\* A node that dies has no count left, and one that is dead gets none.
LEMMA DeadUncountedStep ==
  ASSUME CInv, NoOverflow, [AnyNext]_vars
  PROVE  DeadUncounted'
<1> USE StepTypes
<1> SUFFICES ASSUME NEW m \in Nodes', Dead(m)'
             PROVE  h1'[m] = DeadBit
  BY DEF DeadUncounted
<1>1. CASE m \notin Nodes
  <2>1. m \in Index /\ h1'[m] = 0
    BY <1>1, CountsStep DEF CInv, IInv, Fresh
  <2>2. QED
    BY <2>1 DEF Dead
<1>2. CASE m \in Nodes /\ ~Dead(m)
  BY <1>2, CountsStep DEF TakeOutEnter, CInv
<1>3. CASE m \in Nodes /\ Dead(m)
  <2>1. CASE h1'[m] = h1[m]
    BY <1>3, <2>1 DEF CInv, DeadUncounted
  <2>2. CASE ReviveEnter /\ m = Head(calls).node
    <3>1. h1'[m] = 0
      BY <2>2 DEF ReviveEnter
    <3>2. QED
      BY <3>1 DEF Dead
  <2>3. QED
    BY <1>3, <2>1, <2>2, DeadStep
<1>4. QED
  BY <1>1, <1>2, <1>3

-----------------------------------------------------------------------------
(* The stack and the phases, step by step.                                 *)

\* What steps outside of take_out_node and revive_node do to the stack.
LEMMA CallsStep ==
  ASSUME CInv, NoOverflow, [AnyNext]_vars, ~Unwind
  PROVE  \/ calls' = calls /\ \A m \in Nodes : Dead(m)' <=> Dead(m)
         \/ /\ calls = <<>> /\ \A m \in Nodes : Dead(m)' <=> Dead(m)
            /\ \E op \in {"take_out", "revive"}, n \in Index :
                  calls' = <<Call(op, n)>> /\ (op = "revive" => h1'[n] >= DeadBit)
         \/ calls = <<>> /\ calls' = <<>> /\ \A m \in Nodes : Dead(m)' <=> Dead(m)
<1> USE StepTypes
<1>1. ~TakeOutEnter /\ ~ReviveEnter
  BY DEF Unwind
<1>2. \A m \in Nodes : Dead(m)' <=> Dead(m)
  BY <1>1, CountsStep, DeadStep DEF Dead, CInv
<1>3. CASE Build \/ (\E o \in Nodes, s \in Signals : SubstituteNode(o, s)) \/ SomeComplement
           \/ Return \/ Pop \/ Follow \/ Begin \/ Visit \/ UNCHANGED vars
  <2>1. calls' = calls
    BY <1>3 DEF Build, CreatePi, CreatePo, CreateAnd, SubstituteNode, SomeComplement,
                SubstituteComplement, Return, Pop, Follow, Begin, Visit, vars
  <2>2. QED
    BY <1>2, <2>1
<1>4. ASSUME NEW n \in Nodes, TakeOut(n)
      PROVE  calls = <<>> /\ calls' = <<Call("take_out", n)>>
  BY <1>4 DEF TakeOut, Idle
<1>5. ASSUME NEW o \in Nodes, NEW s \in Signals, SubstituteNodeNoRestrash(o, s)
      PROVE  /\ calls = <<>>
             /\ \/ h1'[s.node] >= DeadBit /\ calls' = <<Call("revive", s.node)>>
                \/ calls' = <<>>
  BY <1>5 DEF Dead, netVars, SubstituteNodeNoRestrash, MaySubstitute, Idle
<1>6. CASE Resolved
  <2>1. calls = <<>> /\ sub.new.node \in Index
    BY <1>6, AllocatedParts DEF Resolved, CInv, Phases
  <2>2. \/ h1'[sub.new.node] >= DeadBit /\ calls' = <<Call("revive", sub.new.node)>>
        \/ calls' = <<>>
    BY <1>6 DEF Resolved, Dead, netVars
  <2> DEFINE op == "revive"
             n == sub.new.node
  <2>3. op \in {"take_out", "revive"} /\ n \in Index
    BY <2>1
  <2>4. \/ h1'[n] >= DeadBit /\ calls' = <<Call(op, n)>>
        \/ calls' = <<>>
    BY <2>2
  <2> HIDE DEF op, n
  <2>5. QED
    BY <1>2, <2>1, <2>3, <2>4, Zenon
<1>7. CASE FinishPair
  <2>1. calls = <<>> /\ sub.old \in Index
    BY <1>7, AllocatedParts DEF FinishPair, CInv, IInv, Scanning
  <2>2. calls' = <<Call("take_out", sub.old)>> \/ calls' = <<>>
    BY <1>7 DEF FinishPair
  <2>3. QED
    BY <1>2, <2>1, <2>2
<1>8. CASE SomeNoRestrash
  <2>1. PICK o \in Nodes, s \in Signals : SubstituteNodeNoRestrash(o, s)
    BY <1>8 DEF SomeNoRestrash
  <2>2. s.node \in Index
    BY DEF Signals
  <2>3. QED
    BY <1>2, <1>5, <2>1, <2>2
<1>9. CASE \E n \in Nodes : TakeOut(n)
  BY <1>2, <1>4, <1>9
<1>10. QED
  BY <1>3, <1>6, <1>7, <1>8, <1>9 DEF AnyNext, Next, Substitute

\* What take_out_node and revive_node do to the stack: the innermost frame
\* returns, advances, or stays below a new one of its kind.
LEMMA UnwindCalls ==
  ASSUME CInv, NoOverflow, Unwind
  PROVE  LET f == Head(calls)
             c == child[f.node][f.at].node
         IN  /\ calls # <<>>
             /\ \/ calls' = Tail(calls) /\ TakeOutIgnored
                \/ calls' = Advance
                \/ /\ calls' = <<Call("take_out", c)>> \o Advance
                   /\ TakeOutFanin /\ f.op = "take_out" /\ f.at \in {1, 2} /\ c \in Nodes
                   /\ ~Dead(c) /\ h1[c] # 0 /\ h1' = Decr(h1, c) /\ h1'[c] = 0
                \/ /\ calls' = <<Call("revive", c)>> \o calls
                   /\ ReviveFanin /\ f.op = "revive" /\ f.at \in {1, 2} /\ c \in Nodes
                   /\ Dead(c)
<1> DEFINE f == Head(calls)
           c == child[f.node][f.at].node
<1> USE StepTypes
<1>1. calls # <<>> /\ [AnyNext]_vars
  BY DEF Unwind, TakeOutIgnored, TakeOutEnter, TakeOutFanin, ReviveEnter, ReviveFanin,
         InCall, AnyNext, Next
<1>2. CASE TakeOutIgnored
  BY <1>1, <1>2 DEF TakeOutIgnored
<1>3. CASE TakeOutEnter \/ ReviveEnter
  BY <1>1, <1>3 DEF TakeOutEnter, ReviveEnter
<1>4. CASE TakeOutFanin
  <2>1. f.op = "take_out" /\ f.at \in {1, 2} /\ c \in Nodes
    BY <1>1, <1>4, FaninOfFrame DEF TakeOutFanin, InCall
  <2>2. CASE calls' = Advance
    BY <1>1, <2>2
  <2>3. CASE calls' # Advance
    <3>1. /\ FanoutSize(c) # 0 /\ h1' = Decr(h1, c) /\ h1'[c] % DeadBit = 0
          /\ calls' = <<Call("take_out", c)>> \o Advance
      BY <1>4, <2>3 DEF TakeOutFanin
    <3> HIDE DEF c
    <3>2. ~Dead(c) /\ h1[c] # 0 /\ c \in Index /\ h1[c] < DeadBit
      <4>1. FanoutSize(c) = IF Dead(c) THEN 0 ELSE h1[c]
        BY <2>1, FanoutSizes
      <4>2. c \in Index /\ h1[c] \in Nat
        BY <1>1, <2>1
      <4>3. QED
        BY <1>1, <3>1, <4>1, <4>2 DEF Dead
    <3>3. h1'[c] + 1 = h1[c]
      BY <1>1, <3>1, <3>2, DecrCount DEF One
    <3>4. h1'[c] \in Nat /\ h1'[c] < DeadBit
      BY <1>1, <3>2, <3>3
    <3>5. h1'[c] = 0
      BY <1>1, <3>1, <3>4, FanoutSizeOfLive
    <3>6. QED
      BY <1>1, <1>4, <2>1, <3>1, <3>2, <3>5 DEF c
  <2>4. QED
    BY <2>2, <2>3
<1>5. CASE ReviveFanin
  <2>1. f.op = "revive" /\ f.at \in {1, 2} /\ c \in Nodes
    BY <1>1, <1>5, FaninOfFrame DEF ReviveFanin, InCall
  <2>2. QED
    BY <1>1, <1>5, <2>1 DEF ReviveFanin
<1>6. QED
  BY <1>2, <1>3, <1>4, <1>5 DEF Unwind

\* take_out_node and revive_node call only themselves.
LEMMA UnwindKind ==
  ASSUME CInv, NoOverflow, Unwind
  PROVE  calls' \in Seq(OfKind(Head(calls).op))
<1> DEFINE f == Head(calls)
           c == child[f.node][f.at].node
<1> USE StepTypes
<1>1. calls # <<>> /\ [AnyNext]_vars
  BY UnwindCalls DEF AnyNext, Next
<1>2. /\ f.op \in {"take_out", "revive"} /\ calls \in Seq(OfKind(f.op))
      /\ Tail(calls) \in Seq(OfKind(f.op)) /\ Advance \in Seq(OfKind(f.op))
  BY <1>1, KindOfRest
<1>3. ASSUME NEW s \in Seq(OfKind(f.op)), NEW n \in Nodes
      PROVE  <<Call(f.op, n)>> \o s \in Seq(OfKind(f.op))
  <2>1. Nodes \subseteq Index
    BY <1>1
  <2>2. Call(f.op, n) \in OfKind(f.op)
    BY <1>2, <2>1, KindOfCall
  <2>3. QED
    BY <2>2, PushInSeq
<1>4. QED
  BY <1>2, <1>3, UnwindCalls

\* The activations stay of one kind.
LEMMA OneKindStep ==
  ASSUME CInv, NoOverflow, [AnyNext]_vars
  PROVE  OneKind'
<1> USE StepTypes
<1>1. CASE ~Unwind
  <2>1. \A op \in {"take_out", "revive"}, n \in Index : <<Call(op, n)>> \in Seq(OfKind(op))
    BY KindOfCall
  <2>2. CASE calls' = calls
    BY <2>2 DEF CInv, OneKind, OfKind
  <2>3. CASE calls' = <<>>
    BY <2>3 DEF OneKind
  <2>4. ASSUME NEW op \in {"take_out", "revive"}, NEW n \in Index, calls' = <<Call(op, n)>>
        PROVE  OneKind'
    <3>1. calls' \in Seq(OfKind(op))
      BY <2>1, <2>4
    <3>2. QED
      BY <3>1 DEF OneKind, OfKind
  <2>5. QED
    BY <1>1, <2>2, <2>3, <2>4, CallsStep
<1>2. CASE Unwind
  <2>1. Head(calls).op \in {"take_out", "revive"}
    BY <1>2, UnwindCalls, KindOfRest
  <2>2. calls' \in Seq(OfKind(Head(calls).op))
    BY <1>2, UnwindKind
  <2>3. QED
    BY <2>1, <2>2 DEF OneKind, OfKind
<1>3. QED
  BY <1>1, <1>2

\* Stacks of one frame, and a frame on top of others.
LEMMA TailOfOne ==
  ASSUME NEW x
  PROVE  Head(<<x>>) = x /\ Tail(<<x>>) = <<>>
  OBVIOUS

\* The frame that is pushed is the innermost one.
LEMMA HeadOfPush ==
  ASSUME NEW S, NEW s \in Seq(S), NEW x
  PROVE  Head(<<x>> \o s) = x /\ Tail(<<x>> \o s) = s
  OBVIOUS

\* Only the innermost frame has its node still to enter.
LEMMA NestedStep ==
  ASSUME CInv, NoOverflow, [AnyNext]_vars
  PROVE  Nested'
<1> USE StepTypes
<1>1. CASE ~Unwind
  <2>1. CASE calls' = calls /\ calls # <<>>
    <3>1. \A m \in Nodes : Dead(m)' <=> Dead(m)
      BY <1>1, CallsStep
    <3>2. Head(calls).node \in Nodes
      BY <2>1, FrameParts
    <3>3. h1' = h1
      BY <1>1, <2>1 DEF AnyNext, Next, Build, CreatePi, CreatePo, CreateAnd, TakeOut,
         SubstituteNode, SomeNoRestrash, SubstituteNodeNoRestrash, MaySubstitute,
         SomeComplement, SubstituteComplement, Idle, Substitute, Return, Pop, Follow,
         Resolved, Begin, Visit, FinishPair, CInv, IInv, Scanning, Phases, vars, netVars
    <3>4. QED
      BY <2>1, <3>1, <3>2, <3>3 DEF CInv, Nested, InCall, Visiting
  <2>2. CASE calls' = <<>>
    BY <2>2 DEF Nested
  <2>3. ASSUME NEW op \in {"take_out", "revive"}, NEW n \in Index,
               calls' = <<Call(op, n)>>, op = "revive" => h1'[n] >= DeadBit
        PROVE  Nested'
    <3>1. Head(calls') = Call(op, n) /\ Tail(calls') = <<>>
      BY <2>3, TailOfOne
    <3>2. Head(calls').op = op /\ Head(calls').node = n
      BY <3>1, KindOfCall
    <3>3. <<>> \in Seq(Visiting)
      OBVIOUS
    <3>4. op = "revive" => h1'[Head(calls').node] >= DeadBit
      BY <2>3, <3>2
    <3>5. QED
      BY <3>1, <3>2, <3>3, <3>4 DEF Nested, Visiting, InCall, Dead
  <2>4. QED
    BY <1>1, <2>1, <2>2, <2>3, CallsStep
<1>2. CASE Unwind
  <2> DEFINE f == Head(calls)
             c == child[f.node][f.at].node
  <2>1. calls # <<>>
    BY <1>2, UnwindCalls
  <2>2. Tail(calls) \in Seq(Visiting) /\ Advance \in Seq(Visiting)
    BY <2>1, KindOfRest
  <2>3. CASE calls' = Tail(calls) \/ calls' = Advance
    <3>1. calls' # <<>> => Head(calls') \in Visiting /\ Tail(calls') \in Seq(Visiting)
      BY <2>2, <2>3, PopFromSeq
    <3>2. QED
      BY <3>1 DEF Nested, InCall, Visiting
  <2>4. ASSUME calls' = <<Call("take_out", c)>> \o Advance, c \in Nodes,
               ~Dead(c), h1' = Decr(h1, c), h1'[c] = 0
        PROVE  Nested'
    <3>1. Head(calls') = Call("take_out", c) /\ Tail(calls') = Advance
      BY <2>2, <2>4, HeadOfPush
    <3>2. Head(calls').node = c
      BY <3>1 DEF Call
    <3>3. h1'[Head(calls').node] = 0 /\ ~(0 >= DeadBit)
      <4>1. h1'[Head(calls').node] = 0
        BY <2>4, <3>2, Zenon
      <4>2. QED
        BY <4>1
    <3>4. Tail(calls') \in Seq(Visiting)
      BY <2>2, <3>1
    <3>5. Head(calls').op # "revive"
      BY <3>1 DEF Call
    <3>6. QED
      BY <3>3, <3>4, <3>5 DEF Nested, Dead, Visiting, InCall
  <2>5. ASSUME calls' = <<Call("revive", c)>> \o calls, ReviveFanin,
               f.at \in {1, 2}, Dead(c)
        PROVE  Nested'
    <3>1. calls \in Seq(Visiting)
      <4>1. f \in Frame /\ calls = <<f>> \o Tail(calls)
        BY <2>1, CallsSplit
      <4>2. f \in Visiting
        <5>1. f.at \in {1, 2}
          BY <2>5
        <5>2. f \in Frame
          BY <4>1
        <5> HIDE DEF f
        <5>3. QED
          BY ONLY <5>1, <5>2 DEF Visiting
      <4> HIDE DEF f
      <4>3. QED
        BY <2>2, <4>1, <4>2, PushInSeq
    <3>2. Head(calls') = Call("revive", c) /\ Tail(calls') = calls
      BY <2>5, <3>1, HeadOfPush
    <3>3. Head(calls').op = "revive"
      BY <3>2 DEF Call
    <3>4. Tail(calls') \in Seq(Visiting)
      BY <3>1, <3>2, Zenon
    <3>5. h1' = h1
      BY <2>5 DEF ReviveFanin
    <3> HIDE DEF c
    <3>6. Head(calls').node = c
      BY <3>2 DEF Call
    <3>7. h1'[Head(calls').node] >= DeadBit
      BY <2>5, <3>5, <3>6 DEF Dead
    <3>8. QED
      BY <3>3, <3>4, <3>7 DEF Nested, InCall, Visiting, Dead
  <2>6. QED
    BY <1>2, <2>3, <2>4, <2>5, UnwindCalls
<1>3. QED
  BY <1>1, <1>2

\* Only gates get onto the worklist, if clients replace gates only.
LEMMA OldGatesStep ==
  ASSUME CInv, NoOverflow, OldInputs = {}, [AnyNext]_vars
  PROVE  OldGates'
<1> USE StepTypes
<1> DEFINE Gates == {n \in Nodes : IsGate(n)}
<1>1. /\ Gates \subseteq {n \in Nodes : IsGate(n)}'
      /\ \A s \in GatePair : s \in GatePair'
  BY DEF GatePair, Signal
<1>2. /\ LiveGates \subseteq Gates /\ todo \in Seq(GatePair') /\ sub' \in Substitution
  <2>1. todo \in Seq(GatePair)
    BY DEF CInv, OldGates
  <2>2. QED
    BY <1>1, <2>1, SeqMonotonic DEF LiveGates, TypeOK
<1>3. ASSUME NEW o, NEW s, MaySubstitute(o, s) PROVE o \in Gates
  BY <1>2, <1>3 DEF MaySubstitute
<1>4. CASE /\ UNCHANGED <<todo, sub>>
           /\ pc' \in {"resolve", "begin", "scan"} => pc \in {"resolve", "begin", "scan"}
  BY <1>1, <1>2, <1>4 DEF CInv, OldGates
<1>5. CASE Build \/ Unwind \/ (\E n \in Nodes : TakeOut(n)) \/ UNCHANGED vars
  <2>1. UNCHANGED <<todo, sub, pc>>
    BY <1>5 DEF Build, CreatePi, CreatePo, CreateAnd, Unwind, TakeOutIgnored, TakeOutEnter,
                TakeOutFanin, ReviveEnter, ReviveFanin, TakeOut, vars, ctlVars
  <2>2. QED
    BY <1>4, <2>1
<1>6. CASE Resolved \/ Begin \/ FinishPair
  BY <1>4, <1>6 DEF Resolved, Begin, FinishPair
<1>7. ASSUME NEW o \in Nodes, NEW s \in Signals,
             SubstituteNode(o, s) \/ SubstituteNodeNoRestrash(o, s)
      PROVE  OldGates'
  <2>1. o \in Gates
    BY <1>2, <1>3, <1>7 DEF SubstituteNode, SubstituteNodeNoRestrash
  <2>2. s \in Signal
    BY NodesType
  <2>3. [old |-> o, new |-> s] \in GatePair'
    BY <1>1, <2>1, <2>2 DEF GatePair
  <2>4. CASE SubstituteNode(o, s)
    BY <2>3, <2>4 DEF SubstituteNode, OldGates
  <2>5. CASE SubstituteNodeNoRestrash(o, s)
    BY <1>2, <2>3, <2>5 DEF SubstituteNodeNoRestrash, OldGates
  <2>6. QED
    BY <1>7, <2>4, <2>5
<1>8. CASE Return
  BY <1>2, <1>8 DEF Return, OldGates
<1>9. CASE Pop
  <2>1. Head(todo) \in GatePair' /\ Tail(todo) \in Seq(GatePair')
    BY <1>2, <1>9, PopFromSeq DEF Pop
  <2>2. QED
    BY <1>9, <2>1 DEF Pop, OldGates
<1>10. CASE Follow
  <2>1. sub \in GatePair /\ sub'.old = sub.old /\ pc' = pc /\ todo' = todo
    BY <1>10 DEF Follow, CInv, OldGates, GatePair
  <2>2. sub' \in GatePair
    BY <1>2, <2>1 DEF GatePair, Substitution
  <2>3. QED
    BY <1>1, <1>2, <2>1, <2>2 DEF OldGates
<1>11. CASE Visit
  <2>1. PICK n \in scan : ReplaceInNode(n)
    BY <1>11 DEF Visit
  <2>2. pc = "scan" /\ pc' = pc /\ sub' = sub /\ n \in Gates
    BY <1>2, <1>11, <2>1 DEF Visit, CInv, IInv, Scanning
  <2>3. CASE CollapseNode(n)
    <3>1. Equal(Rewired(n)) \in Signal
      BY <2>2, <2>3, RewiredType, EqualType DEF CollapseNode
    <3>2. [old |-> n, new |-> Equal(Rewired(n))] \in GatePair'
      BY <1>1, <2>2, <3>1 DEF GatePair
    <3>3. todo' \in Seq(GatePair')
      BY <1>2, <2>3, <3>2, PushInSeq DEF CollapseNode
    <3>4. QED
      BY <1>1, <2>2, <3>3 DEF CInv, OldGates
  <2>4. CASE RestrashNode(n) \/ RewireNode(n)
    BY <1>4, <2>2, <2>4 DEF RestrashNode, RewireNode
  <2>5. QED
    BY <2>1, <2>3, <2>4 DEF ReplaceInNode
<1>12. CASE \E o \in Nodes, s \in Signals : SubstituteNode(o, s)
  BY <1>7, <1>12
<1>13. CASE SomeNoRestrash
  BY <1>7, <1>13 DEF SomeNoRestrash
<1>14. ASSUME NEW o \in Nodes, SubstituteComplement(o)
       PROVE  OldGates'
  <2> DEFINE t == [node |-> o, neg |-> TRUE]
  <2>1. o \in Gates /\ t \in Signal
    BY <1>2, <1>14 DEF SubstituteComplement, Signal
  <2>2. [old |-> o, new |-> t] \in GatePair'
    BY <1>1, <2>1 DEF GatePair
  <2>3. QED
    BY <1>14, <2>2 DEF SubstituteComplement, OldGates
<1>15. QED
  BY <1>5, <1>6, <1>8, <1>9, <1>10, <1>11, <1>12, <1>13, <1>14
  DEF AnyNext, Next, Substitute, SomeComplement

\* Where a substitution is, and what is live there.
LEMMA PhasesStep ==
  ASSUME CInv, NoOverflow, [AnyNext]_vars
  PROVE  Phases'
<1> USE StepTypes
<1> DEFINE r == Call("revive", sub.new.node)
<1>1. sub.new.node \in Nodes /\ \A m \in Nodes : ~Dead(m) /\ Dead(m)' => TakeOutEnter
  BY AllocatedParts, CountsStep DEF CInv
<1>2. CASE UNCHANGED vars
  BY <1>2 DEF CInv, Phases, Dead, FaninNodes, OfKind, Call, vars, netVars, ctlVars
<1>3. CASE pc' \in {"idle", "pop"}
  BY <1>3 DEF Phases
<1>4. CASE Build \/ (\E n \in Nodes : TakeOut(n)) \/ Return \/ FinishPair \/ SomeComplement
           \/ (\E o \in Nodes, s \in Signals : SubstituteNode(o, s))
  <2>1. pc' \in {"idle", "pop"}
    BY <1>4 DEF Build, CreatePi, CreatePo, CreateAnd, TakeOut, Return, FinishPair,
                SomeComplement, SubstituteComplement, SubstituteNode, Idle, ctlVars
  <2>2. QED
    BY <1>3, <2>1
<1>5. ASSUME NEW o \in Nodes, NEW s \in Signals, SubstituteNodeNoRestrash(o, s)
      PROVE  Phases'
  <2>1. /\ pc' = "begin" /\ sub'.new = s /\ h1' = h1
        /\ calls' = IF Dead(s.node) THEN <<Call("revive", s.node)>> ELSE <<>>
    BY <1>5 DEF SubstituteNodeNoRestrash, netVars
  <2>2. s.node \in Index
    BY DEF Signals
  <2>3. calls' \in Seq(OfKind("revive"))
    BY <2>1, <2>2, KindOfCall
  <2>4. QED
    BY <2>1, <2>3 DEF Phases, Dead, OfKind, Call
<1>6. CASE Pop
  <2>1. /\ calls' = <<>> /\ h1' = h1 /\ pc' \in {"resolve", "begin"}
        /\ pc' = "begin" => ~Dead(sub'.new.node)
    BY <1>6 DEF Pop, netVars
  <2>2. QED
    BY <2>1 DEF Phases, Dead
<1>7. CASE Follow
  BY <1>7 DEF Follow, CInv, Phases
<1>8. CASE Resolved
  <2>1. /\ pc' = "begin" /\ UNCHANGED <<sub, h1>>
        /\ calls' = IF Dead(sub.new.node) THEN <<r>> ELSE <<>>
    BY <1>8 DEF Resolved, netVars
  <2>2. calls' \in Seq(OfKind("revive"))
    BY <1>1, <2>1, KindOfCall
  <2>3. QED
    BY <2>1, <2>2 DEF Phases, Dead, OfKind, Call
<1>9. CASE Begin
  <2>1. pc = "begin" /\ calls = <<>> /\ UNCHANGED netVars /\ sub' = sub /\ pc' = "scan"
    BY <1>9 DEF Begin
  <2>2. ~Dead(sub.new.node)
    BY <2>1 DEF CInv, Phases
  <2>3. \A n \in scan' : sub.old \in FaninNodes(n)
    BY <1>9 DEF Begin, Fanouts
  <2>4. QED
    BY <2>1, <2>2, <2>3 DEF Phases, Dead, FaninNodes, netVars
<1>10. CASE Visit
  <2>1. PICK n \in scan : ReplaceInNode(n) /\ scan' = scan \ {n}
    BY <1>10 DEF Visit
  <2>2. pc = "scan" /\ pc' = "scan" /\ sub' = sub /\ calls = <<>> /\ scan \subseteq Index
    BY <1>10 DEF Visit, CInv, IInv, Scanning, TypeOK
  <2>3. ~Dead(sub.new.node)'
    BY <1>1, <2>2 DEF CInv, Phases, TakeOutEnter, InCall
  <2>4. \A m \in scan' : child'[m] = child[m]
    BY <2>1, <2>2 DEF ReplaceInNode, CollapseNode, RestrashNode, RewireNode, netVars, TypeOK
  <2>5. \A m \in scan : sub.old \in FaninNodes(m)
    BY <2>2 DEF CInv, Phases
  <2>6. \A m \in scan' : sub'.old \in FaninNodes(m)'
    BY <2>1, <2>2, <2>4, <2>5 DEF FaninNodes
  <2>7. QED
    BY <2>2, <2>3, <2>6 DEF Phases
<1>11. CASE Unwind
  <2>1. calls # <<>> /\ UNCHANGED <<pc, sub>>
    BY <1>11 DEF Unwind, TakeOutIgnored, TakeOutEnter, TakeOutFanin, ReviveEnter,
                 ReviveFanin, InCall, ctlVars
  <2>2. pc \notin {"resolve", "scan"}
    BY <2>1 DEF CInv, Phases, IInv, Scanning
  <2>3. CASE pc = "begin"
    <3>1. Head(calls).op = "revive"
      BY <2>1, <2>3, KindOfRest DEF CInv, Phases
    <3>2. calls' \in Seq(OfKind("revive")) /\ ~TakeOutEnter
      BY <1>11, <3>1, UnwindKind DEF TakeOutEnter, InCall
    <3>3. CASE Dead(sub.new.node)
      <4>1. calls = <<r>> /\ Head(calls) = r /\ r.at = 0 /\ r.node = sub.new.node /\ r.op = "revive"
        BY <2>3, <3>3, TailOfOne DEF CInv, Phases, Call
      <4>2. ReviveEnter
        <5>1. Head(calls).op = "revive" /\ Head(calls).at = 0
          BY <4>1
        <5>2. ~InCall("take_out", {0}) /\ ~InCall("take_out", {1, 2})
          BY <5>1, "take_out" # "revive" DEF InCall
        <5>3. ~InCall("revive", {1, 2})
          <6>1. 0 \notin {1, 2}
            OBVIOUS
          <6>2. QED
            BY <5>1, <6>1, Zenon DEF InCall
        <5>4. QED
          BY <1>11, <3>2, <5>2, <5>3 DEF Unwind, TakeOutIgnored, TakeOutFanin, ReviveFanin
      <4>3. h1'[sub.new.node] = 0
        BY <1>1, <4>1, <4>2 DEF ReviveEnter
      <4>4. QED
        BY <2>1, <2>2, <2>3, <3>2, <4>3 DEF Phases, Dead, OfKind
    <3>4. CASE ~Dead(sub.new.node)
      <4>1. ~Dead(sub.new.node)'
        BY <1>1, <2>1, <3>2, <3>4
      <4>2. QED
        BY <2>1, <2>2, <2>3, <3>2, <4>1 DEF Phases, OfKind
    <3>5. QED
      BY <3>3, <3>4
  <2>4. CASE pc # "begin"
    BY <2>1, <2>2, <2>4 DEF Phases
  <2>5. QED
    BY <2>3, <2>4
<1>12. QED
  BY <1>2, <1>4, <1>5, <1>6, <1>7, <1>8, <1>9, <1>10, <1>11
  DEF AnyNext, Next, Substitute, SomeNoRestrash

-----------------------------------------------------------------------------
(* The counts, step by step.                                               *)

\* The equation of RefCountExact.
Balanced(n) == h1[n] + FaninsAhead("revive", n)
                 = References(n) + FaninsAhead("take_out", n)

\* What FaninsAhead counts after a step that changes no fanin.
LEMMA AheadPrimed ==
  ASSUME child' = child, NEW op, NEW m
  PROVE  FaninsAhead(op, m)' = Cardinality(AheadOf(calls', op, m))
  BY DEF FaninsAhead, AheadOf

\* A call that has still to enter its node has nothing ahead of it.
LEMMA AheadOfCall ==
  ASSUME NEW s \in Seq(Frame), NEW q \in {"take_out", "revive"}, NEW n \in Index,
         NEW op, NEW m
  PROVE  Cardinality(AheadOf(<<Call(q, n)>> \o s, op, m)) = Cardinality(AheadOf(s, op, m))
<1> DEFINE f == Call(q, n)
<1>1. f \in Frame /\ f.at = 0
  BY KindOfCall DEF OfKind
<1>2. Part(f, op, m) = 0
  BY <1>1 DEF Part, One
<1> HIDE DEF f
<1>3. /\ Cardinality(AheadOf(s, op, m)) \in Nat
      /\ Cardinality(AheadOf(<<f>> \o s, op, m))
           = Part(f, op, m) + Cardinality(AheadOf(s, op, m))
  BY <1>1, AheadPush
<1>4. Cardinality(AheadOf(<<f>> \o s, op, m)) = Cardinality(AheadOf(s, op, m))
  BY <1>2, <1>3
<1>5. QED
  BY <1>4 DEF f

\* The first call on an empty stack.
LEMMA AheadOfOneCall ==
  ASSUME NEW q \in {"take_out", "revive"}, NEW n \in Index, NEW op, NEW m
  PROVE  Cardinality(AheadOf(<<Call(q, n)>>, op, m)) = 0
<1> DEFINE f == Call(q, n)
           s == <<>>
<1>1. f \in Frame /\ s \in Seq(Frame)
  BY KindOfCall DEF OfKind
<1>2. Cardinality(AheadOf(s, op, m)) = 0
  BY AheadNone
<1>3. <<f>> \o s = <<f>>
  BY <1>1
<1> HIDE DEF s
<1>4. Cardinality(AheadOf(<<f>> \o s, op, m)) = Cardinality(AheadOf(s, op, m))
  BY <1>1, AheadOfCall
<1> HIDE DEF f
<1>5. Cardinality(AheadOf(<<f>>, op, m)) = 0
  BY <1>2, <1>3, <1>4
<1>6. QED
  BY <1>5 DEF f

\* A stack of one kind has nothing of the other kind ahead of it.
LEMMA NoneOfOtherKind ==
  ASSUME TypeOK, NEW k, calls \in Seq(OfKind(k)), NEW op, op # k, NEW m
  PROVE  FaninsAhead(op, m) = 0
<1>1. \A i \in DOMAIN calls : calls[i].op = k
  BY DEF OfKind
<1>2. AheadOf(calls, op, m) = {}
  BY <1>1 DEF AheadOf
<1>3. QED
  BY <1>2, FS_EmptySet DEF FaninsAhead, AheadOf

\* How the calls change what is ahead of them.
LEMMA AheadStep ==
  ASSUME CInv, calls # <<>>, child' = child, NEW op, NEW m,
         NEW q \in {"take_out", "revive"}, NEW c \in Index
  PROVE  LET f == Head(calls)
         IN  /\ calls' = Tail(calls) /\ f.at = 0 =>
                  FaninsAhead(op, m)' = FaninsAhead(op, m)
             /\ calls' = <<Call(q, c)>> \o calls =>
                  FaninsAhead(op, m)' = FaninsAhead(op, m)
             /\ calls' \in {Advance, <<Call(q, c)>> \o Advance} =>
                  /\ FaninsAhead(op, m)' \in Nat
                  /\ f.op # op => FaninsAhead(op, m)' = FaninsAhead(op, m)
                  /\ f.op = op /\ f.at = 0 =>
                        FaninsAhead(op, m)' = FaninsAhead(op, m) + Own(f.node, m)
                  /\ f.op = op /\ f.at # 0 =>
                        FaninsAhead(op, m)' + One(child[f.node][f.at].node = m)
                          = FaninsAhead(op, m)
<1> DEFINE f == Head(calls)
<1>1. TypeOK /\ calls \in Seq(Frame) /\ Advance \in Seq(Frame)
  BY KindOfRest DEF CInv, IInv, TypeOK, OfKind
<1>2. FaninsAhead(op, m)' = Cardinality(AheadOf(calls', op, m))
  BY AheadPrimed
<1>3. FaninsAhead(op, m) = Cardinality(AheadOf(calls, op, m))
  BY DEF FaninsAhead, AheadOf
<1>4. ASSUME calls' = Tail(calls), f.at = 0
      PROVE  FaninsAhead(op, m)' = FaninsAhead(op, m)
  <2>1. Part(f, op, m) = 0
    BY <1>4 DEF Part, One
  <2>2. /\ Cardinality(AheadOf(Tail(calls), op, m)) \in Nat
        /\ FaninsAhead(op, m) = Part(f, op, m) + Cardinality(AheadOf(Tail(calls), op, m))
    BY <1>1, AheadSplit
  <2>3. QED
    BY <1>2, <1>4, <2>1, <2>2
<1>5. ASSUME calls' = <<Call(q, c)>> \o calls
      PROVE  FaninsAhead(op, m)' = FaninsAhead(op, m)
  BY <1>1, <1>2, <1>3, <1>5, AheadOfCall
<1>6. ASSUME calls' \in {Advance, <<Call(q, c)>> \o Advance}
      PROVE  FaninsAhead(op, m)' = Cardinality(AheadOf(Advance, op, m))
  <2>1. Cardinality(AheadOf(<<Call(q, c)>> \o Advance, op, m))
           = Cardinality(AheadOf(Advance, op, m))
    BY <1>1, AheadOfCall
  <2>2. CASE calls' = Advance
    BY <1>2, <2>2
  <2>3. CASE calls' = <<Call(q, c)>> \o Advance
    <3> DEFINE t == <<Call(q, c)>> \o Advance
    <3>1. calls' = t /\ Cardinality(AheadOf(t, op, m)) = Cardinality(AheadOf(Advance, op, m))
      BY <2>1, <2>3
    <3> HIDE DEF t
    <3>2. QED
      BY <1>2, <3>1
  <2>4. QED
    BY <1>6, <2>2, <2>3
<1>7. QED
  BY <1>1, <1>4, <1>5, <1>6, AheadAdvance

\* Nothing refers to a node that does not exist yet: the equation holds for it.
LEMMA BalancedOutside ==
  ASSUME CInv, NEW m \in Index \ Nodes
  PROVE  ~Dead(m) /\ h1[m] = 0 /\ Balanced(m)
<1>1. IInv /\ TypeOK /\ h1[m] = 0 /\ ~Dead(m)
  BY DeadBitAssumption DEF CInv, IInv, Fresh, Dead
<1>2. \A n \in Index, i \in {1, 2} : child[n][i].node # m
  BY <1>1, AllocatedParts
<1>3. ASSUME NEW op PROVE FaninsAhead(op, m) = 0
  <2>1. calls \in Seq(Frame)
    BY <1>1 DEF TypeOK
  <2>2. ASSUME NEW i \in DOMAIN calls PROVE calls[i].node \in Index
    <3>1. calls[i] \in Frame
      BY <2>1
    <3>2. QED
      BY <3>1 DEF Frame
  <2>3. AheadOf(calls, op, m) = {}
    BY <1>2, <2>2 DEF AheadOf
  <2>4. QED
    BY <2>3, FS_EmptySet DEF FaninsAhead, AheadOf
<1>4. Users(1, m) = {} /\ Users(2, m) = {} /\ Driven(m) = {}
  <2>1. ASSUME NEW i \in DOMAIN outputs PROVE outputs[i].node \in Nodes
    <3>1. outputs \in Seq(NodeSignal)
      BY <1>1 DEF IInv, Allocated
    <3>2. outputs[i] \in NodeSignal
      BY <3>1
    <3>3. QED
      BY <3>2 DEF NodeSignal
  <2>2. LiveGates \subseteq Index
    BY <1>1, NodesType
  <2>3. QED
    BY <1>2, <2>1, <2>2 DEF Users, Driven
<1>5. References(m) = 0
  BY <1>4, ReferencesSplit, FS_EmptySet
<1>6. QED
  BY <1>1, <1>3, <1>5 DEF Balanced

\* Which nodes are dead changes only where one is entered.
LEMMA SameDead ==
  ASSUME CInv, NoOverflow, [AnyNext]_vars, ~TakeOutEnter, ~ReviveEnter
  PROVE  \A m \in Nodes : Dead(m)' <=> Dead(m)
  BY CountsStep, DeadStep DEF Dead, CInv

\* So do the live gates, but for a new one.
LEMMA SameLive ==
  ASSUME CInv, NoOverflow, [AnyNext]_vars, ~TakeOutEnter, ~ReviveEnter,
         UNCHANGED <<size, isCi>>
  PROVE  LiveGates' = LiveGates
  BY SameDead DEF LiveGates, Nodes, IsGate

\* The count of a node that is being replaced is stale until it is dead.
LEMMA StaleStep ==
  ASSUME CInv, NoOverflow, NotSelf, [AnyNext]_vars, NEW m \in Stale
  PROVE  m \in Stale' \/ h1'[m] >= DeadBit
<1> USE StepTypes
<1>1. m = sub.old /\ sub.old \in Nodes
  BY AllocatedParts DEF Stale
<1>2. CASE UNCHANGED vars
  <2>1. UNCHANGED <<pc, calls, sub, isCi>>
    BY <1>2 DEF vars, netVars, ctlVars
  <2>2. QED
    BY <2>1 DEF Stale, IsGate, Call
<1>3. CASE pc = "scan"
  <2>1. calls = <<>> /\ IsGate(sub.old)
    BY <1>3 DEF CInv, IInv, Scanning, OldGates, GatePair
  <2>2. CASE Visit
    BY <1>1, <1>3, <2>2 DEF Visit, Stale
  <2>3. CASE FinishPair
    <3>1. sub.old # sub.new.node
      BY <1>3 DEF NotSelf
    <3>2. calls' = <<Call("take_out", sub.old)>> /\ sub' = sub /\ IsGate(sub.old)'
      BY <1>1, <2>1, <2>3, <3>1 DEF FinishPair
    <3>3. QED
      BY <1>1, <3>2 DEF Stale, Call, IsGate, FinishPair
  <2>4. QED
    BY <1>2, <1>3, <2>1, <2>2, <2>3
    DEF AnyNext, Next, Build, CreatePi, CreatePo, CreateAnd, TakeOut, SubstituteNode,
        SomeNoRestrash, SubstituteNodeNoRestrash, SomeComplement, SubstituteComplement,
        MaySubstitute, Idle, Unwind, TakeOutIgnored, TakeOutEnter, TakeOutFanin,
        ReviveEnter, ReviveFanin, InCall, Substitute, Return, Pop, Follow, Resolved, Begin
<1>4. CASE pc # "scan"
  <2> DEFINE r == Call("take_out", sub.old)
  <2>1. calls = <<r>> /\ IsGate(m)
    BY <1>1, <1>4 DEF Stale
  <2>2. Head(calls) = r /\ r.op = "take_out" /\ r.node = m /\ r.at = 0 /\ calls # <<>>
    BY <1>1, <2>1, TailOfOne DEF Call
  <2> HIDE DEF r
  <2>3. /\ Head(calls).op = "take_out" /\ Head(calls).at = 0 /\ Head(calls).node = m
        /\ calls # <<>> /\ 0 \notin {1, 2} /\ "take_out" # "revive"
    BY <2>2
  <2>4. CASE TakeOutEnter
    <3>1. h1'[m] = DeadBit
      BY <1>1, <2>3, <2>4 DEF TakeOutEnter
    <3>2. QED
      BY <3>1
  <2>5. CASE TakeOutIgnored
    <3>1. Dead(m) /\ h1' = h1
      BY <2>1, <2>3, <2>5, Zenon DEF TakeOutIgnored, netVars
    <3>2. QED
      BY <3>1 DEF Dead
  <2>6. ~TakeOutFanin /\ ~ReviveEnter /\ ~ReviveFanin
    BY <2>3, Zenon DEF TakeOutFanin, ReviveEnter, ReviveFanin, InCall
  <2>7. CASE Follow \/ Resolved
    <3>1. pc = "resolve"
      BY <2>7 DEF Follow, Resolved
    <3>2. QED
      BY <2>3, <3>1 DEF CInv, Phases
  <2>8. QED
    BY <1>2, <1>4, <2>3, <2>4, <2>5, <2>6, <2>7
    DEF AnyNext, Next, Build, CreatePi, CreatePo, CreateAnd, TakeOut, SubstituteNode,
        SomeNoRestrash, SubstituteNodeNoRestrash, SomeComplement, SubstituteComplement,
        MaySubstitute, Idle, Unwind, Substitute, Return, Pop, Begin, Visit, FinishPair
<1>5. QED
  BY <1>3, <1>4

\* The equation relates numbers.
LEMMA BalanceTypes ==
  ASSUME TypeOK, NEW m \in Index
  PROVE  /\ h1[m] \in Nat /\ References(m) \in Nat
         /\ \A op : FaninsAhead(op, m) \in Nat
<1>1. h1[m] \in Nat
  BY DeadBitAssumption DEF TypeOK
<1>2. References(m) \in Nat
  BY Finite, ReferencesSplit
<1>3. QED
  BY <1>1, <1>2, AheadType

\* Steps after which everything that the equation relates is as before.
LEMMA QuietStep ==
  ASSUME NEW m, Balanced(m), LiveGates' = LiveGates, UNCHANGED <<child, outputs>>,
         h1'[m] = h1[m], \A op : FaninsAhead(op, m)' = FaninsAhead(op, m)
  PROVE  Balanced(m)'
<1>1. References(m)' = References(m)
  BY SameReferences
<1>2. QED
  BY <1>1 DEF Balanced

\* The client's calls, the worklist and the start of the loop count nothing.
LEMMA ControlBalance ==
  ASSUME CInv, NoOverflow, [AnyNext]_vars, NEW m \in Index, Balanced(m), ~Unwind,
         UNCHANGED netVars
  PROVE  Balanced(m)'
<1> USE StepTypes
<1>1. ~TakeOutEnter /\ ~ReviveEnter /\ UNCHANGED <<size, isCi, child, outputs, h1>>
  BY DEF Unwind, netVars
<1>2. LiveGates' = LiveGates
  BY <1>1, SameLive
<1>3. ASSUME NEW op PROVE FaninsAhead(op, m)' = FaninsAhead(op, m)
  <2>1. FaninsAhead(op, m)' = Cardinality(AheadOf(calls', op, m))
    BY <1>1, AheadPrimed
  <2>2. FaninsAhead(op, m) = Cardinality(AheadOf(calls, op, m))
    BY DEF FaninsAhead, AheadOf
  <2>3. CASE calls' = calls
    BY <2>1, <2>2, <2>3
  <2>4. CASE calls = <<>>
    <3>1. FaninsAhead(op, m) = 0
      BY <2>2, <2>4, AheadNone
    <3>2. CASE calls' = <<>>
      BY <2>1, <3>1, <3>2, AheadNone
    <3>3. ASSUME NEW q \in {"take_out", "revive"}, NEW n \in Index, calls' = <<Call(q, n)>>
          PROVE  FaninsAhead(op, m)' = 0
      BY <2>1, <3>3, AheadOfOneCall
    <3>4. QED
      BY <2>3, <3>1, <3>2, <3>3, CallsStep
  <2>5. QED
    BY <2>3, <2>4, CallsStep
<1>4. QED
  BY <1>1, <1>2, <1>3, QuietStep

\* The array grows by one node.
LEMMA NodesOneMore ==
  ASSUME TypeOK, TypeOK', size' = size + 1
  PROVE  size \in Index /\ size \notin Nodes /\ Nodes' = Nodes \cup {size}
<1>1. size \in Nat /\ size' \in Nat /\ MaxNodes \in Nat /\ size' <= MaxNodes
  BY MaxNodesAssumption DEF TypeOK
<1>2. 0 .. size' - 1 = 0 .. size - 1 \cup {size}
  BY <1>1
<1>3. QED
  BY <1>1, <1>2 DEF Index, Nodes

\* A node that is created is referenced by nothing and, if it is an input, is
\* no gate that refers to others.
LEMMA CreatePiBalance ==
  ASSUME CInv, NoOverflow, CreatePi, NEW m \in Index, Balanced(m)
  PROVE  Balanced(m)'
<1>1. [AnyNext]_vars
  BY DEF AnyNext, Next, Build
<1> USE StepTypes
<1>2. /\ UNCHANGED <<child, outputs, h1, calls>> /\ isCi' = [isCi EXCEPT ![size] = TRUE]
      /\ size' = size + 1
  BY DEF CreatePi
<1>3. size \in Index /\ Nodes' = Nodes \cup {size}
  BY <1>1, <1>2, NodesOneMore
<1>4. isCi'[size] /\ \A n \in Nodes : isCi'[n] = isCi[n]
  BY <1>1, <1>2, <1>3 DEF TypeOK
<1>5. LiveGates' = LiveGates
  <2> SUFFICES ASSUME NEW g PROVE g \in LiveGates' <=> g \in LiveGates
    OBVIOUS
  <2>1. g \in LiveGates' <=> g \in Nodes' /\ g # 0 /\ ~isCi'[g] /\ ~(h1'[g] >= DeadBit)
    BY DEF LiveGates, IsGate, Dead
  <2>2. g \in LiveGates <=> g \in Nodes /\ g # 0 /\ ~isCi[g] /\ ~(h1[g] >= DeadBit)
    BY DEF LiveGates, IsGate, Dead
  <2>3. QED
    BY <1>2, <1>3, <1>4, <2>1, <2>2
<1>6. \A op : FaninsAhead(op, m)' = FaninsAhead(op, m)
  BY <1>2 DEF FaninsAhead
<1>7. QED
  BY <1>2, <1>5, <1>6, QuietStep

\* create_po counts the output it adds.
LEMMA CreatePoBalance ==
  ASSUME CInv, NoOverflow, NEW f \in LiveSignals, CreatePo(f), NEW m \in Index,
         ~Dead(m), Balanced(m)
  PROVE  Balanced(m)'
<1>1. [AnyNext]_vars
  BY DEF AnyNext, Next, Build
<1> USE StepTypes
<1>2. /\ UNCHANGED <<size, isCi, child, calls>> /\ h1' = Incr(h1, f.node) /\ calls = <<>>
      /\ outputs' = Append(outputs, f) /\ f.node \in Nodes /\ ~Dead(f.node)
  BY DEF CreatePo, LiveSignals, Signals, Idle
<1>3. LiveGates' = LiveGates
  <2>1. ~TakeOutEnter /\ ~ReviveEnter
    BY <1>2 DEF TakeOutEnter, ReviveEnter, InCall
  <2>2. QED
    BY <1>1, <1>2, <2>1, SameLive
<1>4. h1'[m] = h1[m] + One(m = f.node)
  BY <1>1, <1>2, IncrCount
<1> DEFINE k == Len(outputs) + 1
<1>5. /\ k \in Nat /\ k \notin DOMAIN outputs /\ DOMAIN outputs' = DOMAIN outputs \cup {k}
      /\ outputs'[k] = f /\ \A i \in DOMAIN outputs : outputs'[i] = outputs[i]
  <2>1. outputs \in Seq(Signal) /\ outputs' = Append(outputs, f) /\ f \in Signal
    BY <1>1, <1>2, NodesType DEF TypeOK, LiveSignals
  <2>2. QED
    BY <2>1
<1> HIDE DEF k
<1>6. Cardinality(Driven(m)') = Cardinality(Driven(m)) + One(m = f.node)
  <2>1. IsFiniteSet(Driven(m)) /\ Cardinality(Driven(m)) \in Nat
    BY <1>1, Finite
  <2>2. CASE m = f.node
    <3>1. Driven(m)' = Driven(m) \cup {k} /\ k \notin Driven(m)
      BY <1>5, <2>2 DEF Driven
    <3>2. QED
      BY <2>1, <2>2, <3>1, FS_AddElement DEF One
  <2>3. CASE m # f.node
    <3>1. Driven(m)' = Driven(m)
      BY <1>5, <2>3 DEF Driven
    <3>2. QED
      BY <2>1, <2>3, <3>1 DEF One
  <2>4. QED
    BY <2>2, <2>3
<1>7. Users(1, m)' = Users(1, m) /\ Users(2, m)' = Users(2, m)
  BY <1>2, <1>3 DEF Users
<1>8. References(m)' = References(m) + One(m = f.node)
  <2>1. References(m)' = Cardinality(Users(1, m)') + Cardinality(Users(2, m)')
                           + Cardinality(Driven(m)')
    BY DEF References, Users, Driven
  <2>2. /\ Cardinality(Users(1, m)) \in Nat /\ Cardinality(Users(2, m)) \in Nat
        /\ Cardinality(Driven(m)) \in Nat /\ One(m = f.node) \in Nat
    BY <1>1, Finite DEF One
  <2>3. QED
    BY <1>6, <1>7, <2>1, <2>2, ReferencesSplit
<1>9. \A op : FaninsAhead(op, m)' = FaninsAhead(op, m)
  BY <1>2 DEF FaninsAhead
<1>10. One(m = f.node) \in Nat
  BY DEF One
<1>11. QED
  BY <1>1, <1>4, <1>8, <1>9, <1>10, BalanceTypes DEF Balanced

\* create_and counts the two fanins of the gate it adds.
LEMMA CreateAndBalance ==
  ASSUME CInv, NoOverflow, NEW a \in LiveSignals, NEW b \in LiveSignals, CreateAnd(a, b),
         NEW m \in Index, ~Dead(m), Balanced(m)
  PROVE  Balanced(m)'
<1> DEFINE p == Ordered(a, b)
<1>1. [AnyNext]_vars
  BY DEF AnyNext, Next, Build
<1> USE StepTypes
<1>2. /\ UNCHANGED <<isCi, outputs, calls>> /\ h1' = Incr(Incr(h1, a.node), b.node)
      /\ child' = [child EXCEPT ![size] = p] /\ size' = size + 1 /\ calls = <<>>
      /\ ~IsTrivial(p)
  BY DEF CreateAnd, Idle
<1>3. /\ a.node \in Nodes /\ b.node \in Nodes /\ ~Dead(a.node) /\ ~Dead(b.node)
  BY DEF LiveSignals, Signals
<1>4. a.node # b.node
  BY <1>2 DEF IsTrivial, Ordered
<1>5. size \in Index /\ size \notin Nodes /\ Nodes' = Nodes \cup {size}
  BY <1>1, <1>2, NodesOneMore
<1>6. h1'[m] = h1[m] + One(m = a.node) + One(m = b.node)
  <2>1. Incr(h1, a.node)[m] = h1[m] + One(m = a.node)
    BY <1>1, <1>3, IncrCount
  <2>2. Incr(h1, b.node)[m] = h1[m] + One(m = b.node)
    BY <1>1, <1>3, IncrCount
  <2>3. h1'[m] = IF m = b.node THEN Incr(h1, b.node)[m] ELSE Incr(h1, a.node)[m]
    BY <1>1, <1>2, <1>3, <1>4 DEF Incr
  <2>4. h1[m] \in Nat
    BY <1>1
  <2>5. QED
    BY <1>4, <2>1, <2>2, <2>3, <2>4 DEF One
<1>7. LiveGates' \ {size} = LiveGates \ {size} /\ size \notin LiveGates
  <2>1. \A g \in Nodes : Dead(g)' <=> Dead(g)
    <3>1. ~TakeOutEnter /\ ~ReviveEnter
      BY <1>2 DEF TakeOutEnter, ReviveEnter, InCall
    <3>2. QED
      BY <1>1, <3>1, SameDead
  <2>2. QED
    BY <1>1, <1>2, <1>5, <2>1 DEF LiveGates, IsGate
<1>8. size \in LiveGates'
  <2>1. size # 0 /\ ~isCi'[size]
    BY <1>1, <1>2, <1>5 DEF CInv, IInv, Fresh, TypeOK
  <2>2. h1'[size] = 0 /\ ~(0 >= DeadBit)
    <3>1. h1[size] = 0
      BY <1>5, BalancedOutside
    <3>2. h1'[size] = h1[size]
      BY <1>1, <1>5, CountsStep
    <3>3. QED
      BY <1>1, <3>1, <3>2
  <2>3. QED
    BY <1>5, <2>1, <2>2 DEF LiveGates, IsGate, Dead
<1>9. \A g \in LiveGates \ {size} : child'[g] = child[g]
  BY <1>2
<1>10. /\ References(m) \in Nat /\ References(m)' \in Nat
       /\ References(m)' + (IF size \in LiveGates THEN Own(size, m) ELSE 0)
            = References(m) + (One(p[1].node = m) + One(p[2].node = m))
  <2>1. child'[size] = p
    BY <1>1, <1>2, <1>5 DEF TypeOK
  <2> DEFINE n == size
  <2>2. /\ LiveGates' \ {n} = LiveGates \ {n} /\ n \in LiveGates' /\ n \notin LiveGates
        /\ \A g \in LiveGates \ {n} : child'[g] = child[g]
        /\ child'[n] = p /\ outputs' = outputs
    BY <1>2, <1>7, <1>8, <1>9, <2>1
  <2> HIDE DEF n, p
  <2>3. QED
    <3>1. /\ References(m) \in Nat /\ References(m)' \in Nat
          /\ References(m)' + (IF n \in LiveGates THEN Own(n, m) ELSE 0)
               = References(m) + (One(p[1].node = m) + One(p[2].node = m))
      BY <1>1, <2>2, OneGateAdded
    <3>2. QED
      BY <3>1 DEF n
<1>11. One(p[1].node = m) + One(p[2].node = m) = One(m = a.node) + One(m = b.node)
  BY DEF Ordered, One
<1>12. \A op : FaninsAhead(op, m)' = 0 /\ FaninsAhead(op, m) = 0
  BY <1>2, AheadNone DEF FaninsAhead, AheadOf
<1> HIDE DEF p
<1>13. One(m = a.node) \in Nat /\ One(m = b.node) \in Nat /\ h1[m] \in Nat
  BY <1>1 DEF One
<1>14. QED
  BY <1>6, <1>7, <1>10, <1>11, <1>12, <1>13 DEF Balanced

\* A node that take_out_node leaves alone is not counted.
LEMMA IgnoredBalance ==
  ASSUME CInv, NoOverflow, TakeOutIgnored, NEW m \in Index, Balanced(m)
  PROVE  Balanced(m)'
<1>1. [AnyNext]_vars
  BY DEF AnyNext, Next, Unwind
<1> USE StepTypes
<1>2. /\ UNCHANGED <<size, isCi, child, outputs, h1>> /\ calls' = Tail(calls)
      /\ calls # <<>> /\ Head(calls).op = "take_out" /\ Head(calls).at = 0
  BY DEF TakeOutIgnored, InCall, netVars
<1>3. LiveGates' = LiveGates
  <2>1. UNCHANGED <<Nodes>>
    BY <1>2 DEF Nodes
  <2>2. QED
    BY <1>2, <2>1 DEF LiveGates, IsGate, Dead
<1>4. ASSUME NEW op PROVE FaninsAhead(op, m)' = FaninsAhead(op, m)
  BY <1>2, AheadStep
<1>5. QED
  BY <1>2, <1>3, <1>4, QuietStep

\* The fanins of a node that dies are ahead of the call instead of counted.
LEMMA TakeOutEnterBalance ==
  ASSUME CInv, NoOverflow, TakeOutEnter, NEW m \in Index, Balanced(m),
         h1'[m] < DeadBit
  PROVE  Balanced(m)'
<1> DEFINE n == Head(calls).node
<1>1. [AnyNext]_vars
  BY DEF AnyNext, Next, Unwind
<1> USE StepTypes
<1>2. /\ UNCHANGED <<size, isCi, child, outputs>> /\ calls' = Advance
      /\ calls # <<>> /\ Head(calls).op = "take_out" /\ Head(calls).at = 0
      /\ h1' = [h1 EXCEPT ![n] = DeadBit] /\ IsGate(n) /\ ~Dead(n)
  BY DEF TakeOutEnter, InCall
<1>3. n \in Nodes
  BY <1>1, <1>2, FrameParts
<1> HIDE DEF n
<1>4. m # n /\ h1'[m] = h1[m]
  BY <1>1, <1>2, <1>3
<1>5. LiveGates' \ {n} = LiveGates \ {n} /\ n \in LiveGates /\ n \notin LiveGates'
  <2>1. Nodes' = Nodes /\ h1'[n] = DeadBit /\ \A g \in Nodes \ {n} : h1'[g] = h1[g]
    BY <1>1, <1>2, <1>3 DEF Nodes
  <2>2. \A g : g \in LiveGates' <=> g \in Nodes' /\ g # 0 /\ ~isCi'[g] /\ ~(h1'[g] >= DeadBit)
    BY DEF LiveGates, IsGate, Dead
  <2>3. \A g : g \in LiveGates <=> g \in Nodes /\ g # 0 /\ ~isCi[g] /\ ~(h1[g] >= DeadBit)
    BY DEF LiveGates, IsGate, Dead
  <2>4. QED
    BY <1>1, <1>2, <1>3, <2>1, <2>2, <2>3 DEF IsGate, Dead
<1>6. /\ References(m) \in Nat /\ References(m)' \in Nat
      /\ References(m)' + (IF n \in LiveGates THEN Own(n, m) ELSE 0)
           = References(m) + (IF n \in LiveGates' THEN Own(n, m)' ELSE 0)
  BY <1>1, <1>2, <1>5, OneGateChanges
<1>7. /\ FaninsAhead("revive", m)' = FaninsAhead("revive", m)
      /\ FaninsAhead("take_out", m)' = FaninsAhead("take_out", m) + Own(n, m)
  BY <1>2, <1>3, <1>1, AheadStep, "take_out" # "revive" DEF n
<1>8. Own(n, m) \in Nat
  BY DEF Own, One
<1>9. QED
  BY <1>1, <1>4, <1>5, <1>6, <1>7, <1>8, BalanceTypes DEF Balanced

\* A fanin that is released is no longer ahead of the call; it is left alone
\* only if it is dead, since what is ahead has been counted.
LEMMA TakeOutFaninBalance ==
  ASSUME CInv, NoOverflow, TakeOutFanin, NEW m \in Index, ~Dead(m), Balanced(m)
  PROVE  Balanced(m)'
<1> DEFINE f == Head(calls)
           c == child[f.node][f.at].node
<1>1. [AnyNext]_vars
  BY DEF AnyNext, Next, Unwind
<1> USE StepTypes
<1>2. /\ UNCHANGED <<size, isCi, child, outputs>>
      /\ calls # <<>> /\ f.op = "take_out" /\ f.at \in {1, 2} /\ f.at # 0
      /\ calls' \in {Advance, <<Call("take_out", c)>> \o Advance}
      /\ FanoutSize(c) = 0 => h1' = h1
      /\ FanoutSize(c) # 0 => h1' = Decr(h1, c)
  <2>1. /\ UNCHANGED <<size, isCi, child, outputs>>
        /\ calls # <<>> /\ f.op = "take_out" /\ f.at \in {1, 2}
    BY DEF TakeOutFanin, InCall
  <2>2. /\ FanoutSize(c) = 0 => h1' = h1 /\ calls' = Advance
        /\ FanoutSize(c) # 0 =>
              h1' = Decr(h1, c) /\ calls' \in {Advance, <<Call("take_out", c)>> \o Advance}
    BY DEF TakeOutFanin
  <2> HIDE DEF f, c
  <2>3. QED
    BY <2>1, <2>2
<1>3. c \in Nodes /\ c \in Index
  BY <1>1, <1>2, FaninOfFrame
<1>4. ~TakeOutEnter /\ ~ReviveEnter
  BY <1>2 DEF TakeOutEnter, ReviveEnter, InCall
<1>5. LiveGates' = LiveGates
  BY <1>1, <1>2, <1>4, SameLive
<1>6. References(m)' = References(m)
  BY <1>2, <1>5, SameReferences
<1>7. /\ FaninsAhead("revive", m)' = FaninsAhead("revive", m)
      /\ FaninsAhead("take_out", m)' \in Nat
      /\ FaninsAhead("take_out", m)' + One(c = m) = FaninsAhead("take_out", m)
  BY <1>2, <1>3, AheadStep, "take_out" # "revive"
<1>8. FaninsAhead("revive", m) = 0
  <2>1. calls \in Seq(OfKind("take_out"))
    BY <1>2, KindOfRest
  <2>2. QED
    BY <1>1, <2>1, NoneOfOtherKind, "take_out" # "revive"
<1> HIDE DEF f, c
<1>9. /\ h1[m] \in Nat /\ References(m) \in Nat /\ FaninsAhead("take_out", m) \in Nat
      /\ FanoutSize(c) = IF Dead(c) THEN 0 ELSE h1[c]
  BY <1>1, <1>3, BalanceTypes, FanoutSizes
<1>10. CASE FanoutSize(c) = 0
  <2>1. c # m
    <3> SUFFICES ASSUME c = m PROVE FALSE
      OBVIOUS
    <3>1. h1[m] = 0
      BY <1>9, <1>10
    <3>2. One(c = m) = 1
      BY DEF One
    <3>3. QED
      BY <1>7, <1>8, <1>9, <3>1, <3>2 DEF Balanced
  <2>2. One(c = m) = 0 /\ h1' = h1
    BY <1>2, <1>10, <2>1 DEF One
  <2>3. QED
    BY <1>6, <1>7, <1>8, <2>2 DEF Balanced
<1>11. CASE FanoutSize(c) # 0
  <2>1. ~Dead(c) /\ h1[c] # 0 /\ h1' = Decr(h1, c)
    BY <1>2, <1>9, <1>11
  <2>2. h1'[m] + One(m = c) = h1[m]
    BY <1>1, <1>3, <2>1, DecrCount
  <2>3. One(m = c) = One(c = m) /\ One(c = m) \in Nat /\ h1'[m] \in Nat
    BY <1>1 DEF One
  <2>4. QED
    BY <1>6, <1>7, <1>8, <1>9, <2>2, <2>3 DEF Balanced
<1>12. QED
  BY <1>10, <1>11

\* The fanins of a node that is revived are ahead of the call.  The node
\* itself starts with no count, which is right because nothing but the calls
\* that led to it refers to it.
LEMMA ReviveEnterBalance ==
  ASSUME CInv, NoOverflow, RevivedUnreferenced, ReviveEnter, NEW m \in Index,
         m # Head(calls).node => Balanced(m)
  PROVE  Balanced(m)'
<1> DEFINE n == Head(calls).node
<1>1. [AnyNext]_vars
  BY DEF AnyNext, Next, Unwind
<1> USE StepTypes
<1>2. /\ UNCHANGED <<size, isCi, child, outputs>> /\ calls' = Advance
      /\ calls # <<>> /\ Head(calls).op = "revive" /\ Head(calls).at = 0
      /\ h1' = [h1 EXCEPT ![n] = 0]
  BY DEF ReviveEnter, InCall
<1>3. n \in Nodes /\ n \in Index /\ IsGate(n) /\ Dead(n)
  BY <1>1, <1>2, FrameParts DEF CInv, Nested, InCall
<1>4. References(n) = FaninsAhead("revive", n) /\ FaninsAhead("take_out", n) = 0
  <2>1. References(n) = FaninsAhead("revive", n)
    BY <1>2 DEF RevivedUnreferenced, InCall
  <2>2. calls \in Seq(OfKind("revive"))
    BY <1>2, KindOfRest
  <2>3. QED
    BY <1>1, <2>1, <2>2, NoneOfOtherKind, "take_out" # "revive"
<1>5. /\ FaninsAhead("take_out", m)' = FaninsAhead("take_out", m)
      /\ FaninsAhead("revive", m)' = FaninsAhead("revive", m) + Own(n, m)
  BY <1>2, <1>3, AheadStep, "take_out" # "revive"
<1> HIDE DEF n
<1>6. LiveGates' \ {n} = LiveGates \ {n} /\ n \notin LiveGates /\ n \in LiveGates'
  <2>1. Nodes' = Nodes /\ h1'[n] = 0 /\ \A g \in Nodes \ {n} : h1'[g] = h1[g]
    BY <1>1, <1>2, <1>3 DEF Nodes
  <2>2. \A g : g \in LiveGates' <=> g \in Nodes' /\ g # 0 /\ ~isCi'[g] /\ ~(h1'[g] >= DeadBit)
    BY DEF LiveGates, IsGate, Dead
  <2>3. \A g : g \in LiveGates <=> g \in Nodes /\ g # 0 /\ ~isCi[g] /\ ~(h1[g] >= DeadBit)
    BY DEF LiveGates, IsGate, Dead
  <2>4. ~(0 >= DeadBit)
    BY <1>1
  <2>5. QED
    BY <1>1, <1>2, <1>3, <2>1, <2>2, <2>3, <2>4 DEF IsGate, Dead
<1> DEFINE p == child[n]
<1>7. /\ References(m) \in Nat /\ References(m)' \in Nat
      /\ References(m)' + (IF n \in LiveGates THEN Own(n, m) ELSE 0)
           = References(m) + (One(p[1].node = m) + One(p[2].node = m))
  <2>1. /\ TypeOK /\ TypeOK' /\ child'[n] = p
        /\ \A g \in LiveGates \ {n} : child'[g] = child[g]
        /\ LiveGates' \ {n} = LiveGates \ {n} /\ n \in LiveGates' /\ outputs' = outputs
    BY <1>1, <1>2, <1>6
  <2> HIDE DEF p
  <2>2. QED
    BY <2>1, OneGateAdded
<1>8. One(p[1].node = m) + One(p[2].node = m) = Own(n, m) /\ Own(n, m) \in Nat
  BY DEF Own, One
<1> HIDE DEF p
<1>9. References(m)' = References(m) + Own(n, m)
  BY <1>6, <1>7, <1>8
<1>10. CASE m = n
  <2>1. h1'[m] = 0
    BY <1>1, <1>2, <1>3, <1>10
  <2>2. FaninsAhead("take_out", m)' = 0 /\ References(m) = FaninsAhead("revive", m)
    BY <1>4, <1>5, <1>10
  <2>3. QED
    BY <1>5, <1>7, <1>8, <1>9, <2>1, <2>2 DEF Balanced
<1>11. CASE m # n
  <2>1. h1'[m] = h1[m] /\ Balanced(m)
    BY <1>1, <1>2, <1>3, <1>11 DEF n
  <2>2. QED
    BY <1>1, <1>5, <1>8, <1>9, <2>1, BalanceTypes DEF Balanced
<1>12. QED
  BY <1>10, <1>11

\* A fanin that is counted is no longer ahead of the call.
LEMMA ReviveFaninBalance ==
  ASSUME CInv, NoOverflow, ReviveFanin, NEW m \in Index, Balanced(m)
  PROVE  Balanced(m)'
<1> DEFINE f == Head(calls)
           c == child[f.node][f.at].node
<1>1. [AnyNext]_vars
  BY DEF AnyNext, Next, Unwind
<1> USE StepTypes
<1>2. /\ UNCHANGED <<size, isCi, child, outputs>>
      /\ calls # <<>> /\ f.op = "revive" /\ f.at \in {1, 2} /\ f.at # 0
      /\ Dead(c) => h1' = h1 /\ calls' = <<Call("revive", c)>> \o calls
      /\ ~Dead(c) => h1' = Incr(h1, c) /\ calls' = Advance
  <2>1. /\ UNCHANGED <<size, isCi, child, outputs>>
        /\ calls # <<>> /\ f.op = "revive" /\ f.at \in {1, 2}
    BY DEF ReviveFanin, InCall
  <2>2. /\ Dead(c) => h1' = h1 /\ calls' = <<Call("revive", c)>> \o calls
        /\ ~Dead(c) => h1' = Incr(h1, c) /\ calls' = Advance
    BY DEF ReviveFanin
  <2> HIDE DEF f, c
  <2>3. QED
    BY <2>1, <2>2
<1>3. c \in Nodes /\ c \in Index
  BY <1>1, <1>2, FaninOfFrame
<1>4. ~TakeOutEnter /\ ~ReviveEnter
  BY <1>2 DEF TakeOutEnter, ReviveEnter, InCall
<1>5. LiveGates' = LiveGates
  BY <1>1, <1>2, <1>4, SameLive
<1>6. CASE Dead(c)
  <2>1. \A op : FaninsAhead(op, m)' = FaninsAhead(op, m)
    <3>1. calls' = <<Call("revive", c)>> \o calls /\ child' = child /\ calls # <<>>
      BY <1>2, <1>6
    <3>2. QED
      BY ONLY CInv, <1>3, <3>1, AheadStep
  <2>2. QED
    BY <1>2, <1>5, <1>6, <2>1, QuietStep
<1>7. CASE ~Dead(c)
  <2>1. References(m)' = References(m)
    BY <1>2, <1>5, SameReferences
  <2>2. /\ FaninsAhead("take_out", m)' = FaninsAhead("take_out", m)
        /\ FaninsAhead("revive", m)' \in Nat
        /\ FaninsAhead("revive", m)' + One(c = m) = FaninsAhead("revive", m)
    BY <1>2, <1>3, <1>7, AheadStep, "take_out" # "revive"
  <2> HIDE DEF f, c
  <2>3. h1'[m] = h1[m] + One(m = c)
    BY <1>1, <1>2, <1>3, <1>7, IncrCount
  <2>4. One(m = c) = One(c = m) /\ One(c = m) \in Nat
    BY DEF One
  <2>5. QED
    BY <1>1, <2>1, <2>2, <2>3, <2>4, BalanceTypes DEF Balanced
<1>8. QED
  BY <1>6, <1>7

\* A fanout that is rewired refers to _new, counted once more, where it
\* referred to _old.
LEMMA RewireBalance ==
  ASSUME IInv, TypeOK', NoOverflow, calls = <<>>, calls' = calls,
         ~Dead(sub.new.node), LiveGates' = LiveGates, outputs' = outputs,
         NEW n \in LiveGates, sub.old \in FaninNodes(n), child' = [child EXCEPT ![n] = Rewired(n)],
         h1' = Incr(h1, sub.new.node),
         NEW m \in Index, ~Dead(m), m # sub.old, Balanced(m)
  PROVE  Balanced(m)'
<1> DEFINE new == sub.new.node
<1>1. TypeOK /\ new \in Index /\ n \in Index /\ h1[m] \in Nat
  <2>1. TypeOK
    BY DEF IInv
  <2>2. new \in Index /\ n \in Index
    BY <2>1, AllocatedParts, NodesType
  <2>3. h1[m] \in Nat
    BY <2>1, DeadBitAssumption DEF TypeOK
  <2>4. QED
    BY <2>1, <2>2, <2>3
<1>2. h1'[m] = h1[m] + One(m = new)
  BY <1>1, IncrCount
<1> DEFINE p == Rewired(n)
<1>3. child'[n] = p
  BY <1>1 DEF TypeOK
<1>4. One(p[1].node = m) + One(p[2].node = m) = Own(n, m) + One(m = new)
  <2>1. PICK i \in {1, 2} :
           /\ child[n][i].node = sub.old
           /\ p = Ordered(child[n][3 - i], Xor(sub.new, child[n][i].neg))
    BY <1>1 DEF Rewired, FaninNodes
  <2>2. Xor(sub.new, child[n][i].neg).node = new
    BY AllocatedParts DEF Xor, NodeSignal
  <2>3. \/ p[1].node = child[n][3 - i].node /\ p[2].node = new
        \/ p[1].node = new /\ p[2].node = child[n][3 - i].node
    BY <2>1, <2>2 DEF Ordered
  <2>4. Own(n, m) = One(child[n][3 - i].node = m)
    BY <2>1 DEF Own, One
  <2> HIDE DEF p
  <2>5. QED
    BY <2>3, <2>4 DEF One
<1>5. /\ References(m) \in Nat /\ References(m)' \in Nat
      /\ References(m)' + (IF n \in LiveGates THEN Own(n, m) ELSE 0)
           = References(m) + (One(p[1].node = m) + One(p[2].node = m))
  <2>1. /\ TypeOK /\ TypeOK' /\ child'[n] = p
        /\ \A g \in LiveGates \ {n} : child'[g] = child[g]
        /\ LiveGates' \ {n} = LiveGates \ {n} /\ n \in LiveGates' /\ outputs' = outputs
    BY <1>1, <1>3
  <2> HIDE DEF p
  <2>2. QED
    BY <2>1, OneGateAdded
<1>6. \A op : FaninsAhead(op, m)' = 0 /\ FaninsAhead(op, m) = 0
  BY <1>1, AheadNone DEF FaninsAhead, AheadOf
<1>7. Own(n, m) \in Nat /\ One(m = new) \in Nat
  BY DEF Own, One
<1> HIDE DEF p, new
<1>8. References(m)' = References(m) + One(m = new)
  <2>1. References(m)' + Own(n, m) = References(m) + (Own(n, m) + One(m = new))
    BY <1>1, <1>4, <1>5
  <2>2. QED
    BY <1>5, <1>7, <2>1
<1>9. QED
  BY <1>1, <1>2, <1>5, <1>6, <1>7, <1>8 DEF Balanced

\* A fanout that collapses stays as it is.
LEMMA VisitBalance ==
  ASSUME CInv, NoOverflow, [AnyNext]_vars, Visit,
         NEW m \in Index, ~Dead(m), m # sub.old, Balanced(m)
  PROVE  Balanced(m)'
<1>1. PICK n \in scan : ReplaceInNode(n)
  BY DEF Visit
<1>2. CASE CollapseNode(n)
  <2>1. calls = <<>> /\ UNCHANGED netVars
    BY <1>2 DEF CollapseNode, Visit, CInv, IInv, Scanning
  <2>2. ~Unwind
    BY <2>1 DEF Unwind, TakeOutIgnored, TakeOutEnter, TakeOutFanin, ReviveEnter, ReviveFanin,
                InCall
  <2>3. QED
    BY <2>1, <2>2, ControlBalance
<1>3. CASE RestrashNode(n) \/ RewireNode(n)
  <2>1. /\ UNCHANGED <<size, isCi, outputs>> /\ child' = [child EXCEPT ![n] = Rewired(n)]
        /\ h1' = Incr(h1, sub.new.node)
    BY <1>3 DEF RestrashNode, RewireNode
  <2>2. /\ calls = <<>> /\ calls' = calls /\ n \in LiveGates /\ ~Dead(sub.new.node)
        /\ sub.old \in FaninNodes(n)
    BY DEF Visit, CInv, IInv, Scanning, Phases
  <2>3. LiveGates' = LiveGates
    BY <2>1, <2>2, SameLive DEF TakeOutEnter, ReviveEnter, InCall
  <2>4. QED
    BY <2>1, <2>2, <2>3, StepTypes, RewireBalance
<1>4. QED
  BY <1>1, <1>2, <1>3 DEF ReplaceInNode

\* The outputs that are redirected are counted at _new.
LEMMA FinishPairBalance ==
  ASSUME CInv, NoOverflow, NotSelf, FinishPair,
         NEW m \in Index, ~Dead(m), m # sub.old, Balanced(m)
  PROVE  Balanced(m)'
<1> DEFINE new == sub.new.node
           k == Cardinality(Redirected)
<1>1. [AnyNext]_vars
  BY DEF AnyNext, Next, Substitute
<1> USE StepTypes
<1>2. /\ pc = "scan" /\ calls = <<>> /\ UNCHANGED <<size, isCi, child>>
      /\ outputs' = RedirectedOutputs /\ new # sub.old
      /\ h1' = [h1 EXCEPT ![new] = (@ + k) % (2 * DeadBit)]
      /\ calls' = <<Call("take_out", sub.old)>>
  BY DEF FinishPair, NotSelf, CInv, IInv, Scanning
<1>3. new \in Index /\ sub.old \in Index /\ ~Dead(new) /\ sub.new \in NodeSignal
  BY <1>1, <1>2, AllocatedParts DEF CInv, Phases
<1>4. LiveGates' = LiveGates
  <2>1. ~TakeOutEnter /\ ~ReviveEnter
    BY <1>2 DEF TakeOutEnter, ReviveEnter, InCall
  <2>2. QED
    BY <1>1, <1>2, <2>1, SameLive
<1>5. Users(1, m)' = Users(1, m) /\ Users(2, m)' = Users(2, m)
  BY <1>2, <1>4 DEF Users
<1>6. k \in Nat /\ h1'[m] = h1[m] + (IF m = new THEN k ELSE 0)
  <2>1. k \in 0 .. Len(outputs) /\ Len(outputs) \in Nat
    <3>1. TypeOK
      BY DEF CInv, IInv
    <3>2. QED
      BY ONLY <3>1, RedirectedCount DEF TypeOK
  <2> HIDE DEF k, new
  <2>2. /\ h1[new] \in Nat /\ h1[new] + k \in Nat /\ h1[new] + k < 2 * DeadBit
        /\ k \in Nat
    <3>1. h1[new] + Len(outputs) + 1 < DeadBit /\ h1[new] \in Nat /\ DeadBit \in Nat
      BY <1>1, <1>3 DEF NoOverflow
    <3>2. QED
      BY <2>1, <3>1
  <2>3. (h1[new] + k) % (2 * DeadBit) = h1[new] + k
    BY <2>2, WrapsNot
  <2>4. h1'[m] = IF m = new THEN h1[new] + k ELSE h1[m]
    BY <1>1, <1>2, <1>3, <2>3
  <2>5. h1[m] \in Nat
    BY <1>1
  <2>6. QED
    BY <2>2, <2>4, <2>5
<1>7. Cardinality(Driven(m)') = Cardinality(Driven(m)) + (IF m = new THEN k ELSE 0)
  <2>1. /\ IsFiniteSet(Driven(m)) /\ Cardinality(Driven(m)) \in Nat
        /\ IsFiniteSet(Driven(sub.old))
    BY <1>1, Finite
  <2>2. /\ DOMAIN outputs' = DOMAIN outputs
        /\ \A i \in DOMAIN outputs :
              outputs'[i] = IF i \in Redirected THEN Xor(sub.new, outputs[i].neg)
                                                ELSE outputs[i]
    BY <1>2 DEF RedirectedOutputs, Redirected
  <2>3. \A i \in DOMAIN outputs : Xor(sub.new, outputs[i].neg).node = new
    BY <1>3 DEF Xor, NodeSignal
  <2>4. Redirected \subseteq Driven(sub.old) /\ Redirected \subseteq DOMAIN outputs
    BY DEF Redirected, Driven
  <2>5. IsFiniteSet(Redirected)
    BY <2>1, <2>4, FS_Subset
  <2>6. \A i \in Redirected : outputs[i].node = sub.old
    BY <2>4 DEF Driven
  <2>7. CASE m = new
    <3>1. Driven(m)' = Driven(m) \cup Redirected
      BY <1>2, <2>2, <2>3, <2>4, <2>6, <2>7 DEF Driven
    <3>2. Driven(m) \cap Redirected = {}
      BY <1>2, <2>6, <2>7 DEF Driven
    <3>3. Cardinality(Driven(m) \cup Redirected) = Cardinality(Driven(m)) + k
      <4>1. Cardinality(Driven(m) \cup Redirected)
               = Cardinality(Driven(m)) + k - Cardinality(Driven(m) \cap Redirected)
        BY <2>1, <2>5, FS_Union
      <4>2. Cardinality(Driven(m) \cap Redirected) = 0
        BY <3>2, FS_EmptySet
      <4> HIDE DEF k
      <4>3. QED
        BY <1>6, <2>1, <4>1, <4>2
    <3>4. QED
      BY <2>7, <3>1, <3>3
  <2>8. CASE m # new
    <3>1. Driven(m)' = Driven(m)
      BY <2>2, <2>3, <2>4, <2>6, <2>8 DEF Driven
    <3>2. QED
      BY <2>1, <2>8, <3>1
  <2>9. QED
    BY <2>7, <2>8
<1>8. References(m)' = References(m) + (IF m = new THEN k ELSE 0)
  <2>1. References(m)' = Cardinality(Users(1, m)') + Cardinality(Users(2, m)')
                           + Cardinality(Driven(m)')
    BY DEF References, Users, Driven
  <2>2. /\ Cardinality(Users(1, m)) \in Nat /\ Cardinality(Users(2, m)) \in Nat
        /\ Cardinality(Driven(m)) \in Nat
    BY <1>1, Finite
  <2> HIDE DEF k, new
  <2>3. QED
    BY <1>5, <1>6, <1>7, <2>1, <2>2, ReferencesSplit
<1>9. ASSUME NEW op PROVE FaninsAhead(op, m)' = 0 /\ FaninsAhead(op, m) = 0
  <2>1. FaninsAhead(op, m)' = Cardinality(AheadOf(calls', op, m))
    BY <1>2, AheadPrimed
  <2>2. Cardinality(AheadOf(<<Call("take_out", sub.old)>>, op, m)) = 0
    BY <1>3, AheadOfOneCall
  <2>3. FaninsAhead(op, m) = 0
    BY <1>2, AheadNone DEF FaninsAhead, AheadOf
  <2>4. QED
    BY <1>2, <2>1, <2>2, <2>3
<1> HIDE DEF k, new
<1>10. QED
  BY <1>1, <1>6, <1>8, <1>9, BalanceTypes DEF Balanced

\* Every step keeps the counts exact.
LEMMA CountsExactStep ==
  ASSUME CInv, NoOverflow, NotSelf, ReviveEnter => RevivedUnreferenced, [AnyNext]_vars
  PROVE  CountsExact'
<1> USE StepTypes
<1> SUFFICES ASSUME NEW m \in Nodes', m \notin Stale', ~Dead(m)'
             PROVE  Balanced(m)'
  BY DEF CountsExact, Exact, Balanced
<1>1. m \in Index /\ h1'[m] \in Nat /\ h1'[m] < DeadBit
  BY DEF Dead
<1>2. m \notin Stale
  BY <1>1, StaleStep
<1>3. ~Dead(m) => Balanced(m)
  <2>1. CASE m \in Nodes
    BY <1>2, <2>1 DEF CInv, CountsExact, Exact, Balanced
  <2>2. CASE m \notin Nodes
    BY <1>1, <2>2, BalancedOutside
  <2>3. QED
    BY <2>1, <2>2
<1>4. Dead(m) => ReviveEnter /\ m = Head(calls).node
  <2>1. Dead(m) => m \in Nodes
    BY <1>1, BalancedOutside
  <2>2. Dead(m) => h1'[m] # h1[m]
    BY <1>1 DEF Dead
  <2>3. QED
    BY <2>1, <2>2, DeadStep
<1>5. CASE ReviveEnter
  <2>1. m # Head(calls).node => Balanced(m)
    BY <1>3, <1>4
  <2>2. QED
    BY <1>1, <1>5, <2>1, ReviveEnterBalance
<1>6. CASE ~ReviveEnter
  <2>1. ~Dead(m) /\ Balanced(m)
    BY <1>3, <1>4, <1>6
  <2>2. pc = "scan" => m # sub.old
    BY <1>2 DEF Stale
  <2>3. CASE CreatePi
    BY <1>1, <2>1, <2>3, CreatePiBalance
  <2>4. ASSUME NEW f \in LiveSignals, CreatePo(f)
        PROVE  Balanced(m)'
    BY <1>1, <2>1, <2>4, CreatePoBalance
  <2>5. ASSUME NEW a \in LiveSignals, NEW b \in LiveSignals, CreateAnd(a, b)
        PROVE  Balanced(m)'
    BY <1>1, <2>1, <2>5, CreateAndBalance
  <2>6. CASE Unwind
    BY <1>1, <1>6, <2>1, <2>6, IgnoredBalance, TakeOutEnterBalance, TakeOutFaninBalance,
       ReviveFaninBalance DEF Unwind
  <2>7. CASE Visit
    <3>1. m # sub.old
      BY <2>2, <2>7 DEF Visit
    <3>2. QED
      BY <1>1, <2>1, <2>7, <3>1, VisitBalance
  <2>8. CASE FinishPair
    <3>1. m # sub.old
      BY <2>2, <2>8 DEF FinishPair
    <3>2. QED
      BY <1>1, <2>1, <2>8, <3>1, FinishPairBalance
  <2>9. CASE ~Unwind /\ (ClientCall \/ Return \/ Pop \/ Follow \/ Resolved \/ Begin
                         \/ UNCHANGED vars)
    <3>1. UNCHANGED netVars
      BY <2>9 DEF ClientCall, TakeOut, SubstituteNode, SomeNoRestrash, SomeComplement,
                  SubstituteNodeNoRestrash, SubstituteComplement, Return, Pop, Follow,
                  Resolved, Begin, vars
    <3>2. QED
      BY <1>1, <2>1, <2>9, <3>1, ControlBalance
  <2>10. QED
    BY <2>3, <2>4, <2>5, <2>6, <2>7, <2>8, <2>9
    DEF AnyNext, Next, Build, Substitute, ClientCall
<1>7. QED
  BY <1>5, <1>6

\* Every step keeps the invariant.
LEMMA CInvStep ==
  ASSUME CInv, NoOverflow, NotSelf, ReviveEnter => RevivedUnreferenced, OldInputs = {},
         [AnyNext]_vars
  PROVE  CInv'
  BY StepTypes, OneKindStep, OldGatesStep, PhasesStep, DeadUncountedStep, CountsExactStep,
     NestedStep DEF CInv

\* What the invariant says of the counts that take_out_node reads.
LEMMA CInvExact == CInv => RefCountExact /\ OnlyUnreferencedDies
<1> SUFFICES ASSUME CInv PROVE RefCountExact /\ OnlyUnreferencedDies
  OBVIOUS
<1>1. TypeOK
  BY DEF CInv, IInv
<1>2. Stale \subseteq BeingReplaced
  BY DEF Stale, BeingReplaced
<1>3. RefCountExact
  BY <1>2, FanoutSizes DEF RefCountExact, CInv, CountsExact, Exact
<1>4. OnlyUnreferencedDies
  <2> SUFFICES ASSUME NEW i \in 1 .. Len(calls) - 1,
                      calls[i].op = "take_out", calls[i].at = 0
               PROVE  References(calls[i].node) = 0
    BY DEF OnlyUnreferencedDies
  <2>1. calls \in Seq(Frame) /\ calls # <<>> /\ Len(calls) \in Nat /\ Tail(calls) # <<>>
    BY <1>1 DEF TypeOK
  <2>2. i = 1
    <3> SUFFICES ASSUME i # 1 PROVE FALSE
      OBVIOUS
    <3>1. /\ i - 1 \in 1 .. Len(calls) - 1 /\ Len(Tail(calls)) = Len(calls) - 1
          /\ Tail(calls)[i - 1] = calls[i]
      BY <2>1
    <3>2. Tail(calls) \in Seq(Visiting)
      BY <2>1 DEF CInv, Nested
    <3>3. calls[i] \in Visiting
      BY <3>1, <3>2
    <3>4. QED
      BY <3>3 DEF Visiting
  <2> DEFINE n == Head(calls).node
  <2>3. Head(calls) = calls[i]
    BY <2>1, <2>2
  <2>4. InCall("take_out", {0})
    BY <2>1, <2>3 DEF InCall
  <2>5. ~Dead(n) /\ h1[n] = 0 /\ n \in Nodes
    BY <2>1, <2>4, FrameParts DEF CInv, Nested
  <2>6. calls \in Seq(OfKind("take_out"))
    BY <2>1, <2>4, KindOfRest DEF InCall
  <2>7. FaninsAhead("revive", n) = 0
    BY <1>1, <2>6, NoneOfOtherKind, "take_out" # "revive"
  <2>8. n \notin Stale
    <3>1. pc # "scan"
      BY <2>1 DEF CInv, IInv, Scanning
    <3>2. calls # <<Call("take_out", sub.old)>>
      BY <2>1, TailOfOne
    <3>3. QED
      BY <3>1, <3>2 DEF Stale
  <2>9. References(n) \in Nat /\ FaninsAhead("take_out", n) \in Nat
    BY <1>1, <2>5, NodesType, BalanceTypes
  <2>10. 0 + 0 = References(n) + FaninsAhead("take_out", n)
    BY <2>5, <2>7, <2>8 DEF CInv, CountsExact, Exact
  <2>11. References(n) = 0
    BY <2>9, <2>10
  <2>12. QED
    BY <2>3, <2>11
<1>5. QED
  BY <1>3, <1>4

\* As long as no count reaches the dead bit, clients replace gates only and
\* cascades neither make a node its own replacement nor revive one that is
\* referenced already, the counts are exact at every step of every recursion,
\* and whatever take_out_node removes on its way down is referenced by nothing.
THEOREM CountsStayExact ==
  AnySpec /\ OldInputs = {} /\ []NoOverflow /\ []CascadeSound
    => [](RefCountExact /\ OnlyUnreferencedDies)
<1>1. OldInputs = {} /\ CInv /\ NoOverflow /\ CascadeSound /\ [AnyNext]_vars => CInv'
  BY CInvStep DEF CascadeSound
<1>2. CInv => RefCountExact /\ OnlyUnreferencedDies
  BY CInvExact
<1>3. CASE OldInputs = {}
  <2>1. CInv /\ NoOverflow /\ CascadeSound /\ [AnyNext]_vars => CInv'
    BY <1>1, <1>3
  <2>2. QED
    BY InitCInv, <1>2, <2>1, PTL DEF AnySpec
<1>4. CASE OldInputs # {}
  BY <1>4
<1>5. QED
  BY <1>3, <1>4
=============================================================================
