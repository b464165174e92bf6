---------------------------- MODULE AigGuarantees ----------------------------
(***************************************************************************)
(* What Aig promises its clients, for every value of its constants: that    *)
(* restructuring leaves no reference to a dead node, and, under conditions  *)
(* on the clients and on the cascades only, that the counter is wide enough *)
(* and that what the counts rely on in AigProof follows from nodes not      *)
(* replacing themselves and replaced nodes not coming back.                 *)
(***************************************************************************)
EXTENDS AigProof

\* No gate has the same node twice.  Structural hashing sees to that; without
\* it clients must.
NoTwins == \A g \in LiveGates : child[g][1].node # child[g][2].node

-----------------------------------------------------------------------------
(* The inductive invariant behind DeadFaninPending.                        *)

Awaiting(g) == \E i \in DOMAIN todo : todo[i].old = g
Occupied(s) == {s[i].node : i \in DOMAIN s}

\* The worklist is empty outside of substitutions.
QuietIdle == pc = "idle" => todo = <<>>

\* What the loop over the fanouts of _old has not visited yet or left alone.
Missed ==
  pc = "scan" =>
    \A g \in LiveGates : sub.old \in FaninNodes(g) => g \in scan \/ Awaiting(g)

\* A node about to be entered by take_out_node is referenced by nothing but
\* gates that will be replaced in their turn.
Unneeded ==
  InCall("take_out", {0}) =>
    LET n == Head(calls).node
    IN  ~Dead(n) =>
          /\ \A g \in LiveGates : n \in FaninNodes(g) => Awaiting(g)
          /\ \A i \in DOMAIN outputs : outputs[i].node # n

\* What a node has been entered for is done: it is dead, or its first fanin
\* has been revived.
Done ==
  {f \in Frame : /\ f.op = "take_out" /\ f.at # 0 => Dead(f.node)
                 /\ f.op = "revive" /\ f.at = 2 => ~Dead(child[f.node][1].node)}
Frames == calls \in Seq(Done)

OutputsLive == \A i \in DOMAIN outputs : ~Dead(outputs[i].node)

\* The inductive invariant.
DInv ==
  /\ QuietIdle /\ Missed /\ Unneeded /\ Frames /\ OutputsLive
  /\ DeadFaninPending

\* The initial state satisfies the invariant.
LEMMA InitDInv == Init => DInv
<1> SUFFICES ASSUME Init PROVE DInv
  OBVIOUS
<1>1. QuietIdle /\ Missed /\ Unneeded /\ Frames /\ OutputsLive
  BY DEF Init, QuietIdle, Missed, Unneeded, Frames, OutputsLive, InCall
<1>2. LiveGates = {}
  BY DEF Init, LiveGates, Nodes, IsGate
<1>3. QED
  BY <1>1, <1>2 DEF DInv, DeadFaninPending

-----------------------------------------------------------------------------
(* The stack and the references.                                           *)

\* The nodes of a stack are those of its innermost frame and of the others.
LEMMA OccupiedPush ==
  ASSUME NEW S, NEW s \in Seq(S), NEW x
  PROVE  Occupied(<<x>> \o s) = {x.node} \cup Occupied(s)
<1> DEFINE t == <<x>> \o s
<1>1. /\ Len(s) \in Nat /\ DOMAIN t = 1 .. Len(s) + 1 /\ DOMAIN s = 1 .. Len(s)
      /\ t[1] = x /\ \A i \in 1 .. Len(s) : t[i + 1] = s[i]
  OBVIOUS
<1> HIDE DEF t
<1>2. ASSUME NEW i \in DOMAIN t PROVE t[i].node \in {x.node} \cup Occupied(s)
  <2>1. CASE i = 1
    BY <1>1, <2>1
  <2>2. CASE i # 1
    <3>1. i - 1 \in DOMAIN s /\ t[i] = s[i - 1]
      BY <1>1, <2>2
    <3>2. QED
      BY <3>1 DEF Occupied
  <2>3. QED
    BY <2>1, <2>2
<1>3. x.node \in Occupied(t)
  <2>1. 1 \in DOMAIN t
    BY <1>1
  <2>2. QED
    BY <1>1, <2>1 DEF Occupied
<1>4. ASSUME NEW i \in DOMAIN s PROVE s[i].node \in Occupied(t)
  <2>1. i + 1 \in DOMAIN t /\ t[i + 1] = s[i]
    BY <1>1
  <2>2. QED
    BY <2>1 DEF Occupied
<1>5. Occupied(t) = {x.node} \cup Occupied(s)
  BY <1>2, <1>3, <1>4 DEF Occupied
<1>6. QED
  BY <1>5 DEF t

\* A node with no reference is no fanin of a live gate and drives no output.
LEMMA Unreferenced ==
  ASSUME TypeOK, NEW m, References(m) = 0
  PROVE  /\ \A g \in LiveGates : m \notin FaninNodes(g)
         /\ \A i \in DOMAIN outputs : outputs[i].node # m
<1>1. /\ IsFiniteSet(Users(1, m)) /\ Cardinality(Users(1, m)) \in Nat
      /\ IsFiniteSet(Users(2, m)) /\ Cardinality(Users(2, m)) \in Nat
      /\ IsFiniteSet(Driven(m)) /\ Cardinality(Driven(m)) \in Nat
  BY Finite
<1>2. /\ Cardinality(Users(1, m)) = 0 /\ Cardinality(Users(2, m)) = 0
      /\ Cardinality(Driven(m)) = 0
  BY <1>1, ReferencesSplit
<1>3. Users(1, m) = {} /\ Users(2, m) = {} /\ Driven(m) = {}
  BY <1>1, <1>2, FS_EmptySet
<1>4. QED
  BY <1>3 DEF Users, Driven, FaninNodes

\* While a call runs nothing else does.
LEMMA OnlyUnwind ==
  ASSUME CInv, [AnyNext]_vars, calls # <<>>
  PROVE  Unwind \/ UNCHANGED vars
  BY DEF AnyNext, Next, Build, CreatePi, CreatePo, CreateAnd, TakeOut, SubstituteNode,
         SomeNoRestrash, SubstituteNodeNoRestrash, MaySubstitute, SomeComplement,
         SubstituteComplement, Idle, Substitute, Return, Pop, Follow, Resolved, Begin, Visit,
         FinishPair, CInv, IInv, Scanning, Phases

\* Calls leave the worklist and the fanins alone.
LEMMA UnwindFrame ==
  ASSUME Unwind
  PROVE  UNCHANGED <<size, isCi, child, outputs, ctlVars>>
  BY DEF Unwind, TakeOutIgnored, TakeOutEnter, TakeOutFanin, ReviveEnter, ReviveFanin, netVars

-----------------------------------------------------------------------------
(* The conjuncts, step by step.                                            *)

\* The worklist has run empty when a substitution returns.
LEMMA QuietIdleStep ==
  ASSUME QuietIdle, [AnyNext]_vars
  PROVE  QuietIdle'
<1>1. CASE Unwind
  BY <1>1, UnwindFrame DEF QuietIdle, ctlVars
<1>2. CASE Visit \/ Build \/ (\E n \in Nodes : TakeOut(n)) \/ Return \/ UNCHANGED vars
  BY <1>2 DEF QuietIdle, Build, CreatePi, CreatePo, CreateAnd, TakeOut, Return, Visit,
              vars, netVars, ctlVars
<1>3. CASE Pop \/ Follow \/ Resolved \/ Begin \/ FinishPair
  BY <1>3 DEF QuietIdle, Pop, Follow, Resolved, Begin, FinishPair
<1>4. CASE (\E o \in Nodes, s \in Signals : SubstituteNode(o, s)) \/ SomeNoRestrash
           \/ SomeComplement
  BY <1>4 DEF QuietIdle, SubstituteNode, SomeNoRestrash, SubstituteNodeNoRestrash,
              SomeComplement, SubstituteComplement
<1>5. QED
  BY <1>1, <1>2, <1>3, <1>4 DEF AnyNext, Next, Substitute

\* A gate that has been rewired has _old no longer, as its fanins differ.
LEMMA RewiredApart ==
  ASSUME TypeOK, NEW n \in Index, sub.old \in FaninNodes(n), sub.new.node # sub.old,
         child[n][1].node # child[n][2].node
  PROVE  sub.old \notin {Rewired(n)[1].node, Rewired(n)[2].node}
<1> DEFINE i == IF child[n][1].node = sub.old THEN 1 ELSE 2
           a == child[n][3 - i]
           b == Xor(sub.new, child[n][i].neg)
<1>1. i \in {1, 2} /\ child[n][i].node = sub.old /\ a.node # sub.old
  BY DEF FaninNodes
<1>2. child[n] \in Pair /\ sub.new \in Signal
  BY DEF TypeOK, Substitution
<1>3. b.node = sub.new.node
  <2>1. child[n][i].neg \in BOOLEAN
    BY <1>1, <1>2 DEF Pair, Signal
  <2>2. QED
    BY <1>2, <2>1, XorType DEF Signal
<1>4. Rewired(n) = Ordered(a, b)
  BY DEF Rewired
<1> HIDE DEF a, b
<1>5. QED
  BY <1>1, <1>3, <1>4 DEF Ordered

\* The fanins of a rewired gate are _new and one that it had.
LEMMA RewiredNodes ==
  ASSUME TypeOK, NEW n \in Index
  PROVE  \A d \in {Rewired(n)[1].node, Rewired(n)[2].node} :
            d \in FaninNodes(n) \/ d = sub.new.node
<1> DEFINE i == IF child[n][1].node = sub.old THEN 1 ELSE 2
           a == child[n][3 - i]
           b == Xor(sub.new, child[n][i].neg)
<1>1. i \in {1, 2} /\ a.node \in FaninNodes(n)
  BY DEF FaninNodes
<1>2. b.node = sub.new.node
  <2>1. child[n] \in Pair /\ sub.new \in Signal
    BY DEF TypeOK, Substitution
  <2>2. child[n][i].neg \in BOOLEAN
    BY <1>1, <2>1 DEF Pair, Signal
  <2>3. QED
    BY <2>1, <2>2, XorType DEF Signal
<1>3. Rewired(n) = Ordered(a, b)
  BY DEF Rewired
<1> HIDE DEF a, b
<1>4. QED
  BY <1>1, <1>2, <1>3 DEF Ordered

\* No fanout of _old is forgotten by the loop.
LEMMA MissedStep ==
  ASSUME CInv, NoOverflow, NotSelf, NoTwins, Missed, [AnyNext]_vars
  PROVE  Missed'
<1> USE StepTypes
<1>1. CASE UNCHANGED vars
  BY <1>1 DEF Missed, Awaiting, LiveGates, Nodes, IsGate, Dead, FaninNodes, vars, netVars, ctlVars
<1>2. CASE Begin
  BY <1>2 DEF Begin, Missed, Fanouts, LiveGates, Nodes, IsGate, Dead, FaninNodes, netVars
<1>3. CASE Visit
  <2>1. PICK n \in scan : ReplaceInNode(n) /\ scan' = scan \ {n}
    BY <1>3 DEF Visit
  <2>2. /\ pc = "scan" /\ sub' = sub /\ calls = <<>> /\ n \in LiveGates /\ n \in Index
        /\ sub.old \in FaninNodes(n)
    BY <1>3, NodesType DEF Visit, CInv, IInv, Scanning, Phases
  <2>3. LiveGates' = LiveGates
    <3>1. ~TakeOutEnter /\ ~ReviveEnter
      BY <2>2 DEF TakeOutEnter, ReviveEnter, InCall
    <3>2. UNCHANGED <<size, isCi>>
      BY <2>1 DEF ReplaceInNode, CollapseNode, RestrashNode, RewireNode, netVars
    <3>3. QED
      BY <3>1, <3>2, SameLive
  <2>4. CASE CollapseNode(n)
    <3> DEFINE p == [old |-> n, new |-> Equal(Rewired(n))]
    <3>1. child' = child /\ todo' = <<p>> \o todo /\ p.old = n
      BY <2>4 DEF CollapseNode, netVars
    <3> HIDE DEF p
    <3>2. todo \in Seq(Substitution)
      BY DEF TypeOK
    <3>3. Awaiting(n)' /\ \A g : Awaiting(g) => Awaiting(g)'
      <4>1. /\ Len(todo) \in Nat /\ DOMAIN todo = 1 .. Len(todo)
            /\ DOMAIN todo' = 1 .. Len(todo) + 1
            /\ todo'[1] = p /\ \A i \in 1 .. Len(todo) : todo'[i + 1] = todo[i]
        BY <3>1, <3>2
      <4>2. 1 \in DOMAIN todo' /\ \A i \in DOMAIN todo : i + 1 \in DOMAIN todo'
        BY <4>1
      <4>3. QED
        BY <3>1, <4>1, <4>2 DEF Awaiting
    <3>4. QED
      BY <2>1, <2>2, <2>3, <3>1, <3>3 DEF Missed, FaninNodes
  <2>5. CASE RestrashNode(n) \/ RewireNode(n)
    <3>1. todo' = todo /\ child' = [child EXCEPT ![n] = Rewired(n)]
      BY <2>5 DEF RestrashNode, RewireNode
    <3>2. child'[n] = Rewired(n) /\ \A g \in Index \ {n} : child'[g] = child[g]
      BY <2>2, <3>1 DEF TypeOK
    <3>3. sub.old \notin FaninNodes(n)'
      BY <2>2, <3>2, RewiredApart DEF NoTwins, NotSelf, FaninNodes
    <3>4. LiveGates \subseteq Index
      BY NodesType
    <3>5. QED
      BY <2>1, <2>2, <2>3, <3>1, <3>2, <3>3, <3>4 DEF Missed, Awaiting, FaninNodes
  <2>6. QED
    BY <2>1, <2>4, <2>5 DEF ReplaceInNode
<1>4. CASE Unwind
  BY <1>4, UnwindCalls, UnwindFrame DEF Missed, CInv, IInv, Scanning, ctlVars
<1>5. CASE pc' # "scan"
  BY <1>5 DEF Missed
<1>6. QED
  BY <1>1, <1>2, <1>3, <1>4, <1>5
  DEF AnyNext, Next, Build, CreatePi, CreatePo, CreateAnd, TakeOut, SubstituteNode,
      SomeNoRestrash, SubstituteNodeNoRestrash, SomeComplement, SubstituteComplement, Idle,
      Substitute, Return, Pop, Follow, Resolved, FinishPair, ctlVars

\* Outside of the loop a live node with count 0 is referenced by nothing, when
\* no fanin of it is ahead of a revival.
LEMMA CountedOut ==
  ASSUME CInv, calls = <<>>, pc # "scan", NEW n \in Nodes, ~Dead(n), h1[n] = 0
  PROVE  References(n) = 0
<1>1. TypeOK /\ n \in Index
  BY NodesType DEF CInv, IInv
<1>2. n \notin Stale
  BY DEF Stale
<1>3. FaninsAhead("revive", n) = 0 /\ FaninsAhead("take_out", n) = 0
  BY AheadNone DEF FaninsAhead, AheadOf
<1>4. h1[n] + FaninsAhead("revive", n) = References(n) + FaninsAhead("take_out", n)
  BY <1>2 DEF CInv, CountsExact, Exact
<1>5. References(n) \in Nat
  BY <1>1, BalanceTypes
<1>6. QED
  BY <1>3, <1>4, <1>5

\* What is still referenced when take_out_node is called will be replaced.
LEMMA UnneededStep ==
  ASSUME CInv, NoOverflow, NotSelf, Missed, Unneeded, [AnyNext]_vars
  PROVE  Unneeded'
<1> USE StepTypes
<1>1. CASE UNCHANGED vars
  BY <1>1 DEF Unneeded, InCall, Awaiting, LiveGates, Nodes, IsGate, Dead, FaninNodes,
              vars, netVars, ctlVars
<1>2. ASSUME NEW n \in Nodes, TakeOut(n)
      PROVE  Unneeded'
  <2>1. /\ calls = <<>> /\ pc = "idle" /\ n \in LiveGates /\ FanoutSize(n) = 0
        /\ calls' = <<Call("take_out", n)>> /\ UNCHANGED <<netVars, ctlVars>>
    BY <1>2 DEF TakeOut, Idle
  <2>2. ~Dead(n) /\ h1[n] = 0
    BY <2>1, FanoutSizes DEF LiveGates
  <2>3. References(n) = 0
    BY <2>1, <2>2, CountedOut
  <2>4. /\ \A g \in LiveGates : n \notin FaninNodes(g)
        /\ \A i \in DOMAIN outputs : outputs[i].node # n
    BY <2>3, Unreferenced
  <2>5. Head(calls').node = n
    BY <2>1, TailOfOne DEF Call
  <2>6. LiveGates' = LiveGates /\ \A g : FaninNodes(g)' = FaninNodes(g)
    BY <2>1 DEF LiveGates, Nodes, IsGate, Dead, FaninNodes, netVars
  <2>7. QED
    BY <2>1, <2>4, <2>5, <2>6 DEF Unneeded, netVars
<1>3. CASE FinishPair
  <2>1. /\ pc = "scan" /\ scan = {} /\ calls = <<>> /\ sub.old # sub.new.node
        /\ sub.old \in Nodes /\ sub' = sub
    BY <1>3, AllocatedParts DEF FinishPair, NotSelf, CInv, IInv, Scanning
  <2>2. /\ calls' = <<Call("take_out", sub.old)>> /\ UNCHANGED <<size, isCi, child, todo>>
        /\ outputs' = RedirectedOutputs
    BY <1>3, <2>1 DEF FinishPair
  <2>3. Head(calls').node = sub.old
    BY <2>2, TailOfOne DEF Call
  <2>4. ~TakeOutEnter /\ ~ReviveEnter
    BY <2>1 DEF TakeOutEnter, ReviveEnter, InCall
  <2>5. LiveGates' = LiveGates /\ (Dead(sub.old)' <=> Dead(sub.old))
    BY <2>1, <2>2, <2>4, SameLive, SameDead
  <2>6. \A g \in LiveGates' : sub.old \in FaninNodes(g)' => Awaiting(g)'
    BY <2>1, <2>2, <2>5 DEF Missed, FaninNodes, Awaiting
  <2>7. ASSUME ~Dead(sub.old), NEW i \in DOMAIN outputs'
        PROVE  outputs'[i].node # sub.old
    <3>1. outputs \in Seq(Signal) /\ sub.new \in Signal
      BY DEF TypeOK, Substitution
    <3>2. i \in DOMAIN outputs /\ outputs[i] \in Signal
      BY <2>2, <2>7, <3>1 DEF RedirectedOutputs
    <3>3. Xor(sub.new, outputs[i].neg).node = sub.new.node
      <4>1. outputs[i].neg \in BOOLEAN
        BY <3>2 DEF Signal
      <4>2. QED
        BY <3>1, <4>1, XorType DEF Signal
    <3>4. QED
      BY <2>1, <2>2, <2>7, <3>2, <3>3 DEF RedirectedOutputs
  <2>8. sub'.old = sub.old
    BY <2>1
  <2>9. QED
    BY <2>3, <2>5, <2>6, <2>7, <2>8 DEF Unneeded, Dead
<1>4. CASE Unwind
  <2> DEFINE f == Head(calls)
             c == child[f.node][f.at].node
  <2>1. calls # <<>> /\ UNCHANGED <<size, isCi, child, outputs, todo>>
    BY <1>4, UnwindCalls, UnwindFrame DEF ctlVars
  <2>2. Tail(calls) \in Seq(Visiting) /\ Advance \in Seq(Visiting)
    BY <2>1, KindOfRest
  <2>3. CASE calls' = Tail(calls) \/ calls' = Advance
    <3>1. calls' # <<>> => Head(calls') \in Visiting
      BY <2>2, <2>3, PopFromSeq
    <3>2. ~InCall("take_out", {0})'
      BY <3>1 DEF InCall, Visiting
    <3>3. QED
      BY <3>2 DEF Unneeded
  <2>4. CASE calls' = <<Call("revive", c)>> \o calls
    <3>1. calls \in Seq(Frame)
      BY DEF TypeOK
    <3>2. Head(calls').op = "revive"
      BY <2>4, <3>1, HeadOfPush DEF Call
    <3>3. QED
      BY <3>2 DEF Unneeded, InCall
  <2>5. ASSUME NEW d \in Nodes, calls' = <<Call("take_out", d)>> \o Advance, TakeOutFanin,
               d = c, f.op = "take_out", f.at \in {1, 2}, ~Dead(d), h1'[d] = 0
        PROVE  Unneeded'
    <3>1. Head(calls').node = d
      <4>1. Head(<<Call("take_out", d)>> \o Advance) = Call("take_out", d)
        BY ONLY <2>2, HeadOfPush
      <4>2. Call("take_out", d).node = d
        BY ONLY DEF Call
      <4>3. QED
        BY <2>5, <4>1, <4>2, Zenon
    <3>2. d \in Index /\ d \notin Stale
      <4>1. calls # <<Call("take_out", sub.old)>>
        <5> SUFFICES ASSUME calls = <<Call("take_out", sub.old)>> PROVE FALSE
          OBVIOUS
        <5>1. f.at = 0
          BY TailOfOne DEF Call
        <5>2. f.at \in {1, 2}
          BY <2>5
        <5> HIDE DEF f
        <5>3. QED
          BY ONLY <5>1, <5>2
      <4>2. pc # "scan"
        BY <2>1 DEF CInv, IInv, Scanning
      <4>3. QED
        BY <2>5, <4>1, <4>2 DEF Stale
    <3>3. Balanced(d)
      BY <2>5, <3>2 DEF CInv, CountsExact, Exact, Balanced
    <3>4. Balanced(d)'
      BY <2>5, <3>2, <3>3, TakeOutFaninBalance
    <3>5. FaninsAhead("revive", d)' = 0
      <4>1. calls' \in Seq(OfKind("take_out"))
        BY <1>4, <2>5, UnwindKind
      <4>2. FaninsAhead("revive", d)' = Cardinality(AheadOf(calls', "revive", d))
        BY <2>1, AheadPrimed
      <4>3. AheadOf(calls', "revive", d) = {}
        <5>1. \A i \in DOMAIN calls' : calls'[i].op = "take_out"
          BY <4>1 DEF OfKind
        <5>2. QED
          BY <2>1, <5>1, "take_out" # "revive" DEF AheadOf
      <4>4. QED
        BY <4>2, <4>3, FS_EmptySet
    <3>6. References(d)' = References(d) /\ LiveGates' = LiveGates
      <4>1. f.at # 0
        BY ONLY <2>5
      <4>2. ~TakeOutEnter /\ ~ReviveEnter
        BY ONLY <4>1 DEF TakeOutEnter, ReviveEnter, InCall
      <4>3. LiveGates' = LiveGates
        BY <2>1, <4>2, SameLive
      <4>4. QED
        BY <2>1, <4>3, SameReferences
    <3>7. References(d) \in Nat /\ FaninsAhead("take_out", d)' \in Nat
      <4>1. calls' \in Seq(Frame) /\ child' = child
        BY <2>1 DEF TypeOK
      <4>2. QED
        BY <2>1, <2>5, <3>2, BalanceTypes, AheadStep, KindOfRest
    <3>8. References(d) = 0
      <4>1. h1'[d] + FaninsAhead("revive", d)' = References(d)' + FaninsAhead("take_out", d)'
        BY <3>4 DEF Balanced
      <4>2. 0 + 0 = References(d) + FaninsAhead("take_out", d)'
        BY <2>5, <3>5, <3>6, <4>1, Zenon
      <4>3. QED
        BY <3>7, <4>2
    <3>9. /\ \A g \in LiveGates : d \notin FaninNodes(g)
          /\ \A i \in DOMAIN outputs : outputs[i].node # d
      BY <3>8, Unreferenced
    <3>10. QED
      BY <2>1, <3>1, <3>6, <3>9 DEF Unneeded, FaninNodes
  <2>6. QED
    BY <1>4, <2>3, <2>4, <2>5, UnwindCalls
<1>5. CASE calls' = <<>>
  BY <1>5 DEF Unneeded, InCall
<1>6. CASE Resolved \/ SomeNoRestrash
  <2>1. calls' = <<>> \/ \E n : calls' = <<Call("revive", n)>>
    BY <1>6 DEF Resolved, SomeNoRestrash, SubstituteNodeNoRestrash
  <2>2. \A n : Head(<<Call("revive", n)>>).op = "revive"
    BY DEF Call
  <2>3. calls' = <<>> \/ Head(calls').op = "revive"
    BY <2>1, <2>2
  <2>4. QED
    BY <2>3 DEF Unneeded, InCall
<1>7. CASE Build \/ Return \/ Pop \/ Begin
  BY <1>5, <1>7 DEF Build, CreatePi, CreatePo, CreateAnd, Idle, Return, Pop, Begin
<1>8. CASE Follow \/ Visit
  BY <1>5, <1>8 DEF Follow, Visit, CInv, IInv, Phases, Scanning
<1>9. CASE (\E o \in Nodes, s \in Signals : SubstituteNode(o, s)) \/ SomeComplement
  BY <1>5, <1>9 DEF SubstituteNode, MaySubstitute, SomeComplement, SubstituteComplement, Idle
<1>10. QED
  BY <1>1, <1>2, <1>3, <1>4, <1>6, <1>7, <1>8, <1>9 DEF AnyNext, Next, Substitute

\* A frame says of its node what it said before: what take_out_node entered
\* stays dead, and a fanin that was revived stays alive, as long as activations
\* of the other kind do not run.
LEMMA FramesStep ==
  ASSUME CInv, NoOverflow, Frames, [AnyNext]_vars
  PROVE  Frames'
<1> USE StepTypes
<1>1. CASE calls' = <<>>
  BY <1>1 DEF Frames
<1>2. ASSUME NEW op \in {"take_out", "revive"}, NEW n \in Index, calls' = <<Call(op, n)>>
      PROVE  Frames'
  <2>1. Call(op, n) \in Frame /\ Call(op, n).at = 0
    BY KindOfCall DEF OfKind
  <2>2. Call(op, n) \in Done'
    BY <2>1 DEF Done
  <2>3. QED
    BY <1>2, <2>2 DEF Frames
<1>3. CASE UNCHANGED vars
  BY <1>3 DEF Frames, Done, Dead, vars, netVars
<1>4. CASE Unwind
  <2> DEFINE f == Head(calls)
             g == [f EXCEPT !.at = @ + 1]
  <2>1. /\ calls # <<>> /\ UNCHANGED <<child, size>> /\ f.op \in {"take_out", "revive"}
        /\ calls \in Seq(OfKind(f.op)) /\ Tail(calls) \in Seq(OfKind(f.op))
        /\ Tail(calls) \in Seq(Done) /\ f \in Done /\ f \in Frame /\ f.node \in Nodes
    BY <1>4, UnwindCalls, UnwindFrame, KindOfRest, PopFromSeq, CallsSplit, FrameParts
    DEF Frames, CInv
  <2>2. \A n \in Index : child[n][1].node \in Nodes
    BY AllocatedParts
  <2>3. ASSUME NEW h \in Done, h.op = f.op, h.node \in Nodes
        PROVE  h \in Done'
    <3>1. h \in Frame /\ h.node \in Index
      BY <2>3 DEF Done, Frame
    <3>2. CASE f.op = "take_out"
      <4>1. ~ReviveEnter
        BY <3>2 DEF ReviveEnter, InCall
      <4>2. Dead(h.node) => Dead(h.node)'
        BY <2>3, <4>1, DeadStep DEF Dead
      <4>3. QED
        BY <2>3, <3>1, <3>2, <4>2 DEF Done
    <3>3. CASE f.op = "revive"
      <4>1. ~TakeOutEnter
        BY <3>3 DEF TakeOutEnter, InCall
      <4>2. child[h.node][1].node \in Nodes
        BY <2>2, <3>1
      <4>3. ~Dead(child[h.node][1].node) => ~(h1'[child[h.node][1].node] >= DeadBit)
        BY <4>1, <4>2, CountsStep DEF Dead
      <4>4. h.op # "take_out" /\ (h.at = 2 => ~Dead(child[h.node][1].node))
        BY ONLY <2>3, <3>3 DEF Done
      <4>5. h.at = 2 => ~Dead(child[h.node][1].node)'
        BY ONLY <2>1, <4>3, <4>4 DEF Dead
      <4>6. child'[h.node][1].node = child[h.node][1].node
        BY ONLY <2>1
      <4>7. QED
        BY ONLY <3>1, <4>4, <4>5, <4>6 DEF Done, Dead
    <3>4. QED
      BY <2>1, <3>2, <3>3
  <2>4. Tail(calls) \in Seq(Done')
    <3>1. Tail(calls) \in Seq(NodeFrame)
      BY <2>1, FrameParts
    <3>2. Tail(calls) \in Seq({h \in Done : h.op = f.op /\ h.node \in Nodes})
      BY <2>1, <3>1 DEF OfKind, NodeFrame
    <3>3. {h \in Done : h.op = f.op /\ h.node \in Nodes} \subseteq Done'
      BY <2>3
    <3>4. QED
      BY <3>2, <3>3, SeqMonotonic
  <2>5. f.at < 2 => g \in Frame /\ g.op = f.op /\ g.node = f.node /\ g.at = f.at + 1
    BY ONLY <2>1 DEF Frame
  <2>6. ASSUME f.at < 2 => g \in Done'
        PROVE  Advance \in Seq(Done')
    <3>1. CASE f.at < 2
      <4>1. Advance = <<g>> \o Tail(calls)
        BY <3>1 DEF Advance
      <4> HIDE DEF g
      <4>2. QED
        BY <2>4, <2>6, <3>1, <4>1, PushInSeq
    <3>2. CASE ~(f.at < 2)
      BY <2>4, <3>2 DEF Advance
    <3>3. QED
      BY <3>1, <3>2
  <2>7. ASSUME NEW q \in {"take_out", "revive"}, NEW n \in Nodes, NEW t \in Seq(Done')
        PROVE  <<Call(q, n)>> \o t \in Seq(Done')
    <3>1. n \in Index
      BY <2>7
    <3>2. Call(q, n) \in Frame /\ Call(q, n).at = 0
      BY <3>1, KindOfCall DEF OfKind
    <3>3. Call(q, n) \in Done'
      BY <3>2 DEF Done
    <3>4. QED
      BY <3>3, PushInSeq
  <2>8. CASE TakeOutIgnored
    BY <2>4, <2>8 DEF TakeOutIgnored, Frames
  <2>9. CASE TakeOutEnter
    <3>1. f.op = "take_out" /\ h1'[f.node] >= DeadBit /\ calls' = Advance
      BY <2>1, <2>9 DEF TakeOutEnter, InCall
    <3>2. f.at < 2 => g \in Done'
      BY <2>5, <3>1, "take_out" # "revive" DEF Done, Dead
    <3>3. QED
      BY <2>6, <3>1, <3>2 DEF Frames
  <2>10. CASE TakeOutFanin
    <3>1. f.op = "take_out" /\ f.at \in {1, 2} /\ ~ReviveEnter
      BY <2>10, "take_out" # "revive" DEF TakeOutFanin, ReviveEnter, InCall
    <3>2. Dead(f.node)
      BY <2>1, <3>1 DEF Done
    <3>3. h1'[f.node] >= DeadBit
      BY <2>1, <3>1, <3>2, DeadStep DEF Dead
    <3>4. f.at < 2 => g \in Done'
      BY <2>5, <3>1, <3>3, "take_out" # "revive" DEF Done, Dead
    <3>5. Advance \in Seq(Done')
      BY <2>6, <3>4
    <3>6. QED
      BY <1>4, <2>4, <2>7, <3>1, <3>5, UnwindCalls, "take_out" # "revive"
         DEF Frames, ReviveFanin, InCall
  <2>11. CASE ReviveEnter
    <3>1. f.op = "revive" /\ f.at = 0 /\ calls' = Advance
      BY <2>11 DEF ReviveEnter, InCall
    <3>2. g \in Done'
      <4>1. g \in Frame /\ g.op = "revive" /\ g.at = 1
        BY <2>5, <3>1
      <4> HIDE DEF g
      <4>2. QED
        BY <4>1, "take_out" # "revive" DEF Done
    <3>3. QED
      BY <2>6, <3>1, <3>2 DEF Frames
  <2>12. CASE ReviveFanin
    <3> DEFINE c == child[f.node][f.at].node
    <3>1. f.op = "revive" /\ f.at \in {1, 2} /\ c \in Nodes /\ ~TakeOutEnter
      BY <2>1, <2>12, FaninOfFrame, "take_out" # "revive" DEF ReviveFanin, TakeOutEnter, InCall
    <3>2. CASE Dead(c)
      <4>1. calls' = <<Call("revive", c)>> \o calls
        BY <2>12, <3>2 DEF ReviveFanin
      <4>2. f \in Done'
        BY <2>1, <2>3
      <4>3. calls \in Seq(Done')
        <5> HIDE DEF f
        <5>1. calls = <<f>> \o Tail(calls)
          BY <2>1, CallsSplit DEF f
        <5>2. QED
          BY <2>4, <4>2, <5>1, PushInSeq
      <4>4. QED
        BY <2>7, <3>1, <4>1, <4>3 DEF Frames
    <3>3. CASE ~Dead(c)
      <4>1. calls' = Advance
        BY <2>12, <3>3 DEF ReviveFanin
      <4>2. ~(h1'[c] >= DeadBit)
        BY <3>1, <3>3, CountsStep DEF Dead, CInv
      <4>3. f.at < 2 => g \in Done'
        <5>1. f.at < 2 => f.at = 1 /\ g.op = "revive" /\ ~(h1'[child'[g.node][1].node] >= DeadBit)
          BY <2>1, <2>5, <3>1, <4>2
        <5>2. QED
          BY <2>5, <5>1, "take_out" # "revive" DEF Done, Dead
      <4>4. QED
        BY <2>6, <4>1, <4>3 DEF Frames
    <3>4. QED
      BY <3>2, <3>3
  <2>13. QED
    BY <1>4, <2>8, <2>9, <2>10, <2>11, <2>12 DEF Unwind
<1>5. QED
  BY <1>1, <1>2, <1>3, <1>4, OnlyUnwind, CallsStep

\* No output is left behind with a node that dies.
LEMMA OutputsLiveStep ==
  ASSUME CInv, NoOverflow, Unneeded, OutputsLive, [AnyNext]_vars
  PROVE  OutputsLive'
<1> USE StepTypes
<1>1. ASSUME NEW i \in DOMAIN outputs
      PROVE  outputs[i].node \in Nodes
  <2>1. outputs \in Seq(NodeSignal)
    BY DEF IInv, Allocated
  <2>2. outputs[i] \in NodeSignal
    BY <2>1
  <2>3. QED
    BY <2>2 DEF NodeSignal
<1>2. CASE outputs' = outputs /\ ~TakeOutEnter
  BY <1>1, <1>2, CountsStep DEF OutputsLive, Dead, CInv
<1>3. CASE TakeOutEnter
  <2>1. outputs' = outputs /\ \A i \in DOMAIN outputs : outputs[i].node # Head(calls).node
    BY <1>3 DEF TakeOutEnter, Unneeded
  <2>2. QED
    BY <1>1, <1>3, <2>1, CountsStep DEF OutputsLive, Dead, CInv
<1>4. ASSUME NEW f \in LiveSignals, CreatePo(f)
      PROVE  OutputsLive'
  <2>1. /\ outputs \in Seq(Signal) /\ outputs' = Append(outputs, f) /\ calls = <<>>
        /\ f.node \in Nodes /\ ~Dead(f.node)
    BY <1>4 DEF CreatePo, Idle, LiveSignals, Signals, TypeOK
  <2>2. ~TakeOutEnter
    BY <2>1 DEF TakeOutEnter, InCall
  <2>3. \A m \in Nodes : ~Dead(m) => ~(h1'[m] >= DeadBit)
    BY <2>2, CountsStep DEF Dead, CInv
  <2>4. ASSUME NEW i \in DOMAIN outputs' PROVE ~(h1'[outputs'[i].node] >= DeadBit)
    <3>1. (i \in DOMAIN outputs /\ outputs'[i] = outputs[i]) \/ outputs'[i] = f
      BY <2>1
    <3>2. QED
      BY <1>1, <2>1, <2>3, <3>1 DEF OutputsLive
  <2>5. QED
    BY <2>4 DEF OutputsLive, Dead
<1>5. CASE FinishPair
  <2>1. /\ pc = "scan" /\ calls = <<>> /\ outputs' = RedirectedOutputs
        /\ sub.new.node \in Nodes /\ ~Dead(sub.new.node)
    BY <1>5, AllocatedParts DEF FinishPair, CInv, IInv, Scanning, Phases
  <2>2. ~TakeOutEnter
    BY <2>1 DEF TakeOutEnter, InCall
  <2>3. \A m \in Nodes : ~Dead(m) => ~(h1'[m] >= DeadBit)
    BY <2>2, CountsStep DEF Dead, CInv
  <2>4. ASSUME NEW i \in DOMAIN outputs' PROVE ~(h1'[outputs'[i].node] >= DeadBit)
    <3>1. outputs \in Seq(Signal) /\ sub.new \in Signal
      BY DEF TypeOK, Substitution
    <3>2. i \in DOMAIN outputs /\ outputs[i] \in Signal
      BY <2>1, <2>4, <3>1 DEF RedirectedOutputs
    <3>3. Xor(sub.new, outputs[i].neg).node = sub.new.node
      <4>1. outputs[i].neg \in BOOLEAN
        BY <3>2 DEF Signal
      <4>2. QED
        BY <3>1, <4>1, XorType DEF Signal
    <3>4. outputs'[i].node \in {outputs[i].node, sub.new.node}
      BY <2>1, <3>2, <3>3 DEF RedirectedOutputs
    <3>5. QED
      BY <1>1, <2>1, <2>3, <3>2, <3>4 DEF OutputsLive
  <2>5. QED
    BY <2>4 DEF OutputsLive, Dead
<1>6. (outputs' = outputs) \/ FinishPair \/ \E f \in LiveSignals : CreatePo(f)
  BY DEF AnyNext, Next, Build, CreatePi, CreateAnd, TakeOut, SubstituteNode, SomeNoRestrash,
         SomeComplement, SubstituteNodeNoRestrash, SubstituteComplement, Unwind, TakeOutIgnored,
         TakeOutEnter, TakeOutFanin, ReviveEnter, ReviveFanin, Substitute, Return,
         Pop, Follow, Resolved, Begin, Visit, ReplaceInNode, CollapseNode,
         RestrashNode, RewireNode, netVars, vars
<1>7. QED
  BY <1>2, <1>3, <1>4, <1>5, <1>6

\* What keeps a gate that has a dead fanin.
Pending(g) ==
  \/ Awaiting(g)
  \/ pc \in {"resolve", "begin", "scan"} /\ sub.old = g
  \/ g \in Occupied(calls)

\* The invariant in these terms.
LEMMA PendingSplit ==
  DeadFaninPending <=>
    \A g \in LiveGates : (\E c \in FaninNodes(g) : Dead(c)) => Pending(g)
  BY DEF DeadFaninPending, Pending, Awaiting, Occupied

\* Between operations no live gate has a dead fanin.
LEMMA NoneAtRest ==
  ASSUME DInv, calls = <<>>, pc = "idle" \/ (pc = "pop" /\ todo = <<>>)
  PROVE  \A g \in LiveGates : \A c \in FaninNodes(g) : ~Dead(c)
<1>1. todo = <<>>
  BY DEF DInv, QuietIdle
<1>2. \A g : ~Pending(g)
  BY <1>1 DEF Pending, Awaiting, Occupied
<1>3. QED
  BY <1>2, PendingSplit DEF DInv

\* The calls: the node that dies leaves only gates behind that await their
\* own pair, and the innermost frame returns when its node has no dead fanin.
LEMMA PendingUnwind ==
  ASSUME CInv, NoOverflow, DInv, Unwind, NEW g \in LiveGates', NEW d \in FaninNodes(g)',
         Dead(d)'
  PROVE  Pending(g)'
<1> DEFINE f == Head(calls)
           c == child[f.node][f.at].node
<1>1. [AnyNext]_vars
  BY DEF AnyNext, Next
<1> USE StepTypes
<1>2. /\ calls # <<>> /\ UNCHANGED <<size, isCi, child, outputs, ctlVars>>
      /\ f \in Frame /\ f \in Done /\ f.node \in Nodes /\ Tail(calls) \in Seq(Frame)
      /\ Advance \in Seq(Frame) /\ calls \in Seq(Frame)
  BY <1>1, UnwindCalls, UnwindFrame, CallsSplit, FrameParts, PopFromSeq, AdvanceType
  DEF DInv, Frames, CInv, TypeOK
<1>3. g \in Nodes /\ IsGate(g) /\ g \in Index /\ d \in FaninNodes(g) /\ d \in Nodes
  <2>1. g \in Nodes /\ IsGate(g) /\ d \in FaninNodes(g)
    BY <1>1, <1>2 DEF LiveGates, Nodes, IsGate, FaninNodes
  <2>2. g \in Index
    BY <1>1, <2>1
  <2>3. QED
    BY <1>1, <2>1, <2>2, AllocatedParts DEF FaninNodes
<1>4. Awaiting(g) => Pending(g)'
  BY <1>2 DEF Awaiting, Pending, ctlVars
<1>5. Occupied(calls) = {f.node} \cup Occupied(Tail(calls))
  <2>1. calls = <<f>> \o Tail(calls)
    BY <1>1, <1>2, CallsSplit
  <2> HIDE DEF f
  <2>2. QED
    BY <1>2, <2>1, OccupiedPush
<1>6. Occupied(Tail(calls)) \subseteq Occupied(Advance)
  <2> DEFINE h == [f EXCEPT !.at = @ + 1]
             t == Tail(calls)
  <2>1. Advance = <<h>> \o t \/ Advance = t
    BY DEF Advance
  <2> HIDE DEF h
  <2>2. Occupied(<<h>> \o t) = {h.node} \cup Occupied(t)
    BY <1>2, OccupiedPush
  <2>3. QED
    BY <2>1, <2>2
<1>7. Occupied(Tail(calls)) \subseteq Occupied(calls')
  <2>1. \A q : Occupied(<<Call(q, c)>> \o Advance) = {Call(q, c).node} \cup Occupied(Advance)
    BY <1>2, OccupiedPush
  <2>2. \A q : Occupied(<<Call(q, c)>> \o calls) = {Call(q, c).node} \cup Occupied(calls)
    BY <1>2, OccupiedPush
  <2>3. \/ calls' \in {Tail(calls), Advance}
        \/ \E q : calls' \in {<<Call(q, c)>> \o Advance, <<Call(q, c)>> \o calls}
    BY UnwindCalls
  <2> HIDE DEF f, c
  <2>4. QED
    BY ONLY <1>5, <1>6, <2>1, <2>2, <2>3
<1>8. f.at < 2 => f.node \in Occupied(Advance)
  <2> DEFINE h == [f EXCEPT !.at = @ + 1]
  <2>1. f.at < 2 => Advance = <<h>> \o Tail(calls) /\ h.node = f.node
    BY <1>2 DEF Advance, Frame
  <2> HIDE DEF h
  <2>2. Occupied(<<h>> \o Tail(calls)) = {h.node} \cup Occupied(Tail(calls))
    BY <1>2, OccupiedPush
  <2>3. QED
    BY <2>1, <2>2
<1>9. CASE Dead(g)
  <2>1. ReviveEnter /\ g = f.node
    BY <1>1, <1>3, <1>9, DeadStep DEF LiveGates, Dead
  <2>2. f.at = 0 /\ calls' = Advance
    BY <2>1 DEF ReviveEnter, InCall
  <2>3. QED
    BY <1>8, <2>1, <2>2 DEF Pending
<1>10. CASE ~Dead(g) /\ ~Dead(d)
  <2>1. TakeOutEnter /\ d = f.node
    BY <1>1, <1>3, <1>10, CountsStep DEF CInv
  <2>2. Awaiting(g)
    BY <1>3, <1>10, <2>1 DEF DInv, Unneeded, TakeOutEnter, LiveGates
  <2>3. QED
    BY <1>4, <2>2
<1>11. CASE ~Dead(g) /\ Dead(d)
  <2>1. g \in LiveGates /\ Pending(g)
    BY <1>3, <1>11, PendingSplit DEF LiveGates, DInv
  <2>2. CASE pc \in {"resolve", "begin", "scan"} /\ sub.old = g
    BY <1>2, <2>2 DEF Pending, ctlVars
  <2>3. CASE g \in Occupied(Tail(calls))
    BY <1>7, <2>3 DEF Pending
  <2>4. CASE g = f.node
    <3>1. CASE TakeOutIgnored
      BY <1>3, <1>11, <2>4, <3>1 DEF TakeOutIgnored
    <3>2. CASE TakeOutEnter
      <4>1. h1'[g] >= DeadBit
        BY <1>1, <1>3, <2>4, <3>2 DEF TakeOutEnter
      <4>2. QED
        BY <4>1 DEF LiveGates, Dead
    <3>3. CASE TakeOutFanin
      <4>1. f.op = "take_out" /\ f.at \in {1, 2}
        BY <3>3 DEF TakeOutFanin, InCall
      <4>2. Dead(f.node)
        BY <1>2, <4>1 DEF Done
      <4>3. QED
        BY <1>11, <2>4, <4>2
    <3>4. CASE ReviveEnter
      <4>1. f.at = 0 /\ calls' = Advance
        BY <3>4 DEF ReviveEnter, InCall
      <4>2. QED
        BY <1>8, <2>4, <4>1 DEF Pending
    <3>5. CASE ReviveFanin
      <4>1. f.op = "revive" /\ f.at \in {1, 2}
        BY <3>5 DEF ReviveFanin, InCall
      <4>2. CASE Dead(c)
        <5>1. calls' = <<Call("revive", c)>> \o calls
          BY <3>5, <4>2 DEF ReviveFanin
        <5>2. Occupied(<<Call("revive", c)>> \o calls)
                = {Call("revive", c).node} \cup Occupied(calls)
          BY <1>2, OccupiedPush
        <5> HIDE DEF c
        <5>3. QED
          BY <1>5, <2>4, <5>1, <5>2 DEF Pending
      <4>3. CASE ~Dead(c)
        <5>1. calls' = Advance
          BY <3>5, <4>3 DEF ReviveFanin
        <5>2. CASE f.at = 1
          BY <1>8, <2>4, <5>1, <5>2 DEF Pending
        <5>3. CASE f.at = 2
          <6>1. ~Dead(child[g][1].node) /\ ~Dead(child[g][2].node)
            BY <1>2, <2>4, <4>1, <4>3, <5>3 DEF Done
          <6>2. QED
            BY <1>3, <1>11, <6>1 DEF FaninNodes
        <5>4. QED
          BY <4>1, <5>2, <5>3
      <4>4. QED
        BY <4>2, <4>3
    <3>6. QED
      BY <3>1, <3>2, <3>3, <3>4, <3>5 DEF Unwind
  <2>5. QED
    BY <1>4, <1>5, <2>1, <2>2, <2>3, <2>4 DEF Pending
<1>12. QED
  BY <1>9, <1>10, <1>11

\* The other steps: nothing dies, and a gate that was pending still is.
LEMMA PendingStep ==
  ASSUME CInv, NoOverflow, NotSelf, DInv, [AnyNext]_vars
  PROVE  DeadFaninPending'
<1> USE StepTypes
<1> SUFFICES ASSUME NEW g \in LiveGates', NEW d \in FaninNodes(g)', Dead(d)'
             PROVE  Pending(g)'
  BY DEF DeadFaninPending, Pending, Awaiting, Occupied
<1>1. CASE Unwind
  BY <1>1, PendingUnwind
<1>2. CASE UNCHANGED vars
  <2>1. g \in LiveGates /\ d \in FaninNodes(g) /\ Dead(d)
    BY <1>2 DEF LiveGates, Nodes, IsGate, Dead, FaninNodes, vars, netVars
  <2>2. Pending(g)
    BY <2>1, PendingSplit DEF DInv
  <2>3. QED
    BY <1>2, <2>2 DEF Pending, Awaiting, Occupied, vars, ctlVars
<1>3. CASE ~Unwind
  <2>1. /\ ~TakeOutEnter /\ ~ReviveEnter
        /\ \A m \in Nodes : Dead(m)' <=> Dead(m)
    BY <1>3, SameDead DEF Unwind
  <2>2. \A n \in Index, i \in {1, 2} : child[n][i].node \in Nodes
    BY AllocatedParts
  <2>3. ASSUME g \in LiveGates, child'[g] = child[g]
        PROVE  d \in FaninNodes(g) /\ Dead(d) /\ Pending(g)
    <3>1. d \in FaninNodes(g) /\ g \in Index
      BY <2>3, NodesType DEF FaninNodes
    <3>2. d \in Nodes
      BY <2>2, <3>1 DEF FaninNodes
    <3>3. Dead(d)
      BY <2>1, <3>2
    <3>4. QED
      BY <2>3, <3>1, <3>3, PendingSplit DEF DInv
  <2>4. UNCHANGED <<size, isCi>> => g \in LiveGates
    BY <2>1, SameLive
  <2>5. CASE Idle /\ UNCHANGED <<size, isCi, child>>
    BY <2>3, <2>4, <2>5, NoneAtRest DEF Idle
  <2>6. CASE CreatePi
    <3>1. /\ size' = size + 1 /\ isCi' = [isCi EXCEPT ![size] = TRUE] /\ child' = child
          /\ Idle /\ size < MaxNodes
      BY <2>6 DEF CreatePi
    <3>2. g \in LiveGates
      <4>1. g \in Nodes' /\ g # 0 /\ ~isCi'[g] /\ ~Dead(g)'
        BY DEF LiveGates, IsGate
      <4>2. size \in Nat /\ size \in Index /\ isCi \in [Index -> BOOLEAN]
        <5>1. size \in 1 .. MaxNodes /\ isCi \in [Index -> BOOLEAN]
          BY DEF TypeOK
        <5>2. QED
          BY <3>1, <5>1, MaxNodesAssumption DEF Index
      <4>3. isCi'[size]
        BY <3>1, <4>2
      <4>4. g # size
        BY <4>1, <4>3
      <4>5. g \in Nodes
        BY <3>1, <4>1, <4>2, <4>4 DEF Nodes
      <4>6. QED
        BY <2>1, <4>1, <4>5 DEF LiveGates, IsGate
    <3>3. QED
      BY <2>3, <3>1, <3>2, NoneAtRest DEF Idle
  <2>7. ASSUME NEW a \in LiveSignals, NEW b \in LiveSignals, CreateAnd(a, b)
        PROVE  FALSE
    <3>1. /\ size' = size + 1 /\ isCi' = isCi /\ Idle /\ size \in Nat /\ size \in Index
          /\ child' = [child EXCEPT ![size] = Ordered(a, b)]
      BY <2>7, MaxNodesAssumption DEF CreateAnd, TypeOK, Index
    <3>2. CASE g = size
      <4>1. d \in {a.node, b.node}
        BY <3>1, <3>2 DEF FaninNodes, Ordered, TypeOK
      <4>2. /\ a.node \in Nodes /\ ~Dead(a.node)
            /\ b.node \in Nodes /\ ~Dead(b.node)
        BY DEF LiveSignals, Signals
      <4>3. QED
        BY <2>1, <4>1, <4>2
    <3>3. CASE g # size
      <4>1. g \in Nodes /\ g \in Nodes' /\ IsGate(g)
        BY <3>1, <3>3 DEF LiveGates, Nodes, IsGate
      <4>2. g \in LiveGates
        BY <2>1, <4>1 DEF LiveGates
      <4>3. child'[g] = child[g]
        BY <3>1, <3>3, <4>1 DEF TypeOK
      <4>4. QED
        BY <2>3, <3>1, <4>2, <4>3, NoneAtRest DEF Idle
    <3>4. QED
      BY <3>2, <3>3
  <2>8. CASE Return
    <3>1. pc = "pop" /\ calls = <<>> /\ todo = <<>> /\ UNCHANGED <<size, isCi, child>>
      BY <2>8 DEF Return, netVars
    <3>2. QED
      BY <2>3, <2>4, <3>1, NoneAtRest
  <2>9. CASE Pop
    <3>1. /\ pc = "pop" /\ calls = <<>> /\ todo # <<>> /\ UNCHANGED <<size, isCi, child>>
          /\ sub' = Head(todo) /\ todo' = Tail(todo) /\ pc' \in {"resolve", "begin"}
      BY <2>9 DEF Pop, netVars
    <3>2. PICK i \in DOMAIN todo : todo[i].old = g
      BY <2>3, <2>4, <3>1 DEF Pending, Awaiting, Occupied
    <3>3. todo \in Seq(Substitution)
      BY DEF TypeOK
    <3>4. CASE i = 1
      BY <3>1, <3>2, <3>3, <3>4 DEF Pending
    <3>5. CASE i # 1
      <4>1. i - 1 \in DOMAIN Tail(todo) /\ Tail(todo)[i - 1] = todo[i]
        BY <3>1, <3>2, <3>3, <3>5
      <4>2. QED
        BY <3>1, <3>2, <4>1 DEF Pending, Awaiting
    <3>6. QED
      BY <3>4, <3>5
  <2>10. CASE Follow \/ Resolved \/ Begin
    <3>1. /\ pc \in {"resolve", "begin"} /\ pc' \in {"resolve", "begin", "scan"}
          /\ sub'.old = sub.old /\ todo' = todo /\ calls = <<>>
          /\ UNCHANGED <<size, isCi, child>>
      <4>1. CASE Follow
        <5>1. sub \in Substitution
          BY DEF TypeOK
        <5>2. QED
          BY <4>1, <5>1 DEF Follow, netVars, Substitution, CInv, Phases
      <4>2. CASE Resolved \/ Begin
        BY <4>2 DEF Resolved, Begin, netVars, CInv, Phases
      <4>3. QED
        BY <2>10, <4>1, <4>2
    <3>2. QED
      BY <2>3, <2>4, <3>1 DEF Pending, Awaiting, Occupied
  <2>11. CASE Visit
    <3>1. PICK n \in scan : ReplaceInNode(n)
      BY <2>11 DEF Visit
    <3>2. /\ pc = "scan" /\ pc' = "scan" /\ sub' = sub /\ calls = <<>> /\ calls' = calls
          /\ n \in LiveGates /\ n \in Index /\ sub.new.node \in Nodes /\ ~Dead(sub.new.node)
          /\ UNCHANGED <<size, isCi>>
      BY <2>11, <3>1, NodesType, AllocatedParts
      DEF Visit, ReplaceInNode, CollapseNode, RestrashNode, RewireNode, netVars,
          CInv, IInv, Scanning, Phases
    <3>3. g \in LiveGates /\ g \in Index
      BY <2>4, <3>2, NodesType
    <3>4. Awaiting(g) => Awaiting(g)'
      <4>1. CASE todo' = todo
        BY <4>1 DEF Awaiting
      <4>2. ASSUME NEW p, todo' = <<p>> \o todo
            PROVE  Awaiting(g) => Awaiting(g)'
        <5>1. todo \in Seq(Substitution)
          BY DEF TypeOK
        <5>2. \A i \in DOMAIN todo : i + 1 \in DOMAIN todo' /\ todo'[i + 1] = todo[i]
          BY <4>2, <5>1
        <5>3. QED
          BY <5>2 DEF Awaiting
      <4>3. QED
        BY <3>1, <4>1, <4>2 DEF ReplaceInNode, CollapseNode, RestrashNode, RewireNode
    <3>5. Pending(g) => Pending(g)'
      BY <3>2, <3>4 DEF Pending
    <3>6. CASE child'[g] = child[g]
      BY <2>3, <3>3, <3>5, <3>6
    <3>7. CASE child'[g] # child[g]
      <4>1. /\ g = n /\ child' = [child EXCEPT ![n] = Rewired(n)]
        BY <3>1, <3>3, <3>7
        DEF ReplaceInNode, CollapseNode, RestrashNode, RewireNode, netVars, TypeOK
      <4>2. d \in {Rewired(n)[1].node, Rewired(n)[2].node}
        BY <3>2, <4>1 DEF FaninNodes, TypeOK
      <4>3. d \in FaninNodes(g) \/ d = sub.new.node
        BY <3>2, <4>1, <4>2, RewiredNodes
      <4>4. d \in FaninNodes(g) /\ Dead(d)
        <5>1. d \in FaninNodes(g) => d \in Nodes
          BY <2>2, <3>3 DEF FaninNodes
        <5>2. QED
          BY <2>1, <3>2, <4>3, <5>1
      <4>5. Pending(g)
        BY <3>3, <4>4, PendingSplit DEF DInv
      <4>6. QED
        BY <3>5, <4>5
    <3>8. QED
      BY <3>6, <3>7
  <2>12. CASE FinishPair
    <3>1. /\ pc = "scan" /\ calls = <<>> /\ UNCHANGED <<size, isCi, child, todo>>
          /\ calls' = <<Call("take_out", sub.old)>>
      BY <2>12 DEF FinishPair, NotSelf, CInv, IInv, Scanning
    <3>2. Awaiting(g) \/ sub.old = g
      BY <2>3, <2>4, <3>1 DEF Pending, Occupied
    <3>3. sub.old \in Occupied(<<Call("take_out", sub.old)>>)
      <4>1. Call("take_out", sub.old).node = sub.old
        BY DEF Call
      <4>2. QED
        BY <4>1 DEF Occupied
    <3>4. QED
      BY <3>1, <3>2, <3>3 DEF Pending, Awaiting
  <2>13. CASE ClientCall \/ \E f \in LiveSignals : CreatePo(f)
    <3>1. Idle /\ UNCHANGED <<size, isCi, child>>
      BY <2>13 DEF ClientCall, TakeOut, SubstituteNode, SomeNoRestrash,
                   SomeComplement, SubstituteNodeNoRestrash, SubstituteComplement,
                   MaySubstitute, CreatePo, netVars
    <3>2. QED
      BY <2>5, <3>1
  <2>14. QED
    BY <1>2, <1>3, <2>6, <2>7, <2>8, <2>9, <2>10, <2>11, <2>12, <2>13
    DEF AnyNext, Next, Build, Substitute, ClientCall
<1>4. QED
  BY <1>1, <1>3

\* Every step keeps the invariant.
LEMMA DInvStep ==
  ASSUME CInv, NoOverflow, NotSelf, NoTwins, DInv, [AnyNext]_vars
  PROVE  DInv'
  BY QuietIdleStep, MissedStep, UnneededStep, FramesStep, OutputsLiveStep, PendingStep
  DEF DInv

\* At rest nothing refers to a dead node.
LEMMA DInvAtRest ==
  ASSUME CInv, DInv
  PROVE  NoDeadReference
<1> SUFFICES ASSUME Idle, NEW n \in Nodes, Dead(n)
             PROVE  References(n) = 0
  BY DEF NoDeadReference
<1>1. \A g \in LiveGates : n \notin FaninNodes(g)
  BY NoneAtRest DEF Idle
<1>2. Users(1, n) = {} /\ Users(2, n) = {} /\ Driven(n) = {}
  BY <1>1 DEF Users, Driven, FaninNodes, DInv, OutputsLive
<1>3. QED
  BY <1>2, ReferencesSplit, FS_EmptySet

\* As long as no gate has the same node twice, and under the assumptions by
\* which the counts are exact, a live gate has a dead fanin only while its own
\* replacement is pending or a call is about to deal with it, and when an
\* operation has returned nothing refers to a dead node.
THEOREM NothingRefersToTheDead ==
  AnySpec /\ OldInputs = {} /\ []NoOverflow /\ []CascadeSound /\ []NoTwins
    => [](DeadFaninPending /\ NoDeadReference)
<1>1. CASE OldInputs = {}
  <2>1. CInv /\ NoOverflow /\ CascadeSound /\ [AnyNext]_vars => CInv'
    BY <1>1, CInvStep DEF CascadeSound
  <2>2. CInv /\ DInv /\ NoOverflow /\ CascadeSound /\ NoTwins /\ [AnyNext]_vars => DInv'
    BY DInvStep DEF CascadeSound
  <2>3. CInv /\ DInv => DeadFaninPending /\ NoDeadReference
    BY DInvAtRest DEF DInv
  <2>4. QED
    BY InitCInv, InitDInv, <2>1, <2>2, <2>3, PTL DEF AnySpec
<1>2. CASE OldInputs # {}
  BY <1>2
<1>3. QED
  BY <1>1, <1>2

-----------------------------------------------------------------------------
(* Clients that keep the structural hashing: Next.                         *)

\* No gate, dead or alive, has the same node twice.
Hashed ==
  /\ restrash
  /\ \A g \in Nodes : IsGate(g) => child[g][1].node # child[g][2].node

\* The initial state has no gate.
LEMMA InitHashed == Init => Hashed
  BY DEF Init, Hashed, Nodes, IsGate

\* create_and and replace_in_node never give a gate the same node twice, dead
\* gates keep their fanins, and no other step changes the fanins of a gate.
LEMMA HashedStep ==
  ASSUME IInv, IInv', Hashed, [Next]_vars
  PROVE  Hashed'
<1>1. CASE UNCHANGED <<size, isCi, child>> /\ (restrash' = restrash \/ restrash')
  BY <1>1 DEF Hashed, Nodes, IsGate
<1>2. CASE CreatePi
  <2>1. size' = size + 1 /\ UNCHANGED <<child, restrash>> /\ isCi' = [isCi EXCEPT ![size] = TRUE]
    BY <1>2 DEF CreatePi, ctlVars
  <2>2. size \in Index /\ Nodes' = Nodes \cup {size} /\ isCi \in [Index -> BOOLEAN]
    BY <2>1, NodesOneMore DEF IInv, TypeOK
  <2>3. isCi'[size] /\ \A g \in Nodes \ {size} : isCi'[g] = isCi[g]
    BY <2>1, <2>2, AllocatedParts
  <2>4. QED
    BY <2>1, <2>2, <2>3 DEF Hashed, IsGate
<1>3. CASE \E a, b \in LiveSignals : CreateAnd(a, b)
  <2> PICK a \in LiveSignals, b \in LiveSignals : CreateAnd(a, b)
    BY <1>3
  <2> DEFINE p == Ordered(a, b)
  <2>1. /\ size' = size + 1 /\ UNCHANGED <<isCi, restrash>>
        /\ child' = [child EXCEPT ![size] = p] /\ p[1].node # p[2].node
    BY DEF CreateAnd, ctlVars, IsTrivial
  <2>2. size \in Index /\ Nodes' = Nodes \cup {size} /\ size \notin Nodes
    BY <2>1, NodesOneMore DEF IInv, TypeOK
  <2>3. child \in [Index -> Pair]
    BY DEF IInv, TypeOK
  <2>4. child'[size] = p /\ \A g \in Nodes : child'[g] = child[g]
    BY <2>1, <2>2, <2>3, AllocatedParts
  <2>5. QED
    BY <2>1, <2>2, <2>4 DEF Hashed, IsGate
<1>4. CASE Visit
  <2>1. PICK n \in scan : ReplaceInNode(n)
    BY <1>4 DEF Visit
  <2>2. restrash /\ restrash' = restrash
    BY <1>4 DEF Hashed, Visit
  <2>3. CASE CollapseNode(n)
    BY <1>1, <2>2, <2>3 DEF CollapseNode, netVars
  <2>4. CASE RestrashNode(n)
    <3>1. /\ UNCHANGED <<size, isCi>> /\ child' = [child EXCEPT ![n] = Rewired(n)]
          /\ Rewired(n)[1].node # Rewired(n)[2].node
      BY <2>4 DEF RestrashNode, IsEqual, IsTrivial
    <3>2. child \in [Index -> Pair] /\ Nodes \subseteq Index
      BY AllocatedParts DEF IInv, TypeOK
    <3>3. \A g \in Nodes : child'[g] = IF g = n THEN Rewired(n) ELSE child[g]
      BY <3>1, <3>2
    <3>4. QED
      BY <2>2, <3>1, <3>3 DEF Hashed, Nodes, IsGate
  <2>5. QED
    BY <2>1, <2>2, <2>3, <2>4 DEF ReplaceInNode, RewireNode
<1>5. CASE UNCHANGED vars
  BY <1>1, <1>5 DEF vars, netVars, ctlVars
<1>6. CASE \E f \in LiveSignals : CreatePo(f)
  BY <1>1, <1>6 DEF CreatePo, ctlVars
<1>7. CASE \E n \in Nodes : TakeOut(n)
  BY <1>1, <1>7 DEF TakeOut, netVars, ctlVars
<1>8. CASE \E o \in Nodes, s \in Signals : SubstituteNode(o, s)
  BY <1>1, <1>8 DEF SubstituteNode, netVars
<1>9. CASE Unwind
  BY <1>1, <1>9
  DEF Unwind, TakeOutIgnored, TakeOutEnter, TakeOutFanin, ReviveEnter, ReviveFanin, netVars, ctlVars
<1>10. CASE Return \/ Pop \/ Follow \/ Resolved \/ Begin \/ FinishPair
  BY <1>1, <1>10 DEF Return, Pop, Follow, Resolved, Begin, FinishPair, netVars
<1>11. QED
  BY <1>2, <1>3, <1>4, <1>5, <1>6, <1>7, <1>8, <1>9, <1>10 DEF Next, Build, Substitute

\* Clients that substitute with structural hashing never see a gate with the
\* same node twice, so that for them nothing else has to be assumed: a live
\* gate has a dead fanin only while somebody is about to deal with it.
THEOREM HashingLeavesNoDeadReference ==
  Spec /\ OldInputs = {} /\ []NoOverflow /\ []CascadeSound
    => [](NoTwins /\ DeadFaninPending /\ NoDeadReference)
<1>1. CASE OldInputs = {}
  <2>1. [Next]_vars => [AnyNext]_vars
    BY DEF AnyNext
  <2>2. CInv /\ NoOverflow /\ CascadeSound /\ [Next]_vars => CInv'
    BY <1>1, <2>1, CInvStep DEF CascadeSound
  <2>3. CInv /\ CInv' /\ Hashed /\ [Next]_vars => Hashed'
    BY HashedStep DEF CInv
  <2>4. Hashed => NoTwins
    BY DEF Hashed, NoTwins, LiveGates
  <2>5. CInv /\ DInv /\ NoOverflow /\ CascadeSound /\ NoTwins /\ [Next]_vars => DInv'
    BY <2>1, DInvStep DEF CascadeSound
  <2>6. CInv /\ DInv => DeadFaninPending /\ NoDeadReference
    BY DInvAtRest DEF DInv
  <2>7. QED
    BY InitCInv, InitDInv, InitHashed, <2>2, <2>3, <2>4, <2>5, <2>6, PTL DEF Spec
<1>2. CASE OldInputs # {}
  BY <1>2
<1>3. QED
  BY <1>1, <1>2

-----------------------------------------------------------------------------
(* What has been replaced is gone.                                         *)

\* A node that old_to_new records is dead, or about to be taken out.
Buried ==
  \A n \in DOMAIN renamed :
     /\ n \in Nodes /\ IsGate(n)
     /\ Dead(n) \/ calls = <<Call("take_out", n)>>

\* Nothing has been replaced initially.
LEMMA InitBuried == Init => Buried
  BY DEF Init, Buried

\* The step a live node of old_to_new waits for is its own take_out_node; a
\* dead one could only be revived.
LEMMA BuriedNode ==
  ASSUME CInv, NoOverflow, Buried, [AnyNext]_vars, NEW n \in DOMAIN renamed,
         ReviveEnter => Head(calls).node \notin DOMAIN renamed
  PROVE  /\ n \in Nodes' /\ IsGate(n)'
         /\ Dead(n)' \/ (calls' = <<Call("take_out", n)>> /\ ~FinishPair)
<1>1. n \in Nodes' /\ IsGate(n)' /\ n \in Nodes /\ IsGate(n)
  BY StepTypes DEF Buried
<1>2. CASE Dead(n)
  BY <1>1, <1>2, DeadStep DEF Dead
<1>3. CASE ~Dead(n)
  <2>1. calls = <<Call("take_out", n)>>
    BY <1>3 DEF Buried
  <2>2. calls # <<>> /\ Head(calls) = Call("take_out", n)
    BY <2>1
  <2>3. Head(calls).op = "take_out" /\ Head(calls).at = 0 /\ Head(calls).node = n
    BY <2>2 DEF Call
  <2>4. pc # "resolve" /\ pc # "scan"
    BY <2>2 DEF CInv, IInv, Phases, Scanning
  <2>5. CASE UNCHANGED vars
    <3>1. calls' = calls /\ ~FinishPair
      BY <2>4, <2>5 DEF vars, FinishPair
    <3>2. QED
      BY <1>1, <2>1, <3>1
  <2>6. CASE AnyNext
    <3>1. Unwind
      BY <2>2, <2>4, <2>6
      DEF AnyNext, Next, Build, CreatePi, CreatePo, CreateAnd, TakeOut, SubstituteNode,
          SomeNoRestrash, SomeComplement, SubstituteNodeNoRestrash, SubstituteComplement,
          MaySubstitute, Idle, Substitute, Return, Pop, Follow, Resolved, Begin, Visit,
          FinishPair
    <3>2. TakeOutEnter
      <4>1. ~TakeOutIgnored
        BY <1>1, <1>3, <2>3 DEF TakeOutIgnored
      <4>2. ~TakeOutFanin /\ ~ReviveEnter /\ ~ReviveFanin
        <5>1. ~InCall("take_out", {1, 2}) /\ \A k : ~InCall("revive", k)
          BY <2>3 DEF InCall
        <5>2. QED
          BY <5>1 DEF TakeOutFanin, ReviveEnter, ReviveFanin
      <4>3. QED
        BY <3>1, <4>1, <4>2 DEF Unwind
    <3>3. h1'[n] = DeadBit
      BY <1>1, <2>3, <3>2, StepTypes DEF TakeOutEnter
    <3>4. QED
      BY <1>1, <3>3, StepTypes DEF Dead
  <2>7. QED
    BY <2>5, <2>6
<1>4. QED
  BY <1>2, <1>3

\* Only the end of a pair adds to old_to_new, and it takes the node out.
LEMMA BuriedStep ==
  ASSUME CInv, NoOverflow, Buried, [AnyNext]_vars,
         ReviveEnter => Head(calls).node \notin DOMAIN renamed
  PROVE  Buried'
<1>1. CASE renamed' = renamed
  BY <1>1, BuriedNode DEF Buried
<1>2. CASE Return
  BY <1>2 DEF Return, Buried
<1>3. CASE FinishPair
  <2>1. pc = "scan" /\ calls = <<>>
    BY <1>3 DEF FinishPair, CInv, IInv, Scanning
  <2>2. PICK o \in Nodes : o = sub.old /\ IsGate(o)
    <3>1. sub \in GatePair
      BY <2>1 DEF CInv, OldGates
    <3>2. sub.old \in Nodes /\ IsGate(sub.old)
      BY <3>1 DEF GatePair
    <3>3. QED
      BY <3>2
  <2>3. ASSUME NEW n \in DOMAIN renamed
        PROVE  n \in Nodes' /\ IsGate(n)' /\ Dead(n)'
    BY <1>3, BuriedNode
  <2>4. CASE renamed' = renamed
    BY <1>1, <2>4
  <2>5. CASE renamed' # renamed
    <3>1. sub.old # sub.new.node /\ renamed' = Insert(renamed, sub.old, sub.new)
      BY <1>3, <2>5 DEF FinishPair
    <3>2. DOMAIN renamed' = DOMAIN renamed \cup {sub.old}
      BY <3>1 DEF Insert
    <3>3. calls' = <<Call("take_out", sub.old)>>
      BY <1>3, <3>1 DEF FinishPair
    <3>4. QED
      <4> SUFFICES ASSUME NEW n \in DOMAIN renamed'
                   PROVE  /\ n \in Nodes' /\ IsGate(n)'
                          /\ Dead(n)' \/ calls' = <<Call("take_out", n)>>
        BY DEF Buried, Call
      <4>1. CASE n \in DOMAIN renamed
        BY <2>3, <4>1
      <4>2. CASE n = sub.old
        <5>1. n = o /\ IsGate(n)' /\ n \in Nodes'
          BY <2>2, <4>2, StepTypes
        <5>2. QED
          BY <3>3, <4>2, <5>1
      <4>3. QED
        BY <3>2, <4>1, <4>2
  <2>6. QED
    BY <2>4, <2>5
<1>4. CASE ~Return /\ ~FinishPair
  <2>1. renamed' = renamed
    BY <1>4 DEF AnyNext, Next, Build, CreatePi, CreatePo, CreateAnd, TakeOut, SubstituteNode,
          SomeNoRestrash, SomeComplement, SubstituteNodeNoRestrash, SubstituteComplement,
          Substitute, Pop, Follow, Resolved, Begin, Visit, Unwind, TakeOutIgnored,
          TakeOutEnter, TakeOutFanin, ReviveEnter, ReviveFanin, ctlVars, vars
  <2>2. QED
    BY <1>1, <2>1
<1>5. QED
  BY <1>2, <1>3, <1>4

\* When the worklist is empty, what is dead is unreferenced and uncounted.
LEMMA BuriedIsGone ==
  ASSUME CInv, DInv, Buried, restrash
  PROVE  OldIsGone
<1> SUFFICES ASSUME pc = "pop", todo = <<>>, calls = <<>>, NEW n \in DOMAIN renamed
             PROVE  References(n) = 0 /\ FanoutSize(n) = 0
  BY DEF OldIsGone, Replaced
<1>1. n \in Nodes /\ Dead(n)
  BY DEF Buried
<1>2. \A g \in LiveGates : n \notin FaninNodes(g)
  BY <1>1, NoneAtRest
<1>3. Users(1, n) = {} /\ Users(2, n) = {} /\ Driven(n) = {}
  BY <1>1, <1>2 DEF Users, Driven, FaninNodes, DInv, OutputsLive
<1>4. References(n) = 0
  BY <1>3, ReferencesSplit, FS_EmptySet
<1>5. FanoutSize(n) = 0
  BY <1>1, FanoutSizes
<1>6. QED
  BY <1>4, <1>5

\* As long as no replaced node is revived, a substitution with structural
\* hashing ends with every node it replaced out of the network: dead, without
\* a reference to it and with fanout size 0, however many nodes its cascade
\* replaced and in whatever order.
THEOREM ReplacedNodesAreGone ==
  Spec /\ OldInputs = {} /\ []NoOverflow /\ []CascadeSound /\ ReplacedStaysDead
    => []OldIsGone
<1> DEFINE Stays == ReviveEnter => Head(calls).node \notin DOMAIN renamed
<1>1. CASE OldInputs = {}
  <2>1. [Next]_vars => [AnyNext]_vars
    BY DEF AnyNext
  <2>2. CInv /\ NoOverflow /\ CascadeSound /\ [Next]_vars => CInv'
    BY <1>1, <2>1, CInvStep DEF CascadeSound
  <2>3. CInv /\ CInv' /\ Hashed /\ [Next]_vars => Hashed'
    BY HashedStep DEF CInv
  <2>4. Hashed => NoTwins
    BY DEF Hashed, NoTwins, LiveGates
  <2>5. CInv /\ DInv /\ NoOverflow /\ CascadeSound /\ NoTwins /\ [Next]_vars => DInv'
    BY <2>1, DInvStep DEF CascadeSound
  <2>6. CInv /\ NoOverflow /\ Buried /\ [Next]_vars /\ [Stays]_vars => Buried'
    <3>1. ASSUME CInv, NoOverflow, Buried, [Next]_vars, Stays PROVE Buried'
      BY <2>1, <3>1, BuriedStep
    <3>2. ASSUME Buried, UNCHANGED vars PROVE Buried'
      BY <3>2 DEF vars, netVars, ctlVars, Buried, Nodes, IsGate, Dead
    <3>3. QED
      BY <3>1, <3>2
  <2>7. CInv /\ DInv /\ Hashed /\ Buried => OldIsGone
    BY BuriedIsGone DEF Hashed
  <2>8. QED
    BY InitCInv, InitDInv, InitHashed, InitBuried, <2>2, <2>3, <2>4, <2>5, <2>6, <2>7, PTL
    DEF Spec, ReplacedStaysDead
<1>2. CASE OldInputs # {}
  BY <1>2
<1>3. QED
  BY <1>1, <1>2


-----------------------------------------------------------------------------
(* The width of the counter.                                               *)

\* The 31 bits beside the dead bit have room for two references of every node
\* and one of every output, and for all outputs once more, that FinishPair
\* redirects at once.
Room == 2 * MaxNodes + 2 * MaxPos + 1 < DeadBit

\* No count exceeds what all gates and outputs together can refer to.
Most == 2 * MaxNodes + MaxPos
Bounded ==
  /\ Len(outputs) <= MaxPos
  /\ \A n \in Index : ~Dead(n) => h1[n] <= Most

\* The initial counts are 0.
LEMMA InitBounded == Init => Bounded
  BY MaxNodesAssumption, BoundsAssumption DEF Init, Bounded, Most

\* Bounded counts stay away from the dead bit.
LEMMA BoundedIsEnough ==
  ASSUME TypeOK, Bounded, Room
  PROVE  NoOverflow
<1>1. /\ MaxNodes \in Nat /\ MaxPos \in Nat /\ DeadBit \in Nat /\ Len(outputs) \in Nat
      /\ \A n \in Index : h1[n] \in Nat
  BY MaxNodesAssumption, BoundsAssumption, DeadBitAssumption DEF TypeOK
<1>2. QED
  BY <1>1 DEF Bounded, Most, Room, NoOverflow

\* The numbers from 1 to k.
LEMMA CardinalityOneTo ==
  ASSUME NEW k \in Nat
  PROVE  IsFiniteSet(1 .. k) /\ Cardinality(1 .. k) = k
<1>1. 1 \in Int /\ k \in Int
  OBVIOUS
<1>2. /\ IsFiniteSet(1 .. k)
      /\ Cardinality(1 .. k) = IF 1 > k THEN 0 ELSE k - 1 + 1
  BY ONLY <1>1, FS_Interval
<1>3. QED
  BY <1>2

\* A gate refers to at most two nodes, an output to one.
LEMMA ReferencesBound ==
  ASSUME TypeOK, Len(outputs) <= MaxPos, NEW m
  PROVE  References(m) \in Nat /\ References(m) <= Most
<1>1. /\ MaxNodes \in Nat /\ MaxPos \in Nat /\ Len(outputs) \in Nat
      /\ DOMAIN outputs = 1 .. Len(outputs)
  BY MaxNodesAssumption, BoundsAssumption DEF TypeOK
<1>2. ASSUME NEW j PROVE Cardinality(Users(j, m)) \in Nat /\ Cardinality(Users(j, m)) <= MaxNodes
  <2>1. Users(j, m) \subseteq 1 .. MaxNodes
    <3>1. size \in 1 .. MaxNodes
      BY DEF TypeOK
    <3>2. \A g \in Users(j, m) : g \in 0 .. size - 1 /\ g # 0
      BY DEF Users, LiveGates, Nodes, IsGate
    <3>3. QED
      BY <1>1, <3>1, <3>2
  <2>2. IsFiniteSet(1 .. MaxNodes) /\ Cardinality(1 .. MaxNodes) = MaxNodes
    BY <1>1, CardinalityOneTo
  <2>3. Cardinality(Users(j, m)) <= Cardinality(1 .. MaxNodes)
    BY <2>1, <2>2, FS_Subset
  <2>4. QED
    BY <2>2, <2>3, Finite
<1>3. Cardinality(Driven(m)) \in Nat /\ Cardinality(Driven(m)) <= Len(outputs)
  <2>1. Driven(m) \subseteq 1 .. Len(outputs)
    BY <1>1 DEF Driven
  <2>2. IsFiniteSet(1 .. Len(outputs)) /\ Cardinality(1 .. Len(outputs)) = Len(outputs)
    BY <1>1, CardinalityOneTo
  <2>3. Cardinality(Driven(m)) <= Cardinality(1 .. Len(outputs))
    BY <2>1, <2>2, FS_Subset
  <2>4. QED
    BY <2>2, <2>3, Finite
<1>4. QED
  BY <1>1, <1>2, <1>3, ReferencesSplit DEF Most

\* A count that is exact, with no reference left to be released, is bounded.
ExactBound ==
  CInv /\ Len(outputs) <= MaxPos =>
    \A m \in Nodes \ Stale :
       ~Dead(m) /\ FaninsAhead("take_out", m) = 0 => h1[m] <= Most
\* So says the invariant of AigProof.
LEMMA ExactIsBounded == ExactBound
<1> SUFFICES ASSUME CInv, Len(outputs) <= MaxPos, NEW m \in Nodes \ Stale, ~Dead(m),
                    FaninsAhead("take_out", m) = 0
             PROVE  h1[m] <= Most
  BY DEF ExactBound
<1>1. TypeOK /\ m \in Index
  BY NodesType DEF CInv, IInv
<1>2. h1[m] \in Nat /\ FaninsAhead("revive", m) \in Nat
  BY <1>1, BalanceTypes
<1>3. h1[m] + FaninsAhead("revive", m) = References(m)
  BY <1>1, ReferencesBound DEF CInv, CountsExact, Exact
<1>4. References(m) \in Nat /\ References(m) <= Most
  BY <1>1, ReferencesBound
<1>5. Most \in Nat
  BY MaxNodesAssumption, BoundsAssumption DEF Most
<1>6. QED
  BY <1>2, <1>3, <1>4, <1>5

\* After a step that leaves no frame of op that has entered its node.
LEMMA NothingAhead ==
  ASSUME NEW op, \A i \in DOMAIN calls' : calls'[i].op # op \/ calls'[i].at = 0, NEW m
  PROVE  FaninsAhead(op, m)' = 0
<1>1. AheadOf(calls, op, m)' = {}
  BY DEF AheadOf
<1>2. FaninsAhead(op, m)' = Cardinality(AheadOf(calls, op, m)')
  BY DEF FaninsAhead, AheadOf
<1>3. QED
  BY <1>1, <1>2, FS_EmptySet

\* A count that a step raises is exact after it, and nothing is being taken
\* out of the network then.
LEMMA CountsRise ==
  ASSUME CInv, NoOverflow, NotSelf, [AnyNext]_vars, NEW m \in Nodes', ~Dead(m)'
  PROVE  \/ m \in Nodes /\ ~Dead(m) /\ h1'[m] <= h1[m]
         \/ h1'[m] = 0
         \/ m \notin Stale' /\ FaninsAhead("take_out", m)' = 0
<1> USE StepTypes
<1> DEFINE None == m \notin Stale' /\ FaninsAhead("take_out", m)' = 0
<1>1. m \in Index /\ h1[m] \in Nat /\ h1'[m] \in Nat
  OBVIOUS
<1>2. CASE h1'[m] = h1[m]
  <2>1. CASE m \in Nodes
    BY <1>1, <1>2, <2>1 DEF Dead
  <2>2. CASE m \notin Nodes
    BY <1>1, <1>2, <2>2, BalancedOutside
  <2>3. QED
    BY <2>1, <2>2
<1>3. ASSUME calls' = <<>>, m # sub.old \/ pc' # "scan", sub' = sub
      PROVE  None
  <2>1. m \notin Stale'
    BY <1>3 DEF Stale
  <2>3. FaninsAhead("take_out", m)' = 0
    BY <1>3, NothingAhead
  <2>4. QED
    BY <2>1, <2>3
<1>4. CASE \E f \in LiveSignals : CreatePo(f)
  BY <1>3, <1>4 DEF CreatePo, Idle, ctlVars
<1>5. CASE \E a, b \in LiveSignals : CreateAnd(a, b)
  BY <1>3, <1>5 DEF CreateAnd, Idle, ctlVars
<1>6. CASE Unwind
  <2> DEFINE f == Head(calls)
             c == child[f.node][f.at].node
  <2>1. /\ calls # <<>> /\ f.node \in Nodes /\ (f.at \in {1, 2} => c \in Nodes)
        /\ pc # "scan"
    <3>1. calls # <<>>
      BY <1>6, UnwindCalls
    <3>2. QED
      BY <3>1, FrameParts, FaninOfFrame DEF CInv, IInv, Scanning
  <2>2. /\ calls' \in Seq(OfKind(f.op)) /\ UNCHANGED <<size, pc>>
    BY <1>6, UnwindKind
    DEF Unwind, TakeOutIgnored, TakeOutEnter, TakeOutFanin, ReviveEnter, ReviveFanin,
        netVars, ctlVars
  <2>3. CASE TakeOutIgnored
    BY <1>2, <2>3 DEF TakeOutIgnored, netVars
  <2>4. CASE TakeOutEnter
    <3>1. h1' = [h1 EXCEPT ![f.node] = DeadBit]
      BY <2>4 DEF TakeOutEnter
    <3>2. m # f.node
      BY <1>1, <3>1 DEF Dead
    <3>3. QED
      BY <1>1, <1>2, <3>1, <3>2
  <2>5. CASE TakeOutFanin
    <3>1. c \in Nodes /\ (h1' = h1 \/ (FanoutSize(c) # 0 /\ h1' = Decr(h1, c)))
      BY <2>1, <2>5 DEF TakeOutFanin, InCall
    <3>2. CASE FanoutSize(c) # 0 /\ h1' = Decr(h1, c)
      <4> HIDE DEF c
      <4>1. c \in Index /\ ~Dead(c) /\ h1[c] # 0
        BY <3>1, <3>2, FanoutSizes
      <4>2. h1'[m] + One(m = c) = h1[m]
        BY <1>1, <3>2, <4>1, DecrCount
      <4>3. m \in Nodes
        BY <2>2 DEF Nodes
      <4>4. Dead(m) => h1'[m] = h1[m]
        BY <2>5, <4>3, DeadStep DEF TakeOutFanin, ReviveEnter, InCall
      <4>5. ~Dead(m)
        BY <1>1, <4>4 DEF Dead
      <4>6. QED
        BY <1>1, <4>2, <4>3, <4>5 DEF One
    <3>3. QED
      BY <1>2, <3>1, <3>2
  <2>6. CASE ReviveEnter
    BY <1>1, <1>2, <2>1, <2>6 DEF ReviveEnter
  <2>7. CASE ReviveFanin
    <3>1. f.op = "revive"
      BY <2>7 DEF ReviveFanin, InCall
    <3>2. \A i \in DOMAIN calls' : calls'[i].op = "revive"
      BY <2>2, <3>1 DEF OfKind
    <3>4. FaninsAhead("take_out", m)' = 0
      BY <3>2, NothingAhead
    <3>5. calls' # <<Call("take_out", sub'.old)>>
      BY <3>2 DEF Call
    <3>6. QED
      BY <2>1, <2>2, <3>4, <3>5 DEF Stale
  <2>8. QED
    BY <1>6, <2>3, <2>4, <2>5, <2>6, <2>7 DEF Unwind
<1>7. CASE Visit
  <2>1. pc = "scan" /\ calls = <<>> /\ UNCHANGED <<pc, sub, calls>>
    BY <1>7 DEF Visit, CInv, IInv, Scanning
  <2>2. h1' = h1 \/ h1' = Incr(h1, sub.new.node)
    BY <1>7 DEF Visit, ReplaceInNode, CollapseNode, RestrashNode, RewireNode, netVars
  <2>3. CASE m = sub.new.node
    BY <1>3, <2>1, <2>3 DEF NotSelf
  <2>4. CASE m # sub.new.node
    BY <1>1, <1>2, <2>2, <2>4 DEF Incr
  <2>5. QED
    BY <2>3, <2>4
<1>8. CASE FinishPair
  <2>1. /\ pc = "scan" /\ sub.new.node # sub.old /\ UNCHANGED <<sub, child>> /\ pc' = "pop"
        /\ calls' = <<Call("take_out", sub.old)>> /\ sub.old \in Index
    BY <1>8, AllocatedParts DEF FinishPair, NotSelf, CInv, IInv
  <2>2. CASE m = sub.new.node
    <3>1. m \notin Stale'
      BY <2>1, <2>2 DEF Stale
    <3>2. FaninsAhead("take_out", m)' = Cardinality(AheadOf(calls', "take_out", m))
      BY <2>1, AheadPrimed
    <3>3. Cardinality(AheadOf(<<Call("take_out", sub.old)>>, "take_out", m)) = 0
      BY <2>1, AheadOfOneCall
    <3>4. QED
      BY <2>1, <3>1, <3>2, <3>3
  <2>3. CASE m # sub.new.node
    BY <1>1, <1>2, <1>8, <2>3 DEF FinishPair
  <2>4. QED
    BY <2>2, <2>3
<1>9. CASE ClientCall \/ CreatePi \/ Return \/ Pop \/ Follow \/ Resolved \/ Begin
           \/ UNCHANGED vars
  BY <1>2, <1>9 DEF ClientCall, TakeOut, SubstituteNode, SomeNoRestrash, SomeComplement,
                    SubstituteNodeNoRestrash, SubstituteComplement, CreatePi, Return, Pop,
                    Follow, Resolved, Begin, netVars, vars
<1>10. QED
  BY <1>4, <1>5, <1>6, <1>7, <1>8, <1>9 DEF AnyNext, Next, Build, Substitute, ClientCall

\* Every step keeps the counts bounded.
LEMMA BoundedStep ==
  ASSUME CInv, CInv', NoOverflow, NotSelf, Bounded, [AnyNext]_vars
  PROVE  Bounded'
<1> USE StepTypes
<1>1. Len(outputs)' <= MaxPos
  <2>1. Len(outputs) \in Nat /\ Len(outputs) <= MaxPos /\ MaxPos \in Nat
    BY BoundsAssumption DEF TypeOK, Bounded
  <2>2. CASE \E f \in LiveSignals : CreatePo(f)
    <3>1. PICK f \in LiveSignals : CreatePo(f)
      BY <2>2
    <3>2. Len(outputs') = Len(outputs) + 1 /\ Len(outputs) < MaxPos
      BY <3>1 DEF CreatePo, TypeOK
    <3>3. QED
      BY <2>1, <3>2
  <2>3. CASE FinishPair
    <3>1. outputs' = RedirectedOutputs /\ DOMAIN outputs = 1 .. Len(outputs)
      BY <2>3 DEF FinishPair, TypeOK
    <3>2. Len(outputs') = Len(outputs)
      BY <3>1, <2>1 DEF RedirectedOutputs
    <3>3. QED
      BY <2>1, <3>2
  <2>4. CASE outputs' = outputs
    BY <2>1, <2>4
  <2>5. QED
    BY <2>2, <2>3, <2>4
    DEF AnyNext, Next, Build, CreatePi, CreateAnd, TakeOut, SubstituteNode, SomeNoRestrash,
        SomeComplement, SubstituteNodeNoRestrash, SubstituteComplement, Substitute, Return,
        Pop, Follow, Resolved, Begin, Visit, ReplaceInNode, CollapseNode, RestrashNode,
        RewireNode, Unwind, TakeOutIgnored, TakeOutEnter, TakeOutFanin, ReviveEnter,
        ReviveFanin, netVars, vars
<1>2. ASSUME NEW m \in Index, ~Dead(m)'
      PROVE  h1'[m] <= Most
  <2>1. Most \in Nat /\ h1[m] \in Nat /\ h1'[m] \in Nat
    BY MaxNodesAssumption, BoundsAssumption DEF Most
  <2>2. CASE m \notin Nodes'
    <3>1. h1'[m] = 0
      BY <2>2 DEF IInv, Fresh
    <3>2. QED
      BY <2>1, <3>1
  <2>3. CASE m \in Nodes'
    <3>1. ExactBound'
      BY ExactIsBounded, PTL
    <3>2. m \notin Stale' /\ FaninsAhead("take_out", m)' = 0 => h1'[m] <= Most
      BY <1>1, <1>2, <2>3, <3>1 DEF ExactBound
    <3>3. ~Dead(m) => h1[m] <= Most
      BY DEF Bounded
    <3>4. QED
      BY <1>2, <2>1, <2>3, <3>2, <3>3, CountsRise
  <2>4. QED
    BY <2>2, <2>3
<1>3. QED
  BY <1>1, <1>2 DEF Bounded
-----------------------------------------------------------------------------
(* What is revived.                                                        *)

\* Substitution without structural hashing has no worklist.
PlainAlone == ~restrash => todo = <<>>

\* _old is recorded before it is taken out.
Recorded == pc = "pop" /\ restrash /\ calls # <<>> => sub.old \in DOMAIN renamed

\* What else is taken out in a cascade has lost its last reference.
Doomed ==
  InCall("take_out", {0}) /\ todo # <<>> =>
    LET n == Head(calls).node IN n = sub.old \/ Dead(n) \/ h1[n] = 0

\* Gates that await their own pair still refer to nodes that were replaced,
\* and to no other dead node; what else refers to a dead node is about to
\* count that reference.
Forgotten ==
  \A n \in Nodes :
     Dead(n) => n \in DOMAIN renamed \/ References(n) = FaninsAhead("revive", n)

\* The inductive invariant.
EInv == PlainAlone /\ Recorded /\ Doomed /\ Forgotten

\* No node is dead initially.
LEMMA InitEInv == Init => EInv
<1> SUFFICES ASSUME Init PROVE EInv
  OBVIOUS
<1>1. PlainAlone /\ Recorded /\ Doomed
  BY DEF Init, PlainAlone, Recorded, Doomed, InCall
<1>2. \A n \in Nodes : ~Dead(n)
  BY DeadBitAssumption, MaxNodesAssumption DEF Init, Nodes, Dead, Index
<1>3. QED
  BY <1>1, <1>2 DEF EInv, Forgotten

\* A replaced node that is never revived is all that could be referenced when
\* revive_node enters it.
LEMMA RevivedIsUnreferenced ==
  ASSUME CInv, Forgotten, ReviveEnter, Head(calls).node \notin DOMAIN renamed
  PROVE  RevivedUnreferenced
<1>1. InCall("revive", {0}) /\ calls # <<>>
  BY DEF ReviveEnter, InCall
<1>2. Head(calls).node \in Nodes /\ Dead(Head(calls).node)
  BY <1>1, FrameParts DEF CInv, Nested
<1>3. QED
  BY <1>2 DEF Forgotten, RevivedUnreferenced

\* Only restrashing substitutions push pairs.
LEMMA PlainAloneStep ==
  ASSUME QuietIdle, PlainAlone, [AnyNext]_vars
  PROVE  PlainAlone'
<1>1. CASE UNCHANGED <<restrash, todo>> \/ restrash' = TRUE
  BY <1>1 DEF PlainAlone
<1>2. CASE SomeNoRestrash
  BY <1>2 DEF SomeNoRestrash, SubstituteNodeNoRestrash, MaySubstitute, Idle, QuietIdle,
              PlainAlone
<1>3. CASE Pop
  BY <1>3 DEF Pop, PlainAlone
<1>4. CASE Visit
  BY <1>4 DEF Visit, ReplaceInNode, CollapseNode, RestrashNode, RewireNode, PlainAlone
<1>5. CASE Unwind
  BY <1>1, <1>5, UnwindFrame DEF ctlVars
<1>6. QED
  BY <1>1, <1>2, <1>3, <1>4, <1>5
  DEF AnyNext, Next, Build, CreatePi, CreatePo, CreateAnd, TakeOut, SubstituteNode,
      SomeComplement, SubstituteComplement, Substitute, Return, Follow, Resolved, Begin,
      FinishPair, ctlVars, vars

\* The end of a pair records _old.
LEMMA RecordedStep ==
  ASSUME CInv, NotSelf, Recorded, [AnyNext]_vars
  PROVE  Recorded'
<1>1. CASE Unwind
  <2>1. calls # <<>>
    BY <1>1 DEF Unwind, TakeOutIgnored, TakeOutEnter, TakeOutFanin, ReviveEnter, ReviveFanin,
                InCall
  <2>2. QED
    BY <1>1, <2>1, UnwindFrame DEF Recorded, ctlVars
<1>2. CASE calls = <<>> /\ calls' = calls
  BY <1>2 DEF Recorded
<1>3. CASE FinishPair
  <2>1. sub' = sub /\ restrash' = restrash /\ sub.old # sub.new.node
    BY <1>3 DEF FinishPair, NotSelf
  <2>2. restrash => sub.old \in DOMAIN renamed'
    BY <1>3, <2>1 DEF FinishPair, Insert
  <2>3. QED
    BY <2>1, <2>2 DEF Recorded
<1>4. CASE pc' # "pop" \/ UNCHANGED vars
  BY <1>4 DEF Recorded, vars, ctlVars
<1>5. QED
  BY <1>1, <1>2, <1>3, <1>4
  DEF AnyNext, Next, Build, CreatePi, CreatePo, CreateAnd, TakeOut, SubstituteNode,
      SomeNoRestrash, SubstituteNodeNoRestrash, MaySubstitute, SomeComplement,
      SubstituteComplement, Idle, Substitute, Return, Pop, Follow, Resolved, Begin, Visit,
      ctlVars

\* take_out_node calls itself for nodes with no reference left.
LEMMA DoomedStep ==
  ASSUME CInv, NoOverflow, QuietIdle, Doomed, [AnyNext]_vars
  PROVE  Doomed'
<1> USE StepTypes
<1>1. CASE Unwind
  <2> DEFINE f == Head(calls)
             c == child[f.node][f.at].node
  <2>1. calls # <<>>
    BY <1>1, UnwindCalls
  <2>2. Tail(calls) \in Seq(Visiting) /\ Advance \in Seq(Visiting)
    BY <2>1, KindOfRest
  <2>3. ASSUME calls' \in Seq(Visiting)
        PROVE  Doomed'
    <3>1. calls' # <<>> => Head(calls').at # 0
      BY <2>3 DEF Visiting
    <3>2. QED
      BY <3>1 DEF Doomed, InCall
  <2>4. ASSUME calls' = <<Call("take_out", c)>> \o Advance, h1'[c] = 0
        PROVE  Doomed'
    <3>1. Head(calls') = Call("take_out", c)
      BY <2>2, <2>4, HeadOfPush
    <3>2. Head(calls').node = c
      BY <3>1 DEF Call
    <3> HIDE DEF c
    <3>3. h1'[Head(calls').node] = 0
      BY <2>4, <3>2
    <3>4. QED
      BY <3>3 DEF Doomed
  <2>5. ASSUME calls' = <<Call("revive", c)>> \o calls
        PROVE  Doomed'
    <3>1. Head(calls') = Call("revive", c)
      BY <2>5, HeadOfPush
    <3>2. Head(calls').op # "take_out"
      BY <3>1 DEF Call
    <3>3. QED
      BY <3>2 DEF Doomed, InCall
  <2>6. QED
    BY <1>1, <2>2, <2>3, <2>4, <2>5, UnwindCalls
<1>2. CASE FinishPair
  <2>1. sub' = sub /\ (calls' = <<>> \/ calls' = <<Call("take_out", sub.old)>>)
    BY <1>2 DEF FinishPair
  <2>2. calls' # <<>> => Head(calls').node = sub'.old
    BY <2>1 DEF Call
  <2>3. QED
    BY <2>2 DEF Doomed, InCall
<1>3. CASE todo' = <<>>
  BY <1>3 DEF Doomed
<1>4. CASE calls' = <<>>
  BY <1>4 DEF Doomed, InCall
<1>5. CASE UNCHANGED vars
  BY <1>5 DEF Doomed, InCall, Dead, vars, netVars, ctlVars
<1>6. ASSUME NEW n, calls' \in {<<>>, <<Call("revive", n)>>}
      PROVE  Doomed'
  <2>1. calls' # <<>> => Head(calls').op # "take_out"
    BY <1>6 DEF Call
  <2>2. QED
    BY <2>1 DEF Doomed, InCall
<1>7. CASE Resolved
  BY <1>6, <1>7 DEF Resolved
<1>8. CASE \E n \in Nodes : TakeOut(n)
  BY <1>3, <1>8 DEF TakeOut, Idle, QuietIdle, ctlVars
<1>9. CASE SomeNoRestrash
  BY <1>6, <1>9 DEF SomeNoRestrash, SubstituteNodeNoRestrash
<1>10. CASE Follow
  BY <1>4, <1>10 DEF Follow, CInv, Phases
<1>11. CASE Visit
  BY <1>4, <1>11 DEF Visit, CInv, IInv, Scanning
<1>12. QED
  BY <1>1, <1>2, <1>4, <1>5, <1>7, <1>8, <1>9, <1>10, <1>11
  DEF AnyNext, Next, Build, CreatePi, CreatePo, CreateAnd, SubstituteNode, MaySubstitute,
      SomeComplement, SubstituteComplement, Idle, Substitute, Return, Pop, Begin
\* Nothing alive refers to m.
Unused(m) ==
  /\ \A g \in LiveGates : m \notin FaninNodes(g)
  /\ \A i \in DOMAIN outputs : outputs[i].node # m

\* That is what having no reference means.
LEMMA UnusedCount ==
  ASSUME TypeOK, NEW m
  PROVE  Unused(m) <=> References(m) = 0
<1>1. ASSUME Unused(m) PROVE References(m) = 0
  <2>1. Users(1, m) = {} /\ Users(2, m) = {} /\ Driven(m) = {}
    BY <1>1 DEF Unused, Users, Driven, FaninNodes
  <2>2. QED
    BY <2>1, ReferencesSplit, FS_EmptySet
<1>2. QED
  BY <1>1, Unreferenced DEF Unused

\* The same after a step.
LEMMA UnusedCountAfter ==
  ASSUME TypeOK', NEW m, Unused(m)'
  PROVE  References(m)' = 0
<1>1. Users(1, m)' = {} /\ Users(2, m)' = {} /\ Driven(m)' = {}
  BY DEF Unused, Users, Driven, FaninNodes
<1>2. References(m)' = Cardinality(Users(1, m)') + Cardinality(Users(2, m)')
                         + Cardinality(Driven(m)')
  BY DEF References, Users, Driven
<1>3. QED
  BY <1>1, <1>2, FS_EmptySet

\* What is dead and unused stays so until something is revived: references
\* are made to live nodes only.
LEMMA UnusedStep ==
  ASSUME CInv, NoOverflow, [AnyNext]_vars, ~ReviveEnter, NEW m \in Nodes, Unused(m),
         Dead(m) \/ TakeOutEnter
  PROVE  Unused(m)'
<1> USE StepTypes
<1>1. CASE UNCHANGED <<child, outputs>> /\ LiveGates' \subseteq LiveGates
  BY <1>1 DEF Unused, FaninNodes
<1>2. CASE UNCHANGED <<size, isCi, child, outputs>>
  <2>1. ASSUME NEW g \in LiveGates' PROVE g \in LiveGates
    <3>1. g \in Nodes /\ IsGate(g) /\ ~Dead(g)'
      BY <1>2 DEF LiveGates, Nodes, IsGate
    <3>2. Dead(g) => h1'[g] = h1[g]
      BY <3>1, DeadStep
    <3>3. QED
      BY <3>1, <3>2 DEF LiveGates, Dead
  <2>2. QED
    BY <1>1, <1>2, <2>1
<1>3. CASE CreatePi
  <2>1. /\ UNCHANGED <<child, outputs, h1>> /\ size' = size + 1
        /\ isCi' = [isCi EXCEPT ![size] = TRUE]
    BY <1>3 DEF CreatePi
  <2>2. size \in Index /\ Nodes' = Nodes \cup {size} /\ isCi'[size]
    <3>1. size \in Index /\ Nodes' = Nodes \cup {size} /\ isCi \in [Index -> BOOLEAN]
      BY <2>1, NodesOneMore DEF TypeOK
    <3>2. QED
      BY <2>1, <3>1
  <2>3. LiveGates' \subseteq LiveGates
    BY <2>1, <2>2 DEF LiveGates, IsGate, Dead
  <2>4. QED
    BY <1>1, <2>1, <2>3
<1>4. CASE \E f \in LiveSignals : CreatePo(f)
  <2>1. PICK f \in LiveSignals : CreatePo(f)
    BY <1>4
  <2>2. /\ UNCHANGED <<size, isCi, child>> /\ outputs' = Append(outputs, f)
        /\ ~Dead(f.node) /\ ~TakeOutEnter
    BY <2>1 DEF CreatePo, LiveSignals, TakeOutEnter, InCall, Idle
  <2>3. LiveGates' = LiveGates
    BY <2>2, SameLive
  <2>4. \A i \in DOMAIN outputs' : outputs'[i] = f
                                  \/ (i \in DOMAIN outputs /\ outputs'[i] = outputs[i])
    BY <2>2 DEF TypeOK
  <2>5. QED
    BY <2>2, <2>3, <2>4 DEF Unused, FaninNodes
<1>5. CASE \E a, b \in LiveSignals : CreateAnd(a, b)
  <2>1. PICK a \in LiveSignals, b \in LiveSignals : CreateAnd(a, b)
    BY <1>5
  <2> DEFINE p == Ordered(a, b)
  <2>2. /\ UNCHANGED <<isCi, outputs>> /\ child' = [child EXCEPT ![size] = p]
        /\ size' = size + 1 /\ ~Dead(a.node) /\ ~Dead(b.node) /\ ~TakeOutEnter
    BY <2>1 DEF CreateAnd, LiveSignals, TakeOutEnter, InCall, Idle
  <2>3. p[1].node # m /\ p[2].node # m
    BY <2>2 DEF Ordered
  <2> HIDE DEF p
  <2>4. size \in Index /\ size \notin Nodes /\ Nodes' = Nodes \cup {size}
    BY <2>2, NodesOneMore
  <2>5. child'[size] = p /\ \A g \in Nodes : child'[g] = child[g]
    BY <2>2, <2>4, AllocatedParts DEF TypeOK
  <2>6. ASSUME NEW g \in LiveGates', g # size PROVE g \in LiveGates
    <3>1. g \in Nodes /\ IsGate(g) /\ ~Dead(g)'
      BY <2>2, <2>4, <2>6 DEF LiveGates, IsGate
    <3>2. Dead(g) => h1'[g] = h1[g]
      BY <3>1, DeadStep
    <3>3. QED
      BY <3>1, <3>2 DEF LiveGates, Dead
  <2>7. ASSUME NEW g \in LiveGates' PROVE m \notin FaninNodes(g)'
    <3>1. CASE g = size
      BY <2>3, <2>5, <3>1 DEF FaninNodes
    <3>2. CASE g # size
      <4>1. g \in LiveGates /\ child'[g] = child[g]
        BY <2>5, <2>6, <3>2 DEF LiveGates
      <4>2. QED
        BY <4>1 DEF Unused, FaninNodes
    <3>3. QED
      BY <3>1, <3>2
  <2>8. QED
    BY <2>2, <2>7 DEF Unused
<1>6. CASE Visit
  <2>1. PICK n \in scan : ReplaceInNode(n)
    BY <1>6 DEF Visit
  <2>2. /\ pc = "scan" /\ calls = <<>> /\ ~Dead(sub.new.node) /\ n \in LiveGates /\ n \in Index
    BY <1>6, <2>1, NodesType DEF Visit, CInv, IInv, Scanning, Phases
  <2>3. ~TakeOutEnter
    BY <2>2 DEF TakeOutEnter, InCall
  <2>4. CASE CollapseNode(n)
    BY <1>2, <2>4 DEF CollapseNode, netVars
  <2>5. CASE RestrashNode(n) \/ RewireNode(n)
    <3>1. UNCHANGED <<size, isCi, outputs>> /\ child' = [child EXCEPT ![n] = Rewired(n)]
      BY <2>5 DEF RestrashNode, RewireNode
    <3>2. LiveGates' = LiveGates
      BY <2>3, <3>1, SameLive
    <3>3. m \notin {Rewired(n)[1].node, Rewired(n)[2].node}
      BY <2>2, <2>3, RewiredNodes DEF Unused
    <3>4. \A g \in LiveGates : child'[g] = IF g = n THEN Rewired(n) ELSE child[g]
      BY <2>2, <3>1, NodesType DEF TypeOK, LiveGates
    <3>5. QED
      BY <3>1, <3>2, <3>3, <3>4 DEF Unused, FaninNodes
  <2>6. QED
    BY <2>1, <2>4, <2>5 DEF ReplaceInNode
<1>7. CASE FinishPair
  <2>1. /\ pc = "scan" /\ calls = <<>> /\ ~Dead(sub.new.node) /\ UNCHANGED <<size, isCi, child>>
        /\ outputs' = RedirectedOutputs /\ sub.new \in NodeSignal
    BY <1>7, AllocatedParts DEF FinishPair, CInv, IInv, Scanning, Phases
  <2>2. ~TakeOutEnter
    BY <2>1 DEF TakeOutEnter, InCall
  <2>3. LiveGates' = LiveGates
    BY <2>1, <2>2, SameLive
  <2>4. DOMAIN outputs' = DOMAIN outputs
    BY <2>1 DEF RedirectedOutputs
  <2>5. ASSUME NEW i \in DOMAIN outputs PROVE outputs'[i].node # m
    <3>1. outputs'[i] = outputs[i] \/ outputs'[i] = Xor(sub.new, outputs[i].neg)
      BY <2>1 DEF RedirectedOutputs
    <3>2. Xor(sub.new, outputs[i].neg).node = sub.new.node
      BY <2>1 DEF Xor, NodeSignal
    <3>3. QED
      BY <2>1, <2>2, <3>1, <3>2 DEF Unused
  <2>6. QED
    BY <2>1, <2>3, <2>4, <2>5 DEF Unused, FaninNodes
<1>8. CASE Unwind \/ ClientCall \/ Return \/ Pop \/ Follow \/ Resolved \/ Begin \/ UNCHANGED vars
  BY <1>2, <1>8, UnwindFrame
  DEF ClientCall, TakeOut, SubstituteNode, SomeNoRestrash, SomeComplement,
      SubstituteNodeNoRestrash, SubstituteComplement, Return, Pop, Follow, Resolved, Begin,
      netVars, vars
<1>9. QED
  BY <1>3, <1>4, <1>5, <1>6, <1>7, <1>8 DEF AnyNext, Next, Build, Substitute, ClientCall
\* What take_out_node enters has been replaced, or nothing refers to it.
LEMMA DyingUnused ==
  ASSUME CInv, DInv, PlainAlone, Recorded, Doomed, TakeOutEnter
  PROVE  LET n == Head(calls).node IN n \in DOMAIN renamed \/ Unused(n)
<1> DEFINE n == Head(calls).node
<1>1. /\ calls # <<>> /\ Head(calls).op = "take_out" /\ InCall("take_out", {0}) /\ ~Dead(n)
  BY DEF TakeOutEnter, InCall
<1>2. TypeOK /\ n \in Nodes /\ n \in Index
  BY <1>1, FrameParts, NodesType DEF CInv, IInv
<1>3. calls \in Seq(OfKind("take_out")) /\ ~(calls \in Seq(OfKind("revive")))
  BY <1>1, KindOfRest, "take_out" # "revive"
<1> HIDE DEF n
<1>4. CASE todo = <<>>
  <2>1. \A g : ~Awaiting(g)
    BY <1>4 DEF Awaiting
  <2>2. QED
    BY <1>1, <2>1 DEF DInv, Unneeded, Unused, n
<1>5. CASE todo # <<>>
  <2>1. pc = "pop" /\ restrash
    BY <1>1, <1>2, <1>3, <1>5
    DEF DInv, QuietIdle, PlainAlone, CInv, IInv, Scanning, Phases, TypeOK
  <2>2. CASE n = sub.old
    BY <1>1, <2>1, <2>2 DEF Recorded, n
  <2>3. CASE n # sub.old
    <3>1. h1[n] = 0 /\ n \notin Stale
      BY <1>1, <1>5, <2>3 DEF Doomed, Stale, n
    <3>2. h1[n] + FaninsAhead("revive", n) = References(n) + FaninsAhead("take_out", n)
      BY <1>1, <1>2, <3>1 DEF CInv, CountsExact, Exact
    <3>3. FaninsAhead("revive", n) = 0
      BY <1>2, <1>3, NoneOfOtherKind, "take_out" # "revive"
    <3>4. References(n) \in Nat /\ FaninsAhead("take_out", n) \in Nat
      BY <1>2, BalanceTypes
    <3>5. References(n) = 0
      BY <3>1, <3>2, <3>3, <3>4
    <3>6. QED
      BY <1>2, <3>5, UnusedCount DEF n
  <2>4. QED
    BY <2>2, <2>3
<1>6. QED
  BY <1>4, <1>5

\* While revive_node runs, references and what is ahead of it change alike.
LEMMA ForgottenRevive ==
  ASSUME CInv, NoOverflow, Forgotten, ReviveEnter \/ ReviveFanin,
         NEW m \in Nodes, Dead(m), Dead(m)', m \notin DOMAIN renamed
  PROVE  References(m)' = FaninsAhead("revive", m)'
<1> DEFINE f == Head(calls)
           c == child[f.node][f.at].node
<1>1. [AnyNext]_vars
  BY DEF AnyNext, Next, Unwind
<1> USE StepTypes
<1>2. References(m) = FaninsAhead("revive", m) /\ m \in Index
  BY <1>1 DEF Forgotten
<1>3. /\ UNCHANGED <<size, isCi, child, outputs>> /\ calls # <<>> /\ f.op = "revive"
      /\ f.node \in Nodes /\ f.node \in Index
  <2>1. UNCHANGED <<size, isCi, child, outputs>> /\ calls # <<>> /\ f.op = "revive"
    BY DEF ReviveEnter, ReviveFanin, InCall
  <2>2. QED
    BY <1>1, <2>1, FrameParts
<1>4. CASE ReviveEnter
  <2> DEFINE n == f.node
  <2>1. /\ calls' = Advance /\ f.at = 0 /\ h1' = [h1 EXCEPT ![n] = 0]
        /\ Dead(n) /\ IsGate(n)
    BY <1>1, <1>3, <1>4, FrameParts DEF ReviveEnter, InCall, CInv, Nested
  <2>2. FaninsAhead("revive", m)' = FaninsAhead("revive", m) + Own(n, m)
    BY <1>1, <1>3, <2>1, AheadStep
  <2> HIDE DEF f
  <2>3. LiveGates' \ {n} = LiveGates \ {n} /\ n \notin LiveGates /\ n \in LiveGates'
    <3>1. Nodes' = Nodes /\ h1'[n] = 0 /\ \A g \in Nodes \ {n} : h1'[g] = h1[g]
      BY <1>1, <1>3, <2>1 DEF Nodes
    <3>2. \A g : g \in LiveGates' <=> g \in Nodes' /\ g # 0 /\ ~isCi'[g] /\ ~(h1'[g] >= DeadBit)
      BY DEF LiveGates, IsGate, Dead
    <3>3. \A g : g \in LiveGates <=> g \in Nodes /\ g # 0 /\ ~isCi[g] /\ ~(h1[g] >= DeadBit)
      BY DEF LiveGates, IsGate, Dead
    <3>4. ~(0 >= DeadBit)
      BY <1>1
    <3>5. QED
      BY <1>1, <1>3, <2>1, <3>1, <3>2, <3>3, <3>4 DEF IsGate, Dead
  <2> DEFINE p == child[n]
  <2>4. /\ References(m) \in Nat /\ References(m)' \in Nat
        /\ References(m)' + (IF n \in LiveGates THEN Own(n, m) ELSE 0)
             = References(m) + (One(p[1].node = m) + One(p[2].node = m))
    <3>1. /\ TypeOK /\ TypeOK' /\ child'[n] = p
          /\ \A g \in LiveGates \ {n} : child'[g] = child[g]
          /\ LiveGates' \ {n} = LiveGates \ {n} /\ n \in LiveGates' /\ outputs' = outputs
      BY <1>1, <1>3, <2>3
    <3> HIDE DEF p, n
    <3>2. QED
      BY <3>1, OneGateAdded
  <2>5. One(p[1].node = m) + One(p[2].node = m) = Own(n, m) /\ Own(n, m) \in Nat
    BY DEF Own, One
  <2> HIDE DEF n, p
  <2>6. QED
    BY <1>2, <2>2, <2>3, <2>4, <2>5
<1>5. CASE ReviveFanin
  <2>1. f.at \in {1, 2} /\ f.at # 0
    <3>1. InCall("revive", {1, 2})
      BY <1>5 DEF ReviveFanin
    <3>2. QED
      BY <3>1 DEF InCall
  <2>2. c \in Nodes /\ c \in Index
    BY <1>1, <1>3, <2>1, FaninOfFrame
  <2>3. ~TakeOutEnter /\ ~ReviveEnter
    BY <2>1 DEF TakeOutEnter, ReviveEnter, InCall
  <2>4. References(m)' = References(m)
    BY <1>1, <1>3, <2>3, SameLive, SameReferences
  <2>5. CASE Dead(c)
    <3>1. calls' = <<Call("revive", c)>> \o calls
      BY <1>5, <2>5 DEF ReviveFanin
    <3>2. FaninsAhead("revive", m)' = FaninsAhead("revive", m)
      BY <1>3, <2>2, <3>1, AheadStep
    <3>3. QED
      BY <1>2, <2>4, <3>2
  <2>6. CASE ~Dead(c)
    <3>1. calls' = Advance
      BY <1>5, <2>6 DEF ReviveFanin
    <3>2. /\ FaninsAhead("revive", m)' \in Nat
          /\ FaninsAhead("revive", m)' + One(c = m) = FaninsAhead("revive", m)
      BY <1>3, <2>1, <2>2, <3>1, AheadStep
    <3>3. One(c = m) = 0
      BY <2>6 DEF One
    <3> HIDE DEF c
    <3>4. QED
      BY <1>2, <2>4, <3>2, <3>3
  <2>7. QED
    BY <2>5, <2>6
<1>6. QED
  BY <1>4, <1>5

\* Every step keeps dead nodes that were not replaced out of use.
LEMMA ForgottenStep ==
  ASSUME CInv, NoOverflow, DInv, EInv, [AnyNext]_vars
  PROVE  Forgotten'
<1> USE StepTypes DEF EInv
<1> SUFFICES ASSUME NEW m \in Nodes', Dead(m)', m \notin DOMAIN renamed'
             PROVE  References(m)' = FaninsAhead("revive", m)'
  BY DEF Forgotten
<1>1. m \in Nodes
  <2>1. m \notin Nodes => m \in Index /\ h1'[m] = 0
    BY CountsStep DEF IInv, Fresh
  <2>2. QED
    BY <2>1 DEF Dead
<1>2. ~Dead(m) => TakeOutEnter /\ m = Head(calls).node
  BY <1>1, CountsStep
<1>3. ASSUME Unused(m)', \A i \in DOMAIN calls' : calls'[i].op # "revive" \/ calls'[i].at = 0
      PROVE  References(m)' = FaninsAhead("revive", m)'
  BY <1>3, UnusedCountAfter, NothingAhead
<1>4. CASE Return
  <2>1. pc = "pop" /\ todo = <<>> /\ calls = <<>> /\ calls' = <<>> /\ Dead(m)
    BY <1>2, <1>4 DEF Return, TakeOutEnter, InCall
  <2>2. Unused(m)
    BY <2>1, NoneAtRest DEF Unused, DInv, OutputsLive
  <2>3. ~ReviveEnter
    BY <2>1 DEF ReviveEnter, InCall
  <2>4. Unused(m)'
    BY <1>1, <2>1, <2>2, <2>3, UnusedStep
  <2>5. QED
    BY <1>3, <2>1, <2>4
<1>5. CASE ~Return
  <2>1. m \notin DOMAIN renamed
    <3>1. renamed' = renamed \/ renamed' = Insert(renamed, sub.old, sub.new)
      BY <1>5 DEF AnyNext, Next, Build, CreatePi, CreatePo, CreateAnd, TakeOut, SubstituteNode,
          SomeNoRestrash, SomeComplement, SubstituteNodeNoRestrash, SubstituteComplement,
          Substitute, Pop, Follow, Resolved, Begin, Visit, FinishPair, Unwind, TakeOutIgnored,
          TakeOutEnter, TakeOutFanin, ReviveEnter, ReviveFanin, ctlVars, vars
    <3>2. QED
      BY <3>1 DEF Insert
  <2>2. CASE ReviveEnter \/ ReviveFanin
    <3>1. Dead(m)
      BY <1>2, <2>2 DEF ReviveEnter, ReviveFanin, TakeOutEnter, InCall
    <3>2. QED
      BY <1>1, <2>1, <2>2, <3>1, ForgottenRevive
  <2>3. CASE UNCHANGED vars
    <3>1. References(m)' = References(m) /\ FaninsAhead("revive", m)' = FaninsAhead("revive", m)
          /\ Dead(m)
      BY <2>3 DEF References, FaninsAhead, LiveGates, Nodes, IsGate, Dead, vars, netVars
    <3>2. QED
      BY <1>1, <2>1, <3>1 DEF Forgotten
  <2>4. CASE ~(ReviveEnter \/ ReviveFanin) /\ ~UNCHANGED vars
    <3>1. \A i \in DOMAIN calls : calls[i].op # "revive"
      <4>1. CASE calls = <<>>
        BY <4>1
      <4>2. CASE calls # <<>>
        <5>1. Unwind
          BY <2>4, <4>2, OnlyUnwind
        <5>2. Head(calls).op = "take_out"
          BY <2>4, <5>1 DEF Unwind, TakeOutIgnored, TakeOutEnter, TakeOutFanin, InCall
        <5>3. calls \in Seq(OfKind("take_out"))
          BY <4>2, <5>2, KindOfRest
        <5>4. QED
          BY <5>3 DEF OfKind
      <4>3. QED
        BY <4>1, <4>2
    <3>2. \A i \in DOMAIN calls' : calls'[i].op # "revive" \/ calls'[i].at = 0
      <4>1. CASE Unwind
        <5>1. calls # <<>> /\ calls' \in Seq(OfKind(Head(calls).op))
          BY <4>1, UnwindCalls, UnwindKind
        <5>2. Head(calls).op = "take_out"
          BY <2>4, <4>1 DEF Unwind, TakeOutIgnored, TakeOutEnter, TakeOutFanin, InCall
        <5>3. QED
          BY <5>1, <5>2 DEF OfKind
      <4>2. CASE ~Unwind
        <5>1. CASE calls' = calls
          BY <3>1, <5>1
        <5>2. ASSUME NEW op, NEW n, calls' \in {<<>>, <<Call(op, n)>>}
              PROVE  \A i \in DOMAIN calls' : calls'[i].at = 0
          BY <5>2 DEF Call
        <5>3. QED
          BY <4>2, <5>1, <5>2, CallsStep
      <4>3. QED
        BY <4>1, <4>2
    <3>3. Unused(m)
      <4>1. CASE Dead(m)
        <5>1. References(m) = FaninsAhead("revive", m)
          BY <1>1, <2>1, <4>1 DEF Forgotten
        <5>2. AheadOf(calls, "revive", m) = {}
          BY <3>1 DEF AheadOf
        <5>3. FaninsAhead("revive", m) = 0
          BY <5>2, FS_EmptySet DEF FaninsAhead, AheadOf
        <5>4. QED
          BY <5>1, <5>3, UnusedCount
      <4>2. CASE ~Dead(m)
        BY <1>2, <2>1, <4>2, DyingUnused
      <4>3. QED
        BY <4>1, <4>2
    <3>4. Unused(m)'
      BY <1>1, <1>2, <2>4, <3>3, UnusedStep
    <3>5. QED
      BY <1>3, <3>2, <3>4
  <2>5. QED
    BY <2>2, <2>3, <2>4
<1>6. QED
  BY <1>4, <1>5

\* Every step keeps the invariant.
LEMMA EInvStep ==
  ASSUME CInv, NoOverflow, NotSelf, DInv, EInv, [AnyNext]_vars
  PROVE  EInv'
  BY PlainAloneStep, RecordedStep, DoomedStep, ForgottenStep DEF EInv, DInv
-----------------------------------------------------------------------------
(* What has been replaced without structural hashing is gone too.          *)

\* _old is dead, or about to be taken out, when its only pair has been
\* carried out.
PlainBuried ==
  pc = "pop" /\ ~restrash =>
    /\ calls \in Seq(OfKind("take_out"))
    /\ sub.old \in Nodes /\ IsGate(sub.old)
    /\ Dead(sub.old) \/ calls = <<Call("take_out", sub.old)>>

\* No pair has been carried out initially.
LEMMA InitPlainBuried == Init => PlainBuried
  BY DEF Init, PlainBuried

\* The step that _old waits for is its own take_out_node.
LEMMA PlainBuriedStep ==
  ASSUME CInv, NoOverflow, NotSelf, PlainBuried, [AnyNext]_vars
  PROVE  PlainBuried'
<1> USE StepTypes
<1> SUFFICES ASSUME pc' = "pop", ~restrash'
             PROVE  /\ calls' \in Seq(OfKind("take_out"))
                    /\ \E n \in Nodes' :
                          /\ n = sub'.old /\ IsGate(n)'
                          /\ Dead(n)' \/ calls' = <<Call("take_out", n)>>
  BY DEF PlainBuried, Call, OfKind, IsGate, Dead
<1>1. CASE FinishPair
  <2>1. sub' = sub /\ calls' = <<Call("take_out", sub.old)>> /\ pc = "scan"
    BY <1>1 DEF FinishPair, NotSelf
  <2>2. PICK n \in Nodes : n = sub.old /\ IsGate(n)
    <3>1. sub \in GatePair
      BY <2>1 DEF CInv, OldGates
    <3>2. QED
      BY <3>1 DEF GatePair
  <2>3. <<Call("take_out", n)>> \in Seq(OfKind("take_out"))
    BY <2>2, KindOfCall
  <2>4. n \in Nodes' /\ IsGate(n)'
    BY <2>2
  <2>5. QED
    BY <2>1, <2>2, <2>3, <2>4
<1>2. CASE Unwind \/ UNCHANGED vars
  <2>1. /\ pc = "pop" /\ ~restrash /\ sub' = sub
    BY <1>2, UnwindFrame DEF ctlVars, vars
  <2>2. PICK n \in Nodes : n = sub.old /\ IsGate(n)
    BY <2>1 DEF PlainBuried
  <2>3. Dead(n) \/ calls = <<Call("take_out", n)>>
    BY <2>1, <2>2 DEF PlainBuried
  <2>4. n \in Nodes' /\ IsGate(n)' /\ sub'.old = n
    BY <2>1, <2>2
  <2>5. calls \in Seq(OfKind("take_out"))
    BY <2>1 DEF PlainBuried
  <2>6. CASE UNCHANGED vars
    <3>1. Dead(n) => Dead(n)'
      BY <2>6 DEF vars, netVars, Dead
    <3>2. QED
      BY <2>3, <2>4, <2>5, <2>6, <3>1 DEF vars
  <2>7. CASE Unwind
    <3>1. calls # <<>> /\ Head(calls).op = "take_out"
      BY <2>5, <2>7, UnwindCalls, KindOfRest
    <3>2. calls' \in Seq(OfKind("take_out"))
      BY <2>7, <3>1, UnwindKind
    <3>3. ~ReviveEnter /\ ~ReviveFanin
      BY <3>1 DEF ReviveEnter, ReviveFanin, InCall
    <3>4. CASE Dead(n)
      <4>1. Dead(n)'
        BY <3>3, <3>4, DeadStep DEF Dead
      <4>2. QED
        BY <2>4, <3>2, <4>1
    <3>5. CASE ~Dead(n)
      <4>1. Head(calls) = Call("take_out", n)
        BY <2>3, <3>5
      <4>2. Head(calls).at = 0 /\ Head(calls).node = n
        BY <4>1 DEF Call
      <4>3. ~TakeOutIgnored /\ ~TakeOutFanin
        <5>1. IsGate(Head(calls).node) /\ ~Dead(Head(calls).node)
          BY <2>2, <3>5, <4>2 DEF IsGate, Dead
        <5>2. ~InCall("take_out", {1, 2})
          BY <4>2 DEF InCall
        <5>3. QED
          BY <5>1, <5>2 DEF TakeOutIgnored, TakeOutFanin
      <4>4. TakeOutEnter
        BY <2>7, <3>3, <4>3 DEF Unwind
      <4>5. h1'[n] = DeadBit
        BY <2>2, <4>2, <4>4 DEF TakeOutEnter
      <4>6. Dead(n)'
        BY <4>5 DEF Dead
      <4>7. QED
        BY <2>4, <3>2, <4>6
    <3>6. QED
      BY <3>4, <3>5
  <2>8. QED
    BY <1>2, <2>6, <2>7
<1>3. QED
  BY <1>1, <1>2
  DEF AnyNext, Next, Build, CreatePi, CreatePo, CreateAnd, TakeOut, SubstituteNode,
      SomeNoRestrash, SomeComplement, SubstituteNodeNoRestrash, SubstituteComplement, Idle,
      Substitute, Return, Pop, Follow, Resolved, Begin, Visit, ctlVars

\* When a substitution returns, what it replaced is unreferenced and uncounted.
LEMMA AllBuriedAreGone ==
  ASSUME CInv, DInv, Buried, PlainBuried
  PROVE  OldIsGone
<1>1. CASE restrash
  BY <1>1, BuriedIsGone
<1>2. CASE ~restrash
  <2> SUFFICES ASSUME pc = "pop", todo = <<>>, calls = <<>>
               PROVE  References(sub.old) = 0 /\ FanoutSize(sub.old) = 0
    BY <1>2 DEF OldIsGone, Replaced
  <2>1. PICK n \in Nodes : n = sub.old /\ Dead(n)
    BY <1>2 DEF PlainBuried
  <2>2. Unused(n)
    BY <2>1, NoneAtRest DEF Unused, DInv, OutputsLive
  <2>3. References(n) = 0
    BY <2>2, UnusedCount DEF CInv, IInv
  <2>4. FanoutSize(n) = 0
    BY <2>1, FanoutSizes
  <2>5. QED
    BY <2>1, <2>3, <2>4
<1>3. QED
  BY <1>1, <1>2
-----------------------------------------------------------------------------
(* The guarantees.                                                         *)

AllInv == CInv /\ DInv /\ EInv /\ Bounded /\ Buried /\ PlainBuried

\* A node that has been replaced is not brought back.
StaysDead == ReviveEnter => Head(calls).node \notin DOMAIN renamed

\* The initial state satisfies all invariants.
LEMMA InitAllInv == Init => AllInv
  BY InitCInv, InitDInv, InitEInv, InitBounded, InitBuried, InitPlainBuried DEF AllInv

\* What is revived is dead, so that the step is no stutter.
LEMMA ReviveIsNoStutter ==
  ASSUME CInv, NoOverflow, [StaysDead]_vars
  PROVE  StaysDead
<1>1. CASE UNCHANGED vars /\ ReviveEnter
  <2> DEFINE n == Head(calls).node
  <2>1. calls # <<>> /\ Dead(n) /\ h1' = h1 /\ h1' = [h1 EXCEPT ![n] = 0]
    BY <1>1 DEF ReviveEnter, InCall, CInv, Nested, vars, netVars
  <2>2. n \in Index
    BY <2>1, FrameParts, NodesType DEF CInv, IInv
  <2>3. h1[n] = 0
    BY <2>1, <2>2 DEF CInv, IInv, TypeOK
  <2>4. QED
    BY <2>1, <2>3, DeadBitAssumption DEF Dead
<1>2. QED
  BY <1>1 DEF StaysDead

\* Every step keeps all invariants.
LEMMA AllInvStep ==
  ASSUME AllInv, Room, OldInputs = {}, NotSelf, NoTwins, [AnyNext]_vars, [StaysDead]_vars
  PROVE  AllInv' /\ (ReviveEnter => RevivedUnreferenced)
<1>1. NoOverflow
  BY BoundedIsEnough DEF AllInv, CInv, IInv
<1>2. StaysDead
  BY <1>1, ReviveIsNoStutter DEF AllInv
<1>3. ReviveEnter => RevivedUnreferenced
  BY <1>2, RevivedIsUnreferenced DEF AllInv, EInv, StaysDead
<1>4. CInv'
  BY <1>1, <1>3, CInvStep DEF AllInv
<1>5. DInv'
  BY <1>1, DInvStep DEF AllInv
<1>6. EInv'
  BY <1>1, EInvStep DEF AllInv
<1>7. Bounded'
  BY <1>1, <1>4, BoundedStep DEF AllInv
<1>8. Buried' /\ PlainBuried'
  BY <1>1, <1>2, BuriedStep, PlainBuriedStep DEF AllInv, StaysDead
<1>9. QED
  BY <1>3, <1>4, <1>5, <1>6, <1>7, <1>8 DEF AllInv

\* What the invariants say of the properties.
LEMMA AllInvMeans ==
  ASSUME AllInv, Room
  PROVE  /\ HashSound /\ NoOverflow /\ RefCountExact /\ OnlyUnreferencedDies
         /\ DeadFaninPending /\ NoDeadReference /\ OldIsGone
<1>1. NoOverflow
  BY BoundedIsEnough DEF AllInv, CInv, IInv
<1>2. HashSound
  BY DEF AllInv, CInv, IInv
<1>3. QED
  BY <1>1, <1>2, CInvExact, DInvAtRest, AllBuriedAreGone DEF AllInv, DInv

\* No count ever comes near the dead bit, if two references of every node and
\* two of every output fit below it: no reference is counted twice, even while
\* a cascade has moved it and not yet released what it left.
THEOREM CountersNeverOverflow ==
  AnySpec /\ OldInputs = {} /\ Room /\ []CascadeSound => []NoOverflow
<1>1. CASE OldInputs = {} /\ Room
  <2>1. CInv /\ Bounded => NoOverflow
    BY <1>1, BoundedIsEnough DEF CInv, IInv
  <2>2. CInv /\ NoOverflow /\ CascadeSound /\ [AnyNext]_vars => CInv'
    BY <1>1, CInvStep DEF CascadeSound
  <2>3. CInv /\ CInv' /\ NoOverflow /\ CascadeSound /\ Bounded /\ [AnyNext]_vars => Bounded'
    BY BoundedStep DEF CascadeSound
  <2>4. QED
    BY InitCInv, InitBounded, <2>1, <2>2, <2>3, PTL DEF AnySpec
<1>2. CASE ~(OldInputs = {} /\ Room)
  BY <1>2
<1>3. QED
  BY <1>1, <1>2

\* Whatever clients mix substitution with and without structural hashing, as
\* long as no gate has the same node twice, the network can go wrong in two
\* ways only: a pair that makes a node its own replacement, or one by which a
\* node that the same substitution replaced is revived.  Without these every
\* count is exact at every step of every recursion, nothing that is still
\* referenced is taken out, and when an operation has returned no dead node
\* is referenced and what it replaced is gone.
THEOREM OnlyTwoWaysToFail ==
  /\ AnySpec /\ OldInputs = {} /\ Room
  /\ []NoTwins /\ []NotSelf /\ ReplacedStaysDead
  => /\ [](/\ HashSound /\ NoOverflow /\ RefCountExact /\ OnlyUnreferencedDies
           /\ DeadFaninPending /\ NoDeadReference /\ OldIsGone)
     /\ [][ReviveEnter => RevivedUnreferenced]_vars
<1>1. CASE OldInputs = {} /\ Room
  <2>1. AllInv /\ NotSelf /\ NoTwins /\ [AnyNext]_vars /\ [StaysDead]_vars => AllInv'
    BY <1>1, AllInvStep
  <2>2. AllInv /\ NotSelf /\ NoTwins /\ [AnyNext]_vars /\ [StaysDead]_vars
          => [ReviveEnter => RevivedUnreferenced]_vars
    BY <1>1, AllInvStep
  <2>3. AllInv => /\ HashSound /\ NoOverflow /\ RefCountExact /\ OnlyUnreferencedDies
                  /\ DeadFaninPending /\ NoDeadReference /\ OldIsGone
    BY <1>1, AllInvMeans
  <2>4. QED
    BY InitAllInv, <2>1, <2>2, <2>3, PTL DEF AnySpec, ReplacedStaysDead, StaysDead
<1>2. CASE ~(OldInputs = {} /\ Room)
  BY <1>2
<1>3. QED
  BY <1>1, <1>2
\* Clients that always keep the structural hashing need not see to gates with
\* the same node twice.
THEOREM OnlyTwoWaysToFailHashed ==
  /\ Spec /\ OldInputs = {} /\ Room
  /\ []NotSelf /\ ReplacedStaysDead
  => [](/\ NoTwins /\ HashSound /\ NoOverflow /\ RefCountExact /\ OnlyUnreferencedDies
        /\ DeadFaninPending /\ NoDeadReference /\ OldIsGone)
<1>1. CASE OldInputs = {} /\ Room
  <2>1. [Next]_vars => [AnyNext]_vars
    BY DEF AnyNext
  <2>2. Hashed => NoTwins
    BY DEF Hashed, NoTwins, LiveGates
  <2>3. AllInv /\ Hashed /\ NotSelf /\ [Next]_vars /\ [StaysDead]_vars => AllInv'
    BY <1>1, <2>1, <2>2, AllInvStep
  <2>4. AllInv /\ AllInv' /\ Hashed /\ [Next]_vars => Hashed'
    BY HashedStep DEF AllInv, CInv
  <2>5. AllInv => /\ HashSound /\ NoOverflow /\ RefCountExact /\ OnlyUnreferencedDies
                  /\ DeadFaninPending /\ NoDeadReference /\ OldIsGone
    BY <1>1, AllInvMeans
  <2>6. QED
    BY InitAllInv, InitHashed, <2>2, <2>3, <2>4, <2>5, PTL
    DEF Spec, ReplacedStaysDead, StaysDead
<1>2. CASE ~(OldInputs = {} /\ Room)
  BY <1>2
<1>3. QED
  BY <1>1, <1>2

-----------------------------------------------------------------------------
(* Clients that do without structural hashing.                             *)

\* They build, take out nodes, and call substitute_node_no_restrash only.
PlainNext ==
  \/ Build
  \/ \E n \in Nodes : TakeOut(n)
  \/ SomeNoRestrash
  \/ Unwind
  \/ Substitute
PlainSpec == Init /\ [][PlainNext]_vars

\* Each substitution is one pair, that of its client.
OnePair ==
  /\ todo = <<>> /\ DOMAIN renamed = {}
  /\ pc # "resolve"
  /\ pc # "idle" => ~restrash
  /\ pc \in {"begin", "scan"} => sub.new.node # sub.old

\* No substitution has been called initially.
LEMMA InitOnePair == Init => OnePair
  BY DEF Init, OnePair

\* No fanout is pushed, and nothing is recorded.
LEMMA OnePairStep ==
  ASSUME OnePair, [PlainNext]_vars
  PROVE  OnePair'
<1>1. CASE UNCHANGED ctlVars
  BY <1>1 DEF OnePair, ctlVars
<1>2. CASE SomeNoRestrash
  <2>1. PICK o \in Nodes, s \in Signals : SubstituteNodeNoRestrash(o, s)
    BY <1>2 DEF SomeNoRestrash
  <2>2. s.node # o
    BY <2>1 DEF SubstituteNodeNoRestrash, MaySubstitute
  <2>3. /\ pc' = "begin" /\ ~restrash' /\ UNCHANGED <<todo, renamed>>
        /\ sub' = [old |-> o, new |-> s]
    BY <2>1 DEF SubstituteNodeNoRestrash
  <2>4. QED
    BY <2>2, <2>3 DEF OnePair
<1>3. CASE Visit
  BY <1>3 DEF OnePair, Visit, ReplaceInNode, CollapseNode, RestrashNode, RewireNode
<1>4. CASE Return \/ Pop \/ Follow \/ Resolved \/ Begin \/ FinishPair
  BY <1>4 DEF OnePair, Return, Pop, Follow, Resolved, Begin, FinishPair
<1>5. QED
  BY <1>1, <1>2, <1>3, <1>4, UnwindFrame
  DEF PlainNext, Build, CreatePi, CreatePo, CreateAnd, TakeOut, Substitute, vars

\* Clients that do without structural hashing, and never give a gate the same
\* node twice, are safe: what can go wrong in cascades cannot here, for no
\* client replaces a node by itself and nothing that was replaced is revived
\* before the substitution returns.
THEOREM PlainSubstitutionsAreSafe ==
  PlainSpec /\ OldInputs = {} /\ Room /\ []NoTwins
    => [](/\ HashSound /\ NoOverflow /\ RefCountExact /\ OnlyUnreferencedDies
          /\ DeadFaninPending /\ NoDeadReference /\ OldIsGone /\ CascadeSound)
<1>1. CASE OldInputs = {} /\ Room
  <2>1. [PlainNext]_vars => [AnyNext]_vars
    BY DEF PlainNext, AnyNext, Next
  <2>2. OnePair => NotSelf /\ (ReviveEnter => Head(calls).node \notin DOMAIN renamed)
    BY DEF OnePair, NotSelf
  <2>3. OnePair => [StaysDead]_vars
    BY <2>2 DEF StaysDead
  <2>4. AllInv /\ NoTwins /\ OnePair /\ [PlainNext]_vars => AllInv'
    BY <1>1, <2>1, <2>2, <2>3, AllInvStep
  <2>5. OnePair /\ [PlainNext]_vars => OnePair'
    BY OnePairStep
  <2>6. AllInv => /\ HashSound /\ NoOverflow /\ RefCountExact /\ OnlyUnreferencedDies
                  /\ DeadFaninPending /\ NoDeadReference /\ OldIsGone
    BY <1>1, AllInvMeans
  <2>7. AllInv /\ OnePair => CascadeSound
    <3> SUFFICES ASSUME AllInv, OnePair PROVE CascadeSound
      OBVIOUS
    <3>1. NotSelf
      BY <2>2
    <3>2. ASSUME InCall("revive", {0})
          PROVE  References(Head(calls).node) = FaninsAhead("revive", Head(calls).node)
      <4>1. calls # <<>> /\ Dead(Head(calls).node)
        BY <3>2 DEF InCall, AllInv, CInv, Nested
      <4>2. Head(calls).node \in Nodes
        BY <4>1, FrameParts DEF AllInv, CInv
      <4>3. QED
        BY <4>1, <4>2 DEF AllInv, EInv, Forgotten, OnePair
    <3>3. QED
      BY <3>1, <3>2 DEF CascadeSound, RevivedUnreferenced
  <2>8. QED
    BY InitAllInv, InitOnePair, <2>4, <2>5, <2>6, <2>7, PTL DEF PlainSpec
<1>2. CASE ~(OldInputs = {} /\ Room)
  BY <1>2
<1>3. QED
  BY <1>1, <1>2
=============================================================================
