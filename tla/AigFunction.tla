---------------------------- MODULE AigFunction ----------------------------
(***************************************************************************)
(* What the outputs of an aig_network compute.  A function of the inputs is *)
(* the set of the input assignments for which it is true, an assignment the *)
(* set of the inputs that are true.  promise is what the clients of the     *)
(* network are entitled to: it changes when a client calls an operation,    *)
(* never while the operation runs.                                          *)
(***************************************************************************)
EXTENDS Aig

VARIABLE promise (* the functions the clients expect of the outputs *)

Inputs == {n \in Nodes : isCi[n]}
Assignments == SUBSET Inputs

\* The function of a signal, given those of the nodes.
Literal(table, f) ==
  IF f.neg THEN Assignments \ table[f.node] ELSE table[f.node]

\* The functions of all nodes when node o computes t instead of its own:
\* MaxNodes rounds settle every acyclic network.
TablesWith(o, t) ==
  LET round[k \in 0 .. MaxNodes] ==
        IF k = 0 THEN [n \in Nodes |-> {}]
        ELSE LET last == round[k - 1]
             IN  [n \in Nodes |->
                    IF n = o THEN t
                    ELSE IF isCi[n] THEN {a \in Assignments : n \in a}
                    ELSE IF n = 0 THEN {}
                    ELSE Literal(last, child[n][1]) \cap Literal(last, child[n][2])]
  IN  round[MaxNodes]
Tables == TablesWith(0, {})

FunctionsOf(table) == [i \in DOMAIN outputs |-> Literal(table, outputs[i])]

\* The outputs as they must be once o has become s.
FunctionsAfter(o, s) == FunctionsOf(TablesWith(o, Literal(Tables, s)))

FInit == Init /\ promise = <<>>

\* The functions there are do not depend on a new input.
FCreatePi ==
  /\ CreatePi
  /\ promise' = [i \in DOMAIN promise |->
                   promise[i] \cup {a \cup {size} : a \in promise[i]}]

FCreatePo(f) ==
  /\ CreatePo(f)
  /\ promise' = Append(promise, Literal(Tables, f))

FSubstituteNode(o, s) ==
  /\ SubstituteNode(o, s)
  /\ promise' = FunctionsAfter(o, s)

FSubstituteComplement(o) ==
  /\ SubstituteComplement(o)
  /\ promise' = FunctionsAfter(o, [node |-> o, neg |-> TRUE])

FBuild ==
  \/ FCreatePi
  \/ \E f \in LiveSignals : FCreatePo(f)
  \/ (\E a, b \in LiveSignals : CreateAnd(a, b)) /\ UNCHANGED promise
FRun == (Unwind \/ Substitute) /\ UNCHANGED promise

FNext ==
  \/ FBuild
  \/ (\E n \in Nodes : TakeOut(n)) /\ UNCHANGED promise
  \/ \E o \in Nodes, s \in Signals : FSubstituteNode(o, s)
  \/ FRun

FSpec == FInit /\ [][FNext]_<<vars, promise>>

-----------------------------------------------------------------------------
(* Safety.                                                                 *)

\* Substituting o by s gives every output the function it had with s in the
\* place of o, and changes nothing else: however the substitution cascades,
\* whatever it merges, revives and takes out.
OutputsKept == Idle => FunctionsOf(Tables) = promise
=============================================================================
