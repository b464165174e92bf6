----------------------------- MODULE ChoiceView -----------------------------
(***************************************************************************)
(* choice_view (views/choice_view.hpp): classes of equivalent nodes, stored *)
(* as linked lists through two arrays.  _choice_repr leads from a node to   *)
(* the next one of its class and, at last, to the representative, which     *)
(* leads to itself.  _choice_phase holds the polarity of a node; that of    *)
(* the representative names the head of the list instead.                   *)
(***************************************************************************)
EXTENDS Naturals, FiniteSets, FiniteSetsExt

CONSTANT MaxNodes (* bound on the nodes of the network *)

ASSUME MaxNodesAssumption == MaxNodes \in Nat \ {0}

VARIABLES
  known,   (* the nodes the arrays have an entry for                       *)
  deleted, (* the nodes delete_choice_from_network took out                *)
  repr,    (* _choice_repr                                                 *)
  phase    (* _choice_phase                                                *)

vars == <<known, deleted, repr, phase>>

Index == 0 .. MaxNodes - 1
Signal == [node : Index, neg : BOOLEAN]
Plain(n) == [node |-> n, neg |-> FALSE]
Flipped(s) == [s EXCEPT !.neg = ~@]

ChoiceTypeOK ==
  /\ known \subseteq Index /\ deleted \subseteq known
  /\ repr \in [Index -> Index]
  /\ phase \in [Index -> Signal]

-----------------------------------------------------------------------------
(* Walking the lists.                                                      *)

\* The node k steps down the list from n.
Down(n) ==
  LET at[k \in 0 .. MaxNodes] == IF k = 0 THEN n ELSE repr[at[k - 1]] IN at

\* n and what follows it in its list; the last is the representative.
Onwards(n) == {Down(n)[k] : k \in 0 .. MaxNodes}
Representative(n) == Down(n)[MaxNodes]
IsRepresentative(n) == repr[n] = n

\* The head of the list, named by the phase of the representative.
HeadOf(r) == phase[r].node

\* What foreach_choice visits: from n down to the representative, and from
\* the head down to n.
ChoicesOf(n) == Onwards(n) \cup Onwards(HeadOf(Representative(n)))

\* The phases after those of the list of r, but not of r, were inverted.
Inverted(ph, rp, r) ==
  LET at[k \in 0 .. MaxNodes] == IF k = 0 THEN ph[r].node ELSE rp[at[k - 1]]
      list == {at[k] : k \in 0 .. MaxNodes}
  IN  [m \in Index |-> IF m \in {l \in list : rp[l] # l} THEN Flipped(ph[m]) ELSE ph[m]]

-----------------------------------------------------------------------------
(* The operations.                                                         *)

\* A view of a network that has only its constant.
Init ==
  /\ known = {0}
  /\ deleted = {}
  /\ repr = [n \in Index |-> n]
  /\ phase = [n \in Index |-> Plain(n)]

\* Slip: off by one.
OnAddBeyond ==
  /\ Cardinality(known) < MaxNodes
  /\ known' = known \cup {Cardinality(known) + 1}
  /\ UNCHANGED <<deleted, repr, phase>>

\* on_add: a new node is alone in its class.
OnAdd ==
  /\ Cardinality(known) < MaxNodes
  /\ known' = known \cup {Cardinality(known)}
  /\ UNCHANGED <<deleted, repr, phase>>

\* Whether n is the complement of its representative.
Negated(n) == ~IsRepresentative(n) /\ phase[n].neg

\* add_choice of n1 and of n2, complemented if c: the list of the class with
\* the higher representative goes to the front of the other one.
AddChoice(n1, n2, c) ==
  LET r1 == Min({Representative(n1), Representative(n2)})
      r2 == Max({Representative(n1), Representative(n2)})
      inv == (Negated(n1) # c) # Negated(n2)
      turned == IF inv THEN Inverted(phase, repr, r2) ELSE phase
  IN  /\ r1 # r2
      /\ repr' = [repr EXCEPT ![r2] = turned[r1].node]
      /\ phase' = [turned EXCEPT ![r1] = turned[r2], ![r2] = [node |-> r2, neg |-> inv]]
      /\ UNCHANGED <<known, deleted>>

\* Slip: the polarities stay what they were to the old representative.
UpdateUninverted(n) ==
  LET r == Representative(n)
  IN  /\ ~IsRepresentative(n)
      /\ repr' = [repr EXCEPT ![r] = HeadOf(r), ![n] = n]
      /\ phase' = [phase EXCEPT ![n] = Plain(repr[n]), ![r] = Plain(r)]
      /\ UNCHANGED <<known, deleted>>

\* update_choice_representative: the list is turned until n is at its end.
UpdateRepresentative(n) ==
  LET r == Representative(n)
      repr1 == [repr EXCEPT ![r] = HeadOf(r), ![n] = n]
      phase1 == [phase EXCEPT ![n] = Plain(repr[n]), ![r] = Plain(r)]
  IN  /\ ~IsRepresentative(n)
      /\ repr' = repr1
      /\ phase' = IF phase[n].neg THEN Inverted(phase1, repr1, n) ELSE phase1
      /\ UNCHANGED <<known, deleted>>

\* remove_choice of a representative that is not alone: the lowest node of
\* the list takes over.
RemoveRepresentative(n) ==
  LET tail == HeadOf(n)
      others == ChoicesOf(tail) \ {n}
      new == Min(others)
  IN  /\ IsRepresentative(n) /\ tail # n
      /\ \E pred \in {g \in others : repr[g] = n} :
           LET repr1 == IF new = pred THEN [repr EXCEPT ![new] = new]
                        ELSE [repr EXCEPT ![pred] = tail, ![new] = new]
               phase1 == [phase EXCEPT ![new] = IF new = pred THEN phase[n]
                                                ELSE Plain(repr[new])]
           IN  /\ repr' = repr1
               /\ phase' = IF phase[new].neg THEN Inverted(phase1, repr1, new)
                                             ELSE phase1

\* Slip: the head of the list is not moved on.
RemoveKeepsHead(n) ==
  /\ IsRepresentative(n) => HeadOf(n) = n
  /\ repr' = [g \in Index |->
                IF g \in Onwards(HeadOf(Representative(n))) /\ repr[g] = n
                THEN repr[n] ELSE IF g = n THEN n ELSE repr[g]]
  /\ phase' = phase

\* remove_choice of any other node: it is linked out of its list.
RemoveOther(n) ==
  LET r == Representative(n)
      tail == HeadOf(r)
  IN  /\ IsRepresentative(n) => tail = n
      /\ IF tail = n
         THEN /\ phase' = [phase EXCEPT ![r] = Plain(repr[n])]
              /\ repr' = [repr EXCEPT ![n] = n]
         ELSE /\ \E g \in Onwards(tail) \ {n} :
                   /\ repr[g] = n
                   /\ repr' = [repr EXCEPT ![g] = repr[n], ![n] = n]
              /\ phase' = phase

RemoveChoice(n) ==
  /\ RemoveRepresentative(n) \/ RemoveOther(n)
  /\ UNCHANGED <<known, deleted>>

\* delete_choice_from_network, which takes the node out of the network first.
\* Which nodes carry the choice flag it asks for is not modelled.
DeleteChoice(n) ==
  /\ RemoveRepresentative(n) \/ RemoveOther(n)
  /\ deleted' = deleted \cup {n}
  /\ UNCHANGED known

ClearChoices ==
  /\ repr' = [n \in Index |-> n]
  /\ phase' = [n \in Index |-> Plain(n)]
  /\ UNCHANGED <<known, deleted>>

-----------------------------------------------------------------------------
(* The specification.                                                      *)

Present == known \ deleted

Common ==
  \/ OnAdd
  \/ \E n1, n2 \in Present, c \in BOOLEAN : AddChoice(n1, n2, c)
  \/ \E n \in Present : UpdateRepresentative(n)
  \/ \E n \in Present : DeleteChoice(n)
  \/ ClearChoices

\* Clients remove a node they go on using only if it leads no other node, as
\* the mapper does (emap.hpp:5592).
Next ==
  \/ Common
  \/ \E n \in Present : (ChoicesOf(n) = {n} \/ ~IsRepresentative(n)) /\ RemoveChoice(n)
Spec == Init /\ [][Next]_vars

\* Other clients remove any node.
AnySpec == Init /\ [][Common \/ \E n \in Present : RemoveChoice(n)]_vars

-----------------------------------------------------------------------------
(* Safety.                                                                 *)

\* The steps that foreach_choice takes from n until it is at n again: down
\* to the representative, and down from the head.
Returns(n) ==
  /\ IsRepresentative(Representative(n))
  /\ n \in Onwards(HeadOf(Representative(n)))

\* foreach_choice started at any node comes back to it and visits its class,
\* all of it and nothing else; "the representative uses its field to point
\* to the head of the list" (choice_view.hpp:65).
ClassesListed ==
  \A n \in Present :
     /\ Returns(n)
     /\ ChoicesOf(n) = {m \in Present : Representative(m) = Representative(n)}

\* The lists keep the promise of choice_view: whatever is added, removed and
\* made the representative, nodes lead to the representatives they should
\* and have the polarity that follows from what clients said was equivalent.
Classes == INSTANCE ChoiceClasses WITH
  leader <- [n \in Index |-> Representative(n)],
  neg <- [n \in Index |-> Negated(n)]
ClassesKept == Classes!Spec
=============================================================================
