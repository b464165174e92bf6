--------------------------- MODULE ChoiceClasses ---------------------------
(***************************************************************************)
(* What choice_view promises (views/choice_view.hpp): a partition of the    *)
(* nodes into classes of equivalent nodes.  Every class has a               *)
(* representative, and every node a polarity with respect to it.  Nothing   *)
(* is said here of how the classes are stored.                              *)
(***************************************************************************)
EXTENDS Naturals, FiniteSetsExt

CONSTANT MaxNodes (* bound on the nodes of the network *)

VARIABLES
  known,   (* the nodes that the view has an entry for                     *)
  leader,  (* the representative of every node                             *)
  neg      (* whether a node is the complement of its representative       *)

Index == 0 .. MaxNodes - 1
ClassOf(n) == {m \in known : leader[m] = leader[n]}

Init ==
  /\ known = {0}
  /\ leader = [n \in Index |-> n]
  /\ neg = [n \in Index |-> FALSE]

Add ==
  /\ \E n \in Index \ known : known' = known \cup {n}
  /\ UNCHANGED <<leader, neg>>

\* n1 is equivalent to n2, complemented if c.  Nothing happens if both are
\* in one class; otherwise the lower one of the two representatives leads.
Merge(n1, n2, c) ==
  LET winner == Min({leader[n1], leader[n2]})
      loser == Max({leader[n1], leader[n2]})
      flip == (neg[n1] # neg[n2]) # c
      moved == {m \in Index : leader[m] = loser}
  IN  /\ winner # loser
      /\ leader' = [m \in Index |-> IF m \in moved THEN winner ELSE leader[m]]
      /\ neg' = [m \in Index |-> IF m \in moved THEN neg[m] # flip ELSE neg[m]]
      /\ UNCHANGED known

\* r, of the class of n, becomes its representative; polarities are turned
\* round if r was a complement.
Led(class, r) ==
  [leader |-> [m \in Index |-> IF m \in class THEN r ELSE leader[m]],
   neg |-> [m \in Index |-> IF m \in class THEN neg[m] # neg[r] ELSE neg[m]]]

Elect(n) ==
  LET led == Led(ClassOf(n), n)
  IN  /\ leader' = led.leader
      /\ neg' = led.neg
      /\ UNCHANGED known

\* n leaves its class.  If it was the representative, the lowest node that
\* is left takes over.
Leave(n) ==
  LET rest == ClassOf(n) \ {n}
      led == Led(rest, IF leader[n] = n /\ rest # {} THEN Min(rest) ELSE leader[n])
  IN  /\ leader' = [led.leader EXCEPT ![n] = n]
      /\ neg' = [led.neg EXCEPT ![n] = FALSE]
      /\ UNCHANGED known

Clear ==
  /\ leader' = [n \in Index |-> n]
  /\ neg' = [n \in Index |-> FALSE]
  /\ UNCHANGED known

Next ==
  \/ Add
  \/ \E n1, n2 \in known, c \in BOOLEAN : Merge(n1, n2, c)
  \/ \E n \in known : Elect(n)
  \/ \E n \in known : Leave(n)
  \/ Clear

Spec == Init /\ [][Next]_<<known, leader, neg>>
=============================================================================
