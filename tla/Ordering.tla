------------------------------- MODULE Ordering -------------------------------
(***************************************************************************)
(* What iteration over a dictionary and list.sort do to the order of       *)
(* things: the members of a finite set, one after the other.  A member's   *)
(* place follows from how many come before it, so that no permutation has  *)
(* to be chosen.                                                           *)
(***************************************************************************)
EXTENDS Integers, FiniteSets

(* So many members of S come before x. *)
Ahead(S, Before(_, _), x) == Cardinality({y \in S : Before(y, x)})

(* S as a sequence, where Before is a strict total order on it. *)
InOrder(S, Before(_, _)) ==
    [k \in 1 .. Cardinality(S) |-> CHOOSE x \in S : Ahead(S, Before, x) = k - 1]
=============================================================================
