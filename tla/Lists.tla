-------------------------------- MODULE Lists --------------------------------
(***************************************************************************)
(* Lists some elements of which are deleted, in the order they are walked.  *)
(***************************************************************************)
EXTENDS Naturals, FiniteSets

\* The elements at these places, in their order.
Picked(bs, places) ==
  [n \in 1..Cardinality(places) |-> bs[CHOOSE i \in places : Cardinality({j \in places : j <= i}) = n]]
=============================================================================
