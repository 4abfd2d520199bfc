------------------------------ MODULE MCScrapes ------------------------------
(***************************************************************************)
(* A small instance of Scrapes.  The second frame lacks the second index.  *)
(***************************************************************************)
EXTENDS Scrapes, TLC

TwoMasks == <<{1, 2}, {1}>>

AnyClient == Permutations(Clients)

=============================================================================
