---------------------------- MODULE FrameDelivery ----------------------------
(***************************************************************************)
(* What a Buffer promises to whoever pushes samples into it, without maps, *)
(* locks or capacities.  A sample is <<id, index>>.  It is accepted once   *)
(* and stays pending until it is delivered.  A delivery takes one id and   *)
(* makes all its pending samples, and no others, the latest batch.         *)
(*                                                                         *)
(* Nothing pending disappears in another way, and nothing is delivered     *)
(* that was not pending.  A batch may be empty: flush publishes frames     *)
(* whose only chunk was refused.                                           *)
(***************************************************************************)
EXTENDS Naturals

CONSTANTS Ids, Index

VARIABLES pending, latest

vars == <<pending, latest>>

Samples == Ids \X Index

PendingOf(id) == {s \in pending : s[1] = id}

Init ==
  /\ pending = {}
  /\ latest = {}

\* Some samples of one frame are taken; each of them is new.
Accept(id, indices) ==
  /\ ({id} \X indices) \cap pending = {}
  /\ pending' = pending \cup ({id} \X indices)
  /\ UNCHANGED latest

\* The frame with every pending sample of id is published.
Deliver(id) ==
  /\ latest' = PendingOf(id)
  /\ pending' = pending \ PendingOf(id)

Next ==
  \E id \in Ids :
    \/ \E indices \in SUBSET Index : Accept(id, indices)
    \/ Deliver(id)

Spec == Init /\ [][Next]_vars

=============================================================================
