----------------------------- MODULE Broadcast -----------------------------
(***************************************************************************)
(* The bounded broadcast channel of tokio::sync, from how a Buffer and its *)
(* subscribers use it: a send never waits; a receiver that is slower keeps *)
(* the newest messages and learns from its next recv that it lagged.       *)
(***************************************************************************)
EXTENDS Naturals, Sequences

CONSTANT TxCapacity  \* N, the length of the channel

ASSUME TxAssumption == TxCapacity \in Nat \ {0}

\* Defect: the channel is unbounded.
AllOf(messages) == messages

\* What the channel keeps of a message list for a receiver.
LastOnes(messages) ==
  IF Len(messages) <= TxCapacity THEN messages
  ELSE SubSeq(messages, Len(messages) - TxCapacity + 1, Len(messages))

\* One more message makes a receiver with these ones lag.
Overflows(messages) == Len(messages) = TxCapacity

=============================================================================
