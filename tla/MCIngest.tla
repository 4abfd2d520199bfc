------------------------------ MODULE MCIngest ------------------------------
(***************************************************************************)
(* Small instances of Ingest.  Frames have two samples.                    *)
(***************************************************************************)
EXTENDS Ingest

Datagram(kind, id, freqs) ==
  [parses |-> TRUE, kind |-> kind, seq_num |-> id, freq_ids |-> freqs]

Garbage == [parses |-> FALSE, kind |-> "none", seq_num |-> 1, freq_ids |-> <<>>]

\* Three frames for a map of two, in halves, one datagram of another observation
\* and one that does not parse; no sample twice.
CleanPackets ==
  {Datagram("a", 1, <<0>>), Datagram("a", 1, <<1>>),
   Datagram("a", 2, <<0>>), Datagram("a", 2, <<1>>),
   Datagram("a", 3, <<1>>), Datagram("b", 2, <<>>), Garbage}

\* Whole frames, an index that does not exist after one that does, an index
\* twice, another observation.
RetransmittedPackets ==
  {Datagram("a", 1, <<0, 1>>), Datagram("a", 2, <<1, 0>>), Datagram("a", 2, <<0, 2>>),
   Datagram("a", 1, <<1, 1>>), Datagram("b", 1, <<1>>)}

\* Half a frame, and a source that has been set up anew since: its header is
\* another one, and all it sends from now on is refused.
ReconfiguredPackets == {Datagram("a", 1, <<0>>), Datagram("b", 2, <<1>>)}

=============================================================================
