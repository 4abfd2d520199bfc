---------------------------- MODULE MCFrameBuffer ----------------------------
(***************************************************************************)
(* Small instances of FrameBuffer.  Frames of two or three samples.        *)
(***************************************************************************)
EXTENDS FrameBuffer

\* For frames of two samples: a whole frame, the second half of one, an index
\* twice, which leaves the first half behind, and an index that does not exist,
\* which leaves an empty frame behind, and nothing.  The whole frame on top of the
\* second half is refused half way.
MCChunks == {<<>>, <<0, 1>>, <<1>>, <<0, 0>>, <<2>>}

\* For frames of three samples: two packets that share a sample.
MCOverlappingChunks == {<<0, 1>>, <<2, 0>>}

=============================================================================
