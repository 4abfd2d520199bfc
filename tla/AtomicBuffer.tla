---------------------------- MODULE AtomicBuffer ----------------------------
(***************************************************************************)
(* A Buffer whose calls are single steps: what Ingest takes each of its    *)
(* three buffers to be, and what FrameBuffer, with its mutex and its two   *)
(* writes per frame, is shown to be.  latest is what last_frame is once    *)
(* the call is over.  What a call does to the map is a parameter; Frames   *)
(* has the operators.                                                      *)
(***************************************************************************)
EXTENDS Naturals, Sequences

CONSTANTS
  Ids,
  Chunks,                    \* the index lists that callers push
  EmptyMap,                  \* the map without frames
  NoFrame,
  MapAfterPush(_, _, _),     \* the map after push_array(id, indices)
  PublishedByPush(_, _, _),  \* the frames that call publishes, in order
  NewestFrame(_)             \* the frame that flush publishes last

VARIABLES map, latest

vars == <<map, latest>>

Init ==
  /\ map = EmptyMap
  /\ latest = NoFrame

Push(id, indices) ==
  LET published == PublishedByPush(map, id, indices)
  IN  /\ map' = MapAfterPush(map, id, indices)
      /\ latest' = IF published = <<>> THEN latest ELSE published[Len(published)]

Flush ==
  /\ map # EmptyMap
  /\ map' = EmptyMap
  /\ latest' = NewestFrame(map)

Next ==
  \/ \E id \in Ids, indices \in Chunks : Push(id, indices)
  \/ Flush

\* The steps that change something.  To ask for the change first makes the check
\* of a refinement fast; the specification is that of [][Next]_vars.
Change == vars' # vars /\ Next

Spec == Init /\ [][Change]_vars

=============================================================================
