------------------------------- MODULE Frames -------------------------------
(***************************************************************************)
(* The frames that core/buffer.rs assembles from chunks of samples, and    *)
(* the map of partial frames a Buffer keeps.  Everything here is a pure    *)
(* operator: FrameBuffer puts a lock, subscribers and several callers      *)
(* around one such map, Ingest drives three of them from UDP packets.      *)
(*                                                                         *)
(* A sample is a slice of the frame's array along its split axis, known    *)
(* by its index.  The numbers stored in a slice are abstracted away: what  *)
(* decides every branch of the code is which slices have been written.     *)
(***************************************************************************)
EXTENDS Naturals, Sequences, FiniteSets, FiniteSetsExt

CONSTANTS
  Ids,                   \* the sequence ids that occur (u64 in the code)
  Width,                 \* length of the split axis: max_sample_count
  PartialFrameCapacity,  \* PARTIAL_FRAME_CAPACITY
  MinFrameSampleCount,   \* MIN_FRAME_SAMPLE_COUNT
  NoFrame                \* "no entry for this id"

Index == 0 .. (Width - 1)

Frame == [sequence_id : Ids, mask : SUBSET Index, sample_count : Nat]

ASSUME IdsAssumption      == Ids \subseteq Nat
ASSUME WidthAssumption    == Width \in Nat
ASSUME CapacityAssumption == PartialFrameCapacity \in Nat \ {0}
\* The code's value.  With a threshold of at most one sample, a frame that
\* eviction drops is a frame that holds nothing.
ASSUME MinCountAssumption == MinFrameSampleCount \in {0, 1}
ASSUME NoFrameAssumption  == NoFrame \notin Frame

-----------------------------------------------------------------------------
\* One frame.

NewFrame(id) == [sequence_id |-> id, mask |-> {}, sample_count |-> 0]

\* Defects: the bounds check, or the check for slices already written, is gone.
IsFreshOutOfBounds(frame, indices, n) == indices[n] \notin frame.mask
IsFreshAgain(frame, indices, n) == indices[n] \in Index

\* The n-th index of a chunk names a slice that exists, that was not written
\* before the chunk came, and that the chunk itself has not written yet.
IsFresh(frame, indices, n) ==
  /\ indices[n] \in Index
  /\ indices[n] \notin frame.mask
  /\ \A m \in 1 .. (n - 1) : indices[m] # indices[n]

\* insert_chunk writes slice after slice and bails at the first index that is
\* not fresh: the positions before it have been written, and stay written.
WrittenSlots(frame, indices) ==
  {n \in DOMAIN indices : \A m \in 1 .. n : IsFresh(frame, indices, m)}

InsertChunk(frame, indices) ==
  LET slots == WrittenSlots(frame, indices)
  IN  [frame EXCEPT !.mask = @ \cup {indices[n] : n \in slots},
                    !.sample_count = @ + Cardinality(slots)]

\* insert_chunk returned Ok rather than an error.
ChunkAccepted(frame, indices) == WrittenSlots(frame, indices) = DOMAIN indices

IsFull(frame) == frame.sample_count = Width

-----------------------------------------------------------------------------
\* The map of partial frames, a function from Ids that is NoFrame where the
\* BTreeMap has no entry.

PartialMaps == [Ids -> Frame \cup {NoFrame}]

EmptyMap == [id \in Ids |-> NoFrame]

Keys(partial) == {id \in Ids : partial[id] # NoFrame}

\* Defect: pop_last for pop_first.
NewestFirst(partial) == Max(Keys(partial))

Oldest(partial) == Min(Keys(partial))

\* Defect: late ids are not refused.
NeverTooOld(partial, id) == FALSE

\* push_array refuses an id it has no frame for when every frame it does have
\* is newer.
TooOld(partial, id) ==
  /\ partial[id] = NoFrame
  /\ Keys(partial) # {}
  /\ id < Oldest(partial)

\* Defect: the limit is tested one frame too late.
MustEvictLate(partial, id) ==
  /\ partial[id] = NoFrame
  /\ Cardinality(Keys(partial)) > PartialFrameCapacity

\* A frame has to be opened for id and the map is at its limit.
MustEvict(partial, id) ==
  /\ partial[id] = NoFrame
  /\ Cardinality(Keys(partial)) = PartialFrameCapacity

\* Defect: room is made before the code looks whether there is a frame for id.
OpenFrameAnyway(partial, id) ==
  LET atLimit == Cardinality(Keys(partial)) = PartialFrameCapacity
  IN  [k \in Ids |->
         IF k = id /\ (partial[id] = NoFrame \/ (atLimit /\ k = Oldest(partial)))
         THEN NewFrame(id)
         ELSE IF atLimit /\ k = Oldest(partial) THEN NoFrame
         ELSE partial[k]]

\* The map once it has a frame for id: the oldest frame made room if needed.
OpenFrame(partial, id) ==
  [k \in Ids |->
     IF k = id /\ partial[id] = NoFrame THEN NewFrame(id)
     ELSE IF MustEvict(partial, id) /\ k = Oldest(partial) THEN NoFrame
     ELSE partial[k]]

\* Defect: > for >= in the comparison with MIN_FRAME_SAMPLE_COUNT.
EvictedFrameAbove(partial, id) ==
  LET frame == partial[Oldest(partial)]
  IN  IF MustEvict(partial, id) /\ frame.sample_count > MinFrameSampleCount
      THEN <<frame>> ELSE <<>>

\* An eviction publishes the frame only if it holds enough samples.
EvictedFrame(partial, id) ==
  LET frame == partial[Oldest(partial)]
  IN  IF MustEvict(partial, id) /\ frame.sample_count >= MinFrameSampleCount
      THEN <<frame>> ELSE <<>>

\* Defect: the error of insert_chunk is not passed on.
PushAcceptedUnlessOld(partial, id, indices) == ~ TooOld(partial, id)

\* push_array returned Ok rather than an error.
PushAccepted(partial, id, indices) ==
  /\ ~ TooOld(partial, id)
  /\ ChunkAccepted(OpenFrame(partial, id)[id], indices)

FrameAfterPush(partial, id, indices) ==
  InsertChunk(OpenFrame(partial, id)[id], indices)

\* frame_ready: the chunk was taken whole and the frame has all its samples.
FrameReady(partial, id, indices) ==
  /\ PushAccepted(partial, id, indices)
  /\ IsFull(FrameAfterPush(partial, id, indices))

\* Defect: a full frame is published but not removed from the map.
MapKeepingReadyFrame(partial, id, indices) ==
  IF TooOld(partial, id) THEN partial
  ELSE [OpenFrame(partial, id) EXCEPT ![id] = FrameAfterPush(partial, id, indices)]

\* The map after push_array(id, indices).
MapAfterPush(partial, id, indices) ==
  IF TooOld(partial, id) THEN partial
  ELSE [OpenFrame(partial, id) EXCEPT
          ![id] = IF FrameReady(partial, id, indices) THEN NoFrame
                  ELSE FrameAfterPush(partial, id, indices)]

\* The frames push_array hands to push, in order.
PublishedByPush(partial, id, indices) ==
  IF TooOld(partial, id) THEN <<>>
  ELSE EvictedFrame(partial, id) \o
       (IF FrameReady(partial, id, indices)
        THEN <<FrameAfterPush(partial, id, indices)>> ELSE <<>>)

\* Defect: flush looks at the oldest frame and leaves it there.
PeekOldest(partial) == partial

\* One round of flush: pop_first.
WithoutOldest(partial) == [partial EXCEPT ![Oldest(partial)] = NoFrame]

\* The frame that flush publishes last.
NewestFrame(partial) == partial[Max(Keys(partial))]

=============================================================================
