----------------------------- MODULE FrameBuffer -----------------------------
(***************************************************************************)
(* One Buffer of core/buffer.rs as its callers and subscribers see it.     *)
(*                                                                         *)
(* Writers call push_vec/push_array and flush; each call holds the mutex   *)
(* of partial_frames from its first to its last step.  Under the mutex a   *)
(* call changes the map, then gives the frames that left it to push, which *)
(* first overwrites last_frame and then offers the frame to the broadcast  *)
(* channel.  Those two writes are separate steps: last_frame has a lock of *)
(* its own and readers do not take the mutex.                              *)
(*                                                                         *)
(* Readers are the two consumers of the channel, bad_input_task and        *)
(* accumulate.  Both give up at the first Lagged error.  The channel is    *)
(* tokio's: it keeps the last TxCapacity messages for a slow receiver.     *)
(***************************************************************************)
EXTENDS Frames, Broadcast

CONSTANTS
  Writers,     \* tasks that push and flush
  Readers,     \* tasks that subscribe
  Chunks,      \* the index lists that packets carry
  NoWriter     \* the mutex is free

ASSUME ChunksAssumption   == Chunks \subseteq Seq(Nat)
ASSUME NoWriterAssumption == NoWriter \notin Writers

VARIABLES
  partial,     \* partial_frames, the map the mutex protects
  lock,        \* holder of the mutex
  op,          \* [Writers -> the call in progress]
  outbox,      \* [Writers -> frames out of the map, not yet pushed]
  stored,      \* [Writers -> push has written last_frame, not yet sent]
  last_frame,  \* the most recently pushed frame
  listening,   \* [Readers -> holds a receiver]
  queue,       \* [Readers -> messages kept for the receiver]
  lagged,      \* [Readers -> messages were overwritten before it got them]
  heard,       \* [Readers -> newest frame the reader knows of]
  closed       \* history: ids evicted since the map was last empty

bufferVars == <<partial, lock, op, outbox, stored, last_frame, closed>>
readerVars == <<listening, queue, lagged, heard>>
vars       == <<bufferVars, readerVars>>

Init ==
  /\ partial = EmptyMap
  /\ lock = NoWriter
  /\ op = [w \in Writers |-> "idle"]
  /\ outbox = [w \in Writers |-> <<>>]
  /\ stored = [w \in Writers |-> FALSE]
  /\ last_frame = NoFrame
  /\ listening = [r \in Readers |-> FALSE]
  /\ queue = [r \in Readers |-> <<>>]
  /\ lagged = [r \in Readers |-> FALSE]
  /\ heard = [r \in Readers |-> NoFrame]
  /\ closed = {}

-----------------------------------------------------------------------------
\* Writers.

\* Defect: calls do not exclude each other.
AlwaysFree == TRUE

LockIsFree == lock = NoWriter

\* The history variable after the map became next and the ids in evicted left
\* it to make room.
ClosedAfter(next, evicted) ==
  IF Keys(next) = {} THEN {} ELSE closed \cup evicted

\* push_array up to the point where the frames that left the map are pushed.
\* A call that publishes nothing is over at once.
PushArray(w, id, indices) ==
  /\ op[w] = "idle"
  /\ LockIsFree
  /\ partial' = MapAfterPush(partial, id, indices)
  /\ outbox' = [outbox EXCEPT ![w] = PublishedByPush(partial, id, indices)]
  /\ IF outbox'[w] = <<>>
     THEN UNCHANGED <<lock, op>>
     ELSE /\ lock' = w
          /\ op' = [op EXCEPT ![w] = "push_array"]
  /\ closed' = ClosedAfter(partial',
                 IF MustEvict(partial, id) /\ ~ TooOld(partial, id)
                 THEN {Oldest(partial)} ELSE {})
  /\ UNCHANGED <<stored, last_frame, readerVars>>

\* flush pops the oldest frame, pushes it, and goes on until the map is empty.
\* A flush of an empty map changes nothing.
FlushPop(w) ==
  /\ \/ op[w] = "idle" /\ LockIsFree
     \/ op[w] = "flush" /\ outbox[w] = <<>>
  /\ Keys(partial) # {}
  /\ lock' = w
  /\ op' = [op EXCEPT ![w] = "flush"]
  /\ outbox' = [outbox EXCEPT ![w] = <<partial[Oldest(partial)]>>]
  /\ partial' = WithoutOldest(partial)
  /\ closed' = ClosedAfter(partial', {})
  /\ UNCHANGED <<stored, last_frame, readerVars>>

\* First half of push: overwrite last_frame.
StoreLastFrame(w) ==
  /\ outbox[w] # <<>>
  /\ ~ stored[w]
  /\ last_frame' = Head(outbox[w])
  /\ stored' = [stored EXCEPT ![w] = TRUE]
  /\ UNCHANGED <<partial, lock, op, outbox, closed, readerVars>>

\* Second half of push: send to the receivers there are.  The code asks for
\* receiver_count first; a send that nobody listens to has no effect either way.
SendToReceivers(w) ==
  /\ outbox[w] # <<>>
  /\ stored[w]
  /\ queue' = [r \in Readers |->
                 IF listening[r] THEN LastOnes(Append(queue[r], Head(outbox[w])))
                 ELSE queue[r]]
  /\ lagged' = [r \in Readers |->
                  lagged[r] \/ (listening[r] /\ Overflows(queue[r]))]
  /\ outbox' = [outbox EXCEPT ![w] = Tail(@)]
  /\ stored' = [stored EXCEPT ![w] = FALSE]
  /\ UNCHANGED <<partial, lock, op, last_frame, closed, listening, heard>>

\* The call returns and drops the guard of the mutex.
Return(w) ==
  /\ op[w] # "idle"
  /\ outbox[w] = <<>>
  /\ op[w] = "flush" => Keys(partial) = {}
  /\ lock' = NoWriter
  /\ op' = [op EXCEPT ![w] = "idle"]
  /\ UNCHANGED <<partial, outbox, stored, last_frame, closed, readerVars>>

-----------------------------------------------------------------------------
\* Readers.

\* A new receiver gets the messages sent from now on.
Subscribe(r) ==
  /\ ~ listening[r]
  /\ listening' = [listening EXCEPT ![r] = TRUE]
  /\ heard' = [heard EXCEPT ![r] = last_frame]
  /\ UNCHANGED <<bufferVars, queue, lagged>>

Receive(r) ==
  /\ listening[r]
  /\ ~ lagged[r]
  /\ queue[r] # <<>>
  /\ heard' = [heard EXCEPT ![r] = Head(queue[r])]
  /\ queue' = [queue EXCEPT ![r] = Tail(@)]
  /\ UNCHANGED <<bufferVars, listening, lagged>>

\* The receiver is dropped.
Unsubscribed(r) ==
  /\ listening' = [listening EXCEPT ![r] = FALSE]
  /\ queue' = [queue EXCEPT ![r] = <<>>]
  /\ lagged' = [lagged EXCEPT ![r] = FALSE]
  /\ heard' = [heard EXCEPT ![r] = NoFrame]
  /\ UNCHANGED bufferVars

\* recv returns Lagged: accumulate bails, bad_input_task returns the error.
GiveUp(r) ==
  /\ listening[r]
  /\ lagged[r]
  /\ Unsubscribed(r)

\* accumulate has its n frames, or waited too long for the next one.
Leave(r) ==
  /\ listening[r]
  /\ ~ lagged[r]
  /\ Unsubscribed(r)

-----------------------------------------------------------------------------

WriterStep(w) ==
  \/ FlushPop(w)
  \/ StoreLastFrame(w)
  \/ SendToReceivers(w)
  \/ Return(w)

Next ==
  \/ \E w \in Writers :
       \/ \E id \in Ids, indices \in Chunks : PushArray(w, id, indices)
       \/ WriterStep(w)
  \/ \E r \in Readers :
       \/ Subscribe(r)
       \/ Receive(r)
       \/ GiveUp(r)
       \/ Leave(r)

\* The call that holds the mutex is executed to its end: it blocks on nothing
\* while it does.  Nobody has to make calls, subscribe or receive.
Fairness ==
  WF_vars(\E w \in Writers : op[w] # "idle" /\ WriterStep(w))

Spec     == Init /\ [][Next]_vars
FairSpec == Spec /\ Fairness

-----------------------------------------------------------------------------
\* Properties.

FramesOf(w) == {outbox[w][n] : n \in DOMAIN outbox[w]}

\* Every frame there is, in the map or on its way out of it.
LiveFrames ==
  {partial[id] : id \in Keys(partial)} \cup UNION {FramesOf(w) : w \in Writers}

TypeOK ==
  /\ partial \in PartialMaps
  /\ lock \in Writers \cup {NoWriter}
  /\ op \in [Writers -> {"idle", "push_array", "flush"}]
  /\ outbox \in [Writers -> Seq(Frame)]
  /\ stored \in [Writers -> BOOLEAN]
  /\ last_frame \in Frame \cup {NoFrame}
  /\ listening \in [Readers -> BOOLEAN]
  /\ queue \in [Readers -> Seq(Frame)]
  /\ lagged \in [Readers -> BOOLEAN]
  /\ heard \in [Readers -> Frame \cup {NoFrame}]
  /\ closed \in SUBSET Ids

\* sample_count, kept by hand next to the mask, is the number of slices
\* written, also after chunks that were refused half way.  The comparison of
\* sample_count with max_sample_count is the only test for completeness.
CountMatchesMask ==
  /\ \A id \in Keys(partial) :
       /\ partial[id].sequence_id = id
       /\ partial[id].sample_count = Cardinality(partial[id].mask)
  /\ \A w \in Writers : \A f \in FramesOf(w) :
       f.sample_count = Cardinality(f.mask)

\* The map never outgrows PARTIAL_FRAME_CAPACITY, whatever was opened by
\* chunks that were then refused.
MapBounded == Cardinality(Keys(partial)) <= PartialFrameCapacity

\* An id whose frame was evicted unfinished cannot come back, with its late
\* samples, while any frame that was in the map since then is still there: no
\* frame is published a second time in that way.
EvictedStayClosed ==
  \A c \in closed : \A id \in Keys(partial) : c < id

\* As long as frames are in progress, the oldest of them never gets older: a
\* packet that is late or comes twice cannot bring back a frame from before it.
\* Only an id above the oldest frame, or one that finds the map empty, can be
\* opened after its frame was published.
OldestOnlyAdvances ==
  [][Keys(partial) # {} /\ Keys(partial') # {}
       => Min(Keys(partial)) <= Min(Keys(partial'))]_vars

\* Between pushes the newest frame a subscriber has heard of, or is about to,
\* is last_frame, even if it lagged: the order in which two writers overwrite
\* last_frame is the order in which they send.
SubscribersAgreeWithLastFrame ==
  (\A w \in Writers : ~ stored[w]) =>
    \A r \in Readers : listening[r] =>
      last_frame = IF queue[r] = <<>> THEN heard[r] ELSE queue[r][Len(queue[r])]

\* push_array takes an unfinished frame out of the map only when the map is at
\* its limit, and takes the oldest one; flush takes the oldest one.  The frame
\* that push_array was asked to fill is never the one that makes room: a frame
\* whose id stays in the map keeps its samples, and one that leaves with all its
\* samples is the only one to leave.
UnfinishedLeaveOldestFirst ==
  [][/\ \A id \in Keys(partial) \ Keys(partial') :
          \/ \E w \in Writers :
               /\ Len(outbox'[w]) = 1
               /\ Head(outbox'[w]).sequence_id = id
               /\ IsFull(Head(outbox'[w]))
          \/ /\ id = Min(Keys(partial))
             /\ \/ \E w \in Writers : op'[w] = "flush"
                \/ Cardinality(Keys(partial)) = PartialFrameCapacity
     /\ \A id \in Keys(partial) \cap Keys(partial') :
          partial[id].mask \subseteq partial'[id].mask]_vars

\* A call returns: flush and the pushes under the mutex come to an end and the
\* mutex is free again.
CallsReturn == lock # NoWriter ~> lock = NoWriter

\* The steps that the call of w has still to take: two for each frame it has to
\* push, one more for each frame it has to pop, and its return.
StepsLeft(w) ==
  IF op[w] = "idle" THEN 0
  ELSE 1 + 2 * Len(outbox[w]) - (IF stored[w] THEN 1 ELSE 0)
         + (IF op[w] = "flush" THEN 3 * Cardinality(Keys(partial)) ELSE 0)

\* A call holds the mutex for at most as many pushes as the map has frames, or
\* for two if it is one of push_array.
CallsAreShort ==
  \A w \in Writers :
    StepsLeft(w) <= IF op[w] = "flush" THEN 3 * PartialFrameCapacity ELSE 5

\* While a call is in progress no step of another writer changes the buffer, and
\* each of its own brings it closer to its end.
CallsCountDown ==
  [][\A w \in Writers : op[w] # "idle" =>
       UNCHANGED bufferVars \/ StepsLeft(w)' = StepsLeft(w) - 1]_vars

-----------------------------------------------------------------------------
\* What FrameDelivery promises is what this buffer does: a sample taken by
\* insert_chunk is pending until the frame with exactly the pending samples of
\* its id becomes last_frame.

FrameSamples(f) == {f.sequence_id} \X f.mask

\* The frames of w that last_frame does not show yet.
Unseen(w) ==
  {outbox[w][n] : n \in {m \in DOMAIN outbox[w] : stored[w] => m > 1}}

PendingSamples ==
  UNION {FrameSamples(f) : f \in
           {partial[id] : id \in Keys(partial)} \cup UNION {Unseen(w) : w \in Writers}}

LatestBatch ==
  IF last_frame = NoFrame THEN {} ELSE FrameSamples(last_frame)

Delivery == INSTANCE FrameDelivery WITH
  pending <- PendingSamples, latest <- LatestBatch

\* The buffer implements FrameDelivery: no accepted sample is lost, none is
\* published twice, and those of one frame are published together.
ImplementsDelivery == Delivery!Spec

\* What the map is once the call in progress is over, and what last_frame is.
Flushing == \E w \in Writers : op[w] = "flush"

MapAfterCall == IF Flushing THEN EmptyMap ELSE partial

LatestAfterCall ==
  IF Flushing /\ Keys(partial) # {} THEN NewestFrame(partial)
  ELSE IF \E w \in Writers : outbox[w] # <<>>
       THEN LET w == CHOOSE v \in Writers : outbox[v] # <<>>
            IN  outbox[w][Len(outbox[w])]
       ELSE last_frame

Atomic == INSTANCE AtomicBuffer WITH
  map <- MapAfterCall, latest <- LatestAfterCall

\* However the calls of several writers overlap, and although flush lets go of
\* frame after frame, each call takes effect as a whole and at once.
ImplementsAtomic == Atomic!Spec

\* The doc of Buffer: "Once a Frame is complete, it gets pushed to all
\* subscribers".  Between calls no frame in the map has all its samples.
CompleteFramesArePushed ==
  \A id \in Keys(partial) : ~ IsFull(partial[id])

=============================================================================
