-------------------------- MODULE FrameBufferProofs --------------------------
(***************************************************************************)
(* Theorems about FrameBuffer, for every set of writers, readers, ids and  *)
(* chunks, every frame width and every capacity of the map and of the      *)
(* channel.  FrameProofs has the facts about the map they rest on.         *)
(***************************************************************************)
EXTENDS FrameBuffer, FrameProofs

\* The map is well formed and the history of evictions lies below it.
MapInv ==
  /\ WellFormedMap(partial)
  /\ EvictedStayClosed
  /\ Keys(partial) = {} => closed = {}
  /\ closed \in SUBSET Ids

\* The mutex belongs to the writer that is in a call, only that writer has
\* frames to push, and between the two writes of push it is the frame shown.
LockInv ==
  /\ lock \in Writers \cup {NoWriter}
  /\ op \in [Writers -> {"idle", "push_array", "flush"}]
  /\ outbox \in [Writers -> Seq(CountedFrame)]
  /\ stored \in [Writers -> BOOLEAN]
  /\ last_frame \in Frame \cup {NoFrame}
  /\ \A w \in Writers :
       /\ op[w] # "idle" <=> lock = w
       /\ outbox[w] # <<>> => lock = w
       /\ stored[w] => outbox[w] # <<>> /\ last_frame = Head(outbox[w])

\* Messages are kept for those who listen, and the newest of them is the frame
\* shown.
ReaderInv ==
  /\ listening \in [Readers -> BOOLEAN]
  /\ queue \in [Readers -> Seq(Frame)]
  /\ lagged \in [Readers -> BOOLEAN]
  /\ heard \in [Readers -> Frame \cup {NoFrame}]
  /\ \A r \in Readers : queue[r] # <<>> => listening[r]
  /\ SubscribersAgreeWithLastFrame

IInv == MapInv /\ LockInv /\ ReaderInv

-----------------------------------------------------------------------------
\* One lemma for each part of the state a step can disturb.

\* A chunk is a list of naturals.
LEMMA ChunkIsSeq == ASSUME NEW c \in Chunks PROVE c \in Seq(Nat)
BY ChunksAssumption

\* A push opens no id at or below one that eviction has closed.
LEMMA PushKeepsMapInv ==
  ASSUME MapInv, NEW w \in Writers, NEW id \in Ids, NEW indices \in Chunks,
         PushArray(w, id, indices)
  PROVE  MapInv'
<1> USE ChunkIsSeq
<1> DEFINE next    == MapAfterPush(partial, id, indices)
           evicted == IF MustEvict(partial, id) /\ ~ TooOld(partial, id)
                      THEN {Oldest(partial)} ELSE {}
<1>1. partial' = next /\ closed' = ClosedAfter(next, evicted)
  BY DEF PushArray
<1>2. WellFormedMap(next)
  BY PushKeepsMap DEF MapInv
<1>3. CASE TooOld(partial, id)
  <2>1. next = partial /\ evicted = {}
    BY <1>3 DEF MapAfterPush
  <2> QED  BY <1>1, <1>2, <2>1 DEF MapInv, ClosedAfter, EvictedStayClosed
<1>4. CASE ~ TooOld(partial, id)
  <2>1. Keys(next) \subseteq Keys(OpenFrame(partial, id))
    <3>1. OpenFrame(partial, id) \in PartialMaps /\ id \in Keys(OpenFrame(partial, id))
      BY OpenKeepsMap DEF MapInv, WellFormedMap
    <3> QED  BY <1>4, <3>1 DEF MapAfterPush, Keys, PartialMaps
  <2>2. Keys(next) \subseteq (Keys(partial) \cup {id}) \ evicted
    BY <1>4, <2>1, OpenKeepsMap DEF MapInv
  <2>3. evicted \subseteq Keys(partial) /\ evicted \subseteq Ids
    BY EvictionHasVictim DEF MapInv, Keys
  <2>4. \A c \in closed, k \in Keys(partial) : c < k
    BY DEF MapInv, EvictedStayClosed
  <2>5. closed \subseteq Nat /\ Ids \subseteq Nat
    BY IdsAssumption DEF MapInv
  <2>6. \A c \in closed : c < id
    <3>1. CASE id \in Keys(partial)
      BY <3>1, <2>4
    <3>2. CASE Keys(partial) = {}
      BY <3>2 DEF MapInv
    <3>3. CASE id \notin Keys(partial) /\ Keys(partial) # {}
      <4>1. Oldest(partial) \in Keys(partial) /\ ~ (id < Oldest(partial))
        BY <1>4, <3>3, OldestIsLeast DEF TooOld, Keys, MapInv, WellFormedMap
      <4>2. \A c \in closed : c < Oldest(partial)
        BY <2>4, <4>1
      <4>3. Oldest(partial) \in Nat /\ id \in Nat
        BY <2>5, <4>1 DEF Keys
      <4> QED  BY <2>5, <4>1, <4>2, <4>3
    <3> QED  BY <3>1, <3>2, <3>3
  <2>7. \A c \in evicted : \A k \in (Keys(partial) \cup {id}) \ evicted : c < k
    <3> SUFFICES ASSUME MustEvict(partial, id),
                        NEW k \in (Keys(partial) \cup {id}) \ evicted
                 PROVE  Oldest(partial) < k
      OBVIOUS
    <3>1. /\ Oldest(partial) \in Keys(partial)
          /\ \A j \in Keys(partial) : Oldest(partial) <= j
          /\ Oldest(partial) # id
      BY EvictionHasVictim DEF MapInv
    <3>2. Oldest(partial) \in Nat /\ k \in Nat /\ id \in Nat
      BY <2>5, <3>1 DEF Keys
    <3>3. k # Oldest(partial)
      BY <1>4
    <3>4. CASE k \in Keys(partial)
      BY <3>1, <3>2, <3>3, <3>4
    <3>5. CASE k = id
      <4>1. partial[id] = NoFrame
        BY DEF MustEvict
      <4>2. ~ (id < Oldest(partial))
        BY <1>4, <3>1, <4>1 DEF TooOld
      <4> QED  BY <3>2, <3>3, <3>5, <4>2
    <3> QED  BY <3>4, <3>5
  <2>8. closed' \subseteq closed \cup evicted /\ (Keys(next) = {} => closed' = {})
    BY <1>1 DEF ClosedAfter
  <2>9. \A c \in closed' : \A k \in Keys(partial') : c < k
    <3> HIDE DEF next, evicted
    <3> QED  BY <1>1, <2>2, <2>4, <2>6, <2>7, <2>8
  <2>10. closed' \in SUBSET Ids
    BY <2>3, <2>8 DEF MapInv
  <2> QED  BY <1>1, <1>2, <2>8, <2>9, <2>10 DEF MapInv, EvictedStayClosed
<1> QED  BY <1>3, <1>4

\* A round of flush opens nothing, and forgets the evictions with the last frame.
LEMMA PopKeepsMapInv ==
  ASSUME MapInv, NEW w \in Writers, FlushPop(w)
  PROVE  MapInv'
<1>1. partial' = WithoutOldest(partial) /\ Keys(partial) # {}
  BY DEF FlushPop
<1>2. closed' = ClosedAfter(partial', {})
  BY DEF FlushPop
<1>3. WellFormedMap(partial') /\ Keys(partial') \subseteq Keys(partial)
  BY <1>1, PopKeepsMap DEF MapInv
<1> QED  BY <1>2, <1>3 DEF MapInv, ClosedAfter, EvictedStayClosed

\* Steps that leave the map alone.
LEMMA MapUnchanged ==
  ASSUME MapInv, UNCHANGED <<partial, closed>>
  PROVE  MapInv'
BY DEF MapInv, EvictedStayClosed, Keys

-----------------------------------------------------------------------------

\* Counted frames are frames.
LEMMA CountedAreFrames == CountedFrame \subseteq Frame
BY DEF CountedFrame

\* Every step of a call is taken by the writer that holds the mutex, or by one
\* that finds it free.
LEMMA StepKeepsLockInv ==
  ASSUME MapInv, LockInv, [Next]_vars
  PROVE  LockInv'
<1> USE NoWriterAssumption DEF LockInv
<1>1. ASSUME NEW w \in Writers, NEW id \in Ids, NEW indices \in Chunks,
             PushArray(w, id, indices)
      PROVE  LockInv'
  <2>1. PublishedByPush(partial, id, indices) \in Seq(CountedFrame)
    BY PushPublishesFrames, ChunkIsSeq DEF MapInv
  <2>2. lock = NoWriter /\ \A v \in Writers : outbox[v] = <<>> /\ ~ stored[v] /\ op[v] = "idle"
    BY <1>1 DEF PushArray, LockIsFree
  <2>3. outbox' = [outbox EXCEPT ![w] = PublishedByPush(partial, id, indices)]
    BY <1>1 DEF PushArray
  <2>4. UNCHANGED <<stored, last_frame>>
    BY <1>1 DEF PushArray
  <2>5. CASE outbox'[w] = <<>>
    <3>1. UNCHANGED <<lock, op>>
      BY <1>1, <2>5 DEF PushArray
    <3> QED  BY <2>1, <2>2, <2>3, <2>4, <2>5, <3>1
  <2>6. CASE outbox'[w] # <<>>
    <3>1. lock' = w /\ op' = [op EXCEPT ![w] = "push_array"]
      BY <1>1, <2>6 DEF PushArray
    <3> QED  BY <2>1, <2>2, <2>3, <2>4, <3>1
  <2> QED  BY <2>5, <2>6
<1>2. ASSUME NEW w \in Writers, FlushPop(w)
      PROVE  LockInv'
  <2>1. partial[Oldest(partial)] \in CountedFrame
    BY <1>2, PopKeepsMap DEF FlushPop, MapInv, CountedFrame
  <2>2. lock \in {NoWriter, w} /\ \A v \in Writers : outbox[v] = <<>> /\ ~ stored[v]
    BY <1>2 DEF FlushPop, LockIsFree
  <2>3. \A v \in Writers : v # w => op[v] = "idle"
    BY <2>2
  <2> QED  BY <1>2, <2>1, <2>2, <2>3 DEF FlushPop
<1>3. ASSUME NEW w \in Writers, StoreLastFrame(w)
      PROVE  LockInv'
  <2>1. lock = w /\ Head(outbox[w]) \in CountedFrame
    BY <1>3, HeadTailProperties DEF StoreLastFrame
  <2>2. \A v \in Writers : v # w => ~ stored[v]
    BY <2>1
  <2> QED  BY <1>3, <2>1, <2>2, CountedAreFrames DEF StoreLastFrame
<1>4. ASSUME NEW w \in Writers, SendToReceivers(w)
      PROVE  LockInv'
  <2>1. lock = w /\ Tail(outbox[w]) \in Seq(CountedFrame)
    BY <1>4, HeadTailProperties DEF SendToReceivers
  <2>2. \A v \in Writers : v # w => ~ stored[v] /\ outbox[v] = <<>>
    BY <2>1
  <2> QED  BY <1>4, <2>1, <2>2 DEF SendToReceivers
<1>5. ASSUME NEW w \in Writers, Return(w)
      PROVE  LockInv'
  <2>1. lock = w /\ \A v \in Writers : outbox[v] = <<>> /\ ~ stored[v]
    BY <1>5 DEF Return
  <2>2. \A v \in Writers : v # w => op[v] = "idle"
    BY <2>1
  <2> QED  BY <1>5, <2>1, <2>2 DEF Return
<1>6. ASSUME UNCHANGED bufferVars
      PROVE  LockInv'
  BY <1>6 DEF bufferVars
<1>7. ASSUME NEW r \in Readers, Subscribe(r) \/ Receive(r) \/ GiveUp(r) \/ Leave(r)
      PROVE  UNCHANGED bufferVars
  BY <1>7 DEF Subscribe, Receive, GiveUp, Leave, Unsubscribed
<1> QED  BY <1>1, <1>2, <1>3, <1>4, <1>5, <1>6, <1>7 DEF Next, WriterStep, vars

\* The channel keeps the newest message, however many it has to drop.
LEMMA LastOnesKeepsNewest ==
  ASSUME NEW q \in Seq(Frame), NEW f \in Frame
  PROVE  /\ LastOnes(Append(q, f)) \in Seq(Frame)
         /\ LastOnes(Append(q, f)) # <<>>
         /\ LastOnes(Append(q, f))[Len(LastOnes(Append(q, f)))] = f
<1> DEFINE all == Append(q, f)
           lo  == Len(all) - TxCapacity + 1
<1>1. all \in Seq(Frame) /\ all # <<>> /\ Len(all) = Len(q) + 1 /\ all[Len(q) + 1] = f
  BY AppendProperties
<1>2. CASE Len(all) <= TxCapacity
  BY <1>1, <1>2 DEF LastOnes
<1>3. CASE ~ (Len(all) <= TxCapacity)
  <2>1. TxCapacity \in Nat \ {0} /\ Len(all) \in Nat
    BY <1>1, TxAssumption
  <2> HIDE DEF all
  <2>2. lo \in 1 .. Len(all) /\ Len(all) - lo + 1 = TxCapacity
    BY <1>3, <2>1
  <2>3. \A i \in lo .. Len(all) : all[i] \in Frame
    BY <1>1, <2>2
  <2>4. /\ SubSeq(all, lo, Len(all)) \in Seq(Frame)
        /\ Len(SubSeq(all, lo, Len(all))) = TxCapacity
        /\ SubSeq(all, lo, Len(all))[TxCapacity] = all[Len(all)]
    <3> HIDE DEF lo
    <3> QED  BY <2>1, <2>2, <2>3, SubSeqProperties
  <2>5. LastOnes(all) = SubSeq(all, lo, Len(all))
    BY <1>3 DEF LastOnes
  <2> DEFINE kept == SubSeq(all, lo, Len(all))
  <2>6. kept \in Seq(Frame) /\ Len(kept) = TxCapacity /\ kept[Len(kept)] = f
    BY <1>1, <2>4
  <2>7. LastOnes(all) = kept
    BY <2>5
  <2> HIDE DEF kept
  <2>8. kept # <<>>
    BY <2>1, <2>6
  <2> QED  BY <2>6, <2>7, <2>8 DEF all
<1> QED  BY <1>2, <1>3

\* The last message of a queue is what its receiver will have heard of last.
LEMMA TailKeepsLast ==
  ASSUME NEW S, NEW q \in Seq(S), q # <<>>
  PROVE  (IF Tail(q) = <<>> THEN Head(q) ELSE Tail(q)[Len(Tail(q))]) = q[Len(q)]
<1> DEFINE t == Tail(q)
<1>1. /\ t \in Seq(S)
      /\ Len(t) = Len(q) - 1
      /\ \A i \in 1 .. Len(t) : t[i] = q[i + 1]
  BY HeadTailProperties
<1>2. Len(q) \in Nat \ {0}
  BY EmptySeq
<1>3. CASE t = <<>>
  <2>1. Len(t) = 0
    BY <1>3, EmptySeq
  <2>2. Len(q) = 1
    <3> HIDE DEF t
    <3> QED  BY <1>1, <1>2, <2>1
  <2> QED  BY <1>3, <2>2
<1>4. CASE t # <<>>
  <2>1. Len(t) \in Nat \ {0}
    <3> HIDE DEF t
    <3> QED  BY <1>1, <1>4, EmptySeq
  <2>2. t[Len(t)] = q[Len(q)]
    <3> HIDE DEF t
    <3> QED  BY <1>1, <1>2, <2>1
  <2> QED  BY <1>4, <2>2
<1> QED  BY <1>3, <1>4

\* Steps that touch neither what is shown nor what is sent leave the readers'
\* agreement as it is.
LEMMA StepKeepsReaderInv ==
  ASSUME LockInv, ReaderInv, LockInv', [Next]_vars
  PROVE  ReaderInv'
<1> DEFINE Newest(r) == IF queue[r] = <<>> THEN heard[r] ELSE queue[r][Len(queue[r])]
<1>1. ASSUME UNCHANGED <<stored, last_frame, readerVars>>
      PROVE  ReaderInv'
  BY <1>1 DEF ReaderInv, readerVars, SubscribersAgreeWithLastFrame
<1>2. ASSUME NEW w \in Writers, StoreLastFrame(w)
      PROVE  ReaderInv'
  <2>1. stored'[w] /\ UNCHANGED readerVars
    BY <1>2 DEF StoreLastFrame, LockInv
  <2> QED  BY <2>1 DEF ReaderInv, readerVars, SubscribersAgreeWithLastFrame
<1>3. ASSUME NEW w \in Writers, SendToReceivers(w)
      PROVE  ReaderInv'
  <2> DEFINE f == Head(outbox[w])
  <2>1. f \in Frame /\ last_frame = f /\ last_frame' = f
    BY <1>3, HeadTailProperties, CountedAreFrames DEF SendToReceivers, LockInv
  <2>2. UNCHANGED <<listening, heard>>
    BY <1>3 DEF SendToReceivers
  <2>3. queue' = [r \in Readers |-> IF listening[r] THEN LastOnes(Append(queue[r], f)) ELSE queue[r]]
    BY <1>3 DEF SendToReceivers
  <2>4. lagged' \in [Readers -> BOOLEAN]
    BY <1>3 DEF SendToReceivers, ReaderInv
  <2> HIDE DEF f
  <2>5. ASSUME NEW r \in Readers
        PROVE  /\ queue'[r] \in Seq(Frame)
               /\ queue'[r] # <<>> => listening'[r]
               /\ listening'[r] => queue'[r] # <<>> /\ queue'[r][Len(queue'[r])] = last_frame'
    <3>1. queue[r] \in Seq(Frame)
      BY DEF ReaderInv
    <3>2. CASE listening[r]
      <4>1. queue'[r] = LastOnes(Append(queue[r], f))
        BY <2>3, <3>2
      <4> QED  BY <2>1, <2>2, <3>1, <3>2, <4>1, LastOnesKeepsNewest
    <3>3. CASE ~ listening[r]
      <4>1. queue'[r] = queue[r]
        BY <2>3, <3>3
      <4> QED  BY <2>2, <3>1, <3>3, <4>1 DEF ReaderInv
    <3> QED  BY <3>2, <3>3
  <2>6. queue' \in [Readers -> Seq(Frame)]
    BY <2>3, <2>5
  <2> QED  BY <2>2, <2>4, <2>5, <2>6 DEF ReaderInv, SubscribersAgreeWithLastFrame
<1>4. ASSUME NEW r \in Readers, Subscribe(r)
      PROVE  ReaderInv'
  BY <1>4 DEF Subscribe, bufferVars, ReaderInv, LockInv, SubscribersAgreeWithLastFrame
<1>5. ASSUME NEW r \in Readers, Receive(r)
      PROVE  ReaderInv'
  <2> DEFINE q == queue[r]
  <2>1. q \in Seq(Frame) /\ q # <<>> /\ listening[r]
    BY <1>5 DEF Receive, ReaderInv
  <2>2. Head(q) \in Frame /\ Tail(q) \in Seq(Frame)
    BY <2>1, HeadTailProperties
  <2>3. (IF Tail(q) = <<>> THEN Head(q) ELSE Tail(q)[Len(Tail(q))]) = q[Len(q)]
    BY <2>1, TailKeepsLast
  <2>4. /\ queue' = [queue EXCEPT ![r] = Tail(q)]
        /\ heard' = [heard EXCEPT ![r] = Head(q)]
        /\ UNCHANGED <<listening, lagged, stored, last_frame>>
    BY <1>5 DEF Receive, bufferVars
  <2>5. /\ queue \in [Readers -> Seq(Frame)]
        /\ heard \in [Readers -> Frame \cup {NoFrame}]
    BY DEF ReaderInv
  <2>6. \A s \in Readers : s # r => queue'[s] = queue[s] /\ heard'[s] = heard[s]
    BY <2>4, <2>5
  <2>7. queue'[r] = Tail(q) /\ heard'[r] = Head(q)
    BY <2>4, <2>5
  <2>8. /\ queue' \in [Readers -> Seq(Frame)]
        /\ heard' \in [Readers -> Frame \cup {NoFrame}]
    BY <2>2, <2>4, <2>5
  <2>9. \A s \in Readers : queue'[s] # <<>> => listening'[s]
    BY <2>1, <2>4, <2>6 DEF ReaderInv
  <2>10. SubscribersAgreeWithLastFrame'
    <3> SUFFICES ASSUME \A w \in Writers : ~ stored[w],
                        NEW s \in Readers, listening[s]
                 PROVE  last_frame = IF queue'[s] = <<>> THEN heard'[s]
                                     ELSE queue'[s][Len(queue'[s])]
      BY <2>4 DEF SubscribersAgreeWithLastFrame
    <3>1. last_frame = IF queue[s] = <<>> THEN heard[s] ELSE queue[s][Len(queue[s])]
      BY DEF ReaderInv, SubscribersAgreeWithLastFrame
    <3>2. CASE s = r
      BY <2>1, <2>3, <2>7, <3>1, <3>2
    <3>3. CASE s # r
      BY <2>6, <3>1, <3>3
    <3> QED  BY <3>2, <3>3
  <2> HIDE DEF q
  <2> QED  BY <2>4, <2>8, <2>9, <2>10 DEF ReaderInv
<1>6. ASSUME NEW r \in Readers, Unsubscribed(r)
      PROVE  ReaderInv'
  BY <1>6 DEF Unsubscribed, bufferVars, ReaderInv, SubscribersAgreeWithLastFrame
<1>7. ASSUME NEW w \in Writers, NEW id \in Ids, NEW indices \in Chunks,
             PushArray(w, id, indices)
      PROVE  UNCHANGED <<stored, last_frame, readerVars>>
  BY <1>7 DEF PushArray
<1>8. ASSUME NEW w \in Writers, FlushPop(w) \/ Return(w)
      PROVE  UNCHANGED <<stored, last_frame, readerVars>>
  BY <1>8 DEF FlushPop, Return
<1>9. CASE UNCHANGED vars
  BY <1>1, <1>9 DEF vars, bufferVars
<1> QED  BY <1>1, <1>2, <1>3, <1>4, <1>5, <1>6, <1>7, <1>8, <1>9
         DEF Next, WriterStep, GiveUp, Leave

-----------------------------------------------------------------------------

\* The inductive invariant holds of a new buffer that nobody listens to.
LEMMA InitEstablishesIInv == Init => IInv
<1> SUFFICES ASSUME Init PROVE IInv
  OBVIOUS
<1>1. Keys(EmptyMap) = {}
  BY DEF Keys, EmptyMap
<1>2. MapInv
  BY <1>1, EmptyMapWellFormed DEF Init, MapInv, EvictedStayClosed
<1>3. LockInv
  BY NoWriterAssumption DEF Init, LockInv
<1>4. ReaderInv
  BY DEF Init, ReaderInv, SubscribersAgreeWithLastFrame
<1> QED  BY <1>2, <1>3, <1>4 DEF IInv

\* Every step of a writer or a reader keeps the inductive invariant.
LEMMA NextKeepsIInv == IInv /\ [Next]_vars => IInv'
<1> SUFFICES ASSUME MapInv, LockInv, ReaderInv, [Next]_vars PROVE IInv'
  BY DEF IInv
<1>1. MapInv'
  <2>1. ASSUME NEW w \in Writers,
               StoreLastFrame(w) \/ SendToReceivers(w) \/ Return(w)
        PROVE  UNCHANGED <<partial, closed>>
    BY <2>1 DEF StoreLastFrame, SendToReceivers, Return
  <2>2. ASSUME NEW r \in Readers, Subscribe(r) \/ Receive(r) \/ GiveUp(r) \/ Leave(r)
        PROVE  UNCHANGED <<partial, closed>>
    BY <2>2 DEF Subscribe, Receive, GiveUp, Leave, Unsubscribed, bufferVars
  <2>3. CASE UNCHANGED vars
    BY <2>3, MapUnchanged DEF vars, bufferVars
  <2> QED  BY <2>1, <2>2, <2>3, PushKeepsMapInv, PopKeepsMapInv, MapUnchanged
           DEF Next, WriterStep
<1>2. LockInv'
  BY StepKeepsLockInv
<1>3. ReaderInv'
  BY <1>2, StepKeepsReaderInv
<1> QED  BY <1>1, <1>2, <1>3 DEF IInv

\* The inductive invariant holds of every behaviour.
THEOREM Invariance == Spec => []IInv
BY InitEstablishesIInv, NextKeepsIInv, PTL DEF Spec

\* Type correctness.
THEOREM TypeCorrect == Spec => []TypeOK
<1>1. IInv => TypeOK
  <2> SUFFICES ASSUME IInv PROVE TypeOK
    OBVIOUS
  <2>1. outbox \in [Writers -> Seq(Frame)]
    <3>1. \A w \in Writers : outbox[w] \in Seq(Frame)
      BY CountedAreFrames, ElementOfSeq DEF IInv, LockInv
    <3> QED  BY <3>1 DEF IInv, LockInv
  <2> QED  BY <2>1 DEF IInv, MapInv, LockInv, ReaderInv, WellFormedMap, TypeOK
<1> QED  BY <1>1, Invariance, PTL

\* sample_count is exact, in the map and on the way to the subscribers, after
\* any mixture of whole, refused and half-written chunks.
THEOREM CountsAreExact == Spec => []CountMatchesMask
<1>1. IInv => CountMatchesMask
  <2> SUFFICES ASSUME IInv PROVE CountMatchesMask
    OBVIOUS
  <2>1. \A w \in Writers : \A f \in FramesOf(w) : Counted(f)
    <3> TAKE w \in Writers
    <3>1. outbox[w] \in Seq(CountedFrame)
      BY DEF IInv, LockInv
    <3>2. \A n \in DOMAIN outbox[w] : outbox[w][n] \in CountedFrame
      BY <3>1, ElementOfSeq
    <3> QED  BY <3>2 DEF FramesOf, CountedFrame
  <2> QED  BY <2>1 DEF IInv, MapInv, WellFormedMap, Counted, CountMatchesMask
<1> QED  BY <1>1, Invariance, PTL

\* The map never holds more frames than PARTIAL_FRAME_CAPACITY.
THEOREM MapNeverOutgrows == Spec => []MapBounded
<1>1. IInv => MapBounded
  BY DEF IInv, MapInv, WellFormedMap, MapBounded
<1> QED  BY <1>1, Invariance, PTL

\* No frame is opened for an id at or below an evicted one while frames that
\* shared the map with it are pending.
THEOREM EvictedAreNotReopened == Spec => []EvictedStayClosed
<1>1. IInv => EvictedStayClosed
  BY DEF IInv, MapInv
<1> QED  BY <1>1, Invariance, PTL

\* Between pushes a subscriber's newest frame is last_frame, whatever the
\* number of writers, because both are written under the mutex of the map.
THEOREM SubscribersAgree == Spec => []SubscribersAgreeWithLastFrame
<1>1. IInv => SubscribersAgreeWithLastFrame
  BY DEF IInv, ReaderInv
<1> QED  BY <1>1, Invariance, PTL

-----------------------------------------------------------------------------
\* What a step may do to the map.

\* Only calls of writers change the map.
LEMMA StepsOnMap ==
  ASSUME [Next]_vars
  PROVE  \/ \E w \in Writers, id \in Ids, indices \in Chunks : PushArray(w, id, indices)
         \/ \E w \in Writers : FlushPop(w)
         \/ partial' = partial
<1>1. ASSUME NEW w \in Writers, StoreLastFrame(w) \/ SendToReceivers(w) \/ Return(w)
      PROVE  partial' = partial
  BY <1>1 DEF StoreLastFrame, SendToReceivers, Return
<1>2. ASSUME NEW r \in Readers, Subscribe(r) \/ Receive(r) \/ GiveUp(r) \/ Leave(r)
      PROVE  partial' = partial
  BY <1>2 DEF Subscribe, Receive, GiveUp, Leave, Unsubscribed, bufferVars
<1>3. CASE UNCHANGED vars
  BY <1>3 DEF vars, bufferVars
<1> QED  BY <1>1, <1>2, <1>3 DEF Next, WriterStep

\* The oldest frame in progress never gets older: what push_array refuses is
\* what would be opened before it.
THEOREM OldestAdvances == Spec => OldestOnlyAdvances
<1> DEFINE Advance == Keys(partial) # {} /\ Keys(partial') # {}
                        => Min(Keys(partial)) <= Min(Keys(partial'))
<1>1. ASSUME IInv, [Next]_vars, Keys(partial) # {}, Keys(partial') # {}
      PROVE  Min(Keys(partial)) <= Min(Keys(partial'))
  <2>1. WellFormedMap(partial) /\ IInv'
    BY <1>1, NextKeepsIInv DEF IInv, MapInv
  <2>2. /\ Oldest(partial) \in Keys(partial)
        /\ \A k \in Keys(partial) : Oldest(partial) <= k
        /\ Min(Keys(partial')) \in Keys(partial')
    <3>1. partial \in PartialMaps /\ partial' \in PartialMaps
      BY <2>1 DEF IInv, MapInv, WellFormedMap
    <3> QED  BY <1>1, <3>1, OldestIsLeast DEF Oldest
  <2>3. ASSUME NEW w \in Writers, NEW id \in Ids, NEW indices \in Chunks,
               PushArray(w, id, indices), NEW k \in Keys(partial')
        PROVE  Oldest(partial) <= k
    <3>1. partial' = MapAfterPush(partial, id, indices)
      BY <2>3 DEF PushArray
    <3>2. CASE TooOld(partial, id)
      BY <2>2, <2>3, <3>1, <3>2 DEF MapAfterPush
    <3>3. CASE ~ TooOld(partial, id)
      <4>1. Keys(partial') \subseteq Keys(OpenFrame(partial, id))
        <5>1. OpenFrame(partial, id) \in PartialMaps /\ id \in Keys(OpenFrame(partial, id))
          BY <2>1, OpenKeepsMap DEF WellFormedMap
        <5> QED  BY <3>1, <3>3, <5>1 DEF MapAfterPush, Keys, PartialMaps
      <4>2. k \in Keys(partial) \cup {id}
        BY <2>1, <2>3, <4>1, OpenKeepsMap
      <4>3. CASE k \in Keys(partial)
        BY <2>2, <4>3
      <4>4. CASE k = id /\ k \notin Keys(partial)
        <5>1. ~ (id < Oldest(partial))
          BY <1>1, <3>3, <4>4 DEF TooOld, Keys
        <5>2. id \in Nat /\ Oldest(partial) \in Nat
          BY <2>2, IdsAssumption DEF Keys
        <5> QED  BY <4>4, <5>1, <5>2
      <4> QED  BY <4>2, <4>3, <4>4
    <3> QED  BY <3>2, <3>3
  <2>4. ASSUME NEW w \in Writers, FlushPop(w)
        PROVE  Keys(partial') \subseteq Keys(partial)
    BY <1>1, <2>1, <2>4, PopKeepsMap DEF FlushPop
  <2>5. \A k \in Keys(partial') : Oldest(partial) <= k
    BY <1>1, <2>2, <2>3, <2>4, StepsOnMap
  <2> QED  BY <2>2, <2>5 DEF Oldest
<1>2. IInv /\ [Next]_vars => [Advance]_vars
  BY <1>1
<1> QED  BY <1>2, Invariance, PTL DEF Spec, OldestOnlyAdvances

\* A frame that has not all its samples leaves the map only as its oldest one,
\* and only if the map is at its limit or is being flushed; the frame that a call
\* was asked to fill keeps its samples.
THEOREM OldestLeaveFirst == Spec => UnfinishedLeaveOldestFirst
<1> DEFINE Published(id) == \E w \in Writers :
                              /\ Len(outbox'[w]) = 1
                              /\ Head(outbox'[w]).sequence_id = id
                              /\ IsFull(Head(outbox'[w]))
           Removed(id)   == /\ id = Min(Keys(partial))
                            /\ \/ \E w \in Writers : op'[w] = "flush"
                               \/ Cardinality(Keys(partial)) = PartialFrameCapacity
           Orderly ==
             /\ \A id \in Keys(partial) \ Keys(partial') :
                  \/ \E w \in Writers :
                       /\ Len(outbox'[w]) = 1
                       /\ Head(outbox'[w]).sequence_id = id
                       /\ IsFull(Head(outbox'[w]))
                  \/ /\ id = Min(Keys(partial))
                     /\ \/ \E w \in Writers : op'[w] = "flush"
                        \/ Cardinality(Keys(partial)) = PartialFrameCapacity
             /\ \A id \in Keys(partial) \cap Keys(partial') :
                  partial[id].mask \subseteq partial'[id].mask
<1>1. ASSUME IInv, [Next]_vars, NEW k \in Keys(partial) \ Keys(partial')
      PROVE  Published(k) \/ Removed(k)
  <2>1. WellFormedMap(partial) /\ partial \in PartialMaps
    BY <1>1 DEF IInv, MapInv, WellFormedMap
  <2>2. ASSUME NEW w \in Writers, NEW id \in Ids, NEW indices \in Chunks,
               PushArray(w, id, indices)
        PROVE  Published(k) \/ Removed(k)
    <3> DEFINE frame == FrameAfterPush(partial, id, indices)
    <3>1. /\ partial' = MapAfterPush(partial, id, indices)
          /\ outbox' = [outbox EXCEPT ![w] = PublishedByPush(partial, id, indices)]
      BY <2>2 DEF PushArray
    <3>2. ~ TooOld(partial, id)
      BY <3>1 DEF MapAfterPush
    <3>3. OpenFrame(partial, id) \in PartialMaps /\ k \in Ids
      BY <2>1, OpenKeepsMap DEF WellFormedMap, Keys
    <3>4. partial' = [OpenFrame(partial, id) EXCEPT
                        ![id] = IF FrameReady(partial, id, indices) THEN NoFrame ELSE frame]
      BY <3>1, <3>2 DEF MapAfterPush
    <3>5. partial'[k] = NoFrame /\ partial[k] # NoFrame
      BY <3>3 DEF Keys
    <3>6. CASE k = id
      <4>1. OpenFrame(partial, id)[id] = partial[id] /\ ~ MustEvict(partial, id)
        BY <3>3, <3>5, <3>6 DEF OpenFrame, MustEvict
      <4>2. /\ partial[id] \in Frame /\ partial[id].sequence_id = id /\ Counted(partial[id])
            /\ indices \in Seq(Nat)
        BY <2>1, <3>6, KeysAreFrames, ChunkIsSeq DEF WellFormedMap
      <4>3. frame \in Frame /\ frame.sequence_id = id
        BY <4>1, <4>2, InsertKeepsCount DEF FrameAfterPush
      <4>4. FrameReady(partial, id, indices)
        <5> HIDE DEF frame
        <5> QED  BY <3>3, <3>4, <3>5, <3>6, <4>3, NoFrameAssumption DEF PartialMaps
      <4>5. PublishedByPush(partial, id, indices) = <<frame>>
        <5>1. EvictedFrame(partial, id) = <<>>
          BY <4>1 DEF EvictedFrame
        <5> HIDE DEF frame
        <5>2. <<>> \o <<frame>> = <<frame>>
          OBVIOUS
        <5> QED  BY <3>2, <4>4, <5>1, <5>2 DEF PublishedByPush, frame
      <4>6. outbox'[w] = <<frame>>
        BY <1>1, <3>1, <4>5 DEF IInv, LockInv
      <4>7. IsFull(frame)
        BY <4>4 DEF FrameReady
      <4> HIDE DEF frame
      <4>8. Len(outbox'[w]) = 1 /\ Head(outbox'[w]) = frame
        BY <4>6
      <4> QED  BY <3>6, <4>3, <4>7, <4>8
    <3>7. CASE k # id
      <4>1. OpenFrame(partial, id)[k] = NoFrame
        BY <3>3, <3>4, <3>5, <3>7 DEF PartialMaps
      <4>2. MustEvict(partial, id) /\ k = Oldest(partial)
        BY <3>3, <3>5, <3>7, <4>1 DEF OpenFrame
      <4> QED  BY <4>2 DEF MustEvict, Oldest
    <3> QED  BY <3>6, <3>7
  <2>3. ASSUME NEW w \in Writers, FlushPop(w)
        PROVE  Removed(k)
    <3>1. op'[w] = "flush"
      BY <1>1, <2>3 DEF FlushPop, IInv, LockInv
    <3>2. k = Oldest(partial)
      BY <1>1, <2>1, <2>3, PopKeepsMap DEF FlushPop
    <3> QED  BY <3>1, <3>2 DEF Oldest
  <2>4. partial' # partial
    OBVIOUS
  <2> QED  BY <1>1, <2>2, <2>3, <2>4, StepsOnMap
<1>2. ASSUME IInv, [Next]_vars, NEW k \in Keys(partial) \cap Keys(partial')
      PROVE  partial[k].mask \subseteq partial'[k].mask
  <2>1. WellFormedMap(partial) /\ partial \in PartialMaps /\ k \in Ids
    BY <1>2 DEF IInv, MapInv, WellFormedMap, Keys
  <2>2. ASSUME NEW w \in Writers, NEW id \in Ids, NEW indices \in Chunks,
               PushArray(w, id, indices), ~ TooOld(partial, id)
        PROVE  partial[k].mask \subseteq partial'[k].mask
    <3> DEFINE open  == OpenFrame(partial, id)
               frame == FrameAfterPush(partial, id, indices)
    <3>1. open \in PartialMaps
      BY <2>1, OpenKeepsMap DEF WellFormedMap
    <3>2. partial' = [open EXCEPT ![id] = IF FrameReady(partial, id, indices)
                                            THEN NoFrame ELSE frame]
      BY <2>2 DEF PushArray, MapAfterPush
    <3>3. partial'[k] # NoFrame /\ partial[k] # NoFrame
      BY <1>2 DEF Keys
    <3>4. CASE k = id
      <4>1. open[id] = partial[id]
        BY <2>1, <3>3, <3>4 DEF OpenFrame, MustEvict
      <4>2. /\ partial[id] \in Frame /\ Counted(partial[id])
            /\ indices \in Seq(Nat)
        BY <2>1, <1>2, <3>4, KeysAreFrames, ChunkIsSeq DEF WellFormedMap
      <4>3. partial[id].mask \subseteq frame.mask
        BY <4>1, <4>2, InsertKeepsCount DEF FrameAfterPush
      <4>4. partial'[k] = frame
        <5> HIDE DEF open, frame
        <5> QED  BY <2>1, <3>1, <3>2, <3>3, <3>4 DEF PartialMaps
      <4> QED  BY <3>4, <4>3, <4>4
    <3>5. CASE k # id
      <4>1. partial'[k] = open[k]
        <5> HIDE DEF open, frame
        <5> QED  BY <2>1, <3>1, <3>2, <3>5 DEF PartialMaps
      <4>2. open[k] = partial[k]
        BY <2>1, <3>3, <3>5, <4>1 DEF OpenFrame
      <4> QED  BY <4>1, <4>2
    <3> QED  BY <3>4, <3>5
  <2>3. ASSUME NEW w \in Writers, FlushPop(w)
        PROVE  partial'[k] = partial[k]
    <3>1. partial' = [partial EXCEPT ![Oldest(partial)] = NoFrame] /\ partial'[k] # NoFrame
      BY <1>2, <2>3 DEF FlushPop, WithoutOldest, Keys
    <3> QED  BY <2>1, <3>1 DEF PartialMaps
  <2>4. ASSUME NEW w \in Writers, NEW id \in Ids, NEW indices \in Chunks,
               PushArray(w, id, indices), TooOld(partial, id)
        PROVE  partial' = partial
    BY <2>4 DEF PushArray, MapAfterPush
  <2>5. CASE partial' = partial
    BY <2>5
  <2>6. CASE partial' # partial
    BY <1>2, <2>2, <2>3, <2>4, <2>6, StepsOnMap
  <2> QED  BY <2>5, <2>6
<1>3. IInv /\ [Next]_vars => [Orderly]_vars
  BY <1>1, <1>2
<1> QED  BY <1>3, Invariance, PTL DEF Spec, UnfinishedLeaveOldestFirst

-----------------------------------------------------------------------------
\* Calls are atomic.

\* While no call is in progress there is nothing to come.
LEMMA BetweenCalls ==
  ASSUME LockInv, LockIsFree
  PROVE  MapAfterCall = partial /\ LatestAfterCall = last_frame
<1>1. \A w \in Writers : op[w] = "idle" /\ outbox[w] = <<>>
  BY NoWriterAssumption DEF LockInv, LockIsFree
<1> QED  BY <1>1 DEF MapAfterCall, LatestAfterCall, Flushing

\* During the call of w it is the frames of w that count.
LEMMA DuringCall ==
  ASSUME LockInv, NEW w \in Writers, lock = w
  PROVE  /\ Flushing <=> op[w] = "flush"
         /\ LatestAfterCall =
              IF op[w] = "flush" /\ Keys(partial) # {} THEN NewestFrame(partial)
              ELSE IF outbox[w] # <<>> THEN outbox[w][Len(outbox[w])]
              ELSE last_frame
<1>1. \A v \in Writers : v # w => op[v] = "idle" /\ outbox[v] = <<>>
  BY DEF LockInv
<1>2. Flushing <=> op[w] = "flush"
  BY <1>1 DEF Flushing
<1>3. CASE outbox[w] # <<>>
  <2>1. (CHOOSE v \in Writers : outbox[v] # <<>>) = w
    BY <1>1, <1>3
  <2> QED  BY <1>2, <1>3, <2>1 DEF LatestAfterCall
<1>4. CASE outbox[w] = <<>>
  BY <1>1, <1>2, <1>4 DEF LatestAfterCall
<1> QED  BY <1>2, <1>3, <1>4

\* push_array takes effect with its change of the map.
LEMMA PushTakesEffect ==
  ASSUME IInv, IInv', NEW w \in Writers, NEW id \in Ids, NEW indices \in Chunks,
         PushArray(w, id, indices)
  PROVE  Atomic!Push(id, indices)
<1> DEFINE published == PublishedByPush(partial, id, indices)
<1>1. /\ LockIsFree /\ LockInv /\ LockInv'
      /\ partial' = MapAfterPush(partial, id, indices)
      /\ outbox' = [outbox EXCEPT ![w] = published]
      /\ last_frame' = last_frame
      /\ IF published = <<>> THEN UNCHANGED <<lock, op>>
         ELSE lock' = w /\ op' = [op EXCEPT ![w] = "push_array"]
  <2>1. outbox'[w] = published
    BY DEF PushArray, IInv, LockInv
  <2> QED  BY <2>1 DEF PushArray, IInv
<1>2. MapAfterCall = partial /\ LatestAfterCall = last_frame
  BY <1>1, BetweenCalls
<1> HIDE DEF published
<1>3. MapAfterCall' = partial' /\ LatestAfterCall' = IF published = <<>> THEN last_frame
                                                   ELSE published[Len(published)]
  <2>1. CASE published = <<>>
    <3>1. LockIsFree'
      BY <1>1, <2>1 DEF LockIsFree
    <3>2. MapAfterCall' = partial' /\ LatestAfterCall' = last_frame'
      <4>1. \A v \in Writers : op'[v] = "idle" /\ outbox'[v] = <<>>
        BY <1>1, <3>1, NoWriterAssumption DEF LockInv, LockIsFree
      <4> QED  BY <4>1 DEF MapAfterCall, LatestAfterCall, Flushing
    <3> QED  BY <1>1, <2>1, <3>2
  <2>2. CASE published # <<>>
    <3>1. /\ op'[w] = "push_array" /\ outbox'[w] = published
          /\ \A v \in Writers : v # w => op'[v] = "idle" /\ outbox'[v] = <<>>
      BY <1>1, <2>2 DEF LockInv
    <3>2. (CHOOSE v \in Writers : outbox'[v] # <<>>) = w
      BY <2>2, <3>1
    <3> QED  BY <2>2, <3>1, <3>2 DEF MapAfterCall, LatestAfterCall, Flushing
  <2> QED  BY <2>1, <2>2
<1> QED  BY <1>1, <1>2, <1>3 DEF Atomic!Push, published

\* A flush takes effect with its first frame; the rounds after that only do
\* what has been settled.
LEMMA FlushTakesEffect ==
  ASSUME IInv, IInv', NEW w \in Writers, FlushPop(w)
  PROVE  Atomic!Flush \/ UNCHANGED <<MapAfterCall, LatestAfterCall>>
<1> DEFINE f == partial[Oldest(partial)]
<1>1. /\ LockInv /\ LockInv' /\ WellFormedMap(partial) /\ Keys(partial) # {}
      /\ lock' = w /\ op' = [op EXCEPT ![w] = "flush"]
      /\ outbox' = [outbox EXCEPT ![w] = <<f>>]
      /\ partial' = WithoutOldest(partial)
  BY DEF FlushPop, IInv, MapInv
<1> HIDE DEF f
<1>2. op'[w] = "flush" /\ outbox'[w] = <<f>>
  BY <1>1 DEF LockInv
<1>3. MapAfterCall' = EmptyMap
  BY <1>2 DEF MapAfterCall, Flushing
<1>4. LatestAfterCall' = NewestFrame(partial)
  <2>1. \A v \in Writers : v # w => outbox'[v] = <<>>
    BY <1>1 DEF LockInv
  <2>2. (CHOOSE v \in Writers : outbox'[v] # <<>>) = w
    BY <1>2, <2>1
  <2>3. outbox'[w] # <<>> /\ outbox'[w][Len(outbox'[w])] = f
    BY <1>2
  <2>4. Flushing'
    BY <1>2 DEF Flushing
  <2>5. LatestAfterCall' = IF Keys(partial') # {} THEN NewestFrame(partial') ELSE f
    BY <2>2, <2>3, <2>4 DEF LatestAfterCall
  <2> QED  BY <1>1, <2>5, PopLeavesNewest DEF f
<1>5. CASE op[w] = "flush"
  <2>1. lock = w
    BY <1>1, <1>5 DEF LockInv
  <2>2. MapAfterCall = EmptyMap /\ LatestAfterCall = NewestFrame(partial)
    BY <1>1, <1>5, <2>1, DuringCall DEF MapAfterCall
  <2> QED  BY <1>3, <1>4, <2>2
<1>6. CASE op[w] # "flush"
  <2>1. LockIsFree
    BY <1>6 DEF FlushPop
  <2>2. MapAfterCall = partial
    BY <1>1, <2>1, BetweenCalls
  <2>3. partial # EmptyMap
    BY <1>1 DEF Keys, EmptyMap
  <2> QED  BY <1>3, <1>4, <2>2, <2>3 DEF Atomic!Flush
<1> QED  BY <1>5, <1>6

\* Neither half of push, nor the end of a call, changes what the call comes to.
LEMMA CallGoesOn ==
  ASSUME IInv, IInv', NEW w \in Writers, StoreLastFrame(w) \/ SendToReceivers(w) \/ Return(w)
  PROVE  UNCHANGED <<MapAfterCall, LatestAfterCall>>
<1>1. /\ LockInv /\ LockInv' /\ lock = w /\ partial' = partial /\ Keys(partial') = Keys(partial)
      /\ WellFormedMap(partial)
  BY DEF StoreLastFrame, SendToReceivers, Return, IInv, LockInv, MapInv
<1>2. CASE StoreLastFrame(w)
  <2>1. UNCHANGED <<lock, op, outbox>> /\ outbox[w] # <<>>
    BY <1>2 DEF StoreLastFrame
  <2>2. UNCHANGED <<Flushing, MapAfterCall>>
    BY <1>1, <2>1 DEF MapAfterCall, Flushing
  <2>3. LatestAfterCall' = LatestAfterCall
    BY <1>1, <2>1, <2>2 DEF LatestAfterCall
  <2> QED  BY <2>2, <2>3
<1>3. CASE SendToReceivers(w)
  <2> DEFINE q == outbox[w]
             t == Tail(q)
  <2>1. /\ UNCHANGED <<lock, op, last_frame>> /\ outbox' = [outbox EXCEPT ![w] = t]
        /\ q # <<>> /\ q \in Seq(CountedFrame) /\ last_frame = Head(q)
    BY <1>1, <1>3 DEF SendToReceivers, LockInv
  <2>2. /\ Len(t) = Len(q) - 1 /\ Len(q) \in Nat \ {0} /\ t \in Seq(CountedFrame)
        /\ \A i \in 1 .. Len(t) : t[i] = q[i + 1]
        /\ Head(q) = q[1]
    BY <2>1, HeadTailProperties, EmptySeq
  <2>3. outbox'[w] = t /\ \A v \in Writers : v # w => outbox'[v] = <<>>
    BY <1>1, <2>1 DEF LockInv
  <2>4. UNCHANGED <<Flushing, MapAfterCall>>
    BY <1>1, <2>1 DEF MapAfterCall, Flushing
  <2> HIDE DEF q, t
  <2>5. q[Len(q)] = IF t = <<>> THEN last_frame ELSE t[Len(t)]
    <3>1. CASE t = <<>>
      <4>1. Len(q) = 1
        BY <2>2, <3>1
      <4> QED  BY <2>1, <2>2, <3>1, <4>1
    <3>2. CASE t # <<>>
      <4>1. Len(t) \in 1 .. Len(t) /\ Len(t) + 1 = Len(q)
        BY <2>2, <3>2, EmptySeq
      <4> QED  BY <2>2, <3>2, <4>1
    <3> QED  BY <3>1, <3>2
  <2>6. LatestAfterCall = IF op[w] = "flush" /\ Keys(partial) # {} THEN NewestFrame(partial)
                          ELSE q[Len(q)]
    BY <1>1, <2>1, DuringCall DEF q
  <2>7. LatestAfterCall' = IF op[w] = "flush" /\ Keys(partial) # {} THEN NewestFrame(partial)
                           ELSE IF t = <<>> THEN last_frame ELSE t[Len(t)]
    <3>1. Flushing' <=> op[w] = "flush"
      BY <1>1, <2>4, DuringCall
    <3>2. CASE t = <<>>
      BY <1>1, <2>1, <2>3, <3>1, <3>2 DEF LatestAfterCall
    <3>3. CASE t # <<>>
      <4>1. (CHOOSE v \in Writers : outbox'[v] # <<>>) = w
        BY <2>3, <3>3
      <4> QED  BY <1>1, <2>1, <2>3, <3>1, <3>3, <4>1 DEF LatestAfterCall
    <3> QED  BY <3>2, <3>3
  <2> QED  BY <2>4, <2>5, <2>6, <2>7
<1>4. CASE Return(w)
  <2>1. /\ lock' = NoWriter /\ UNCHANGED <<outbox, last_frame>>
        /\ outbox[w] = <<>> /\ (op[w] = "flush" => Keys(partial) = {})
    BY <1>4 DEF Return
  <2>2. \A v \in Writers : op'[v] = "idle" /\ outbox'[v] = <<>>
    BY <1>1, <2>1, NoWriterAssumption DEF LockInv
  <2>3. MapAfterCall' = partial /\ LatestAfterCall' = last_frame
    BY <1>1, <2>1, <2>2 DEF MapAfterCall, LatestAfterCall, Flushing
  <2>4. LatestAfterCall = last_frame
    BY <1>1, <2>1, DuringCall
  <2>5. Keys(partial) = {} => partial = EmptyMap
    BY <1>1 DEF Keys, EmptyMap, WellFormedMap, PartialMaps
  <2>6. MapAfterCall = partial
    BY <1>1, <2>1, <2>5, DuringCall DEF MapAfterCall
  <2> QED  BY <2>3, <2>4, <2>6
<1> QED  BY <1>2, <1>3, <1>4

\* Each step of a buffer is a call of AtomicBuffer, or none.
LEMMA StepIsAtomic ==
  ASSUME IInv, IInv', [Next]_vars
  PROVE  [Atomic!Next]_(Atomic!vars)
<1>1. ASSUME UNCHANGED <<partial, op, outbox, last_frame>>
      PROVE  UNCHANGED <<MapAfterCall, LatestAfterCall>>
  <2>1. UNCHANGED <<Flushing, MapAfterCall>> /\ Keys(partial') = Keys(partial)
    BY <1>1 DEF Flushing, MapAfterCall
  <2> QED  BY <1>1, <2>1 DEF LatestAfterCall
<1>2. ASSUME NEW r \in Readers, Subscribe(r) \/ Receive(r) \/ GiveUp(r) \/ Leave(r)
      PROVE  UNCHANGED <<partial, op, outbox, last_frame>>
  BY <1>2 DEF Subscribe, Receive, GiveUp, Leave, Unsubscribed, bufferVars
<1>3. CASE UNCHANGED vars
  BY <1>1, <1>3 DEF vars, bufferVars, Atomic!vars
<1> QED  BY <1>1, <1>2, <1>3, PushTakesEffect, FlushTakesEffect, CallGoesOn
         DEF Next, WriterStep, Atomic!Next, Atomic!vars

\* The buffer implements AtomicBuffer: however many writers there are and
\* wherever they wait for each other, the map and last_frame go through the
\* states they would go through if each call were one step.
THEOREM BufferImplementsAtomic == Spec => ImplementsAtomic
<1>1. Init => Atomic!Init
  <2> SUFFICES ASSUME Init PROVE Atomic!Init
    OBVIOUS
  <2>1. LockInv /\ LockIsFree
    BY InitEstablishesIInv DEF Init, IInv, LockIsFree
  <2> QED  BY <2>1, BetweenCalls DEF Init, Atomic!Init
<1>2. IInv /\ IInv' /\ [Next]_vars => [Atomic!Change]_(Atomic!vars)
  BY StepIsAtomic DEF Atomic!Change
<1> QED  BY <1>1, <1>2, Invariance, PTL DEF Spec, ImplementsAtomic, Atomic!Spec

-----------------------------------------------------------------------------
\* Calls come to an end.

\* A sequence that has one element or none.
LEMMA OneOrNone ==
  ASSUME NEW a, NEW b, NEW s \in {<<>>, <<a>>}, NEW t \in {<<>>, <<b>>}
  PROVE  Len(s \o t) \in 0 .. 2
<1> DEFINE S == {a, b}
<1>1. ASSUME NEW x \in S, NEW u \in {<<>>, <<x>>}
      PROVE  u \in Seq(S) /\ Len(u) \in 0 .. 1
  <2> HIDE DEF S
  <2>1. CASE u = <<>>
    BY <2>1
  <2>2. CASE u = <<x>>
    BY <2>2
  <2> QED  BY <1>1, <2>1, <2>2
<1>2. a \in S /\ b \in S
  OBVIOUS
<1> HIDE DEF S
<1>3. s \in Seq(S) /\ Len(s) \in 0 .. 1 /\ t \in Seq(S) /\ Len(t) \in 0 .. 1
  BY <1>1, <1>2
<1>4. Len(s \o t) = Len(s) + Len(t)
  BY <1>3, ConcatProperties
<1>5. ASSUME NEW n \in 0 .. 1, NEW k \in 0 .. 1 PROVE n + k \in 0 .. 2
  OBVIOUS
<1> QED  BY <1>3, <1>4, <1>5

\* push_array publishes at most an evicted frame and a full one.
LEMMA PushPublishesTwo ==
  ASSUME NEW m, NEW id, NEW indices
  PROVE  Len(PublishedByPush(m, id, indices)) \in 0 .. 2
<1> DEFINE evicted == m[Oldest(m)]
           filled  == FrameAfterPush(m, id, indices)
           gone    == EvictedFrame(m, id)
           ready   == IF FrameReady(m, id, indices) THEN <<filled>> ELSE <<>>
<1>1. gone \in {<<>>, <<evicted>>}
  BY Zenon DEF EvictedFrame
<1>2. ready \in {<<>>, <<filled>>}
  BY Zenon
<1>3. PublishedByPush(m, id, indices) = IF TooOld(m, id) THEN <<>> ELSE gone \o ready
  BY Zenon DEF PublishedByPush
<1> HIDE DEF gone, ready, evicted, filled
<1>4. Len(gone \o ready) \in 0 .. 2
  BY <1>1, <1>2, OneOrNone
<1>5. Len(<<>>) = 0
  OBVIOUS
<1> QED  BY <1>3, <1>4, <1>5

\* What there is to count.
LEMMA StepsLeftIsNat ==
  ASSUME IInv, NEW w \in Writers
  PROVE  /\ Len(outbox[w]) \in Nat /\ Cardinality(Keys(partial)) \in Nat
         /\ stored[w] => Len(outbox[w]) # 0
         /\ StepsLeft(w) \in Nat
<1>1. /\ Len(outbox[w]) \in Nat /\ (stored[w] => Len(outbox[w]) # 0)
  <2>1. outbox[w] \in Seq(CountedFrame) /\ (stored[w] => outbox[w] # <<>>)
    BY DEF IInv, LockInv
  <2> QED  BY <2>1, EmptySeq
<1>2. Cardinality(Keys(partial)) \in Nat
  BY FS_CardinalityType DEF IInv, MapInv, WellFormedMap
<1>3. ASSUME NEW n \in Nat, NEW k \in Nat, stored[w] => n # 0
      PROVE  1 + 2 * n - (IF stored[w] THEN 1 ELSE 0)
               + (IF op[w] = "flush" THEN 3 * k ELSE 0) \in Nat
  <2>1. CASE stored[w]
    BY <1>3, <2>1
  <2>2. CASE ~ stored[w]
    BY <1>3, <2>2
  <2> QED  BY <2>1, <2>2
<1>4. StepsLeft(w) \in Nat
  BY <1>1, <1>2, <1>3 DEF StepsLeft
<1> QED  BY <1>1, <1>2, <1>4

\* A round of flush pops one frame.
LEMMA PopTakesOne ==
  ASSUME NEW m, WellFormedMap(m), Keys(m) # {}
  PROVE  Cardinality(Keys(WithoutOldest(m))) = Cardinality(Keys(m)) - 1
<1>1. Keys(WithoutOldest(m)) = Keys(m) \ {Oldest(m)} /\ Oldest(m) \in Keys(m)
  BY PopKeepsMap, OldestIsLeast DEF WellFormedMap
<1> QED  BY <1>1, FS_RemoveElement DEF WellFormedMap

\* Each step of the call in progress counts down.
LEMMA CallStepsCountDown ==
  ASSUME IInv, IInv', NEW w \in Writers, op[w] # "idle",
         FlushPop(w) \/ StoreLastFrame(w) \/ SendToReceivers(w) \/ Return(w)
  PROVE  StepsLeft(w)' = StepsLeft(w) - 1 /\ (op'[w] # "idle" => op'[w] = op[w])
<1>1. /\ outbox[w] \in Seq(CountedFrame) /\ WellFormedMap(partial)
      /\ op \in [Writers -> {"idle", "push_array", "flush"}] /\ stored \in [Writers -> BOOLEAN]
      /\ outbox \in [Writers -> Seq(CountedFrame)]
      /\ lock = w /\ lock # NoWriter
  BY NoWriterAssumption DEF IInv, MapInv, LockInv
<1>2. /\ Len(outbox[w]) \in Nat /\ Cardinality(Keys(partial)) \in Nat
      /\ stored[w] => Len(outbox[w]) # 0
  BY StepsLeftIsNat
<1>3. CASE FlushPop(w)
  <2>1. op[w] = "flush" /\ outbox[w] = <<>> /\ Keys(partial) # {}
    BY <1>1, <1>3 DEF FlushPop, LockIsFree
  <2>2. op'[w] = "flush" /\ stored'[w] = stored[w] /\ Len(outbox'[w]) = 1
    BY <1>1, <1>3 DEF FlushPop
  <2>3. Cardinality(Keys(partial')) = Cardinality(Keys(partial)) - 1
    BY <1>1, <1>3, <2>1, PopTakesOne DEF FlushPop
  <2>4. ~ stored[w] /\ Len(outbox[w]) = 0
    BY <1>2, <2>1
  <2>5. StepsLeft(w) = 1 + 3 * Cardinality(Keys(partial))
    BY <1>2, <2>1, <2>4 DEF StepsLeft
  <2>6. StepsLeft(w)' = 1 + 2 + 3 * (Cardinality(Keys(partial)) - 1)
    BY <1>2, <2>2, <2>3, <2>4 DEF StepsLeft
  <2> QED  BY <1>2, <2>1, <2>2, <2>5, <2>6
<1>4. CASE StoreLastFrame(w)
  <2>1. /\ UNCHANGED <<op, outbox, partial>> /\ ~ stored[w] /\ stored'[w]
    BY <1>1, <1>4 DEF StoreLastFrame
  <2>2. Cardinality(Keys(partial')) = Cardinality(Keys(partial))
    BY <2>1
  <2> QED  BY <1>2, <2>1, <2>2 DEF StepsLeft
<1>5. CASE SendToReceivers(w)
  <2>1. /\ UNCHANGED <<op, partial>> /\ stored[w] /\ ~ stored'[w] /\ outbox[w] # <<>>
        /\ outbox'[w] = Tail(outbox[w])
    BY <1>1, <1>5 DEF SendToReceivers
  <2>2. Len(outbox'[w]) = Len(outbox[w]) - 1
    BY <1>1, <2>1, HeadTailProperties
  <2>3. Cardinality(Keys(partial')) = Cardinality(Keys(partial))
    BY <2>1
  <2> QED  BY <1>2, <2>1, <2>2, <2>3 DEF StepsLeft
<1>6. CASE Return(w)
  <2>1. /\ op'[w] = "idle" /\ outbox[w] = <<>> /\ (op[w] = "flush" => Keys(partial) = {})
    BY <1>1, <1>6 DEF Return
  <2>2. ~ stored[w] /\ Len(outbox[w]) = 0
    BY <1>2, <2>1
  <2>3. op[w] = "flush" => Cardinality(Keys(partial)) = 0
    BY <2>1, FS_EmptySet
  <2>4. StepsLeft(w)' = 0 /\ StepsLeft(w) = 1
    BY <1>2, <2>1, <2>2, <2>3 DEF StepsLeft
  <2> QED  BY <2>1, <2>4
<1> QED  BY <1>3, <1>4, <1>5, <1>6

\* Whose step it is: that of the call in progress, or the first of a call, or
\* one of a reader.
LEMMA WhoseStep ==
  ASSUME IInv, [Next]_vars
  PROVE  \/ UNCHANGED bufferVars
         \/ \E w \in Writers :
              /\ op[w] # "idle"
              /\ FlushPop(w) \/ StoreLastFrame(w) \/ SendToReceivers(w) \/ Return(w)
              /\ \A v \in Writers \ {w} : op[v] = "idle" /\ op'[v] = "idle"
         \/ \E w \in Writers :
              /\ \A v \in Writers : op[v] = "idle"
              /\ \A v \in Writers \ {w} : op'[v] = "idle"
              /\ FlushPop(w) \/ \E id \in Ids, indices \in Chunks : PushArray(w, id, indices)
<1>1. ASSUME NEW r \in Readers, Subscribe(r) \/ Receive(r) \/ GiveUp(r) \/ Leave(r)
      PROVE  UNCHANGED bufferVars
  BY <1>1 DEF Subscribe, Receive, GiveUp, Leave, Unsubscribed
<1>2. CASE UNCHANGED vars
  BY <1>2 DEF vars
<1>3. /\ op \in [Writers -> {"idle", "push_array", "flush"}]
      /\ \A w \in Writers : /\ op[w] # "idle" <=> lock = w
                            /\ outbox[w] # <<>> => lock = w
  BY DEF IInv, LockInv
<1>4. ASSUME NEW w \in Writers, WriterStep(w), op[w] # "idle"
      PROVE  \A v \in Writers \ {w} : op[v] = "idle" /\ op'[v] = "idle"
  BY <1>3, <1>4 DEF WriterStep, FlushPop, StoreLastFrame, SendToReceivers, Return
<1>5. ASSUME NEW w \in Writers, WriterStep(w), op[w] = "idle"
      PROVE  /\ FlushPop(w)
             /\ \A v \in Writers : op[v] = "idle" /\ (v # w => op'[v] = "idle")
  <2>1. FlushPop(w)
    BY <1>3, <1>5 DEF WriterStep, StoreLastFrame, SendToReceivers, Return
  <2>2. lock = NoWriter
    BY <1>5, <2>1 DEF FlushPop, LockIsFree
  <2> QED  BY <1>3, <2>1, <2>2, NoWriterAssumption DEF FlushPop
<1>6. ASSUME NEW w \in Writers, NEW id \in Ids, NEW indices \in Chunks, PushArray(w, id, indices)
      PROVE  \A v \in Writers : op[v] = "idle" /\ (v # w => op'[v] = "idle")
  <2>1. lock = NoWriter /\ op' \in {op, [op EXCEPT ![w] = "push_array"]}
    BY <1>6 DEF PushArray, LockIsFree
  <2> QED  BY <1>3, <2>1, NoWriterAssumption
<1>7. CASE \E w \in Writers : WriterStep(w)
  <2>1. PICK w \in Writers : WriterStep(w)
    BY <1>7
  <2>2. CASE op[w] # "idle"
    BY <1>4, <2>1, <2>2 DEF WriterStep
  <2>3. CASE op[w] = "idle"
    BY <1>5, <2>1, <2>3
  <2> QED  BY <2>2, <2>3
<1>8. CASE \E w \in Writers : \E id \in Ids, indices \in Chunks : PushArray(w, id, indices)
  BY <1>6, <1>8
<1> QED  BY <1>1, <1>2, <1>7, <1>8 DEF Next

\* While a call is in progress no other writer changes the buffer, and each step
\* leaves the call one step less: with the fairness of CallsReturn, which TLC
\* checks, it ends.
THEOREM CallsAlwaysCountDown == Spec => CallsCountDown
<1>1. ASSUME IInv, IInv', [Next]_vars, NEW w \in Writers, op[w] # "idle"
      PROVE  UNCHANGED bufferVars \/ StepsLeft(w)' = StepsLeft(w) - 1
  BY <1>1, WhoseStep, CallStepsCountDown
<1>2. IInv /\ IInv' /\ [Next]_vars =>
        [\A w \in Writers : op[w] # "idle" =>
           UNCHANGED bufferVars \/ StepsLeft(w)' = StepsLeft(w) - 1]_vars
  BY <1>1
<1> QED  BY <1>2, Invariance, PTL DEF Spec, CallsCountDown

\* No call takes more steps than its kind allows, whatever the others have left
\* in the map: flush three for each frame there can be, push_array five.
THEOREM CallsStayShort == Spec => []CallsAreShort
<1> DEFINE Most(w) == IF op[w] = "flush" THEN 3 * PartialFrameCapacity ELSE 5
<1>1. Init => CallsAreShort
  BY CapacityAssumption DEF Init, CallsAreShort, StepsLeft
<1>2. ASSUME IInv, IInv', CallsAreShort, [Next]_vars
      PROVE  CallsAreShort'
  <2>1. CASE UNCHANGED bufferVars
    BY <1>2, <2>1 DEF bufferVars, CallsAreShort, StepsLeft
  <2>2. ASSUME NEW v \in Writers, op'[v] = "idle" PROVE StepsLeft(v)' <= 5
    BY <2>2 DEF StepsLeft
  <2>3. ASSUME NEW w \in Writers, op[w] # "idle",
               FlushPop(w) \/ StoreLastFrame(w) \/ SendToReceivers(w) \/ Return(w),
               \A v \in Writers \ {w} : op'[v] = "idle"
        PROVE  CallsAreShort'
    <3>1. /\ StepsLeft(w)' = StepsLeft(w) - 1 /\ StepsLeft(w) \in Nat
          /\ op'[w] # "idle" => op'[w] = op[w]
      BY <1>2, <2>3, CallStepsCountDown, StepsLeftIsNat
    <3>2. StepsLeft(w) <= Most(w) /\ Most(w) \in Nat
      BY <1>2, CapacityAssumption DEF CallsAreShort
    <3>3. op'[w] # "idle" => StepsLeft(w)' <= Most(w)
      BY <3>1, <3>2
    <3>4. op'[w] # "idle" => StepsLeft(w)' <= Most(w)'
      BY <3>1, <3>3
    <3> QED  BY <2>2, <2>3, <3>4 DEF CallsAreShort
  <2>4. ASSUME NEW w \in Writers, op[w] = "idle", FlushPop(w),
               \A v \in Writers \ {w} : op'[v] = "idle"
        PROVE  CallsAreShort'
    <3> DEFINE C == Cardinality(Keys(partial))
    <3>1. /\ op'[w] = "flush" /\ Len(outbox'[w]) = 1 /\ stored'[w] = stored[w]
          /\ Cardinality(Keys(partial')) = C - 1
      BY <1>2, <2>4, PopTakesOne DEF FlushPop, IInv, MapInv, LockInv
    <3>2. C \in Nat /\ C <= PartialFrameCapacity /\ PartialFrameCapacity \in Nat
      BY <1>2, FS_CardinalityType, CapacityAssumption DEF IInv, MapInv, WellFormedMap
    <3>3. ~ stored[w]
      BY <1>2, <2>4, NoWriterAssumption DEF FlushPop, LockIsFree, IInv, LockInv
    <3> HIDE DEF C
    <3>4. StepsLeft(w)' = 3 * C
      BY <3>1, <3>2, <3>3 DEF StepsLeft
    <3> QED  BY <2>2, <2>4, <3>1, <3>2, <3>4 DEF CallsAreShort
  <2>5. ASSUME NEW w \in Writers, NEW id \in Ids, NEW indices \in Chunks,
               PushArray(w, id, indices), op[w] = "idle",
               \A v \in Writers \ {w} : op'[v] = "idle"
        PROVE  CallsAreShort'
    <3>1. Len(PublishedByPush(partial, id, indices)) \in 0 .. 2
      BY PushPublishesTwo
    <3>2. /\ outbox'[w] = PublishedByPush(partial, id, indices)
          /\ op'[w] \in {"idle", "push_array"}
          /\ stored'[w] \in BOOLEAN
      BY <1>2, <2>5 DEF PushArray, IInv, LockInv
    <3> DEFINE n == Len(outbox'[w])
    <3>3. n \in 0 .. 2 /\ op'[w] # "flush"
      BY <3>1, <3>2
    <3>4. StepsLeft(w)' = IF op'[w] = "idle" THEN 0
                          ELSE 1 + 2 * n - (IF stored'[w] THEN 1 ELSE 0) + 0
      BY <3>3 DEF StepsLeft
    <3> HIDE DEF n
    <3>5. StepsLeft(w)' <= 5
      BY <3>3, <3>4
    <3> QED  BY <2>2, <2>5, <3>2, <3>5 DEF CallsAreShort
  <2> QED  BY <1>2, <2>1, <2>3, <2>4, <2>5, WhoseStep
<1> QED  BY <1>1, <1>2, Invariance, PTL DEF Spec

=============================================================================
