------------------------- MODULE FrameDeliveryProofs -------------------------
(***************************************************************************)
(* FrameBuffer implements FrameDelivery, for every value of the constants. *)
(* The two lemmas on the map say where the samples go; the invariant       *)
(* OnePlaceInv says that the frames on their way out of the map and those  *)
(* in it have different ids, so that a delivery takes all of an id.        *)
(***************************************************************************)
EXTENDS FrameBufferProofs

\* The samples in a map, and those in a list of frames.
MapSamples(m)    == UNION {FrameSamples(m[id]) : id \in Keys(m)}
ListSamples(seq) == UNION {FrameSamples(seq[n]) : n \in DOMAIN seq}

\* What insert_chunk writes.
NewIndices(m, id, indices) ==
  IF TooOld(m, id) THEN {}
  ELSE {indices[n] : n \in WrittenSlots(OpenFrame(m, id)[id], indices)}

-----------------------------------------------------------------------------
\* The map.

\* In a well-formed map a sample belongs to the frame of its id.
LEMMA MapSamplesById ==
  ASSUME NEW m, WellFormedMap(m), NEW id, NEW x
  PROVE  <<id, x>> \in MapSamples(m) <=> id \in Keys(m) /\ x \in m[id].mask
<1>1. \A k \in Keys(m) : m[k].sequence_id = k
  BY DEF WellFormedMap
<1> QED  BY <1>1 DEF MapSamples, FrameSamples

\* The samples in a map are pairs of an id and an index.
LEMMA MapSamplesArePairs ==
  ASSUME NEW m, WellFormedMap(m)
  PROVE  MapSamples(m) \subseteq Ids \X Index
<1> SUFFICES ASSUME NEW k \in Keys(m) PROVE FrameSamples(m[k]) \subseteq Ids \X Index
  BY DEF MapSamples
<1>1. m[k] \in Frame
  BY KeysAreFrames DEF WellFormedMap
<1> QED  BY <1>1 DEF FrameSamples, Frame

\* A frame that eviction drops holds nothing.
LEMMA EvictionDropsNothing ==
  ASSUME NEW m, WellFormedMap(m), NEW id \in Ids, MustEvict(m, id)
  PROVE  ListSamples(EvictedFrame(m, id)) = FrameSamples(m[Oldest(m)])
<1> DEFINE victim == m[Oldest(m)]
<1>1. victim \in Frame /\ Counted(victim)
  BY EvictionHasVictim, KeysAreFrames DEF WellFormedMap
<1>2. CASE victim.sample_count >= MinFrameSampleCount
  <2>1. EvictedFrame(m, id) = <<victim>>
    BY <1>2 DEF EvictedFrame
  <2> HIDE DEF victim
  <2>2. ListSamples(<<victim>>) = FrameSamples(victim)
    BY DEF ListSamples
  <2> QED  BY <2>1, <2>2 DEF victim
<1>3. CASE ~ (victim.sample_count >= MinFrameSampleCount)
  <2>1. EvictedFrame(m, id) = <<>>
    BY <1>3 DEF EvictedFrame
  <2> HIDE DEF victim
  <2>2. victim.mask = {}
    <3>1. IsFiniteSet(victim.mask)
      BY <1>1, IndexIsFinite, FS_Subset DEF Frame
    <3>2. Cardinality(victim.mask) = 0
      BY <1>1, <1>3, MinCountAssumption DEF Frame, Counted
    <3> QED  BY <3>1, <3>2, FS_EmptySet
  <2>3. FrameSamples(victim) = {} /\ ListSamples(<<>>) = {}
    BY <2>2 DEF FrameSamples, ListSamples
  <2> QED  BY <2>1, <2>3 DEF victim
<1> QED  BY <1>2, <1>3

\* Opening a frame loses no sample: those that leave the map are published.
LEMMA OpenMovesSamples ==
  ASSUME NEW m, WellFormedMap(m), NEW id \in Ids
  PROVE  /\ MapSamples(OpenFrame(m, id)) \cup ListSamples(EvictedFrame(m, id)) = MapSamples(m)
         /\ \A x : <<id, x>> \in MapSamples(m) <=> x \in OpenFrame(m, id)[id].mask
<1> DEFINE open == OpenFrame(m, id)
<1>1. WellFormedMap(open) /\ id \in Keys(open)
  BY OpenKeepsMap
<1>2. Keys(open) = (Keys(m) \cup {id}) \ (IF MustEvict(m, id) THEN {Oldest(m)} ELSE {})
  BY OpenKeepsMap
<1>3. \A k \in Keys(open) : open[k] = IF k = id /\ m[id] = NoFrame THEN NewFrame(id) ELSE m[k]
  BY <1>2 DEF OpenFrame, Keys
<1>4. NewFrame(id).mask = {} /\ NewFrame(id).sequence_id = id
  BY DEF NewFrame
<1>5. m[id] # NoFrame <=> id \in Keys(m)
  BY DEF Keys
<1>6. \A x : <<id, x>> \in MapSamples(m) <=> x \in open[id].mask
  <2> TAKE x
  <2>1. <<id, x>> \in MapSamples(m) <=> id \in Keys(m) /\ x \in m[id].mask
    BY MapSamplesById
  <2> QED  BY <1>1, <1>3, <1>4, <1>5, <2>1
<1>7. MapSamples(open) = UNION {FrameSamples(m[k]) : k \in Keys(m) \cap Keys(open)}
  <2>1. FrameSamples(NewFrame(id)) = {}
    BY <1>4 DEF FrameSamples
  <2> HIDE DEF open
  <2> QED  BY <1>1, <1>2, <1>3, <1>5, <2>1 DEF MapSamples
<1>8. CASE MustEvict(m, id)
  <2>1. Oldest(m) \in Keys(m) /\ Oldest(m) # id
    BY <1>8, EvictionHasVictim
  <2>2. Keys(m) = (Keys(m) \cap Keys(open)) \cup {Oldest(m)}
    BY <1>2, <1>8, <2>1
  <2>3. ListSamples(EvictedFrame(m, id)) = FrameSamples(m[Oldest(m)])
    BY <1>8, EvictionDropsNothing
  <2> HIDE DEF open
  <2>4. MapSamples(m) = UNION {FrameSamples(m[k]) : k \in (Keys(m) \cap Keys(open)) \cup {Oldest(m)}}
    BY <2>2 DEF MapSamples
  <2> QED  BY <1>6, <1>7, <2>3, <2>4 DEF open
<1>9. CASE ~ MustEvict(m, id)
  <2>1. Keys(m) \cap Keys(open) = Keys(m)
    BY <1>2, <1>9
  <2>2. ListSamples(EvictedFrame(m, id)) = {}
    BY <1>9 DEF EvictedFrame, ListSamples
  <2> HIDE DEF open
  <2> QED  BY <1>6, <1>7, <2>1, <2>2 DEF MapSamples, open
<1> QED  BY <1>8, <1>9

\* The samples of two lists one after the other.
LEMMA ListSamplesOfConcat ==
  ASSUME NEW a \in Seq(Frame), NEW b \in Seq(Frame)
  PROVE  ListSamples(a \o b) = ListSamples(a) \cup ListSamples(b)
<1> DEFINE c == a \o b
<1>1. /\ Len(c) = Len(a) + Len(b)
      /\ \A i \in 1 .. Len(c) : c[i] = IF i <= Len(a) THEN a[i] ELSE b[i - Len(a)]
      /\ Len(a) \in Nat /\ Len(b) \in Nat
      /\ DOMAIN a = 1 .. Len(a) /\ DOMAIN b = 1 .. Len(b) /\ DOMAIN c = 1 .. Len(c)
  BY ConcatProperties
<1> HIDE DEF c
<1>2. ListSamples(a) \subseteq ListSamples(c)
  BY <1>1 DEF ListSamples
<1>3. ListSamples(b) \subseteq ListSamples(c)
  <2>1. \A j \in 1 .. Len(b) : j + Len(a) \in 1 .. Len(c) /\ c[j + Len(a)] = b[j]
    BY <1>1
  <2> QED  BY <1>1, <2>1 DEF ListSamples
<1>4. ListSamples(c) \subseteq ListSamples(a) \cup ListSamples(b)
  <2> SUFFICES ASSUME NEW i \in 1 .. Len(c)
               PROVE  FrameSamples(c[i]) \subseteq ListSamples(a) \cup ListSamples(b)
    BY <1>1 DEF ListSamples
  <2>1. CASE i <= Len(a)
    BY <1>1, <2>1 DEF ListSamples
  <2>2. CASE ~ (i <= Len(a))
    <3>1. i - Len(a) \in 1 .. Len(b) /\ c[i] = b[i - Len(a)]
      BY <1>1, <2>2
    <3> QED  BY <1>1, <3>1 DEF ListSamples
  <2> QED  BY <2>1, <2>2
<1> QED  BY <1>2, <1>3, <1>4 DEF c

\* push_array adds the samples it writes, which are new, and loses none: what
\* is not in the map any more is in the frames it publishes.
LEMMA PushMovesSamples ==
  ASSUME NEW m, WellFormedMap(m), NEW id \in Ids, NEW indices \in Seq(Nat)
  PROVE  /\ NewIndices(m, id, indices) \subseteq Index
         /\ ({id} \X NewIndices(m, id, indices)) \cap MapSamples(m) = {}
         /\ MapSamples(MapAfterPush(m, id, indices)) \cup ListSamples(PublishedByPush(m, id, indices))
              = MapSamples(m) \cup ({id} \X NewIndices(m, id, indices))
<1> DEFINE open  == OpenFrame(m, id)
           frame == FrameAfterPush(m, id, indices)
           new   == NewIndices(m, id, indices)
           next  == MapAfterPush(m, id, indices)
           ready == IF FrameReady(m, id, indices) THEN <<frame>> ELSE <<>>
           gone  == EvictedFrame(m, id)
<1>1. CASE TooOld(m, id)
  <2>1. new = {} /\ next = m /\ PublishedByPush(m, id, indices) = <<>>
    BY <1>1 DEF NewIndices, MapAfterPush, PublishedByPush
  <2>2. ListSamples(<<>>) = {}
    BY DEF ListSamples
  <2> QED  BY <2>1, <2>2
<1>2. CASE ~ TooOld(m, id)
  <2>1. WellFormedMap(open) /\ id \in Keys(open)
    BY OpenKeepsMap
  <2>2. open[id] \in Frame /\ open[id].sequence_id = id /\ Counted(open[id])
    BY <2>1, KeysAreFrames DEF WellFormedMap
  <2>3. /\ frame \in Frame /\ frame.sequence_id = id
        /\ frame.mask = open[id].mask \cup new
    <3>1. new = {indices[n] : n \in WrittenSlots(open[id], indices)}
      BY <1>2 DEF NewIndices
    <3>2. frame.mask = open[id].mask \cup {indices[n] : n \in WrittenSlots(open[id], indices)}
      BY <2>2 DEF FrameAfterPush, InsertChunk, Frame
    <3> QED  BY <2>2, <3>1, <3>2, InsertKeepsCount DEF FrameAfterPush
  <2>4. new \subseteq Index /\ new \cap open[id].mask = {}
    <3>1. \A n \in WrittenSlots(open[id], indices) :
            n \in 1 .. n /\ indices[n] \in Index /\ indices[n] \notin open[id].mask
      BY DEF WrittenSlots, IsFresh
    <3> QED  BY <1>2, <3>1 DEF NewIndices
  <2>5. /\ MapSamples(open) \cup ListSamples(gone) = MapSamples(m)
        /\ \A x : <<id, x>> \in MapSamples(m) <=> x \in open[id].mask
    BY OpenMovesSamples
  <2>6. ({id} \X new) \cap MapSamples(m) = {}
    <3> HIDE DEF new, open
    <3> QED  BY <2>4, <2>5
  <2>7. MapSamples(next) \cup ListSamples(ready) = MapSamples(open) \cup ({id} \X new)
    <3>1. next = [open EXCEPT ![id] = IF FrameReady(m, id, indices) THEN NoFrame ELSE frame]
      BY <1>2 DEF MapAfterPush
    <3>2. open \in PartialMaps
      BY <2>1 DEF WellFormedMap
    <3>3. FrameSamples(frame) = FrameSamples(open[id]) \cup ({id} \X new)
      <4> HIDE DEF frame, open, new
      <4> QED  BY <2>2, <2>3 DEF FrameSamples
    <3> DEFINE others == UNION {FrameSamples(open[k]) : k \in Keys(open) \ {id}}
    <3>4. MapSamples(open) = others \cup FrameSamples(open[id])
      <4> HIDE DEF open
      <4> QED  BY <2>1 DEF MapSamples
    <3>5. CASE FrameReady(m, id, indices)
      <4>1. next = [open EXCEPT ![id] = NoFrame] /\ ready = <<frame>>
        BY <3>1, <3>5
      <4> HIDE DEF open, next, frame, ready
      <4>2. /\ Keys(next) = Keys(open) \ {id}
            /\ \A k \in Keys(next) : next[k] = open[k]
        BY <3>2, <4>1 DEF Keys, PartialMaps
      <4>3. MapSamples(next) = others
        BY <4>2 DEF MapSamples
      <4>4. ListSamples(ready) = FrameSamples(frame)
        BY <4>1 DEF ListSamples
      <4> HIDE DEF others
      <4> QED  BY <3>3, <3>4, <4>3, <4>4
    <3>6. CASE ~ FrameReady(m, id, indices)
      <4>1. next = [open EXCEPT ![id] = frame] /\ ready = <<>>
        BY <3>1, <3>6
      <4>2. frame # NoFrame
        <5> HIDE DEF frame
        <5> QED  BY <2>3, NoFrameAssumption
      <4> HIDE DEF open, next, frame, ready
      <4>3. /\ Keys(next) = Keys(open) /\ next[id] = frame
            /\ \A k \in Keys(next) \ {id} : next[k] = open[k]
        BY <2>1, <3>2, <4>1, <4>2 DEF Keys, PartialMaps
      <4>4. MapSamples(next) = others \cup FrameSamples(frame)
        BY <2>1, <4>3 DEF MapSamples
      <4>5. ListSamples(ready) = {}
        BY <4>1 DEF ListSamples
      <4> HIDE DEF others
      <4> QED  BY <3>3, <3>4, <4>4, <4>5
    <3> QED  BY <3>5, <3>6
  <2>8. ListSamples(PublishedByPush(m, id, indices)) = ListSamples(gone) \cup ListSamples(ready)
    <3>1. PublishedByPush(m, id, indices) = gone \o ready
      BY <1>2 DEF PublishedByPush
    <3>2. gone \in Seq(Frame)
      <4>1. MustEvict(m, id) => m[Oldest(m)] \in Frame
        BY EvictionHasVictim, KeysAreFrames DEF WellFormedMap
      <4> QED  BY <4>1 DEF EvictedFrame
    <3>3. ready \in Seq(Frame)
      <4> HIDE DEF frame
      <4> QED  BY <2>3
    <3> HIDE DEF gone, ready
    <3> QED  BY <3>1, <3>2, <3>3, ListSamplesOfConcat
  <2> HIDE DEF open, frame, new, next, ready, gone
  <2> QED  BY <2>4, <2>5, <2>6, <2>7, <2>8 DEF new, next
<1> QED  BY <1>1, <1>2

\* pop_first takes the samples of one frame, and no others, out of the map.
LEMMA PopMovesSamples ==
  ASSUME NEW m, WellFormedMap(m), Keys(m) # {}
  PROVE  MapSamples(WithoutOldest(m)) \cup FrameSamples(m[Oldest(m)]) = MapSamples(m)
<1> DEFINE next == WithoutOldest(m)
<1>1. Keys(next) = Keys(m) \ {Oldest(m)}
  BY PopKeepsMap
<1>2. Oldest(m) \in Keys(m)
  BY OldestIsLeast DEF WellFormedMap
<1>3. \A k \in Keys(next) : next[k] = m[k]
  BY <1>1 DEF WithoutOldest, Keys, PartialMaps, WellFormedMap
<1> HIDE DEF next
<1> QED  BY <1>1, <1>2, <1>3 DEF MapSamples, next

-----------------------------------------------------------------------------
\* A frame is in one place.

\* The frames in seq have different ids, and the map has none of these.
Apart(seq, m) ==
  /\ \A a, b \in DOMAIN seq : seq[a].sequence_id = seq[b].sequence_id => a = b
  /\ \A a \in DOMAIN seq : seq[a].sequence_id \notin Keys(m)

\* Without this a delivery could leave samples of its id behind.
OnePlaceInv == \A w \in Writers : Apart(outbox[w], partial)

\* An evicted frame and one that has become ready differ, and neither stays.
LEMMA PublishedAreApart ==
  ASSUME NEW m, WellFormedMap(m), NEW id \in Ids, NEW indices \in Seq(Nat)
  PROVE  Apart(PublishedByPush(m, id, indices), MapAfterPush(m, id, indices))
<1> DEFINE open  == OpenFrame(m, id)
           frame == FrameAfterPush(m, id, indices)
           next  == MapAfterPush(m, id, indices)
           ready == IF FrameReady(m, id, indices) THEN <<frame>> ELSE <<>>
           gone  == EvictedFrame(m, id)
<1>1. CASE TooOld(m, id)
  BY <1>1 DEF PublishedByPush, Apart
<1>2. CASE ~ TooOld(m, id)
  <2>1. WellFormedMap(open) /\ id \in Keys(open) /\ open \in PartialMaps
    BY OpenKeepsMap DEF WellFormedMap
  <2>2. frame \in Frame /\ frame.sequence_id = id
    <3>1. open[id] \in Frame /\ open[id].sequence_id = id /\ Counted(open[id])
      BY <2>1, KeysAreFrames DEF WellFormedMap
    <3> QED  BY <3>1, InsertKeepsCount DEF FrameAfterPush
  <2>3. next = [open EXCEPT ![id] = IF FrameReady(m, id, indices) THEN NoFrame ELSE frame]
    BY <1>2 DEF MapAfterPush
  <2>4. /\ Keys(next) \subseteq Keys(open)
        /\ FrameReady(m, id, indices) => id \notin Keys(next)
    <3> HIDE DEF open, frame, next
    <3> QED  BY <2>1, <2>3 DEF Keys, PartialMaps
  <2>5. MustEvict(m, id) =>
          /\ Oldest(m) # id /\ Oldest(m) \notin Keys(next)
          /\ m[Oldest(m)] \in Frame /\ m[Oldest(m)].sequence_id = Oldest(m)
    BY <2>4, OpenKeepsMap, EvictionHasVictim, KeysAreFrames DEF WellFormedMap
  <2>6. gone = <<>> \/ (MustEvict(m, id) /\ gone = <<m[Oldest(m)]>>)
    <3> DEFINE Leaves == MustEvict(m, id) /\ m[Oldest(m)].sample_count >= MinFrameSampleCount
    <3>1. CASE Leaves
      BY <3>1 DEF EvictedFrame
    <3>2. CASE ~ Leaves
      BY <3>2 DEF EvictedFrame
    <3> QED  BY <3>1, <3>2
  <2>7. PublishedByPush(m, id, indices) = gone \o ready
    BY <1>2 DEF PublishedByPush
  <2> HIDE DEF open, frame, next, gone
  <2>8. CASE gone = <<>>
    <3>1. CASE FrameReady(m, id, indices)
      <4>1. gone \o ready = <<frame>>
        <5>1. gone \o ready = <<>> \o <<frame>>
          BY <2>8, <3>1
        <5> QED  BY <5>1
      <4> QED  BY <2>2, <2>4, <2>7, <3>1, <4>1 DEF Apart, next
    <3>2. CASE ~ FrameReady(m, id, indices)
      <4>1. gone \o ready = <<>>
        BY <2>8, <3>2
      <4> QED  BY <2>7, <4>1 DEF Apart, next
    <3> QED  BY <3>1, <3>2
  <2>9. CASE MustEvict(m, id) /\ gone = <<m[Oldest(m)]>>
    <3>1. CASE FrameReady(m, id, indices)
      <4> DEFINE both == gone \o ready
      <4>1. /\ DOMAIN both = {1, 2}
            /\ both[1] = m[Oldest(m)] /\ both[2] = frame
        <5>1. gone = <<m[Oldest(m)]>> /\ ready = <<frame>>
          BY <2>9, <3>1
        <5>2. gone \in Seq(Frame) /\ ready \in Seq(Frame) /\ Len(gone) = 1 /\ Len(ready) = 1
          BY <2>2, <2>5, <2>9, <5>1
        <5> HIDE DEF ready
        <5>3. Len(both) = 2 /\ both[1] = gone[1] /\ both[2] = ready[1] /\ both \in Seq(Frame)
          <6> HIDE DEF gone
          <6>1. /\ Len(both) = Len(gone) + Len(ready) /\ both \in Seq(Frame)
                /\ \A i \in 1 .. Len(gone) + Len(ready) :
                     both[i] = IF i <= Len(gone) THEN gone[i] ELSE ready[i - Len(gone)]
            BY <5>2, ConcatProperties
          <6> HIDE DEF both
          <6>2. Len(both) = 2
            BY <5>2, <6>1
          <6>3. both[1] = gone[1]
            BY <5>2, <6>1
          <6>4. both[2] = ready[1]
            BY <5>2, <6>1
          <6> QED  BY <6>1, <6>2, <6>3, <6>4
        <5> HIDE DEF both
        <5> QED  BY <5>1, <5>3
      <4> HIDE DEF both
      <4>2. PublishedByPush(m, id, indices) = both
        BY <2>7 DEF both
      <4> QED  BY <2>2, <2>4, <2>5, <2>9, <3>1, <4>1, <4>2 DEF Apart, next
    <3>2. CASE ~ FrameReady(m, id, indices)
      <4>1. gone \o ready = <<m[Oldest(m)]>>
        BY <2>5, <2>9, <3>2
      <4> QED  BY <2>5, <2>7, <2>9, <4>1 DEF Apart, next
    <3> QED  BY <3>1, <3>2
  <2> QED  BY <2>6, <2>8, <2>9
<1> QED  BY <1>1, <1>2

\* Every step keeps frames in one place.
LEMMA StepKeepsOnePlace ==
  ASSUME IInv, OnePlaceInv, [Next]_vars
  PROVE  OnePlaceInv'
<1>0. /\ WellFormedMap(partial)
      /\ outbox \in [Writers -> Seq(CountedFrame)]
      /\ \A w \in Writers : outbox[w] # <<>> => lock = w
      /\ \A w \in Writers : op[w] # "idle" <=> lock = w
  BY DEF IInv, MapInv, LockInv
<1>1. ASSUME NEW w \in Writers, NEW id \in Ids, NEW indices \in Chunks,
             PushArray(w, id, indices)
      PROVE  OnePlaceInv'
  <2>1. Apart(PublishedByPush(partial, id, indices), partial')
    BY <1>0, <1>1, PublishedAreApart, ChunkIsSeq DEF PushArray
  <2>2. outbox' = [outbox EXCEPT ![w] = PublishedByPush(partial, id, indices)]
    BY <1>1 DEF PushArray
  <2>3. \A v \in Writers : outbox[v] = <<>>
    BY <1>0, <1>1, NoWriterAssumption DEF PushArray, LockIsFree
  <2>4. \A v \in Writers : v # w => outbox'[v] = <<>>
    BY <1>0, <2>2, <2>3
  <2>5. outbox'[w] = PublishedByPush(partial, id, indices)
    BY <1>0, <2>2
  <2>6. Apart(<<>>, partial')
    BY DEF Apart
  <2> QED  BY <2>1, <2>4, <2>5, <2>6 DEF OnePlaceInv
<1>2. ASSUME NEW w \in Writers, FlushPop(w)
      PROVE  OnePlaceInv'
  <2> DEFINE f == partial[Oldest(partial)]
  <2>1. outbox' = [outbox EXCEPT ![w] = <<f>>] /\ partial' = WithoutOldest(partial)
    BY <1>2 DEF FlushPop
  <2>2. f.sequence_id = Oldest(partial) /\ Oldest(partial) \notin Keys(partial')
    BY <1>0, <1>2, <2>1, PopKeepsMap, OldestIsLeast DEF FlushPop, WellFormedMap
  <2>3. \A v \in Writers : outbox[v] = <<>>
    BY <1>0, <1>2, NoWriterAssumption DEF FlushPop, LockIsFree
  <2> HIDE DEF f
  <2>4. Apart(<<f>>, partial') /\ Apart(<<>>, partial')
    BY <2>2 DEF Apart
  <2>5. \A v \in Writers : outbox'[v] = IF v = w THEN <<f>> ELSE <<>>
    BY <1>0, <2>1, <2>3
  <2> QED  BY <2>4, <2>5 DEF OnePlaceInv
<1>3. ASSUME NEW w \in Writers, SendToReceivers(w)
      PROVE  OnePlaceInv'
  <2> DEFINE q == outbox[w]
  <2>1. q \in Seq(CountedFrame) /\ q # <<>> /\ Apart(q, partial)
    BY <1>0, <1>3 DEF SendToReceivers, OnePlaceInv
  <2>2. outbox' = [outbox EXCEPT ![w] = Tail(q)] /\ partial' = partial
    BY <1>3 DEF SendToReceivers
  <2> HIDE DEF q
  <2>3. Apart(Tail(q), partial)
    <3>1. \A i \in DOMAIN Tail(q) : i \in Nat /\ i + 1 \in DOMAIN q /\ Tail(q)[i] = q[i + 1]
      BY <2>1, HeadTailProperties
    <3> QED  BY <2>1, <3>1 DEF Apart
  <2>4. \A v \in Writers : outbox'[v] = IF v = w THEN Tail(q) ELSE outbox[v]
    BY <1>0, <2>2
  <2> QED  BY <2>2, <2>3, <2>4 DEF OnePlaceInv
<1>4. ASSUME NEW w \in Writers, StoreLastFrame(w) \/ Return(w)
      PROVE  UNCHANGED <<outbox, partial>>
  BY <1>4 DEF StoreLastFrame, Return
<1>5. ASSUME NEW r \in Readers, Subscribe(r) \/ Receive(r) \/ GiveUp(r) \/ Leave(r)
      PROVE  UNCHANGED <<outbox, partial>>
  BY <1>5 DEF Subscribe, Receive, GiveUp, Leave, Unsubscribed, bufferVars
<1>6. CASE UNCHANGED vars
  BY <1>6 DEF vars, bufferVars, OnePlaceInv
<1>7. ASSUME UNCHANGED <<outbox, partial>>
      PROVE  OnePlaceInv'
  BY <1>7 DEF OnePlaceInv
<1> QED  BY <1>1, <1>2, <1>3, <1>4, <1>5, <1>6, <1>7 DEF Next, WriterStep

-----------------------------------------------------------------------------
\* The refinement mapping.

\* The samples of w that last_frame does not show yet.
UnseenSamples(w) == UNION {FrameSamples(f) : f \in Unseen(w)}

\* When no writer but w has frames to push, what w does not have is in the map.
LEMMA PendingWithOne ==
  ASSUME NEW w \in Writers, \A v \in Writers : v # w => outbox[v] = <<>>
  PROVE  PendingSamples = MapSamples(partial) \cup UnseenSamples(w)
<1>1. \A v \in Writers : v # w => Unseen(v) = {}
  BY DEF Unseen
<1>2. UNION {Unseen(v) : v \in Writers} = Unseen(w)
  BY <1>1
<1> QED  BY <1>2 DEF PendingSamples, MapSamples, UnseenSamples

\* The same of the next state.
LEMMA PendingWithOneNext ==
  ASSUME NEW w \in Writers, \A v \in Writers : v # w => outbox'[v] = <<>>
  PROVE  PendingSamples' = MapSamples(partial') \cup UnseenSamples(w)'
<1>1. \A v \in Writers : v # w => Unseen(v)' = {}
  BY DEF Unseen
<1>2. UNION {Unseen(v)' : v \in Writers} = Unseen(w)'
  BY <1>1
<1> QED  BY <1>2 DEF PendingSamples, MapSamples, UnseenSamples

\* Without frames to push nothing is on its way.
LEMMA NothingUnseen ==
  ASSUME NEW w \in Writers, outbox[w] = <<>>
  PROVE  UnseenSamples(w) = {}
BY DEF UnseenSamples, Unseen

-----------------------------------------------------------------------------
\* Steps.

\* A call of push_array accepts what insert_chunk writes.
LEMMA PushAccepts ==
  ASSUME IInv, NEW w \in Writers, NEW id \in Ids, NEW indices \in Chunks,
         PushArray(w, id, indices)
  PROVE  Delivery!Next
<1> DEFINE new  == NewIndices(partial, id, indices)
           seq  == PublishedByPush(partial, id, indices)
<1>1. /\ WellFormedMap(partial) /\ outbox \in [Writers -> Seq(CountedFrame)]
      /\ \A v \in Writers : outbox[v] = <<>> /\ ~ stored[v]
  BY NoWriterAssumption DEF IInv, MapInv, LockInv, PushArray, LockIsFree
<1>2. /\ partial' = MapAfterPush(partial, id, indices)
      /\ outbox' = [outbox EXCEPT ![w] = seq]
      /\ UNCHANGED <<stored, last_frame>>
  BY DEF PushArray
<1>3. PendingSamples = MapSamples(partial)
  BY <1>1, PendingWithOne, NothingUnseen
<1>4. outbox'[w] = seq /\ ~ stored'[w] /\ \A v \in Writers : v # w => outbox'[v] = <<>>
  BY <1>1, <1>2
<1>5. PendingSamples' = MapSamples(partial') \cup ListSamples(seq)
  <2> HIDE DEF seq
  <2>1. UnseenSamples(w)' = ListSamples(seq)
    BY <1>4 DEF UnseenSamples, Unseen, ListSamples
  <2> QED  BY <1>4, <2>1, PendingWithOneNext
<1>6. /\ new \subseteq Index
      /\ ({id} \X new) \cap MapSamples(partial) = {}
      /\ MapSamples(partial') \cup ListSamples(seq) = MapSamples(partial) \cup ({id} \X new)
  BY <1>1, <1>2, ChunkIsSeq, PushMovesSamples
<1>7. LatestBatch' = LatestBatch
  BY <1>2 DEF LatestBatch
<1>8. Delivery!Accept(id, new)
  <2> HIDE DEF new, seq
  <2> QED  BY <1>3, <1>5, <1>6, <1>7 DEF Delivery!Accept
<1> HIDE DEF new
<1> QED  BY <1>6, <1>8 DEF Delivery!Next

\* A round of flush moves the oldest frame and delivers nothing yet.
LEMMA PopDeliversNothing ==
  ASSUME IInv, NEW w \in Writers, FlushPop(w)
  PROVE  UNCHANGED <<PendingSamples, LatestBatch>>
<1> DEFINE f == partial[Oldest(partial)]
<1>1. /\ WellFormedMap(partial) /\ outbox \in [Writers -> Seq(CountedFrame)]
      /\ \A v \in Writers : outbox[v] = <<>> /\ ~ stored[v]
  BY NoWriterAssumption DEF IInv, MapInv, LockInv, FlushPop, LockIsFree
<1>2. /\ partial' = WithoutOldest(partial) /\ Keys(partial) # {}
      /\ outbox' = [outbox EXCEPT ![w] = <<f>>]
      /\ UNCHANGED <<stored, last_frame>>
  BY DEF FlushPop
<1>3. PendingSamples = MapSamples(partial)
  BY <1>1, PendingWithOne, NothingUnseen
<1>4. outbox'[w] = <<f>> /\ ~ stored'[w] /\ \A v \in Writers : v # w => outbox'[v] = <<>>
  BY <1>1, <1>2
<1>5. PendingSamples' = MapSamples(partial') \cup FrameSamples(f)
  <2> HIDE DEF f
  <2>1. UnseenSamples(w)' = FrameSamples(f)
    BY <1>4 DEF UnseenSamples, Unseen
  <2> QED  BY <1>4, <2>1, PendingWithOneNext
<1>6. MapSamples(partial') \cup FrameSamples(f) = MapSamples(partial)
  BY <1>1, <1>2, PopMovesSamples
<1>7. LatestBatch' = LatestBatch
  BY <1>2 DEF LatestBatch
<1> HIDE DEF f
<1> QED  BY <1>3, <1>5, <1>6, <1>7

\* Showing a frame as last_frame delivers its id.
LEMMA StoreDelivers ==
  ASSUME IInv, OnePlaceInv, NEW w \in Writers, StoreLastFrame(w)
  PROVE  Delivery!Next
<1> DEFINE q  == outbox[w]
           f  == Head(q)
           id == f.sequence_id
<1>1. /\ WellFormedMap(partial) /\ stored \in [Writers -> BOOLEAN]
      /\ q \in Seq(Frame) /\ q # <<>> /\ ~ stored[w]
      /\ \A v \in Writers : v # w => outbox[v] = <<>>
  <2>1. q \in Seq(Frame)
    BY CountedAreFrames, ElementOfSeq DEF IInv, LockInv
  <2> QED  BY <2>1 DEF IInv, MapInv, LockInv, StoreLastFrame
<1>2. last_frame' = f /\ stored'[w] /\ UNCHANGED <<partial, outbox>>
  BY <1>1 DEF StoreLastFrame
<1>3. Apart(q, partial)
  BY DEF OnePlaceInv
<1> DEFINE rest == UNION {FrameSamples(q[n]) : n \in {m \in DOMAIN q : m > 1}}
<1>4. PendingSamples = MapSamples(partial) \cup ListSamples(q)
  <2>1. UnseenSamples(w) = ListSamples(q)
    BY <1>1 DEF UnseenSamples, Unseen, ListSamples
  <2> QED  BY <1>1, <2>1, PendingWithOne
<1>5. PendingSamples' = MapSamples(partial) \cup rest
  <2>1. UnseenSamples(w)' = rest
    BY <1>2 DEF UnseenSamples, Unseen
  <2> QED  BY <1>1, <1>2, <2>1, PendingWithOneNext
<1>6. f \in Frame /\ 1 \in DOMAIN q /\ f = q[1] /\ \A n \in DOMAIN q : n = 1 \/ n > 1
  <2> HIDE DEF q
  <2> QED  BY <1>1, HeadTailProperties, EmptySeq
<1>7. ListSamples(q) = FrameSamples(f) \cup rest
  <2> HIDE DEF q, f
  <2> QED  BY <1>6 DEF ListSamples
<1>8. \A s \in FrameSamples(f) : s[1] = id
  BY DEF FrameSamples
<1>9. \A s \in MapSamples(partial) \cup rest : s[1] # id
  <2>1. ASSUME NEW k \in Keys(partial), NEW s \in FrameSamples(partial[k])
        PROVE  s[1] # id
    <3>1. partial[k].sequence_id = k
      BY <1>1 DEF WellFormedMap
    <3>2. id \notin Keys(partial)
      BY <1>3, <1>6 DEF Apart
    <3> HIDE DEF id
    <3> QED  BY <2>1, <3>1, <3>2 DEF FrameSamples
  <2>2. ASSUME NEW n \in DOMAIN q, n > 1, NEW s \in FrameSamples(q[n])
        PROVE  s[1] # id
    <3>1. q[n].sequence_id # id
      BY <1>3, <1>6, <2>2 DEF Apart
    <3> HIDE DEF id
    <3> QED  BY <2>2, <3>1 DEF FrameSamples
  <2> HIDE DEF id
  <2> QED  BY <2>1, <2>2 DEF MapSamples
<1>10. LatestBatch' = FrameSamples(f)
  <2>1. last_frame' # NoFrame
    BY <1>2, <1>6, NoFrameAssumption
  <2> QED  BY <1>2, <2>1 DEF LatestBatch
<1>11. Delivery!Deliver(id)
  <2> HIDE DEF q, f, id, rest
  <2>1. {s \in PendingSamples : s[1] = id} = FrameSamples(f)
    BY <1>4, <1>7, <1>8, <1>9
  <2>2. PendingSamples' = PendingSamples \ FrameSamples(f)
    BY <1>4, <1>5, <1>7, <1>8, <1>9
  <2> QED  BY <1>10, <2>1, <2>2 DEF Delivery!Deliver, Delivery!PendingOf
<1>12. id \in Ids
  BY <1>6 DEF Frame
<1> HIDE DEF id
<1> QED  BY <1>11, <1>12 DEF Delivery!Next

\* Sending the frame that is shown changes nothing.
LEMMA SendDeliversNothing ==
  ASSUME IInv, NEW w \in Writers, SendToReceivers(w)
  PROVE  UNCHANGED <<PendingSamples, LatestBatch>>
<1> DEFINE q == outbox[w]
           t == Tail(q)
<1>1. /\ q \in Seq(CountedFrame) /\ q # <<>> /\ stored[w]
      /\ outbox \in [Writers -> Seq(CountedFrame)] /\ stored \in [Writers -> BOOLEAN]
      /\ \A v \in Writers : v # w => outbox[v] = <<>>
  BY DEF IInv, LockInv, SendToReceivers
<1>2. /\ outbox' = [outbox EXCEPT ![w] = t]
      /\ stored' = [stored EXCEPT ![w] = FALSE]
      /\ UNCHANGED <<partial, last_frame>>
  BY DEF SendToReceivers
<1>3. outbox'[w] = t /\ ~ stored'[w] /\ \A v \in Writers : v # w => outbox'[v] = <<>>
  BY <1>1, <1>2
<1> DEFINE later == {n \in DOMAIN q : n > 1}
<1>4. Unseen(w) = {q[n] : n \in later}
  BY <1>1 DEF Unseen
<1>5. Unseen(w)' = {t[n] : n \in DOMAIN t}
  BY <1>3 DEF Unseen
<1>6. {t[n] : n \in DOMAIN t} = {q[n] : n \in later}
  <2> HIDE DEF q
  <2>1. /\ t \in Seq(CountedFrame) /\ Len(t) = Len(q) - 1 /\ Len(q) \in Nat \ {0}
        /\ \A i \in 1 .. Len(t) : t[i] = q[i + 1]
    BY <1>1, HeadTailProperties, EmptySeq
  <2> HIDE DEF t
  <2>2. DOMAIN t = 1 .. (Len(q) - 1) /\ DOMAIN q = 1 .. Len(q)
    BY <1>1, <2>1
  <2>3. \A n \in DOMAIN t : n + 1 \in later /\ t[n] = q[n + 1]
    BY <2>1, <2>2
  <2>4. \A n \in later : n - 1 \in DOMAIN t /\ t[n - 1] = q[n]
    BY <2>1, <2>2
  <2> QED  BY <2>3, <2>4
<1>7. UnseenSamples(w)' = UnseenSamples(w)
  <2> HIDE DEF q, t, later
  <2> QED  BY <1>4, <1>5, <1>6 DEF UnseenSamples
<1>8. PendingSamples' = PendingSamples
  BY <1>1, <1>2, <1>3, <1>7, PendingWithOne, PendingWithOneNext
<1> QED  BY <1>2, <1>8 DEF LatestBatch

\* Steps that leave the map and the frames of the writers alone.
LEMMA NothingMoves ==
  ASSUME UNCHANGED <<partial, outbox, stored, last_frame>>
  PROVE  UNCHANGED <<PendingSamples, LatestBatch>>
<1>1. \A w \in Writers : Unseen(w)' = Unseen(w)
  BY DEF Unseen
<1>2. Keys(partial)' = Keys(partial)
  BY DEF Keys
<1> QED  BY <1>1, <1>2 DEF PendingSamples, LatestBatch

\* Each step of a buffer is one of FrameDelivery, or none.
LEMMA StepIsDelivery ==
  ASSUME IInv, OnePlaceInv, [Next]_vars
  PROVE  [Delivery!Next]_(Delivery!vars)
<1>1. ASSUME NEW w \in Writers, Return(w)
      PROVE  UNCHANGED <<partial, outbox, stored, last_frame>>
  BY <1>1 DEF Return
<1>2. ASSUME NEW r \in Readers, Subscribe(r) \/ Receive(r) \/ GiveUp(r) \/ Leave(r)
      PROVE  UNCHANGED <<partial, outbox, stored, last_frame>>
  BY <1>2 DEF Subscribe, Receive, GiveUp, Leave, Unsubscribed, bufferVars
<1>3. CASE UNCHANGED vars
  BY <1>3, NothingMoves DEF vars, bufferVars, Delivery!vars
<1> QED  BY <1>1, <1>2, <1>3, PushAccepts, PopDeliversNothing, StoreDelivers,
            SendDeliversNothing, NothingMoves
         DEF Next, WriterStep, Delivery!vars

\* The buffer implements FrameDelivery: whatever is evicted, flushed, refused
\* half way or completed, each accepted sample leaves exactly once, together
\* with all that was accepted for its frame.
THEOREM BufferImplementsDelivery == Spec => ImplementsDelivery
<1>1. Init => OnePlaceInv /\ Delivery!Init
  <2> SUFFICES ASSUME Init PROVE OnePlaceInv /\ Delivery!Init
    OBVIOUS
  <2>1. Keys(partial) = {} /\ \A w \in Writers : outbox[w] = <<>>
    BY DEF Init, Keys, EmptyMap
  <2>2. OnePlaceInv
    BY <2>1 DEF OnePlaceInv, Apart
  <2>3. \A w \in Writers : Unseen(w) = {}
    BY <2>1 DEF Unseen
  <2>4. PendingSamples = {} /\ LatestBatch = {}
    BY <2>1, <2>3 DEF Init, PendingSamples, LatestBatch
  <2> QED  BY <2>2, <2>4 DEF Delivery!Init
<1>2. IInv /\ OnePlaceInv /\ [Next]_vars => OnePlaceInv'
  BY StepKeepsOnePlace
<1>3. IInv /\ OnePlaceInv /\ [Next]_vars => [Delivery!Next]_(Delivery!vars)
  BY StepIsDelivery
<1> QED  BY <1>1, <1>2, <1>3, Invariance, PTL DEF Spec, ImplementsDelivery, Delivery!Spec

=============================================================================
