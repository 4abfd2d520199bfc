----------------------------- MODULE FrameProofs -----------------------------
(***************************************************************************)
(* Facts about the operators of Frames, for every set of ids, width and    *)
(* capacity: what a chunk does to one frame, and what push_array and       *)
(* pop_first do to the map.                                                *)
(***************************************************************************)
EXTENDS Frames, FiniteSetTheorems, SequenceTheorems, TLAPS

\* A frame whose sample_count is the number of slices written.
Counted(f) == f.sample_count = Cardinality(f.mask)

CountedFrame == {f \in Frame : Counted(f)}

\* The least number of a set of naturals is in it and bounds it from below.
\* Used for the first key of the BTreeMap.
LEMMA MinIsLeast ==
  ASSUME NEW S, S \subseteq Nat, S # {}
  PROVE  Min(S) \in S /\ \A x \in S : Min(S) <= x
<1>1. PICK m \in S : \A y \in S : ~ (<<y, m>> \in OpToRel(<, Nat))
  BY NatLessThanWellFounded, WFMin
<1>2. \A y \in S : m <= y
  <2> TAKE y \in S
  <2>1. y \in Nat /\ m \in Nat
    OBVIOUS
  <2>2. <<y, m>> \notin OpToRel(<, Nat)
    BY <1>1
  <2> QED  BY <2>1, <2>2 DEF OpToRel
<1> QED  BY <1>2 DEF Min

\* The greatest number of a finite set of naturals.  Used for the last key of
\* the BTreeMap.
LEMMA MaxIsGreatest ==
  ASSUME NEW S, S \subseteq Nat, IsFiniteSet(S), S # {}
  PROVE  Max(S) \in S /\ \A y \in S : Max(S) >= y
<1> DEFINE UpTo(x) == {y \in S : y <= x}
           Rest(x) == Cardinality(S) - Cardinality(UpTo(x))
           C       == {Rest(x) : x \in S}
<1>1. \A x \in S : /\ IsFiniteSet(UpTo(x)) /\ Cardinality(UpTo(x)) \in Nat
                   /\ Cardinality(UpTo(x)) <= Cardinality(S) /\ Cardinality(S) \in Nat
  BY FS_Subset, FS_CardinalityType
<1>2. C \subseteq Nat /\ C # {}
  <2>1. \A x \in S : Rest(x) \in Nat
    <3> HIDE DEF UpTo
    <3> QED  BY <1>1
  <2> HIDE DEF Rest
  <2> QED  BY <2>1
<1>3. PICK m \in S : \A x \in S : Rest(m) <= Rest(x)
  <2>1. Min(C) \in C /\ \A r \in C : Min(C) <= r
    <3> HIDE DEF C
    <3> QED  BY <1>2, MinIsLeast
  <2> HIDE DEF Rest
  <2> QED  BY <2>1
<1>4. \A y \in S : m >= y
  <2> SUFFICES ASSUME NEW y \in S, m < y PROVE FALSE
    OBVIOUS
  <2>1. UpTo(m) \subseteq UpTo(y) /\ y \in UpTo(y) /\ y \notin UpTo(m)
    <3>1. m \in Nat /\ y \in Nat /\ \A x \in S : x \in Nat
      OBVIOUS
    <3>2. y <= y /\ ~ (y <= m) /\ \A x \in S : x <= m => x <= y
      BY <3>1
    <3> HIDE DEF Rest
    <3> QED  BY <3>2, Zenon
  <2>2. Cardinality(UpTo(m)) <= Cardinality(UpTo(y)) /\ Cardinality(UpTo(m)) # Cardinality(UpTo(y))
    <3>1. IsFiniteSet(UpTo(y))
      BY <1>1
    <3> HIDE DEF UpTo
    <3> QED  BY <2>1, <3>1, FS_Subset
  <2>3. Rest(m) <= Rest(y)
    BY <1>3
  <2> HIDE DEF UpTo
  <2> QED  BY <1>1, <2>2, <2>3
<1> QED  BY <1>3, <1>4 DEF Max

\* The slices of a frame can be counted.
LEMMA IndexIsFinite == IsFiniteSet(Index)
BY FS_Interval, WidthAssumption DEF Index

\* insert_chunk keeps sample_count equal to the number of slices written, when
\* it takes the whole chunk and when it bails half way.
LEMMA InsertKeepsCount ==
  ASSUME NEW f \in Frame, NEW indices \in Seq(Nat), Counted(f)
  PROVE  /\ InsertChunk(f, indices) \in Frame
         /\ InsertChunk(f, indices).sequence_id = f.sequence_id
         /\ f.mask \subseteq InsertChunk(f, indices).mask
         /\ Counted(InsertChunk(f, indices))
<1> DEFINE slots == WrittenSlots(f, indices)
           image == {indices[n] : n \in slots}
           put   == [n \in slots |-> indices[n]]
<1>1. IsFiniteSet(slots)
  <2>1. IsFiniteSet(DOMAIN indices)
    BY FS_Interval
  <2> QED  BY <2>1, FS_Subset DEF WrittenSlots
<1>2. \A n \in slots : /\ n \in DOMAIN indices
                       /\ n \in Nat \ {0}
                       /\ IsFresh(f, indices, n)
  BY DEF WrittenSlots
<1>3. image \subseteq Index /\ image \cap f.mask = {}
  BY <1>2 DEF IsFresh
<1>4. ExistsBijection(slots, image)
  <2>1. \A m, n \in slots : m < n => indices[m] # indices[n]
    BY <1>2 DEF IsFresh
  <2>2. \A m, n \in slots : indices[m] = indices[n] => m = n
    BY <1>2, <2>1
  <2>3. put \in Bijection(slots, image)
    BY <2>2 DEF Bijection, Injection, Surjection, IsInjective
  <2> QED  BY <2>3 DEF ExistsBijection
<1>5. IsFiniteSet(image) /\ Cardinality(image) = Cardinality(slots)
  BY <1>1, <1>4, FS_Bijection
<1>6. IsFiniteSet(f.mask)
  BY IndexIsFinite, FS_Subset DEF Frame
<1>7. Cardinality(f.mask \cup image) = Cardinality(f.mask) + Cardinality(slots)
  <2>1. Cardinality(f.mask \cap image) = 0
    BY <1>3, FS_EmptySet
  <2>2. Cardinality(f.mask \cup image) =
          Cardinality(f.mask) + Cardinality(image) - Cardinality(f.mask \cap image)
    BY <1>5, <1>6, FS_Union
  <2>3. Cardinality(f.mask) \in Nat /\ Cardinality(image) \in Nat
    BY <1>5, <1>6, FS_CardinalityType
  <2> QED  BY <1>5, <2>1, <2>2, <2>3
<1>8. Cardinality(slots) \in Nat
  BY <1>1, FS_CardinalityType
<1>9. InsertChunk(f, indices) =
        [f EXCEPT !.mask = f.mask \cup image,
                  !.sample_count = f.sample_count + Cardinality(slots)]
  BY DEF InsertChunk
<1> DEFINE total == Cardinality(slots)
<1>10. f.mask \cup image \subseteq Index /\ f.sample_count + total \in Nat
  BY <1>3, <1>8 DEF Frame
<1>11. InsertChunk(f, indices) =
         [sequence_id |-> f.sequence_id, mask |-> f.mask \cup image,
          sample_count |-> f.sample_count + total]
  BY <1>9 DEF Frame
<1> HIDE DEF slots, image, put, total
<1> QED  BY <1>7, <1>10, <1>11 DEF Frame, Counted, total

-----------------------------------------------------------------------------

\* What is true of the map at every step: it holds frames under their own ids,
\* each with an exact count, and no more of them than the limit.
WellFormedMap(partial) ==
  /\ partial \in PartialMaps
  /\ IsFiniteSet(Keys(partial))
  /\ Cardinality(Keys(partial)) <= PartialFrameCapacity
  /\ \A id \in Keys(partial) :
       partial[id].sequence_id = id /\ Counted(partial[id])

\* A buffer starts with a well-formed map.
LEMMA EmptyMapWellFormed == WellFormedMap(EmptyMap)
<1>1. Keys(EmptyMap) = {}
  BY DEF Keys, EmptyMap
<1>2. EmptyMap \in PartialMaps
  BY DEF EmptyMap, PartialMaps
<1> QED  BY <1>1, <1>2, FS_EmptySet, CapacityAssumption DEF WellFormedMap

\* A frame that has just been opened is counted right.
LEMMA NewFrameCounted ==
  ASSUME NEW id \in Ids
  PROVE  NewFrame(id) \in Frame /\ NewFrame(id).sequence_id = id /\ Counted(NewFrame(id))
BY FS_EmptySet DEF NewFrame, Frame, Counted

\* An entry of the map is a frame.
LEMMA KeysAreFrames ==
  ASSUME NEW partial \in PartialMaps, NEW id \in Keys(partial)
  PROVE  id \in Ids /\ partial[id] \in Frame /\ partial[id] # NoFrame
BY DEF Keys, PartialMaps

\* The oldest id of a map that is not empty is the least of its ids.
LEMMA OldestIsLeast ==
  ASSUME NEW partial \in PartialMaps, Keys(partial) # {}
  PROVE  Oldest(partial) \in Keys(partial) /\ \A k \in Keys(partial) : Oldest(partial) <= k
<1>1. Keys(partial) \subseteq Nat
  BY IdsAssumption DEF Keys
<1> QED  BY <1>1, MinIsLeast DEF Oldest

\* Eviction finds a frame to evict.
LEMMA EvictionHasVictim ==
  ASSUME NEW partial, WellFormedMap(partial), NEW id \in Ids, MustEvict(partial, id)
  PROVE  /\ Oldest(partial) \in Keys(partial)
         /\ Oldest(partial) # id
         /\ \A k \in Keys(partial) : Oldest(partial) <= k
<1>1. Keys(partial) # {}
  BY FS_EmptySet, CapacityAssumption DEF MustEvict, WellFormedMap
<1>2. partial[id] = NoFrame
  BY DEF MustEvict
<1>3. id \notin Keys(partial)
  BY <1>2 DEF Keys
<1> QED  BY <1>1, <1>3, OldestIsLeast DEF WellFormedMap

\* Opening a frame, with or without an eviction, keeps the map well formed and
\* gives id a frame.
LEMMA OpenKeepsMap ==
  ASSUME NEW partial, WellFormedMap(partial), NEW id \in Ids
  PROVE  /\ WellFormedMap(OpenFrame(partial, id))
         /\ id \in Keys(OpenFrame(partial, id))
         /\ Keys(OpenFrame(partial, id)) =
              (Keys(partial) \cup {id}) \ (IF MustEvict(partial, id) THEN {Oldest(partial)} ELSE {})
<1> DEFINE open   == OpenFrame(partial, id)
           victim == IF MustEvict(partial, id) THEN {Oldest(partial)} ELSE {}
<1>1. \A k \in Ids : open[k] = IF k = id /\ partial[id] = NoFrame THEN NewFrame(id)
                               ELSE IF k \in victim THEN NoFrame ELSE partial[k]
  BY DEF OpenFrame
<1>2. NewFrame(id) \in Frame /\ NewFrame(id) # NoFrame
  BY NewFrameCounted, NoFrameAssumption
<1>3. id \notin victim
  BY EvictionHasVictim
<1>4. open \in PartialMaps
  BY <1>2 DEF OpenFrame, PartialMaps, WellFormedMap
<1>5. Keys(open) = (Keys(partial) \cup {id}) \ victim
  <2> HIDE DEF open, victim
  <2> QED  BY <1>1, <1>2, <1>3 DEF Keys
<1>6. IsFiniteSet(Keys(open)) /\ Cardinality(Keys(open)) <= PartialFrameCapacity
  <2>0. IsFiniteSet(Keys(partial)) /\ Cardinality(Keys(partial)) \in Nat
    BY FS_CardinalityType DEF WellFormedMap
  <2>1. CASE partial[id] # NoFrame
    <3>1. Keys(open) = Keys(partial)
      BY <2>1, <1>5 DEF Keys, MustEvict
    <3> QED  BY <3>1 DEF WellFormedMap
  <2>2. CASE partial[id] = NoFrame /\ ~ MustEvict(partial, id)
    <3>1. Keys(open) = Keys(partial) \cup {id} /\ id \notin Keys(partial)
      BY <2>2, <1>5 DEF Keys
    <3>2. Cardinality(Keys(open)) = Cardinality(Keys(partial)) + 1 /\ IsFiniteSet(Keys(open))
      BY <2>0, <3>1, FS_AddElement
    <3>3. Cardinality(Keys(partial)) < PartialFrameCapacity
      BY <2>0, <2>2, CapacityAssumption DEF MustEvict, WellFormedMap
    <3> QED  BY <2>0, <3>2, <3>3, CapacityAssumption
  <2>3. CASE MustEvict(partial, id)
    <3> DEFINE rest == Keys(partial) \ {Oldest(partial)}
    <3>1. Oldest(partial) \in Keys(partial) /\ Oldest(partial) # id
      BY <2>3, EvictionHasVictim
    <3>2. IsFiniteSet(rest) /\ Cardinality(rest) = Cardinality(Keys(partial)) - 1
      BY <2>0, <3>1, FS_RemoveElement
    <3>3. Keys(open) = rest \cup {id} /\ id \notin rest
      BY <2>3, <3>1, <1>5 DEF Keys, MustEvict
    <3>4. IsFiniteSet(rest \cup {id}) /\ Cardinality(rest \cup {id}) = Cardinality(rest) + 1
      <4> HIDE DEF rest
      <4> QED  BY <3>2, <3>3, FS_AddElement
    <3>5. IsFiniteSet(Keys(open)) /\ Cardinality(Keys(open)) = Cardinality(Keys(partial))
      <4> HIDE DEF rest, open
      <4> QED  BY <2>0, <3>2, <3>3, <3>4
    <3> QED  BY <3>5 DEF WellFormedMap
  <2> QED  BY <2>1, <2>2, <2>3 DEF MustEvict
<1>7. \A k \in Keys(open) : open[k].sequence_id = k /\ Counted(open[k])
  <2> TAKE k \in Keys(open)
  <2>1. CASE k = id /\ partial[id] = NoFrame
    BY <2>1, <1>1, NewFrameCounted
  <2>2. CASE ~ (k = id /\ partial[id] = NoFrame)
    <3>1. k \in Ids /\ k \notin victim
      BY <1>5 DEF Keys
    <3>2. open[k] = partial[k]
      BY <2>2, <3>1, <1>1
    <3>3. k \in Keys(partial)
      BY <2>2, <3>1, <1>5 DEF Keys
    <3> QED  BY <3>2, <3>3 DEF WellFormedMap
  <2> QED  BY <2>1, <2>2
<1>8. id \in Keys(open)
  BY <1>3, <1>5
<1> HIDE DEF open
<1> QED  BY <1>4, <1>5, <1>6, <1>7, <1>8 DEF WellFormedMap, open

\* push_array keeps the map well formed, whether it refuses the chunk, takes a
\* part of it, takes it all, or completes the frame.
LEMMA PushKeepsMap ==
  ASSUME NEW partial, WellFormedMap(partial), NEW id \in Ids, NEW indices \in Seq(Nat)
  PROVE  WellFormedMap(MapAfterPush(partial, id, indices))
<1> DEFINE open  == OpenFrame(partial, id)
           frame == FrameAfterPush(partial, id, indices)
           next  == MapAfterPush(partial, id, indices)
           entry == IF FrameReady(partial, id, indices) THEN NoFrame ELSE frame
<1>1. CASE TooOld(partial, id)
  BY <1>1 DEF MapAfterPush
<1>2. CASE ~ TooOld(partial, id)
  <2>1. WellFormedMap(open) /\ id \in Keys(open)
    BY OpenKeepsMap
  <2>2. open[id] \in Frame /\ open[id].sequence_id = id /\ Counted(open[id])
    BY <2>1, KeysAreFrames DEF WellFormedMap
  <2>3. frame \in Frame /\ frame.sequence_id = id /\ Counted(frame)
    BY <2>2, InsertKeepsCount DEF FrameAfterPush
  <2>4. next = [open EXCEPT ![id] = entry]
    BY <1>2 DEF MapAfterPush
  <2>5. open \in PartialMaps
    BY <2>1 DEF WellFormedMap
  <2> HIDE DEF open, frame, next
  <2>6. next \in PartialMaps
    BY <2>3, <2>4, <2>5 DEF PartialMaps
  <2>7. Keys(next) \subseteq Keys(open)
    BY <2>1, <2>4, <2>5 DEF Keys, PartialMaps
  <2>8. IsFiniteSet(Keys(next)) /\ Cardinality(Keys(next)) <= PartialFrameCapacity
    <3>1. IsFiniteSet(Keys(open)) /\ Cardinality(Keys(open)) <= PartialFrameCapacity
      BY <2>1 DEF WellFormedMap
    <3>2. IsFiniteSet(Keys(next)) /\ Cardinality(Keys(next)) <= Cardinality(Keys(open))
      BY <2>7, <3>1, FS_Subset
    <3> QED  BY <3>1, <3>2, FS_CardinalityType, CapacityAssumption
  <2>9. \A k \in Keys(next) : next[k].sequence_id = k /\ Counted(next[k])
    <3> TAKE k \in Keys(next)
    <3>1. k \in Ids /\ next[k] # NoFrame
      BY DEF Keys
    <3>2. CASE k = id
      BY <2>3, <2>4, <2>5, <3>1, <3>2 DEF PartialMaps
    <3>3. CASE k # id
      <4>1. next[k] = open[k]
        BY <2>4, <2>5, <3>1, <3>3 DEF PartialMaps
      <4> QED  BY <2>1, <2>7, <4>1 DEF WellFormedMap
    <3> QED  BY <3>2, <3>3
  <2>10. WellFormedMap(next)
    BY <2>6, <2>8, <2>9 DEF WellFormedMap
  <2> QED  BY <2>10 DEF next
<1> QED  BY <1>1, <1>2

\* What push_array publishes are frames with an exact count.
LEMMA PushPublishesFrames ==
  ASSUME NEW partial, WellFormedMap(partial), NEW id \in Ids, NEW indices \in Seq(Nat)
  PROVE  PublishedByPush(partial, id, indices) \in Seq(CountedFrame)
<1> DEFINE frame == FrameAfterPush(partial, id, indices)
           ready == IF FrameReady(partial, id, indices) THEN <<frame>> ELSE <<>>
           gone  == EvictedFrame(partial, id)
<1>1. frame \in CountedFrame
  <2>1. WellFormedMap(OpenFrame(partial, id)) /\ id \in Keys(OpenFrame(partial, id))
    BY OpenKeepsMap
  <2>2. OpenFrame(partial, id)[id] \in Frame /\ Counted(OpenFrame(partial, id)[id])
    BY <2>1, KeysAreFrames DEF WellFormedMap
  <2> QED  BY <2>2, InsertKeepsCount DEF FrameAfterPush, CountedFrame
<1>2. gone \in Seq(CountedFrame)
  <2>1. CASE MustEvict(partial, id)
    <3>1. Oldest(partial) \in Keys(partial)
      BY <2>1, EvictionHasVictim
    <3>2. partial[Oldest(partial)] \in CountedFrame
      BY <3>1, KeysAreFrames DEF WellFormedMap, CountedFrame
    <3> QED  BY <2>1, <3>2 DEF EvictedFrame
  <2>2. CASE ~ MustEvict(partial, id)
    BY <2>2 DEF EvictedFrame
  <2> QED  BY <2>1, <2>2
<1>3. ready \in Seq(CountedFrame)
  BY <1>1
<1>4. gone \o ready \in Seq(CountedFrame)
  <2> HIDE DEF gone, ready
  <2> QED  BY <1>2, <1>3, ConcatProperties
<1>5. PublishedByPush(partial, id, indices) = IF TooOld(partial, id) THEN <<>> ELSE gone \o ready
  BY DEF PublishedByPush
<1> HIDE DEF gone, ready
<1> QED  BY <1>4, <1>5

\* pop_first keeps the map well formed and yields a frame with an exact count.
LEMMA PopKeepsMap ==
  ASSUME NEW partial, WellFormedMap(partial), Keys(partial) # {}
  PROVE  /\ WellFormedMap(WithoutOldest(partial))
         /\ Keys(WithoutOldest(partial)) = Keys(partial) \ {Oldest(partial)}
         /\ partial[Oldest(partial)] \in Frame
         /\ Counted(partial[Oldest(partial)])
<1> DEFINE next == WithoutOldest(partial)
<1>1. Oldest(partial) \in Keys(partial)
  BY OldestIsLeast DEF WellFormedMap
<1>2. partial[Oldest(partial)] \in Frame /\ Counted(partial[Oldest(partial)])
  BY <1>1, KeysAreFrames DEF WellFormedMap
<1>3. next \in PartialMaps
  BY DEF WithoutOldest, PartialMaps, WellFormedMap
<1>4. \A k \in Ids : next[k] = IF k = Oldest(partial) THEN NoFrame ELSE partial[k]
  BY DEF WithoutOldest, PartialMaps, WellFormedMap
<1> HIDE DEF next
<1>5. Keys(next) = Keys(partial) \ {Oldest(partial)}
  BY <1>4 DEF Keys
<1>6. IsFiniteSet(Keys(next)) /\ Cardinality(Keys(next)) <= PartialFrameCapacity
  <2>1. IsFiniteSet(Keys(partial)) /\ Cardinality(Keys(partial)) <= PartialFrameCapacity
    BY DEF WellFormedMap
  <2>2. IsFiniteSet(Keys(next)) /\ Cardinality(Keys(next)) <= Cardinality(Keys(partial))
    BY <1>5, <2>1, FS_Subset
  <2> QED  BY <2>1, <2>2, FS_CardinalityType, CapacityAssumption
<1>7. \A k \in Keys(next) : next[k].sequence_id = k /\ Counted(next[k])
  BY <1>4, <1>5 DEF Keys, WellFormedMap
<1>8. WellFormedMap(next)
  BY <1>3, <1>6, <1>7 DEF WellFormedMap
<1> QED  BY <1>2, <1>5, <1>8 DEF next

\* The last frame that flush publishes is the newest one, which it leaves in the
\* map until then.
LEMMA PopLeavesNewest ==
  ASSUME NEW partial, WellFormedMap(partial), Keys(partial) # {}
  PROVE  NewestFrame(partial) = IF Keys(WithoutOldest(partial)) # {}
                                THEN NewestFrame(WithoutOldest(partial))
                                ELSE partial[Oldest(partial)]
<1> DEFINE next   == WithoutOldest(partial)
           newest == Max(Keys(partial))
<1>1. /\ IsFiniteSet(Keys(partial)) /\ Keys(partial) \subseteq Nat
      /\ Oldest(partial) \in Keys(partial)
      /\ \A k \in Keys(partial) : Oldest(partial) <= k
  BY OldestIsLeast, IdsAssumption DEF WellFormedMap, Keys
<1>2. newest \in Keys(partial) /\ \A k \in Keys(partial) : newest >= k
  BY <1>1, MaxIsGreatest
<1>3. WellFormedMap(next) /\ Keys(next) = Keys(partial) \ {Oldest(partial)}
  BY PopKeepsMap
<1>4. \A k \in Keys(next) : next[k] = partial[k]
  BY <1>3 DEF WithoutOldest, PartialMaps, WellFormedMap, Keys
<1> HIDE DEF next, newest
<1>5. CASE Keys(next) = {}
  BY <1>2, <1>3, <1>5 DEF NewestFrame, newest, next
<1>6. CASE Keys(next) # {}
  <2>1. /\ Max(Keys(next)) \in Keys(next)
        /\ \A k \in Keys(next) : Max(Keys(next)) >= k
    <3>1. Keys(next) \subseteq Nat /\ IsFiniteSet(Keys(next))
      BY <1>1, <1>3 DEF WellFormedMap
    <3> QED  BY <1>6, <3>1, MaxIsGreatest
  <2>2. newest # Oldest(partial)
    <3>1. Max(Keys(next)) \in Keys(partial) /\ Max(Keys(next)) # Oldest(partial)
      BY <1>3, <2>1
    <3>2. newest \in Nat /\ Max(Keys(next)) \in Nat /\ Oldest(partial) \in Nat
      BY <1>1, <1>2, <3>1
    <3> QED  BY <1>1, <1>2, <3>1, <3>2
  <2>3. newest \in Keys(next)
    BY <1>2, <1>3, <2>2
  <2>4. Max(Keys(next)) = newest
    <3>1. newest \in Nat /\ Max(Keys(next)) \in Nat
      BY <1>1, <1>3, <2>1, <2>3
    <3>2. newest >= Max(Keys(next)) /\ Max(Keys(next)) >= newest
      BY <1>2, <1>3, <2>1, <2>3
    <3> QED  BY <3>1, <3>2
  <2> QED  BY <1>4, <1>6, <2>3, <2>4 DEF NewestFrame, newest, next
<1> QED  BY <1>5, <1>6

=============================================================================
