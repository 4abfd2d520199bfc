---------------------------- MODULE IngestProofs ----------------------------
(***************************************************************************)
(* Theorems about Ingest, for every set of datagrams, frame width, map and *)
(* socket capacity and flush timeout.  FrameProofs has the facts about one *)
(* map they rest on.                                                       *)
(***************************************************************************)
EXTENDS Ingest, FrameProofs

-----------------------------------------------------------------------------
\* What a push does to one map.

\* The frame a push works on.
LEMMA PushedFrame ==
  ASSUME NEW m, WellFormedMap(m), NEW id \in Ids, NEW chunk \in Seq(Nat)
  PROVE  /\ FrameAfterPush(m, id, chunk) \in Frame
         /\ FrameAfterPush(m, id, chunk) # NoFrame
         /\ FrameAfterPush(m, id, chunk).sequence_id = id
         /\ OpenFrame(m, id) \in PartialMaps
         /\ OpenFrame(m, id)[id] = IF m[id] = NoFrame THEN NewFrame(id) ELSE m[id]
         /\ \A k \in Ids : k # id => OpenFrame(m, id)[k] \in {m[k], NoFrame}
<1>1. OpenFrame(m, id) \in PartialMaps /\ id \in Keys(OpenFrame(m, id))
      /\ WellFormedMap(OpenFrame(m, id))
  BY OpenKeepsMap DEF WellFormedMap
<1>2. /\ OpenFrame(m, id)[id] \in Frame /\ OpenFrame(m, id)[id].sequence_id = id
      /\ Counted(OpenFrame(m, id)[id])
  BY <1>1, KeysAreFrames DEF WellFormedMap
<1>3. /\ FrameAfterPush(m, id, chunk) \in Frame
      /\ FrameAfterPush(m, id, chunk).sequence_id = id
  BY <1>2, InsertKeepsCount DEF FrameAfterPush
<1>4. OpenFrame(m, id)[id] = IF m[id] = NoFrame THEN NewFrame(id) ELSE m[id]
  BY DEF OpenFrame, MustEvict
<1>5. \A k \in Ids : k # id => OpenFrame(m, id)[k] \in {m[k], NoFrame}
  BY DEF OpenFrame
<1> QED  BY <1>1, <1>3, <1>4, <1>5, NoFrameAssumption

\* A frame that has just been opened holds nothing.
LEMMA OpenedMask ==
  ASSUME NEW m, WellFormedMap(m), NEW id \in Ids, NEW x \in OpenFrame(m, id)[id].mask
  PROVE  m[id] # NoFrame /\ x \in m[id].mask
<1>1. OpenFrame(m, id)[id] = IF m[id] = NoFrame THEN NewFrame(id) ELSE m[id]
  BY DEF OpenFrame, MustEvict
<1>2. NewFrame(id).mask = {}
  BY DEF NewFrame
<1> QED  BY <1>1, <1>2

\* A chunk that was taken is in the frame: in the map, or in the last frame
\* that is published.
LEMMA AcceptedChunkIsThere ==
  ASSUME NEW m, WellFormedMap(m), NEW id \in Ids, NEW chunk \in Seq(Nat),
         PushAccepted(m, id, chunk)
  PROVE  /\ Range(chunk) \subseteq FrameAfterPush(m, id, chunk).mask
         /\ \/ MapAfterPush(m, id, chunk)[id] = FrameAfterPush(m, id, chunk)
            \/ /\ PublishedByPush(m, id, chunk) # <<>>
               /\ PublishedByPush(m, id, chunk)[Len(PublishedByPush(m, id, chunk))]
                    = FrameAfterPush(m, id, chunk)
<1> DEFINE F == FrameAfterPush(m, id, chunk)
           open == OpenFrame(m, id)[id]
<1>1. ~ TooOld(m, id) /\ WrittenSlots(open, chunk) = DOMAIN chunk
  BY DEF PushAccepted, ChunkAccepted
<1>2. open \in Frame
  BY OpenKeepsMap, KeysAreFrames DEF WellFormedMap
<1>3. F = [open EXCEPT !.mask = open.mask \cup {chunk[n] : n \in DOMAIN chunk},
                       !.sample_count = open.sample_count + Cardinality(DOMAIN chunk)]
  BY <1>1 DEF FrameAfterPush, InsertChunk
<1>4. F.mask = open.mask \cup {chunk[n] : n \in DOMAIN chunk}
  <2> HIDE DEF open, F
  <2> QED  BY <1>2, <1>3 DEF Frame
<1>5. Range(chunk) \subseteq F.mask
  <2> HIDE DEF open, F
  <2> QED  BY <1>4 DEF Range
<1>6. CASE FrameReady(m, id, chunk)
  <2> DEFINE gone == EvictedFrame(m, id)
  <2>1. PublishedByPush(m, id, chunk) = gone \o <<F>>
    BY <1>1, <1>6 DEF PublishedByPush
  <2>2. gone = <<>> \/ gone = <<m[Oldest(m)]>>
    BY DEF EvictedFrame
  <2> HIDE DEF gone, F
  <2>3. /\ Len(gone \o <<F>>) = Len(gone) + 1
        /\ (gone \o <<F>>)[Len(gone) + 1] = F
        /\ gone \o <<F>> # <<>>
    BY <2>2
  <2> QED  BY <1>5, <2>1, <2>3 DEF F
<1>7. CASE ~ FrameReady(m, id, chunk)
  <2>1. MapAfterPush(m, id, chunk) = [OpenFrame(m, id) EXCEPT ![id] = F]
    BY <1>1, <1>7 DEF MapAfterPush
  <2>2. OpenFrame(m, id) \in PartialMaps
    BY PushedFrame
  <2> HIDE DEF F
  <2>3. MapAfterPush(m, id, chunk)[id] = F
    BY <2>1, <2>2 DEF PartialMaps
  <2> QED  BY <1>5, <2>3 DEF F
<1> QED  BY <1>6, <1>7

\* Where the samples in the map come from.
LEMMA PushedMasks ==
  ASSUME NEW m, WellFormedMap(m), NEW id \in Ids, NEW chunk \in Seq(Nat),
         NEW k \in Keys(MapAfterPush(m, id, chunk))
  PROVE  \A x \in MapAfterPush(m, id, chunk)[k].mask :
            \/ k \in Keys(m) /\ x \in m[k].mask
            \/ k = id /\ x \in Range(chunk)
<1> DEFINE F == FrameAfterPush(m, id, chunk)
           open == OpenFrame(m, id)[id]
<1>1. CASE TooOld(m, id)
  BY <1>1 DEF MapAfterPush
<1>2. CASE ~ TooOld(m, id) /\ k # id
  <2>1. MapAfterPush(m, id, chunk)[k] = OpenFrame(m, id)[k]
    BY <1>2, PushedFrame DEF MapAfterPush, PartialMaps, Keys
  <2>2. MapAfterPush(m, id, chunk)[k] = m[k] /\ m[k] # NoFrame /\ k \in Ids
    BY <1>2, <2>1, PushedFrame DEF Keys
  <2> QED  BY <2>2 DEF Keys
<1>3. CASE ~ TooOld(m, id) /\ k = id
  <2>1. MapAfterPush(m, id, chunk)[k] = F
    BY <1>3, PushedFrame DEF MapAfterPush, PartialMaps, Keys
  <2>2. open \in Frame
    BY OpenKeepsMap, KeysAreFrames DEF WellFormedMap
  <2>3. F = [open EXCEPT !.mask = open.mask \cup {chunk[n] : n \in WrittenSlots(open, chunk)},
                         !.sample_count = open.sample_count + Cardinality(WrittenSlots(open, chunk))]
    BY DEF FrameAfterPush, InsertChunk
  <2>4. F.mask = open.mask \cup {chunk[n] : n \in WrittenSlots(open, chunk)}
    <3> HIDE DEF open, F
    <3> QED  BY <2>2, <2>3 DEF Frame
  <2>5. WrittenSlots(open, chunk) \subseteq DOMAIN chunk
    BY DEF WrittenSlots
  <2>6. \A x \in open.mask : m[id] # NoFrame /\ x \in m[id].mask
    BY OpenedMask
  <2> HIDE DEF open, F
  <2> QED  BY <1>3, <2>1, <2>4, <2>5, <2>6 DEF Range, Keys
<1> QED  BY <1>1, <1>2, <1>3

\* Chunks whose indices are new to the frame and to each other are taken whole,
\* and leave no complete frame behind.
LEMMA FreshChunk ==
  ASSUME NEW m, WellFormedMap(m), NEW id \in Ids, NEW chunk \in Seq(Nat),
         \A n \in DOMAIN chunk : chunk[n] \in Index /\ \A j \in 1 .. (n - 1) : chunk[j] # chunk[n],
         m[id] # NoFrame => m[id].mask \cap Range(chunk) = {}
  PROVE  /\ PushAccepted(m, id, chunk) <=> ~ TooOld(m, id)
         /\ (\A k \in Keys(m) : ~ IsFull(m[k])) =>
              \A k \in Keys(MapAfterPush(m, id, chunk)) : ~ IsFull(MapAfterPush(m, id, chunk)[k])
<1> DEFINE open == OpenFrame(m, id)[id]
           F    == FrameAfterPush(m, id, chunk)
<1>1. \A n \in DOMAIN chunk : chunk[n] \notin open.mask
  BY OpenedMask DEF Range
<1>2. ChunkAccepted(open, chunk)
  <2>1. \A n \in DOMAIN chunk : \A j \in 1 .. n : IsFresh(open, chunk, j)
    <3> TAKE n \in DOMAIN chunk
    <3> TAKE j \in 1 .. n
    <3>1. j \in DOMAIN chunk
      OBVIOUS
    <3> HIDE DEF open
    <3> QED  BY <1>1, <3>1 DEF IsFresh
  <2> QED  BY <2>1 DEF ChunkAccepted, WrittenSlots
<1>3. PushAccepted(m, id, chunk) <=> ~ TooOld(m, id)
  BY <1>2 DEF PushAccepted
<1>4. ASSUME \A k \in Keys(m) : ~ IsFull(m[k]),
             NEW k \in Keys(MapAfterPush(m, id, chunk))
      PROVE  ~ IsFull(MapAfterPush(m, id, chunk)[k])
  <2>1. CASE TooOld(m, id)
    BY <1>4, <2>1 DEF MapAfterPush
  <2>2. CASE ~ TooOld(m, id) /\ k # id
    <3>1. MapAfterPush(m, id, chunk)[k] = OpenFrame(m, id)[k] /\ k \in Ids
      BY <2>2, PushedFrame DEF MapAfterPush, PartialMaps, Keys
    <3>2. MapAfterPush(m, id, chunk)[k] = m[k] /\ k \in Keys(m)
      BY <2>2, <3>1, PushedFrame DEF Keys
    <3> QED  BY <1>4, <3>2
  <2>3. CASE ~ TooOld(m, id) /\ k = id
    <3>1. MapAfterPush(m, id, chunk)[id] = IF FrameReady(m, id, chunk) THEN NoFrame ELSE F
      BY <2>3, PushedFrame DEF MapAfterPush, PartialMaps
    <3>2. ~ FrameReady(m, id, chunk)
      BY <1>4, <2>3, <3>1 DEF Keys
    <3> QED  BY <1>3, <2>3, <3>1, <3>2 DEF FrameReady
  <2> QED  BY <2>1, <2>2, <2>3
<1> QED  BY <1>3, <1>4

-----------------------------------------------------------------------------
\* The program points.

\* The buffers that push or flush has dealt with when it is at a stage.
Before(stage) ==
  {b \in BufferNames :
     \/ stage = "end"
     \/ b = "frac_flagged" /\ stage # "frac_flagged"
     \/ b = "sktilde_avg" /\ stage = "skbar_avg"}

\* push and flush deal with one buffer after the other.
LEMMA AfterIsNext ==
  /\ Before("frac_flagged") = {} /\ Before("end") = BufferNames
  /\ \A b \in BufferNames :
       /\ After(b) \in Stages /\ b \in Stages
       /\ b \notin Before(b)
       /\ Before(After(b)) = Before(b) \cup {b}
       /\ Before(b) = {} => b = "frac_flagged"
BY DEF Before, After, BufferNames, Stages

\* Program points with different names are different.
LEMMA ProgramPointsDiffer ==
  /\ \A s, t : PushAt(s) = PushAt(t) => s = t
  /\ \A s, t : FlushAt(s) = FlushAt(t) => s = t
  /\ \A s, t : PushAt(s) # FlushAt(t)
  /\ \A s : PushAt(s) \notin {<<"select">>, <<"drain">>, <<"ended">>}
  /\ \A s : FlushAt(s) \notin {<<"select">>, <<"drain">>, <<"ended">>}
  /\ <<"select">> # <<"drain">> /\ <<"select">> # <<"ended">> /\ <<"drain">> # <<"ended">>
BY DEF PushAt, FlushAt

\* What a packet consists of.
LEMMA PacketFields ==
  ASSUME NEW p \in Packets
  PROVE  /\ p.parses \in BOOLEAN /\ p.kind \in STRING
         /\ p.seq_num \in Ids /\ p.freq_ids \in Seq(Nat)
         /\ Header(p) \in [kind : STRING, seq_num : Ids]
         /\ Header(p).kind = p.kind /\ Header(p) # NoHeader
         /\ p # NoPacket
BY PacketsAssumption, NoPacketAssumption, NoHeaderAssumption DEF PacketType, Header

-----------------------------------------------------------------------------
\* One packet at a time.

\* The packet in hand has the kind of the metadata, and the buffers that have
\* been pushed to hold it.
InHand(s) ==
  /\ packet \in Packets
  /\ metadata # NoHeader /\ metadata.kind = packet.kind
  /\ \A b \in Before(s) : Landed(b, packet)

HandlerInv ==
  /\ TypeOK
  /\ \A b \in BufferNames : WellFormedMap(store[b])
  /\ \A s \in Stages : pc = PushAt(s) => InHand(s)
  /\ MetadataOfReceived

\* A push leaves frames in a buffer, and, if it is accepted, the packet.
LEMMA PushIntoBuffer ==
  ASSUME HandlerInv, NEW b \in BufferNames, PushBuffer(b)
  PROVE  /\ packet \in Packets
         /\ WellFormedMap(store[b])
         /\ WellFormedMap(store'[b])
         /\ last'[b] \in Frame \cup {NoFrame}
         /\ store' = [store EXCEPT ![b] = store'[b]] /\ last' = [last EXCEPT ![b] = last'[b]]
         /\ store' \in [BufferNames -> PartialMaps]
         /\ last' \in [BufferNames -> Frame \cup {NoFrame}]
         /\ \A c \in BufferNames \ {b} : store'[c] = store[c] /\ last'[c] = last[c]
         /\ pc' # <<"drain">> => Landed(b, packet)' /\ packet' = packet
<1> DEFINE id    == packet.seq_num
           chunk == packet.freq_ids
           gone  == PublishedByPush(store[b], id, chunk)
<1>1. packet \in Packets /\ pc = PushAt(b)
  BY AfterIsNext DEF HandlerInv, InHand, PushBuffer
<1>2. id \in Ids /\ chunk \in Seq(Nat)
  BY <1>1, PacketFields
<1>3. WellFormedMap(store[b]) /\ store \in [BufferNames -> PartialMaps]
      /\ last \in [BufferNames -> Frame \cup {NoFrame}]
  BY DEF HandlerInv, TypeOK
<1>4. store' = [store EXCEPT ![b] = MapAfterPush(store[b], id, chunk)]
      /\ last' = [last EXCEPT ![b] = LastAfter(b, gone)]
  BY DEF PushBuffer
<1>5. store'[b] = MapAfterPush(store[b], id, chunk) /\ last'[b] = LastAfter(b, gone)
  BY <1>3, <1>4
<1>6. WellFormedMap(store'[b])
  BY <1>2, <1>3, <1>5, PushKeepsMap
<1>7. gone \in Seq(CountedFrame)
  BY <1>2, <1>3, PushPublishesFrames
<1>8. last'[b] \in Frame \cup {NoFrame}
  <2>1. gone # <<>> => gone[Len(gone)] \in Frame
    BY <1>7 DEF CountedFrame
  <2>2. last[b] \in Frame \cup {NoFrame}
    BY <1>3
  <2> HIDE DEF gone
  <2> QED  BY <1>5, <2>1, <2>2 DEF LastAfter
<1>9. ASSUME pc' # <<"drain">>
      PROVE  Landed(b, packet)' /\ packet' = packet
  <2>1. PushAccepted(store[b], id, chunk) /\ packet' = packet
    BY <1>9 DEF PushBuffer
  <2>2. PICK f \in {store'[b][id], last'[b]} \ {NoFrame} :
          f.sequence_id = id /\ Range(chunk) \subseteq f.mask
    <3> DEFINE F == FrameAfterPush(store[b], id, chunk)
    <3>1. F # NoFrame /\ F.sequence_id = id
      BY <1>2, <1>3, PushedFrame
    <3>2. Range(chunk) \subseteq F.mask
      BY <1>2, <1>3, <2>1, AcceptedChunkIsThere
    <3>3. store'[b][id] = F \/ last'[b] = F
      <4>1. MapAfterPush(store[b], id, chunk)[id] = F \/ (gone # <<>> /\ gone[Len(gone)] = F)
        BY <1>2, <1>3, <2>1, AcceptedChunkIsThere
      <4> HIDE DEF gone, F
      <4> QED  BY <1>5, <4>1 DEF LastAfter
    <3> HIDE DEF F
    <3> QED  BY <3>1, <3>2, <3>3
  <2> QED  BY <2>1, <2>2 DEF Landed
<1>10. store'[b] \in PartialMaps
  BY <1>6 DEF WellFormedMap
<1> HIDE DEF gone
<1> QED  BY <1>1, <1>3, <1>4, <1>5, <1>6, <1>8, <1>9, <1>10

\* The handler starts with empty buffers and no header.
LEMMA HandlerStarts == Init => HandlerInv
<1> SUFFICES ASSUME Init PROVE HandlerInv
  OBVIOUS
<1>1. TypeOK
  <2>1. EmptyMap \in PartialMaps
    BY EmptyMapWellFormed DEF WellFormedMap
  <2>2. <<>> \in Seq(Packets) /\ Len(<<>>) <= SocketCapacity
    BY SocketAssumption
  <2>3. FlushTimeout \in 0 .. FlushTimeout /\ 0 \in 0 .. MaxErrors
    BY TimeoutAssumption, SourceAssumption
  <2> QED  BY <2>1, <2>2, <2>3 DEF Init, TypeOK, ProgramPoints
<1>2. \A b \in BufferNames : WellFormedMap(store[b])
  BY EmptyMapWellFormed DEF Init
<1>3. \A s \in Stages : pc # PushAt(s)
  BY ProgramPointsDiffer DEF Init
<1>4. MetadataOfReceived
  BY DEF Init, MetadataOfReceived
<1> QED  BY <1>1, <1>2, <1>3, <1>4 DEF HandlerInv

\* Every step of the task and its environment keeps HandlerInv.
LEMMA HandlerKeeps == HandlerInv /\ [Next]_vars => HandlerInv'
<1> SUFFICES ASSUME HandlerInv, [Next]_vars PROVE HandlerInv'
  OBVIOUS
<1> USE DEF environment, buffers
<1>0. /\ TypeOK /\ MetadataOfReceived
      /\ \A b \in BufferNames : WellFormedMap(store[b])
      /\ \A s \in Stages : pc = PushAt(s) => InHand(s)
  BY DEF HandlerInv
<1>a. ASSUME TypeOK', UNCHANGED <<packet, store, last, metadata, accepted>>,
             pc' = pc \/ \A s \in Stages : pc' # PushAt(s)
      PROVE  HandlerInv'
  BY <1>0, <1>a DEF HandlerInv, InHand, Landed, MetadataOfReceived
<1>1. CASE UNCHANGED vars
  <2>1. TypeOK'
    BY <1>0, <1>1 DEF TypeOK, vars
  <2> QED  BY <1>a, <1>1, <2>1 DEF vars
<1>2. ASSUME NEW p \in Packets, Arrive(p) PROVE HandlerInv'
  <2>1. socket' \in Seq(Packets) /\ Len(socket') <= SocketCapacity
    BY <1>0, <1>2, SocketAssumption DEF TypeOK, Arrive
  <2>2. TypeOK'
    BY <1>0, <1>2, <2>1 DEF TypeOK, Arrive
  <2> QED  BY <1>a, <1>2, <2>2 DEF Arrive
<1>3. CASE Tick
  <2>1. TypeOK'
    BY <1>0, <1>3, TimeoutAssumption DEF TypeOK, Tick
  <2> QED  BY <1>a, <1>3, <2>1 DEF Tick
<1>4. CASE RecvError
  <2>1. timer' \in 0 .. FlushTimeout /\ errors' \in 0 .. MaxErrors
    BY <1>0, <1>4, TimeoutAssumption, SourceAssumption DEF TypeOK, RecvError
  <2>2. pc' = <<"drain">> /\ pc' \in ProgramPoints
    BY <1>4 DEF RecvError, ProgramPoints
  <2>3. TypeOK'
    BY <1>0, <1>4, <2>1, <2>2 DEF TypeOK, RecvError
  <2>4. UNCHANGED <<packet, store, last, metadata, accepted>>
    BY <1>4 DEF RecvError
  <2> QED  BY <1>a, <2>2, <2>3, <2>4, ProgramPointsDiffer
<1>5. CASE ReadableFails
  <2>1. errors' \in 0 .. MaxErrors
    BY <1>0, <1>5, SourceAssumption DEF TypeOK, ReadableFails
  <2>2. TypeOK'
    BY <1>0, <1>5, <2>1 DEF TypeOK, ReadableFails, ProgramPoints
  <2> QED  BY <1>a, <1>5, <2>2, ProgramPointsDiffer DEF ReadableFails
<1>6. CASE Readable
  <2>1. TypeOK'
    BY <1>0, <1>6 DEF TypeOK, Readable, ProgramPoints
  <2> QED  BY <1>a, <1>6, <2>1, ProgramPointsDiffer DEF Readable
<1>7. CASE WouldBlock
  <2>1. TypeOK'
    BY <1>0, <1>7 DEF TypeOK, WouldBlock, ProgramPoints
  <2> QED  BY <1>a, <1>7, <2>1, ProgramPointsDiffer DEF WouldBlock
<1>8. CASE Recv
  <2> DEFINE p == Head(socket)
  <2>1. p \in Packets /\ socket' \in Seq(Packets) /\ Len(socket') <= SocketCapacity
    BY <1>0, <1>8, SocketAssumption DEF TypeOK, Recv
  <2>2. timer' \in 0 .. FlushTimeout
    BY <1>8, TimeoutAssumption DEF Recv
  <2> HIDE DEF p
  <2>3. metadata' \in [kind : STRING, seq_num : Ids] \cup {NoHeader}
    BY <1>0, <1>8, <2>1, PacketFields DEF TypeOK, Recv, MetadataAfter, p
  <2>4. metadata # NoHeader => metadata' = metadata
    BY <1>8 DEF Recv, MetadataAfter
  <2>5. MetadataOfReceived'
    <3>1. accepted' = accepted
      BY <1>8 DEF Recv
    <3>2. accepted # {} => metadata # NoHeader
      BY <1>0, PacketFields DEF MetadataOfReceived, TypeOK
    <3> QED  BY <1>0, <2>4, <3>1, <3>2 DEF MetadataOfReceived
  <2>6. CASE p.parses /\ HeaderExpected(p)
    <3>1. packet' = p /\ pc' = PushAt("frac_flagged") /\ outcome' = outcome
          /\ metadata' = MetadataAfter(p)
      BY <1>8, <2>6 DEF Recv, p
    <3>2. metadata' # NoHeader /\ metadata'.kind = p.kind
      BY <2>1, <2>6, <3>1, PacketFields DEF HeaderExpected, MetadataAfter
    <3>3. TypeOK'
      <4>1. pc' \in ProgramPoints
        BY <3>1 DEF ProgramPoints, Stages, BufferNames
      <4> QED  BY <1>0, <1>8, <2>1, <2>2, <2>3, <3>1, <4>1 DEF TypeOK, Recv
    <3>4. \A s \in Stages : pc' = PushAt(s) => s = "frac_flagged"
      BY <3>1, ProgramPointsDiffer
    <3>5. InHand("frac_flagged")'
      BY <2>1, <3>1, <3>2, AfterIsNext DEF InHand
    <3>6. store' = store
      BY <1>8 DEF Recv
    <3> QED  BY <1>0, <2>5, <3>3, <3>4, <3>5, <3>6 DEF HandlerInv
  <2>7. CASE ~ (p.parses /\ HeaderExpected(p))
    <3>1. outcome' = "lost" /\ packet' = packet /\ pc' = pc /\ store' = store /\ pc = <<"drain">>
      BY <1>8, <2>7 DEF Recv, p
    <3>2. TypeOK'
      BY <1>0, <1>8, <2>1, <2>2, <2>3, <3>1 DEF TypeOK, Recv
    <3> QED  BY <1>0, <2>5, <3>1, <3>2, ProgramPointsDiffer DEF HandlerInv
  <2> QED  BY <2>6, <2>7
<1>9. ASSUME NEW b \in BufferNames, PushBuffer(b) PROVE HandlerInv'
  <2>1. /\ packet \in Packets /\ WellFormedMap(store'[b])
        /\ store' \in [BufferNames -> PartialMaps]
        /\ last' \in [BufferNames -> Frame \cup {NoFrame}]
        /\ \A c \in BufferNames \ {b} : store'[c] = store[c] /\ last'[c] = last[c]
        /\ pc' # <<"drain">> => Landed(b, packet)' /\ packet' = packet
    BY <1>9, PushIntoBuffer
  <2>2. pc = PushAt(b) /\ InHand(b)
    BY <1>0, <1>9, AfterIsNext DEF PushBuffer
  <2>3. \/ pc' = PushAt(After(b)) /\ packet' = packet /\ outcome' = outcome
        \/ pc' = <<"drain">> /\ packet' = NoPacket /\ outcome' = "lost"
    BY <1>9 DEF PushBuffer
  <2>4. TypeOK'
    <3>1. pc' \in ProgramPoints
      BY <2>3, AfterIsNext DEF ProgramPoints
    <3> QED  BY <1>0, <1>9, <2>1, <2>3, <3>1 DEF TypeOK, PushBuffer
  <2>5. \A c \in BufferNames : WellFormedMap(store'[c])
    BY <1>0, <2>1
  <2>6. MetadataOfReceived'
    BY <1>0, <1>9 DEF MetadataOfReceived, PushBuffer
  <2>7. ASSUME NEW s \in Stages, pc' = PushAt(s) PROVE InHand(s)'
    <3>1. s = After(b) /\ pc' # <<"drain">> /\ packet' = packet /\ metadata' = metadata
      BY <1>9, <2>3, <2>7, ProgramPointsDiffer DEF PushBuffer
    <3>2. \A c \in Before(b) : Landed(c, packet)'
      <4> TAKE c \in Before(b)
      <4>1. c \in BufferNames \ {b}
        BY AfterIsNext DEF Before
      <4>2. Landed(c, packet) /\ store'[c] = store[c] /\ last'[c] = last[c]
        BY <2>1, <2>2, <4>1 DEF InHand
      <4> QED  BY <3>1, <4>2 DEF Landed
    <3>3. Before(s) = Before(b) \cup {b}
      BY <3>1, AfterIsNext
    <3>4. \A c \in Before(s) : Landed(c, packet)'
      BY <2>1, <3>1, <3>2, <3>3
    <3> QED  BY <2>2, <3>1, <3>4 DEF InHand, Landed
  <2> QED  BY <2>4, <2>5, <2>6, <2>7 DEF HandlerInv
<1>10. CASE PacketReceived
  <2>1. InHand("end") /\ pc' = <<"drain">> /\ store' = store
    BY <1>0, <1>10 DEF PacketReceived, Stages
  <2>2. packet \in Packets /\ metadata.kind = packet.kind
    BY <2>1 DEF InHand
  <2>3. TypeOK'
    <3>1. metadata' \in [kind : STRING, seq_num : Ids] /\ accepted' \subseteq Packets
      BY <1>0, <1>10, <2>2, PacketFields DEF PacketReceived, TypeOK
    <3> QED  BY <1>0, <1>10, <3>1 DEF TypeOK, PacketReceived, ProgramPoints
  <2>4. MetadataOfReceived'
    <3>1. metadata' = Header(packet) /\ accepted' = accepted \cup {packet}
      BY <1>10 DEF PacketReceived
    <3>2. metadata'.kind = packet.kind
      BY <2>2, <3>1, PacketFields
    <3> QED  BY <1>0, <2>2, <3>1, <3>2 DEF MetadataOfReceived
  <2>5. \A s \in Stages : pc' # PushAt(s)
    BY <2>1, ProgramPointsDiffer
  <2> QED  BY <1>0, <2>1, <2>3, <2>4, <2>5 DEF HandlerInv
<1>11. CASE FlushTimerFires
  <2>1. pc' \in ProgramPoints
    BY <1>11 DEF FlushTimerFires, ProgramPoints, Stages, BufferNames
  <2>2. TypeOK'
    BY <1>0, <1>11, <2>1 DEF TypeOK, FlushTimerFires
  <2> QED  BY <1>a, <1>11, <2>2, ProgramPointsDiffer DEF FlushTimerFires
<1>12. ASSUME NEW b \in BufferNames, FlushBuffer(b) PROVE HandlerInv'
  <2>1. pc' = FlushAt(After(b)) /\ pc' \in ProgramPoints
    BY <1>12, AfterIsNext DEF FlushBuffer, ProgramPoints
  <2>2. WellFormedMap(store[b]) /\ store \in [BufferNames -> PartialMaps]
        /\ last \in [BufferNames -> Frame \cup {NoFrame}]
    BY <1>0 DEF TypeOK
  <2>3. Keys(store[b]) # {} => NewestFrame(store[b]) \in Frame
    <3>1. Keys(store[b]) \subseteq Nat /\ IsFiniteSet(Keys(store[b])) /\ store[b] \in PartialMaps
      BY <2>2, IdsAssumption DEF Keys, WellFormedMap
    <3>2. Keys(store[b]) # {} => Max(Keys(store[b])) \in Keys(store[b])
      BY <3>1, MaxIsGreatest
    <3> QED  BY <3>1, <3>2, KeysAreFrames DEF NewestFrame
  <2>4. last' \in [BufferNames -> Frame \cup {NoFrame}]
    BY <1>12, <2>2, <2>3 DEF FlushBuffer
  <2>5. store' \in [BufferNames -> PartialMaps] /\ store' = [store EXCEPT ![b] = EmptyMap]
    BY <1>12, <2>2, EmptyMapWellFormed DEF FlushBuffer, WellFormedMap
  <2>6. \A c \in BufferNames : WellFormedMap(store'[c])
    BY <1>0, <2>2, <2>5, EmptyMapWellFormed
  <2>7. TypeOK'
    BY <1>0, <1>12, <2>1, <2>4, <2>5 DEF TypeOK, FlushBuffer
  <2>8. MetadataOfReceived'
    BY <1>0, <1>12 DEF MetadataOfReceived, FlushBuffer
  <2>9. \A s \in Stages : pc' # PushAt(s)
    BY <2>1, ProgramPointsDiffer
  <2> QED  BY <2>6, <2>7, <2>8, <2>9 DEF HandlerInv
<1>13. CASE FlushDone
  <2>1. TypeOK'
    BY <1>0, <1>13, TimeoutAssumption DEF TypeOK, FlushDone, ProgramPoints
  <2> QED  BY <1>a, <1>13, <2>1, ProgramPointsDiffer DEF FlushDone
<1>14. CASE Ended
  <2>1. TypeOK'
    BY <1>0, <1>14 DEF TypeOK, Ended, vars
  <2> QED  BY <1>a, <1>14, <2>1 DEF Ended, vars
<1> QED
  BY <1>1, <1>2, <1>3, <1>4, <1>5, <1>6, <1>7, <1>8, <1>9, <1>10, <1>11, <1>12, <1>13, <1>14
     DEF Next, HandlerStep

\* What the handler has in hand and in the buffers, at every step.
THEOREM HandlerInvariance == Spec => []HandlerInv
<1>1. Init => HandlerInv
  BY HandlerStarts
<1>2. HandlerInv /\ [Next]_vars => HandlerInv'
  BY HandlerKeeps
<1> QED  BY <1>1, <1>2, PTL DEF Spec

\* The handler, the socket and the buffers keep their types.
THEOREM HandlerTypeCorrect == Spec => []TypeOK
<1>1. HandlerInv => TypeOK
  BY DEF HandlerInv
<1> QED  BY <1>1, HandlerInvariance, PTL

\* A packet is counted as received only when each of the three buffers has all
\* its samples: Buffers::push returns at the first error.
THEOREM ReceivedIsStored == Spec => []ReceivedMeansStored
<1>1. HandlerInv => ReceivedMeansStored
  BY AfterIsNext DEF HandlerInv, InHand, ReceivedMeansStored, Stages
<1> QED  BY <1>1, HandlerInvariance, PTL

\* /metadata shows the header of a received packet that all others agree with,
\* in the updates of Buffers::push and get_or_init.
THEOREM MetadataIsOfReceived == Spec => []MetadataOfReceived
<1>1. HandlerInv => MetadataOfReceived
  BY DEF HandlerInv
<1> QED  BY <1>1, HandlerInvariance, PTL

-----------------------------------------------------------------------------
\* A source that sends every sample once.

InHandNow == \E s \in Stages : pc = PushAt(s)

\* Datagrams that have left the network and the socket.
Consumed == {p \in Packets : p \notin unsent /\ p \notin Range(socket)}

\* A datagram is in one place: not sent, once in the socket, or consumed.
OnePlace ==
  /\ Range(socket) \cap unsent = {}
  /\ \A i, j \in DOMAIN socket : i # j => socket[i] # socket[j]
  /\ InHandNow => packet \in Consumed

\* A sample in a map came with a datagram that was consumed, and not with the
\* one in hand as long as the buffer has not been pushed to.
SamplesFromConsumed ==
  \A b \in BufferNames : \A id \in Keys(store[b]) : \A x \in store[b][id].mask :
    \E p \in Consumed :
      /\ p.seq_num = id /\ x \in Range(p.freq_ids)
      /\ \A s \in Stages : pc = PushAt(s) /\ b \notin Before(s) => p # packet

NoFullFrame ==
  \A b \in BufferNames : \A id \in Keys(store[b]) : ~ IsFull(store[b][id])

\* Datagrams move on, and a consumed one does not come back.
LEMMA SocketMoves ==
  ASSUME HandlerInv, CleanSource, OnePlace, [Next]_vars
  PROVE  /\ Consumed \subseteq Consumed'
         /\ OnePlace'
<1> USE DEF environment, buffers
<1>0. TypeOK /\ socket \in Seq(Packets) /\ unsent \subseteq Packets
  BY DEF HandlerInv, TypeOK
<1>a. ASSUME UNCHANGED <<unsent, socket, packet>>,
             \A s \in Stages : pc' = PushAt(s) => InHandNow
      PROVE  Consumed \subseteq Consumed' /\ OnePlace'
  BY <1>a DEF OnePlace, InHandNow, Consumed
<1>1. CASE UNCHANGED vars
  BY <1>1, <1>a DEF vars, InHandNow
<1>2. ASSUME NEW p \in Packets, Arrive(p) PROVE Consumed \subseteq Consumed' /\ OnePlace'
  <2>1. unsent' = unsent \ {p} /\ p \in unsent /\ pc' = pc /\ packet' = packet
    BY <1>2 DEF Arrive, CleanSource
  <2>2. CASE socket' = socket
    BY <2>1, <2>2 DEF OnePlace, Consumed, InHandNow
  <2>3. CASE socket' = Append(socket, p)
    <3>1. DOMAIN socket' = DOMAIN socket \cup {Len(socket) + 1}
          /\ socket'[Len(socket) + 1] = p
          /\ \A i \in DOMAIN socket : socket'[i] = socket[i]
      BY <1>0, <2>3
    <3>2. Range(socket') = Range(socket) \cup {p}
      BY <3>1 DEF Range
    <3>3. p \notin Range(socket)
      BY <2>1 DEF OnePlace
    <3>4. \A i, j \in DOMAIN socket' : i # j => socket'[i] # socket'[j]
      <4>1. \A i \in DOMAIN socket : socket[i] # p
        BY <3>3 DEF Range
      <4> QED  BY <3>1, <4>1 DEF OnePlace
    <3>5. Consumed \subseteq Consumed'
      BY <2>1, <3>2 DEF Consumed
    <3>6. Range(socket') \cap unsent' = {}
      BY <2>1, <3>2 DEF OnePlace
    <3>7. InHandNow' => packet' \in Consumed'
      BY <2>1, <3>5 DEF OnePlace, InHandNow
    <3> QED  BY <3>4, <3>5, <3>6, <3>7 DEF OnePlace
  <2> QED  BY <1>2, <2>2, <2>3 DEF Arrive
<1>3. CASE Recv
  <2> DEFINE p == Head(socket)
  <2>1. unsent' = unsent /\ socket' = Tail(socket) /\ socket # <<>> /\ pc = <<"drain">>
    BY <1>3 DEF Recv
  <2>2. /\ p = socket[1] /\ 1 \in DOMAIN socket /\ p \in Packets
        /\ DOMAIN Tail(socket) = 1 .. (Len(socket) - 1)
        /\ \A i \in DOMAIN Tail(socket) :
             i + 1 \in DOMAIN socket /\ i + 1 # 1 /\ Tail(socket)[i] = socket[i + 1]
    BY <1>0, <2>1
  <2> HIDE DEF p
  <2>3. Range(socket') \subseteq Range(socket)
    BY <2>1, <2>2 DEF Range
  <2>4. p \in Range(socket) /\ p \notin Range(socket') /\ p \notin unsent
    BY <2>1, <2>2 DEF Range, OnePlace
  <2>5. Consumed \subseteq Consumed' /\ p \in Consumed'
    BY <2>1, <2>2, <2>3, <2>4 DEF Consumed
  <2>6. \A i, j \in DOMAIN socket' : i # j => socket'[i] # socket'[j]
    <3> SUFFICES ASSUME NEW i \in DOMAIN socket', NEW j \in DOMAIN socket', i # j
                 PROVE  socket'[i] # socket'[j]
      OBVIOUS
    <3>1. i \in Nat /\ j \in Nat
      BY <1>0, <2>1, <2>2
    <3>2. i + 1 # j + 1
      BY <3>1
    <3> QED  BY <2>1, <2>2, <3>2 DEF OnePlace
  <2>7. InHandNow' => packet' = p
    <3>1. pc' = pc => ~ InHandNow'
      BY <2>1, ProgramPointsDiffer DEF InHandNow
    <3>2. pc' # pc => packet' = p
      BY <1>3 DEF Recv, p
    <3> QED  BY <3>1, <3>2
  <2> QED  BY <2>1, <2>3, <2>5, <2>6, <2>7 DEF OnePlace
<1>4. ASSUME NEW b \in BufferNames, PushBuffer(b) PROVE Consumed \subseteq Consumed' /\ OnePlace'
  <2>1. UNCHANGED <<unsent, socket>> /\ pc = PushAt(b) /\ InHandNow
    BY <1>4, AfterIsNext DEF PushBuffer, InHandNow
  <2>2. CASE packet' = packet
    BY <1>a, <2>1, <2>2
  <2>3. CASE packet' # packet
    <3>1. pc' = <<"drain">>
      BY <1>4, <2>3 DEF PushBuffer
    <3> QED  BY <2>1, <3>1, ProgramPointsDiffer DEF OnePlace, Consumed, InHandNow
  <2> QED  BY <2>2, <2>3
<1>5. CASE PacketReceived
  <2>1. UNCHANGED <<unsent, socket>> /\ pc' = <<"drain">>
    BY <1>5 DEF PacketReceived
  <2> QED  BY <2>1, ProgramPointsDiffer DEF OnePlace, Consumed, InHandNow
<1>6. CASE Tick \/ Ended
  BY <1>a, <1>6 DEF Tick, Ended, vars, InHandNow
<1>7. CASE RecvError \/ ReadableFails \/ Readable \/ WouldBlock \/ FlushTimerFires \/ FlushDone
  BY <1>a, <1>7, ProgramPointsDiffer
     DEF RecvError, ReadableFails, Readable, WouldBlock, FlushTimerFires, FlushDone
<1>8. ASSUME NEW b \in BufferNames, FlushBuffer(b) PROVE Consumed \subseteq Consumed' /\ OnePlace'
  BY <1>a, <1>8, ProgramPointsDiffer DEF FlushBuffer
<1> QED
  BY <1>1, <1>2, <1>3, <1>4, <1>5, <1>6, <1>7, <1>8 DEF Next, HandlerStep

\* What a buffer is about to be given is new to it.
LEMMA PacketIsFresh ==
  ASSUME HandlerInv, CleanSource, OnePlace, SamplesFromConsumed,
         NEW b \in BufferNames, pc = PushAt(b)
  PROVE  LET id    == packet.seq_num
             chunk == packet.freq_ids
         IN  /\ id \in Ids /\ chunk \in Seq(Nat) /\ WellFormedMap(store[b])
             /\ \A n \in DOMAIN chunk : chunk[n] \in Index
                                        /\ \A j \in 1 .. (n - 1) : chunk[j] # chunk[n]
             /\ store[b][id] # NoFrame => store[b][id].mask \cap Range(chunk) = {}
<1> DEFINE id    == packet.seq_num
           chunk == packet.freq_ids
<1>1. packet \in Packets /\ WellFormedMap(store[b])
  BY AfterIsNext DEF HandlerInv, InHand
<1>2. id \in Ids /\ chunk \in Seq(Nat)
  BY <1>1, PacketFields
<1>3. ASSUME store[b][id] # NoFrame, NEW x \in store[b][id].mask, x \in Range(chunk)
      PROVE  FALSE
  <2>1. id \in Keys(store[b])
    BY <1>2, <1>3 DEF Keys
  <2>2. PICK p \in Consumed : /\ p.seq_num = id /\ x \in Range(p.freq_ids)
                              /\ \A s \in Stages : pc = PushAt(s) /\ b \notin Before(s) => p # packet
    BY <1>3, <2>1 DEF SamplesFromConsumed
  <2>3. p # packet /\ p \in Packets
    BY <2>2, AfterIsNext DEF Consumed
  <2>4. Range(p.freq_ids) \cap Range(chunk) = {}
    BY <1>1, <2>2, <2>3 DEF CleanSource
  <2> QED  BY <1>3, <2>2, <2>4
<1>4. \A n \in DOMAIN chunk : chunk[n] \in Index /\ \A j \in 1 .. (n - 1) : chunk[j] # chunk[n]
  BY <1>1 DEF CleanSource
<1> QED  BY <1>1, <1>2, <1>3, <1>4

\* Samples keep their origin, and no complete frame stays behind.
LEMMA SamplesMove ==
  ASSUME HandlerInv, CleanSource, OnePlace, SamplesFromConsumed, NoFullFrame, [Next]_vars
  PROVE  SamplesFromConsumed' /\ NoFullFrame'
<1> USE DEF environment, buffers
<1>0. Consumed \subseteq Consumed'
  BY SocketMoves
<1>a. ASSUME store' = store,
             \A s \in Stages : pc' = PushAt(s) =>
               packet' \notin Consumed \/ (pc' = pc /\ packet' = packet)
      PROVE  SamplesFromConsumed' /\ NoFullFrame'
  <2>1. NoFullFrame'
    BY <1>a DEF NoFullFrame
  <2> SUFFICES ASSUME NEW b \in BufferNames, NEW id \in Keys(store[b]), NEW x \in store[b][id].mask
               PROVE  \E p \in Consumed' :
                        /\ p.seq_num = id /\ x \in Range(p.freq_ids)
                        /\ \A s \in Stages : pc' = PushAt(s) /\ b \notin Before(s) => p # packet'
    BY <1>a, <2>1 DEF SamplesFromConsumed
  <2>2. PICK p \in Consumed : /\ p.seq_num = id /\ x \in Range(p.freq_ids)
                              /\ \A s \in Stages : pc = PushAt(s) /\ b \notin Before(s) => p # packet
    BY DEF SamplesFromConsumed
  <2> QED  BY <1>0, <1>a, <2>2
<1>1. CASE UNCHANGED vars
  BY <1>1, <1>a DEF vars
<1>2. ASSUME NEW p \in Packets, Arrive(p) PROVE SamplesFromConsumed' /\ NoFullFrame'
  BY <1>2, <1>a DEF Arrive
<1>3. CASE Recv
  <2>1. store' = store /\ pc = <<"drain">>
    BY <1>3 DEF Recv
  <2>2. Head(socket) \notin Consumed
    <3>1. socket \in Seq(Packets) /\ socket # <<>>
      BY <1>3 DEF HandlerInv, TypeOK, Recv
    <3>2. 1 \in DOMAIN socket /\ Head(socket) = socket[1]
      BY <3>1
    <3> QED  BY <3>2 DEF Consumed, Range
  <2>3. pc' # pc => packet' = Head(socket)
    BY <1>3 DEF Recv
  <2>4. \A s \in Stages : pc' = PushAt(s) => packet' \notin Consumed
    BY <2>1, <2>2, <2>3, ProgramPointsDiffer
  <2> QED  BY <1>a, <2>1, <2>4
<1>4. ASSUME NEW b \in BufferNames, PushBuffer(b) PROVE SamplesFromConsumed' /\ NoFullFrame'
  <2> DEFINE id    == packet.seq_num
             chunk == packet.freq_ids
  <2>1. pc = PushAt(b) /\ store'[b] = MapAfterPush(store[b], id, chunk)
    BY <1>4 DEF HandlerInv, TypeOK, PushBuffer
  <2>2. \A c \in BufferNames \ {b} : store'[c] = store[c]
    BY <1>4, PushIntoBuffer
  <2>3. /\ id \in Ids /\ chunk \in Seq(Nat) /\ WellFormedMap(store[b])
        /\ \A n \in DOMAIN chunk : chunk[n] \in Index
                                   /\ \A j \in 1 .. (n - 1) : chunk[j] # chunk[n]
        /\ store[b][id] # NoFrame => store[b][id].mask \cap Range(chunk) = {}
    BY <2>1, PacketIsFresh
  <2>4. packet \in Consumed'
    BY <1>0, <2>1, AfterIsNext DEF OnePlace, InHandNow
  <2>5. \/ pc' = PushAt(After(b)) /\ packet' = packet
        \/ pc' = <<"drain">>
    BY <1>4 DEF PushBuffer
  <2>6. \A s \in Stages : pc' = PushAt(s) => packet' = packet /\ Before(s) = Before(b) \cup {b}
    BY <2>5, ProgramPointsDiffer, AfterIsNext
  <2>7. SamplesFromConsumed'
    <3> SUFFICES ASSUME NEW c \in BufferNames, NEW k \in Keys(store'[c]), NEW x \in store'[c][k].mask
                 PROVE  \E p \in Consumed' :
                          /\ p.seq_num = k /\ x \in Range(p.freq_ids)
                          /\ \A s \in Stages : pc' = PushAt(s) /\ c \notin Before(s) => p # packet'
      BY DEF SamplesFromConsumed
    <3>1. CASE k \in Keys(store[c]) /\ x \in store[c][k].mask
      <4>1. PICK p \in Consumed : /\ p.seq_num = k /\ x \in Range(p.freq_ids)
                                  /\ \A s \in Stages : pc = PushAt(s) /\ c \notin Before(s) => p # packet
        BY <3>1 DEF SamplesFromConsumed
      <4>2. c \notin Before(b) => p # packet
        BY <2>1, <4>1, AfterIsNext
      <4> QED  BY <1>0, <2>6, <4>1, <4>2
    <3>2. CASE c = b /\ k = id /\ x \in Range(chunk)
      BY <2>4, <2>6, <3>2
    <3>3. c = b => (k \in Keys(store[b]) /\ x \in store[b][k].mask) \/ (k = id /\ x \in Range(chunk))
      BY <2>1, <2>3, PushedMasks
    <3> QED  BY <2>2, <3>1, <3>2, <3>3
  <2>8. NoFullFrame'
    <3>1. \A k \in Keys(store'[b]) : ~ IsFull(store'[b][k])
      BY <2>1, <2>3, FreshChunk DEF NoFullFrame
    <3> QED  BY <2>2, <3>1 DEF NoFullFrame
  <2> QED  BY <2>7, <2>8
<1>5. CASE PacketReceived
  BY <1>a, <1>5, ProgramPointsDiffer DEF PacketReceived
<1>6. CASE Tick \/ Ended
  BY <1>a, <1>6 DEF Tick, Ended, vars
<1>7. CASE RecvError \/ ReadableFails \/ Readable \/ WouldBlock \/ FlushTimerFires \/ FlushDone
  BY <1>a, <1>7, ProgramPointsDiffer
     DEF RecvError, ReadableFails, Readable, WouldBlock, FlushTimerFires, FlushDone
<1>8. ASSUME NEW b \in BufferNames, FlushBuffer(b) PROVE SamplesFromConsumed' /\ NoFullFrame'
  <2>1. /\ \A c \in BufferNames : Keys(store'[c]) \subseteq Keys(store[c])
        /\ \A c \in BufferNames : \A k \in Keys(store'[c]) : store'[c][k] = store[c][k]
    <3>1. store' = [store EXCEPT ![b] = EmptyMap] /\ store \in [BufferNames -> PartialMaps]
      BY <1>8 DEF HandlerInv, TypeOK, FlushBuffer
    <3>2. Keys(EmptyMap) = {}
      BY DEF Keys, EmptyMap
    <3> QED  BY <3>1, <3>2
  <2>2. \A s \in Stages : pc' # PushAt(s)
    BY <1>8, ProgramPointsDiffer DEF FlushBuffer
  <2>3. NoFullFrame'
    BY <2>1 DEF NoFullFrame
  <2>4. SamplesFromConsumed'
    <3> SUFFICES ASSUME NEW c \in BufferNames, NEW k \in Keys(store'[c]), NEW x \in store'[c][k].mask
                 PROVE  \E p \in Consumed' : p.seq_num = k /\ x \in Range(p.freq_ids)
      BY <2>2 DEF SamplesFromConsumed
    <3>1. k \in Keys(store[c]) /\ x \in store[c][k].mask
      BY <2>1
    <3> QED  BY <1>0, <3>1 DEF SamplesFromConsumed
  <2> QED  BY <2>3, <2>4
<1> QED
  BY <1>1, <1>2, <1>3, <1>4, <1>5, <1>6, <1>7, <1>8 DEF Next, HandlerStep

-----------------------------------------------------------------------------
\* The three buffers in step.

Agree(b, c) == store[b] = store[c] /\ last[b] = last[c]

\* b is what c will be once the packet in hand has been pushed to it.
PushedFrom(b, c) ==
  /\ PushAccepted(store[c], packet.seq_num, packet.freq_ids)
  /\ store[b] = MapAfterPush(store[c], packet.seq_num, packet.freq_ids)
  /\ last[b] = LastAfter(c, PublishedByPush(store[c], packet.seq_num, packet.freq_ids))

\* b is what c will be once it has been flushed.
FlushedFrom(b, c) ==
  /\ store[b] = EmptyMap
  /\ last[b] = IF Keys(store[c]) = {} THEN last[c] ELSE NewestFrame(store[c])

\* In the middle of a packet or a flush, the buffers dealt with agree, so do
\* those that have not been, and the former are ahead of the latter by one call.
InStep ==
  /\ pc \in {<<"select">>, <<"drain">>, <<"ended">>} => \A b, c \in BufferNames : Agree(b, c)
  /\ \A s \in Stages : pc = PushAt(s) =>
       /\ \A b, c \in BufferNames : (b \in Before(s) <=> c \in Before(s)) => Agree(b, c)
       /\ \A b \in Before(s), c \in BufferNames \ Before(s) : PushedFrom(b, c)
  /\ \A s \in Stages : pc = FlushAt(s) =>
       /\ \A b, c \in BufferNames : (b \in Before(s) <=> c \in Before(s)) => Agree(b, c)
       /\ \A b \in Before(s), c \in BufferNames \ Before(s) : FlushedFrom(b, c)

\* Steps that leave the buffers alone keep them in step.
LEMMA InStepElsewhere ==
  ASSUME InStep, UNCHANGED <<store, last>>,
         \/ pc' = pc /\ (packet' = packet \/ pc = <<"drain">>)
         \/ /\ pc \in {<<"select">>, <<"drain">>, <<"ended">>, PushAt("end"), FlushAt("end")}
            /\ pc' \in {<<"select">>, <<"drain">>, <<"ended">>,
                        PushAt("frac_flagged"), FlushAt("frac_flagged")}
  PROVE  InStep'
<1> USE DEF Agree
<1>1. CASE pc' = pc /\ packet' = packet
  <2>1. \A b, c \in BufferNames : /\ PushedFrom(b, c) => PushedFrom(b, c)'
                                  /\ FlushedFrom(b, c) => FlushedFrom(b, c)'
                                  /\ Agree(b, c) => Agree(b, c)'
    BY <1>1 DEF PushedFrom, FlushedFrom, LastAfter
  <2>2. \A s \in Stages : Before(s) \subseteq BufferNames
    BY DEF Before
  <2> HIDE DEF Agree
  <2> QED  BY <1>1, <2>1, <2>2 DEF InStep
<1>2. CASE pc' = pc /\ pc = <<"drain">>
  BY <1>2, ProgramPointsDiffer DEF InStep
<1>3. ASSUME pc \in {<<"select">>, <<"drain">>, <<"ended">>, PushAt("end"), FlushAt("end")},
             pc' \in {<<"select">>, <<"drain">>, <<"ended">>,
                      PushAt("frac_flagged"), FlushAt("frac_flagged")}
      PROVE  InStep'
  <2>1. \A b, c \in BufferNames : Agree(b, c)
    <3>1. CASE pc \in {<<"select">>, <<"drain">>, <<"ended">>}
      BY <3>1 DEF InStep
    <3>2. CASE pc \in {PushAt("end"), FlushAt("end")}
      <4>1. "end" \in Stages
        BY DEF Stages
      <4> QED  BY <3>2, <4>1, AfterIsNext DEF InStep
    <3> QED  BY <1>3, <3>1, <3>2
  <2>2. \A b, c \in BufferNames : Agree(b, c)'
    BY <2>1
  <2>3. \A s \in Stages : pc' = PushAt(s) \/ pc' = FlushAt(s) => Before(s) = {}
    BY <1>3, ProgramPointsDiffer, AfterIsNext
  <2> QED  BY <2>2, <2>3 DEF InStep
<1> QED  BY <1>1, <1>2, <1>3

\* A push into a buffer brings it level with those before it; if it is
\* refused, it is the first and changes nothing.
LEMMA PushKeepsStep ==
  ASSUME HandlerInv, CleanSource, OnePlace, SamplesFromConsumed, InStep,
         NEW b \in BufferNames, PushBuffer(b)
  PROVE  InStep'
<1> DEFINE id    == packet.seq_num
           chunk == packet.freq_ids
<1>1. /\ pc = PushAt(b) /\ b \in Stages /\ b \notin Before(b)
      /\ store'[b] = MapAfterPush(store[b], id, chunk)
      /\ last'[b] = LastAfter(b, PublishedByPush(store[b], id, chunk))
      /\ Before(b) \subseteq BufferNames
  BY AfterIsNext DEF HandlerInv, TypeOK, PushBuffer, Before
<1>2. \A c \in BufferNames \ {b} : store'[c] = store[c] /\ last'[c] = last[c]
  BY PushIntoBuffer
<1>3. /\ \A c, d \in BufferNames : (c \in Before(b) <=> d \in Before(b)) => Agree(c, d)
      /\ \A c \in Before(b), d \in BufferNames \ Before(b) : PushedFrom(c, d)
  BY <1>1 DEF InStep
<1>4. CASE PushAccepted(store[b], id, chunk)
  <2>1. pc' = PushAt(After(b)) /\ packet' = packet
    BY <1>4 DEF PushBuffer
  <2>2. \A c, d \in BufferNames :
          (c \in Before(b) \cup {b} <=> d \in Before(b) \cup {b}) => Agree(c, d)'
    <3>1. \A c \in Before(b) : Agree(c, b)' /\ Agree(b, c)'
      BY <1>1, <1>2, <1>3 DEF PushedFrom, Agree
    <3> QED  BY <1>1, <1>2, <1>3, <3>1 DEF Agree
  <2>3. \A c \in Before(b) \cup {b}, d \in BufferNames \ (Before(b) \cup {b}) : PushedFrom(c, d)'
    <3> SUFFICES ASSUME NEW c \in Before(b) \cup {b},
                        NEW d \in BufferNames \ (Before(b) \cup {b})
                 PROVE  PushedFrom(c, d)'
      OBVIOUS
    <3>1. store'[d] = store[d] /\ last'[d] = last[d] /\ Agree(b, d)
      BY <1>1, <1>2, <1>3
    <3>2. CASE c = b
      <4>1. LastAfter(d, PublishedByPush(store[d], id, chunk))' = last'[b]
        BY <1>1, <2>1, <3>1 DEF Agree, LastAfter
      <4> QED  BY <1>1, <1>4, <2>1, <3>1, <3>2, <4>1 DEF PushedFrom, Agree
    <3>3. CASE c # b
      <4>1. PushedFrom(c, d) /\ store'[c] = store[c] /\ last'[c] = last[c]
        BY <1>1, <1>2, <1>3, <3>3
      <4> QED  BY <2>1, <3>1, <4>1 DEF PushedFrom, LastAfter
    <3> QED  BY <3>2, <3>3
  <2>4. \A s \in Stages : /\ pc' = PushAt(s) => Before(s) = Before(b) \cup {b}
                          /\ pc' # FlushAt(s)
    BY <2>1, ProgramPointsDiffer, AfterIsNext
  <2>5. pc' \notin {<<"select">>, <<"drain">>, <<"ended">>}
    BY <2>1, ProgramPointsDiffer
  <2> QED  BY <2>2, <2>3, <2>4, <2>5 DEF InStep
<1>5. CASE ~ PushAccepted(store[b], id, chunk)
  <2>1. pc' = <<"drain">>
    BY <1>5 DEF PushBuffer
  <2>2. Before(b) = {}
    BY <1>1, <1>3, <1>5 DEF PushedFrom
  <2>3. TooOld(store[b], id)
    BY <1>1, <1>5, PacketIsFresh, FreshChunk
  <2>4. store'[b] = store[b] /\ last'[b] = last[b]
    BY <1>1, <2>3 DEF MapAfterPush, PublishedByPush, LastAfter
  <2>5. \A c, d \in BufferNames : Agree(c, d)'
    BY <1>2, <1>3, <2>2, <2>4 DEF Agree
  <2> QED  BY <2>1, <2>5, ProgramPointsDiffer DEF InStep
<1> QED  BY <1>4, <1>5

\* So does a flush of a buffer.
LEMMA FlushKeepsStep ==
  ASSUME HandlerInv, InStep, NEW b \in BufferNames, FlushBuffer(b)
  PROVE  InStep'
<1> DEFINE final(c) == IF Keys(store[c]) = {} THEN last[c] ELSE NewestFrame(store[c])
<1>1. /\ pc = FlushAt(b) /\ pc' = FlushAt(After(b)) /\ b \in Stages /\ b \notin Before(b)
      /\ store'[b] = EmptyMap /\ last'[b] = final(b)
      /\ \A c \in BufferNames \ {b} : store'[c] = store[c] /\ last'[c] = last[c]
      /\ Before(b) \subseteq BufferNames
  BY AfterIsNext DEF HandlerInv, TypeOK, FlushBuffer, Before
<1>2. /\ \A c, d \in BufferNames : (c \in Before(b) <=> d \in Before(b)) => Agree(c, d)
      /\ \A c \in Before(b), d \in BufferNames \ Before(b) : FlushedFrom(c, d)
  BY <1>1 DEF InStep
<1>3. \A c, d \in BufferNames :
        (c \in Before(b) \cup {b} <=> d \in Before(b) \cup {b}) => Agree(c, d)'
  <2>1. \A c \in Before(b) : Agree(c, b)' /\ Agree(b, c)'
    BY <1>1, <1>2 DEF FlushedFrom, Agree
  <2> QED  BY <1>1, <1>2, <2>1 DEF Agree
<1>4. \A c \in Before(b) \cup {b}, d \in BufferNames \ (Before(b) \cup {b}) : FlushedFrom(c, d)'
  <2> SUFFICES ASSUME NEW c \in Before(b) \cup {b},
                      NEW d \in BufferNames \ (Before(b) \cup {b})
               PROVE  FlushedFrom(c, d)'
    OBVIOUS
  <2>1. store'[d] = store[d] /\ last'[d] = last[d] /\ Agree(b, d)
    BY <1>1, <1>2
  <2>2. CASE c = b
    BY <1>1, <2>1, <2>2 DEF FlushedFrom, Agree
  <2>3. CASE c # b
    <3>1. FlushedFrom(c, d) /\ store'[c] = store[c] /\ last'[c] = last[c]
      BY <1>1, <1>2, <2>3
    <3> QED  BY <2>1, <3>1 DEF FlushedFrom
  <2> QED  BY <2>2, <2>3
<1>5. \A s \in Stages : /\ pc' = FlushAt(s) => Before(s) = Before(b) \cup {b}
                        /\ pc' # PushAt(s)
  BY <1>1, ProgramPointsDiffer, AfterIsNext
<1>6. pc' \notin {<<"select">>, <<"drain">>, <<"ended">>}
  BY <1>1, ProgramPointsDiffer
<1> QED  BY <1>3, <1>4, <1>5, <1>6 DEF InStep

\* With a clean source: where the datagrams are, where the samples come from,
\* and that the buffers move together.
SourceInv ==
  CleanSource => OnePlace /\ SamplesFromConsumed /\ NoFullFrame /\ InStep

\* At the start nothing has been sent and the buffers are empty.
LEMMA SourceStarts == Init => SourceInv
<1> SUFFICES ASSUME Init, CleanSource
             PROVE  OnePlace /\ SamplesFromConsumed /\ NoFullFrame /\ InStep
  BY DEF SourceInv
<1>1. \A b \in BufferNames : Keys(store[b]) = {}
  BY DEF Init, Keys, EmptyMap
<1>2. \A s \in Stages : pc # PushAt(s) /\ pc # FlushAt(s)
  BY ProgramPointsDiffer DEF Init
<1>3. OnePlace
  <2>1. DOMAIN socket = {} /\ Range(socket) = {}
    BY DEF Init, Range
  <2> QED  BY <1>2, <2>1 DEF OnePlace, InHandNow
<1>4. InStep
  <2>1. \A b, c \in BufferNames : Agree(b, c)
    BY DEF Init, Agree
  <2> QED  BY <1>2, <2>1 DEF InStep
<1> QED  BY <1>1, <1>3, <1>4 DEF SamplesFromConsumed, NoFullFrame

\* Every step of the task and its environment keeps SourceInv.
LEMMA SourceKeeps == HandlerInv /\ SourceInv /\ [Next]_vars => SourceInv'
<1> SUFFICES ASSUME HandlerInv, SourceInv, [Next]_vars, CleanSource
             PROVE  OnePlace' /\ SamplesFromConsumed' /\ NoFullFrame' /\ InStep'
  BY DEF SourceInv, CleanSource
<1> USE DEF environment, buffers
<1>1. OnePlace /\ SamplesFromConsumed /\ NoFullFrame /\ InStep
  BY DEF SourceInv
<1>2. OnePlace' /\ SamplesFromConsumed' /\ NoFullFrame'
  BY <1>1, SocketMoves, SamplesMove
<1>3. InStep'
  <2>1. CASE UNCHANGED vars
    BY <1>1, <2>1, InStepElsewhere DEF vars
  <2>2. ASSUME NEW p \in Packets, Arrive(p) PROVE InStep'
    BY <1>1, <2>2, InStepElsewhere DEF Arrive
  <2>3. CASE Tick \/ RecvError \/ Ended
    BY <1>1, <2>3, InStepElsewhere DEF Tick, RecvError, Ended, vars
  <2>4. CASE Recv
    BY <1>1, <2>4, InStepElsewhere DEF Recv
  <2>5. CASE ReadableFails \/ Readable \/ WouldBlock
    BY <1>1, <2>5, InStepElsewhere DEF ReadableFails, Readable, WouldBlock
  <2>6. CASE PacketReceived \/ FlushTimerFires \/ FlushDone
    BY <1>1, <2>6, InStepElsewhere DEF PacketReceived, FlushTimerFires, FlushDone
  <2>7. ASSUME NEW b \in BufferNames, PushBuffer(b) PROVE InStep'
    BY <1>1, <2>7, PushKeepsStep
  <2>8. ASSUME NEW b \in BufferNames, FlushBuffer(b) PROVE InStep'
    BY <1>1, <2>8, FlushKeepsStep
  <2> QED
    BY <2>1, <2>2, <2>3, <2>4, <2>5, <2>6, <2>7, <2>8 DEF Next, HandlerStep
<1> QED  BY <1>2, <1>3

\* Both invariants together.
THEOREM SourceInvariance == Spec => [](HandlerInv /\ SourceInv)
<1>1. Init => HandlerInv /\ SourceInv
  BY HandlerStarts, SourceStarts
<1>2. HandlerInv /\ SourceInv /\ [Next]_vars => (HandlerInv /\ SourceInv)'
  BY HandlerKeeps, SourceKeeps
<1> QED  BY <1>1, <1>2, PTL DEF Spec

\* With a source that sends every sample once, the early returns of
\* Buffers::push never separate the three buffers.
THEOREM BuffersInLockstep == Spec => []Lockstep
<1>1. SourceInv => Lockstep
  BY DEF SourceInv, InStep, Agree, Lockstep, AtRest
<1> QED  BY <1>1, SourceInvariance, PTL

\* With such a source a frame that has all its samples leaves push_array at
\* once: no complete frame waits in a map.
THEOREM CompleteFramesDoNotStay == Spec => []CompleteFramesLeave
<1>1. SourceInv => CompleteFramesLeave
  BY DEF SourceInv, NoFullFrame, CompleteFramesLeave
<1> QED  BY <1>1, SourceInvariance, PTL

-----------------------------------------------------------------------------
\* The buffers.

\* Buffer b on its own: the chunks it is given are those of the datagrams.
Buffer(b) == INSTANCE AtomicBuffer WITH
  map <- store[b], latest <- last[b], Chunks <- {p.freq_ids : p \in Packets}

\* What the handler does to buffer b is a call of push_array or flush, or
\* nothing.
LEMMA StepIsCall ==
  ASSUME HandlerInv, NEW b \in BufferNames, [Next]_vars
  PROVE  [Buffer(b)!Next]_(Buffer(b)!vars)
<1> USE DEF environment, buffers
<1>0. /\ store \in [BufferNames -> PartialMaps]
      /\ last \in [BufferNames -> Frame \cup {NoFrame}]
  BY DEF HandlerInv, TypeOK
<1>1. ASSUME UNCHANGED <<store, last>> PROVE UNCHANGED Buffer(b)!vars
  BY <1>1 DEF Buffer!vars
<1>2. ASSUME NEW c \in BufferNames, PushBuffer(c)
      PROVE  [Buffer(b)!Next]_(Buffer(b)!vars)
  <2>1. CASE c = b
    <3>1. packet \in Packets /\ packet.seq_num \in Ids
      BY <1>2, PushIntoBuffer, PacketFields
    <3>2. /\ store'[b] = MapAfterPush(store[b], packet.seq_num, packet.freq_ids)
          /\ last'[b] = LastAfter(b, PublishedByPush(store[b], packet.seq_num, packet.freq_ids))
      BY <1>0, <1>2, <2>1 DEF PushBuffer
    <3>3. Buffer(b)!Push(packet.seq_num, packet.freq_ids)
      BY <3>2 DEF Buffer!Push, LastAfter
    <3> QED  BY <3>1, <3>3 DEF Buffer!Next
  <2>2. CASE c # b
    BY <1>0, <1>2, <2>2 DEF PushBuffer, Buffer!vars
  <2> QED  BY <2>1, <2>2
<1>3. ASSUME NEW c \in BufferNames, FlushBuffer(c)
      PROVE  [Buffer(b)!Next]_(Buffer(b)!vars)
  <2>1. CASE c = b
    <3>1. /\ store'[b] = EmptyMap
          /\ last'[b] = IF Keys(store[b]) = {} THEN last[b] ELSE NewestFrame(store[b])
      BY <1>0, <1>3, <2>1 DEF FlushBuffer
    <3>2. Keys(store[b]) = {} <=> store[b] = EmptyMap
      BY <1>0 DEF Keys, EmptyMap, PartialMaps
    <3>3. CASE store[b] = EmptyMap
      BY <3>1, <3>2, <3>3 DEF Buffer!vars
    <3>4. CASE store[b] # EmptyMap
      BY <3>1, <3>2, <3>4 DEF Buffer!Next, Buffer!Flush
    <3> QED  BY <3>3, <3>4
  <2>2. CASE c # b
    BY <1>0, <1>3, <2>2 DEF FlushBuffer, Buffer!vars
  <2> QED  BY <2>1, <2>2
<1>4. ASSUME NEW p \in Packets, Arrive(p) PROVE UNCHANGED <<store, last>>
  BY <1>4 DEF Arrive
<1>5. Tick \/ RecvError \/ Ended \/ Recv \/ ReadableFails \/ Readable \/ WouldBlock
        \/ PacketReceived \/ FlushTimerFires \/ FlushDone \/ UNCHANGED vars
        => UNCHANGED <<store, last>>
  BY DEF Tick, RecvError, Ended, Recv, ReadableFails, Readable, WouldBlock, PacketReceived,
         FlushTimerFires, FlushDone, vars
<1> QED  BY <1>1, <1>2, <1>3, <1>4, <1>5 DEF Next, HandlerStep

\* Each of the three buffers does what AtomicBuffer does, which is what
\* FrameBuffer implements: the handler may be put on top of three of those.
THEOREM BuffersAreAtomic ==
  ASSUME NEW b \in BufferNames
  PROVE  Spec => Buffer(b)!Spec
<1>1. Init => Buffer(b)!Init
  BY DEF Init, Buffer!Init
<1>2. HandlerInv /\ [Next]_vars => [Buffer(b)!Change]_(Buffer(b)!vars)
  BY StepIsCall DEF Buffer!Change
<1> QED  BY <1>1, <1>2, HandlerInvariance, PTL DEF Spec, Buffer!Spec

=============================================================================
