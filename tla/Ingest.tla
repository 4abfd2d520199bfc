------------------------------- MODULE Ingest -------------------------------
(***************************************************************************)
(* From the UDP socket to the three buffers: packet_handler_task of        *)
(* network/udp.rs and Buffers::push and flush of state/buffers.rs.         *)
(*                                                                         *)
(* The handler is one task.  It drains the socket, and for each packet     *)
(* compares the header with the metadata and pushes the same indices into  *)
(* frac_flagged, sktilde_avg and skbar_avg, in that order, returning at    *)
(* the first error.  When the socket has been quiet for the flush timeout  *)
(* it flushes the three buffers in the same order.  Each buffer is locked  *)
(* for itself, so other tasks can look between two of these steps: every   *)
(* push into a buffer and every flush of a buffer is a step.  FrameBuffer  *)
(* has the steps inside one of them.                                       *)
(***************************************************************************)
EXTENDS Frames

CONSTANTS
  Packets,         \* the datagrams that can arrive
  SocketCapacity,  \* datagrams the receive buffer of the OS can hold
  FlushTimeout,    \* DATA_STATE_FLUSH_TIMEOUT_SECONDS, in ticks of the clock
  Retransmits,     \* a datagram can arrive any number of times
  MaxErrors,       \* bound: socket errors other than WouldBlock
  NoHeader,        \* metadata is not initialised
  NoPacket         \* no packet in hand

\* A header is its kind, which stands for every field that check_expected_equal
\* compares, and its seq_num.  One of these fields is num_local_freq, the length
\* of freq_ids.  A datagram that does not parse has no content that matters.
PacketType == [parses : BOOLEAN, kind : STRING, seq_num : Ids, freq_ids : Seq(Nat)]

ASSUME PacketsAssumption  ==
  /\ Packets \subseteq PacketType
  /\ \A p, q \in Packets : p.kind = q.kind => Len(p.freq_ids) = Len(q.freq_ids)
ASSUME SocketAssumption   == SocketCapacity \in Nat \ {0}
ASSUME TimeoutAssumption  == FlushTimeout \in Nat \ {0}
ASSUME SourceAssumption   == Retransmits \in BOOLEAN /\ MaxErrors \in Nat
ASSUME NoPacketAssumption == NoPacket \notin Packets
ASSUME NoHeaderAssumption == NoHeader \notin [kind : STRING, seq_num : Ids]

VARIABLES
  unsent,    \* datagrams that can still be sent
  socket,    \* receive buffer of the OS
  errors,    \* socket errors so far
  pc,        \* where the handler is
  packet,    \* the packet it is pushing
  timer,     \* ticks until flush_timer fires
  metadata,  \* Buffers.metadata
  store,     \* [BufferNames -> partial_frames of that buffer]
  last,      \* [BufferNames -> last_frame of that buffer]
  outcome,   \* what packet_loss counted for the last datagram
  accepted   \* history: the packets counted as received

environment == <<unsent, errors>>
buffers     == <<metadata, store, last>>
vars == <<environment, socket, pc, packet, timer, buffers, outcome, accepted>>

BufferNames == {"frac_flagged", "sktilde_avg", "skbar_avg"}

\* Defect: skbar_avg is left out.
AfterWithoutSkbar(b) == IF b = "frac_flagged" THEN "sktilde_avg" ELSE "end"

\* The buffer after b in push and in flush.
After(b) == CASE b = "frac_flagged" -> "sktilde_avg"
              [] b = "sktilde_avg"  -> "skbar_avg"
              [] b = "skbar_avg"    -> "end"

\* Program points: waiting in select!, draining the socket, about to push into
\* (or flush) a buffer, about to update the metadata (or reset the timer); and
\* the end of the task, with which the broker ends.
Stages == BufferNames \cup {"end"}
PushAt(stage)  == <<"push", stage>>
FlushAt(stage) == <<"flush", stage>>
ProgramPoints  == {<<"select">>, <<"drain">>, <<"ended">>}
                    \cup {PushAt(s) : s \in Stages} \cup {FlushAt(s) : s \in Stages}

Header(p) == [kind |-> p.kind, seq_num |-> p.seq_num]

Init ==
  /\ unsent = Packets
  /\ socket = <<>>
  /\ errors = 0
  /\ pc = <<"select">>
  /\ packet = NoPacket
  /\ timer = FlushTimeout
  /\ metadata = NoHeader
  /\ store = [b \in BufferNames |-> EmptyMap]
  /\ last = [b \in BufferNames |-> NoFrame]
  /\ outcome = "none"
  /\ accepted = {}

-----------------------------------------------------------------------------
\* The network and the clock.

\* Datagrams come in any order; the kernel drops what does not fit.
Arrive(p) ==
  /\ pc # <<"ended">>
  /\ p \in unsent
  /\ unsent' = IF Retransmits THEN unsent ELSE unsent \ {p}
  /\ socket' = IF Len(socket) < SocketCapacity THEN Append(socket, p) ELSE socket
  /\ UNCHANGED <<errors, pc, packet, timer, buffers, outcome, accepted>>

Tick ==
  /\ pc # <<"ended">>
  /\ timer > 0
  /\ timer' = timer - 1
  /\ UNCHANGED <<environment, socket, pc, packet, buffers, outcome, accepted>>

-----------------------------------------------------------------------------
\* The receiving branch of select!.

Readable ==
  /\ pc = <<"select">>
  /\ socket # <<>>
  /\ pc' = <<"drain">>
  /\ UNCHANGED <<environment, socket, packet, timer, buffers, outcome, accepted>>

\* readable fails: the ? returns from the task, and run of app.rs from its
\* select!.
ReadableFails ==
  /\ pc = <<"select">>
  /\ errors < MaxErrors
  /\ errors' = errors + 1
  /\ pc' = <<"ended">>
  /\ UNCHANGED <<unsent, socket, packet, timer, buffers, outcome, accepted>>

\* The end of the process.
Ended == pc = <<"ended">> /\ UNCHANGED vars

WouldBlock ==
  /\ pc = <<"drain">>
  /\ socket = <<>>
  /\ pc' = <<"select">>
  /\ UNCHANGED <<environment, socket, packet, timer, buffers, outcome, accepted>>

\* try_recv_from fails: counted as a lost packet, and the timer starts again.  An
\* error makes the socket readable too, so that the loop may be entered for it.
RecvError ==
  /\ pc \in {<<"select">>, <<"drain">>}
  /\ errors < MaxErrors
  /\ errors' = errors + 1
  /\ timer' = FlushTimeout
  /\ outcome' = "lost"
  /\ pc' = <<"drain">>
  /\ UNCHANGED <<unsent, socket, packet, buffers, accepted>>

MetadataAfter(p) == IF metadata = NoHeader THEN Header(p) ELSE metadata

\* Defect: the header is not compared.
AnyHeader(p) == TRUE

\* metadata.get_or_init with this header, then check_expected_equal.
HeaderExpected(p) == MetadataAfter(p).kind = p.kind

\* The next datagram, good or bad, restarts the timer.  It is pushed if it
\* parses and its header is the expected one.
Recv ==
  /\ pc = <<"drain">>
  /\ socket # <<>>
  /\ socket' = Tail(socket)
  /\ timer' = FlushTimeout
  /\ LET p == Head(socket)
     IN  /\ metadata' = IF p.parses THEN MetadataAfter(p) ELSE metadata
         /\ IF p.parses /\ HeaderExpected(p)
            THEN /\ packet' = p
                 /\ pc' = PushAt("frac_flagged")
                 /\ UNCHANGED outcome
            ELSE /\ outcome' = "lost"
                 /\ UNCHANGED <<packet, pc>>
  /\ UNCHANGED <<environment, store, last, accepted>>

\* last_frame of a buffer after frames have been pushed.
LastAfter(b, frames) == IF frames = <<>> THEN last[b] ELSE frames[Len(frames)]

\* push_vec into b, and the ? behind it: an error ends the packet here, and
\* what the earlier buffers took of it stays taken.
PushBuffer(b) ==
  /\ pc = PushAt(b)
  /\ LET id     == packet.seq_num
         chunk  == packet.freq_ids
     IN  /\ store' = [store EXCEPT ![b] = MapAfterPush(store[b], id, chunk)]
         /\ last' = [last EXCEPT ![b] =
                       LastAfter(b, PublishedByPush(store[b], id, chunk))]
         /\ IF PushAccepted(store[b], id, chunk)
            THEN /\ pc' = PushAt(After(b))
                 /\ UNCHANGED <<packet, outcome>>
            ELSE /\ pc' = <<"drain">>
                 /\ packet' = NoPacket
                 /\ outcome' = "lost"
  /\ UNCHANGED <<environment, socket, timer, metadata, accepted>>

\* All three buffers took the packet.
PacketReceived ==
  /\ pc = PushAt("end")
  /\ metadata' = Header(packet)
  /\ outcome' = "received"
  /\ accepted' = accepted \cup {packet}
  /\ packet' = NoPacket
  /\ pc' = <<"drain">>
  /\ UNCHANGED <<environment, socket, timer, store, last>>

-----------------------------------------------------------------------------
\* The timer branch of select!, polled only when the socket is not readable.

FlushTimerFires ==
  /\ pc = <<"select">>
  /\ socket = <<>>
  /\ timer = 0
  /\ pc' = FlushAt("frac_flagged")
  /\ UNCHANGED <<environment, socket, packet, timer, buffers, outcome, accepted>>

\* Defect: flush stops one frame early.
FlushAllButNewest(b) ==
  /\ pc = FlushAt(b)
  /\ pc' = FlushAt(After(b))
  /\ store' = [store EXCEPT ![b] = [id \in Ids |->
                 IF id \in Keys(store[b]) /\ id = Max(Keys(store[b]))
                 THEN store[b][id] ELSE NoFrame]]
  /\ UNCHANGED <<environment, socket, packet, timer, metadata, last, outcome, accepted>>

\* The frames of a map are pushed oldest first: the newest one stays visible.
FlushBuffer(b) ==
  /\ pc = FlushAt(b)
  /\ pc' = FlushAt(After(b))
  /\ store' = [store EXCEPT ![b] = EmptyMap]
  /\ last' = [last EXCEPT ![b] =
                IF Keys(store[b]) = {} THEN last[b]
                ELSE NewestFrame(store[b])]
  /\ UNCHANGED <<environment, socket, packet, timer, metadata, outcome, accepted>>

FlushDone ==
  /\ pc = FlushAt("end")
  /\ timer' = FlushTimeout
  /\ pc' = <<"select">>
  /\ UNCHANGED <<environment, socket, packet, buffers, outcome, accepted>>

-----------------------------------------------------------------------------

HandlerStep ==
  \/ Readable
  \/ WouldBlock
  \/ Recv
  \/ \E b \in BufferNames : PushBuffer(b)
  \/ PacketReceived
  \/ FlushTimerFires
  \/ \E b \in BufferNames : FlushBuffer(b)
  \/ FlushDone

Next ==
  \/ \E p \in Packets : Arrive(p)
  \/ Tick
  \/ RecvError
  \/ ReadableFails
  \/ HandlerStep
  \/ Ended

\* The runtime polls the handler whenever it is ready, and time passes.  The
\* network owes nothing.
Fairness == WF_vars(HandlerStep) /\ WF_vars(Tick)

Spec == Init /\ [][Next]_vars /\ Fairness

-----------------------------------------------------------------------------
\* Properties.

TypeOK ==
  /\ unsent \in SUBSET Packets
  /\ socket \in Seq(Packets) /\ Len(socket) <= SocketCapacity
  /\ errors \in 0 .. MaxErrors
  /\ pc \in ProgramPoints
  /\ packet \in Packets \cup {NoPacket}
  /\ timer \in 0 .. FlushTimeout
  /\ metadata \in [kind : STRING, seq_num : Ids] \cup {NoHeader}
  /\ store \in [BufferNames -> PartialMaps]
  /\ last \in [BufferNames -> Frame \cup {NoFrame}]
  /\ outcome \in {"none", "received", "lost"}
  /\ accepted \in SUBSET Packets

\* Between two datagrams.
AtRest == pc \in {<<"select">>, <<"drain">>}

\* A source that sends every sample once, under an index that exists.
CleanSource ==
  /\ ~ Retransmits
  /\ \A p \in Packets : \A n \in DOMAIN p.freq_ids :
       /\ p.freq_ids[n] \in Index
       /\ \A m \in 1 .. (n - 1) : p.freq_ids[m] # p.freq_ids[n]
  /\ \A p, q \in Packets :
       p # q /\ p.seq_num = q.seq_num => Range(p.freq_ids) \cap Range(q.freq_ids) = {}

\* With a clean source the early returns of Buffers::push never separate the
\* three buffers: between datagrams they hold the same partial frames and show
\* the same last frame, whatever was lost, late, evicted or of another kind.
Lockstep ==
  CleanSource /\ AtRest =>
    \A b, c \in BufferNames : store[b] = store[c] /\ last[b] = last[c]

\* With a clean source a frame that has all its samples is published by the
\* packet that completed it.
CompleteFramesLeave ==
  CleanSource =>
    \A b \in BufferNames : \A id \in Keys(store[b]) : ~ IsFull(store[b][id])

\* Buffer b holds every sample of p, or shows it in its last frame.
Landed(b, p) ==
  \E f \in {store[b][p.seq_num], last[b]} \ {NoFrame} :
     f.sequence_id = p.seq_num /\ Range(p.freq_ids) \subseteq f.mask

\* A packet is counted as received only when each of the three buffers has all
\* its samples, in a partial frame or in the frame it completed.
ReceivedMeansStored ==
  pc = PushAt("end") => \A b \in BufferNames : Landed(b, packet)

\* As soon as one packet has been received, /metadata shows the header of a
\* received packet, and all received packets agree with it.
MetadataOfReceived ==
  accepted # {} =>
    /\ \E p \in accepted : metadata = Header(p)
    /\ \A p \in accepted : p.kind = metadata.kind

\* When the datagrams stop, the flush timer empties the three buffers for good,
\* unless the handler ends with an error.
SilencePublishesAll ==
  <>[](socket = <<>> /\ pc # <<"ended">>)
    => <>[](\A b \in BufferNames : Keys(store[b]) = {})

\* The doc of Buffers.metadata: a "fixed instance of the packet header, whose
\* values should be set by the first valid packet".
MetadataFromValidPacket ==
  AtRest /\ metadata # NoHeader => accepted # {}

\* The doc of push_array: "Frames which are never filled will eventually get
\* pushed" if "a sufficient number of samples have been received", which in the
\* code is MIN_FRAME_SAMPLE_COUNT, or by flush.
PendingArePublished ==
  \A b \in BufferNames, id \in Ids :
    store[b][id] # NoFrame /\ store[b][id].sample_count >= MinFrameSampleCount
      ~> store[b][id] = NoFrame

=============================================================================
