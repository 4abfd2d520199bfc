------------------------- MODULE WriteBuffersProofs -------------------------
(***************************************************************************)
(* Theorems about WriteBuffers, for any number of clients and of samples   *)
(* asked for, next to the task of BadInputs.                               *)
(***************************************************************************)
EXTENDS WriteBuffers, BadInputsProofs

\* An accumulate call on a buffer that has pushed last frames, asked for n.
Sound(call, last, n) ==
  /\ call \in Call
  /\ Len(call.queue) <= TxCapacity
  /\ call.phase = "open" => Newest(call.queue, last)
  /\ call.phase = "open" /\ ~ call.lagged =>
       last = call.since + Len(call.frames) + Len(call.queue)
  /\ call.phase # "open" => call.queue = <<>> /\ ~ call.lagged
  /\ \A i \in 1 .. Len(call.frames) : call.frames[i] = call.since + i
  /\ call.phase = "full" => Len(call.frames) = n

\* Where a request is and what its calls have come to.
RequestInv ==
  /\ sktilde \in 0 .. MaxFrames /\ level \in 0 .. MaxFrames
  /\ step \in [Clients -> {"idle", "join_first", "join_second", "join", "write"}]
  /\ wanted \in [Clients -> SampleCounts \cup {0}]
  /\ acc \in [Clients -> [Dumped -> Call]]
  /\ files \in [Clients -> 0 .. 4]
  /\ \A c \in Clients, b \in Dumped : Sound(acc[c][b], Pushed(b), wanted[c])
  /\ \A c \in Clients :
       /\ step[c] \in {"idle", "join_first"} => \A b \in Dumped : acc[c][b].phase = "none"
       /\ step[c] = "write" => BothSucceeded(c)
       /\ files[c] > 0 => step[c] = "write"

BrokerInv == TaskInv /\ RequestInv

-----------------------------------------------------------------------------
\* One accumulate call.

\* A call that has not been made is sound.
LEMMA NotCalledIsSound ==
  ASSUME NEW last \in Nat, NEW n
  PROVE  Sound(NotCalled, last, n)
<1>1. <<>> \in Seq(1 .. MaxFrames) /\ Len(<<>>) = 0
  OBVIOUS
<1>2. NotCalled \in Call
  BY <1>1, FramesAssumption DEF NotCalled, Call
<1> QED  BY <1>1, <1>2, TxAssumption DEF NotCalled, Sound

\* A frame that is pushed.
LEMMA HearKeepsSound ==
  ASSUME NEW last \in 0 .. (MaxFrames - 1), NEW n, NEW call, Sound(call, last, n)
  PROVE  /\ Sound(Hear(call, last + 1), last + 1, n)
         /\ Hear(call, last + 1).phase = call.phase
<1> DEFINE next == LastOnes(Append(call.queue, last + 1))
           heard == [call EXCEPT !.queue = next, !.lagged = @ \/ Overflows(call.queue)]
<1>1. CASE call.phase = "open"
  <2>1. /\ call \in Call /\ call.queue \in Seq(1 .. MaxFrames) /\ Len(call.queue) <= TxCapacity
        /\ Newest(call.queue, last)
    BY <1>1 DEF Sound, Call
  <2>2. /\ next \in Seq(1 .. MaxFrames) /\ Len(next) <= TxCapacity /\ Newest(next, last + 1)
        /\ ~ Overflows(call.queue) => Len(next) = Len(call.queue) + 1
    BY <2>1, PublishKeepsNewest
  <2>3. Hear(call, last + 1) = heard
    BY <1>1 DEF Hear
  <2> HIDE DEF next
  <2>4. /\ heard \in Call /\ heard.queue = next /\ heard.phase = "open"
        /\ heard.frames = call.frames /\ heard.since = call.since
        /\ heard.lagged = (call.lagged \/ Overflows(call.queue))
    BY <1>1, <2>1, <2>2 DEF Call, Overflows
  <2> HIDE DEF heard
  <2>5. /\ call.since \in Nat /\ Len(call.frames) \in Nat /\ Len(call.queue) \in Nat
        /\ last \in Nat
    BY <2>1, FramesAssumption DEF Call
  <2>6. ~ heard.lagged => last + 1 = heard.since + Len(heard.frames) + Len(heard.queue)
    <3> SUFFICES ASSUME ~ heard.lagged
                 PROVE  last + 1 = call.since + Len(call.frames) + Len(next)
      BY <2>4
    <3>1. Len(next) = Len(call.queue) + 1
      BY <2>2, <2>4
    <3>2. last = call.since + Len(call.frames) + Len(call.queue)
      BY <1>1, <2>4 DEF Sound
    <3> QED  BY <2>5, <3>1, <3>2
  <2>7. \A i \in 1 .. Len(heard.frames) : heard.frames[i] = heard.since + i
    BY <2>4 DEF Sound
  <2>8. heard \in Call /\ heard.phase = "open" /\ heard.queue = next
    BY <2>4
  <2>9. Sound(heard, last + 1, n)
    BY <2>2, <2>6, <2>7, <2>8, Zenon DEF Sound
  <2> QED  BY <1>1, <2>3, <2>8, <2>9
<1>2. CASE call.phase # "open"
  BY <1>2 DEF Hear, Sound
<1> QED  BY <1>1, <1>2

\* A call that has what it was asked for drops its receiver.
LEMMA ClosedIsSound ==
  ASSUME NEW last \in Nat, NEW n, NEW call, Sound(call, last, n), call.phase = "open"
  PROVE  Sound(Closed(call, n), last, n) /\ Closed(call, n).phase # "none"
<1> DEFINE done == [call EXCEPT !.phase = "full", !.queue = <<>>, !.lagged = FALSE]
<1>1. CASE Len(call.frames) = n
  <2>1. <<>> \in Seq(1 .. MaxFrames) /\ Len(<<>>) <= TxCapacity
    BY TxAssumption
  <2>2. /\ done \in Call /\ done.queue = <<>> /\ done.phase = "full" /\ done.lagged = FALSE
        /\ done.frames = call.frames /\ done.since = call.since
    BY <2>1 DEF Sound, Call
  <2>3. Closed(call, n) = done
    BY <1>1 DEF Closed
  <2> HIDE DEF done
  <2> QED  BY <1>1, <2>1, <2>2, <2>3 DEF Sound
<1>2. CASE Len(call.frames) # n
  BY <1>2 DEF Closed
<1> QED  BY <1>1, <1>2

\* The first poll.
LEMMA OpenIsSound ==
  ASSUME NEW b \in Dumped, NEW n, Pushed(b) \in 0 .. MaxFrames
  PROVE  Sound(Open(b, n), Pushed(b), n)
<1> DEFINE call == [NotCalled EXCEPT !.phase = "open", !.since = Pushed(b)]
<1>1. <<>> \in Seq(1 .. MaxFrames) /\ Len(<<>>) = 0 /\ Len(<<>>) <= TxCapacity
  BY TxAssumption
<1>2. /\ call \in Call /\ call.phase = "open" /\ call.queue = <<>> /\ call.frames = <<>>
      /\ call.since = Pushed(b) /\ call.lagged = FALSE
  BY <1>1 DEF NotCalled, Call
<1> HIDE DEF call
<1>3. Pushed(b) \in Nat
  BY FramesAssumption
<1>4. Sound(call, Pushed(b), n)
  BY <1>1, <1>2, <1>3 DEF Sound, Newest
<1> QED  BY <1>2, <1>3, <1>4, ClosedIsSound DEF Open, call

\* recv returns a frame: the one that follows those the call has.
LEMMA CollectIsSound ==
  ASSUME NEW last \in Nat, NEW n, NEW call, Sound(call, last, n),
         call.phase = "open", ~ call.lagged, call.queue # <<>>
  PROVE  Sound(Closed([call EXCEPT !.frames = Append(@, Head(call.queue)), !.queue = Tail(@)], n),
               last, n)
<1> DEFINE frames == Append(call.frames, Head(call.queue))
           more   == [call EXCEPT !.frames = Append(@, Head(call.queue)), !.queue = Tail(@)]
<1>1. /\ call \in Call /\ call.queue \in Seq(1 .. MaxFrames) /\ call.frames \in Seq(1 .. MaxFrames)
      /\ Newest(call.queue, last) /\ Len(call.queue) <= TxCapacity
      /\ last = call.since + Len(call.frames) + Len(call.queue)
      /\ call.since \in Nat /\ Len(call.frames) \in Nat /\ Len(call.queue) \in Nat \ {0}
      /\ \A i \in 1 .. Len(call.frames) : call.frames[i] = call.since + i
  BY FramesAssumption, EmptySeq DEF Sound, Call
<1>2. /\ Head(call.queue) \in 1 .. MaxFrames /\ Head(call.queue) = last - Len(call.queue) + 1
      /\ Tail(call.queue) \in Seq(1 .. MaxFrames)
      /\ Len(Tail(call.queue)) = Len(call.queue) - 1
      /\ Newest(Tail(call.queue), last)
  BY <1>1, TakeKeepsNewest
<1>3. /\ frames \in Seq(1 .. MaxFrames) /\ Len(frames) = Len(call.frames) + 1
      /\ \A i \in 1 .. Len(call.frames) : frames[i] = call.frames[i]
      /\ frames[Len(call.frames) + 1] = Head(call.queue)
  BY <1>1, <1>2, AppendProperties
<1> HIDE DEF frames
<1>4. /\ more \in Call /\ more.phase = "open" /\ more.queue = Tail(call.queue)
      /\ more.frames = frames /\ more.since = call.since /\ ~ more.lagged
  BY <1>1, <1>2, <1>3 DEF Call, frames
<1>5. \A i \in 1 .. Len(frames) : frames[i] = call.since + i
  <2> TAKE i \in 1 .. Len(frames)
  <2>1. CASE i = Len(call.frames) + 1
    <3>1. frames[i] = last - Len(call.queue) + 1
      BY <1>2, <1>3, <2>1
    <3>2. /\ last = call.since + Len(call.frames) + Len(call.queue)
          /\ call.since \in Nat /\ Len(call.frames) \in Nat /\ Len(call.queue) \in Nat
      BY <1>1
    <3>3. \A s, f, q \in Nat : (s + f + q) - q + 1 = s + (f + 1)
      OBVIOUS
    <3>4. last - Len(call.queue) + 1 = call.since + (Len(call.frames) + 1)
      BY <3>2, <3>3
    <3> QED  BY <2>1, <3>1, <3>4
  <2>2. CASE i # Len(call.frames) + 1
    <3>1. i \in 1 .. Len(call.frames)
      BY <1>1, <1>3, <2>2
    <3> QED  BY <1>1, <1>3, <3>1
  <2> QED  BY <2>1, <2>2
<1> HIDE DEF more
<1>6. TxCapacity \in Nat
  BY TxAssumption
<1>7. Sound(more, last, n)
  <2>1. Len(more.queue) <= TxCapacity
    BY <1>1, <1>2, <1>4, <1>6
  <2>2. last = more.since + Len(more.frames) + Len(more.queue)
    <3>1. /\ more.since = call.since /\ Len(more.frames) = Len(call.frames) + 1
          /\ Len(more.queue) = Len(call.queue) - 1
      BY <1>2, <1>3, <1>4
    <3>2. /\ last = call.since + Len(call.frames) + Len(call.queue)
          /\ call.since \in Nat /\ Len(call.frames) \in Nat /\ Len(call.queue) \in Nat
      BY <1>1
    <3>3. \A s, f, q \in Nat : s + f + q = s + (f + 1) + (q - 1)
      OBVIOUS
    <3>4. last = call.since + (Len(call.frames) + 1) + (Len(call.queue) - 1)
      BY <3>2, <3>3, Zenon
    <3> QED  BY <3>1, <3>4, Zenon
  <2> QED  BY <1>2, <1>4, <1>5, <2>1, <2>2 DEF Sound
<1> QED  BY <1>4, <1>7, ClosedIsSound DEF more

\* The call gives up.
LEMMA FailedIsSound ==
  ASSUME NEW last, NEW n, NEW call, Sound(call, last, n)
  PROVE  Sound(Failed(call), last, n)
<1>1. <<>> \in Seq(1 .. MaxFrames) /\ Len(<<>>) <= TxCapacity
  BY TxAssumption
<1>2. /\ Failed(call) \in Call /\ Failed(call).phase = "failed" /\ Failed(call).queue = <<>>
      /\ Failed(call).frames = call.frames /\ Failed(call).since = call.since
      /\ ~ Failed(call).lagged
  BY <1>1 DEF Failed, Sound, Call
<1> QED  BY <1>1, <1>2 DEF Sound

-----------------------------------------------------------------------------
\* The requests.

\* A step of the broker is one of the task, of the packet handler and of run as
\* BadInputs has them, or none of theirs.
LEMMA BrokerStepsAreSteps == [BrokerNext]_brokerVars => [Next]_vars
<1> SUFFICES ASSUME [BrokerNext]_brokerVars PROVE [Next]_vars
  OBVIOUS
<1>1. CASE BrokerStep \/ RunReturns
  BY <1>1 DEF BrokerStep, RunReturns, Next, RunnerStep
<1>2. CASE PublishSktilde
  BY <1>2 DEF PublishSktilde
<1>3. CASE PublishSkbar
  BY <1>3 DEF PublishSkbar, Next
<1>4. ASSUME NEW c \in Clients, Request(c) \/ RequestStep(c)
      PROVE  UNCHANGED vars
  BY <1>4 DEF Request, RequestStep, Subscribes, Collect, MissedFrames, TimedOut, JoinReturns,
              Answer, WriteFile, WritingEnds
<1>5. CASE UNCHANGED brokerVars
  BY <1>5 DEF brokerVars
<1> QED  BY <1>1, <1>2, <1>3, <1>4, <1>5 DEF BrokerNext

\* What the two buffers have pushed.
LEMMA PushedInBounds ==
  ASSUME TaskInv, RequestInv, NEW b \in Dumped
  PROVE  Pushed(b) \in 0 .. MaxFrames /\ Pushed(b) \in Nat
BY FramesAssumption DEF TaskInv, TypeOK, RequestInv, Pushed

\* One call of one request changes while the request waits for it.
LEMMA CallChangesInJoin ==
  ASSUME RequestInv, NEW c \in Clients, NEW b \in Dumped, NEW call,
         Sound(call, Pushed(b), wanted[c]), acc' = [acc EXCEPT ![c][b] = call],
         NEW s \in {"join_second", "join"}, step' = [step EXCEPT ![c] = s],
         files[c] = 0, UNCHANGED <<published, sktilde, level, wanted, files>>
  PROVE  RequestInv'
<1> USE DEF RequestInv
<1>1. call \in Call
  BY DEF Sound
<1>2. /\ acc' \in [Clients -> [Dumped -> Call]]
      /\ \A d \in Clients, e \in Dumped :
           acc'[d][e] = IF d = c /\ e = b THEN call ELSE acc[d][e]
  BY <1>1
<1>3. \A d \in Clients, e \in Dumped : Sound(acc'[d][e], Pushed(e)', wanted'[d])
  BY <1>2 DEF Pushed
<1>4. step' \in [Clients -> {"idle", "join_first", "join_second", "join", "write"}]
      /\ \A d \in Clients : step'[d] = IF d = c THEN s ELSE step[d]
  OBVIOUS
<1>5. ASSUME NEW d \in Clients
      PROVE  /\ step'[d] \in {"idle", "join_first"} => \A e \in Dumped : acc'[d][e].phase = "none"
             /\ step'[d] = "write" => \A e \in Dumped : acc'[d][e].phase = "full"
             /\ files'[d] > 0 => step'[d] = "write"
  <2>1. CASE d = c
    BY <1>4, <2>1
  <2>2. CASE d # c
    BY <1>2, <1>4, <2>2 DEF BothSucceeded
  <2> QED  BY <2>1, <2>2
<1> QED  BY <1>2, <1>3, <1>4, <1>5 DEF BothSucceeded

\* A request with a call under way is in its join.
LEMMA OpenInJoin ==
  ASSUME RequestInv, NEW c \in Clients, NEW b \in Dumped, acc[c][b].phase = "open"
  PROVE  /\ step[c] \in {"join_second", "join"} /\ files[c] = 0
         /\ step = [step EXCEPT ![c] = step[c]]
BY DEF RequestInv, BothSucceeded

\* A request is answered and its calls are gone.
LEMMA AnswerKeepsRequestInv ==
  ASSUME TaskInv, RequestInv, NEW c \in Clients, Answer(c)
  PROVE  RequestInv'
<1> USE DEF RequestInv
<1>1. /\ step' = [step EXCEPT ![c] = "idle"] /\ wanted' = [wanted EXCEPT ![c] = 0]
      /\ acc' = [acc EXCEPT ![c] = [b \in Dumped |-> NotCalled]]
      /\ files' = [files EXCEPT ![c] = 0]
      /\ UNCHANGED <<published, sktilde, level>>
  BY DEF Answer, vars
<1>2. \A b \in Dumped : Sound(NotCalled, Pushed(b), 0)
  BY PushedInBounds, NotCalledIsSound
<1>3. NotCalled \in Call /\ NotCalled.phase = "none"
  <2>1. "skbar_avg" \in Dumped
    BY DEF Dumped
  <2> QED  BY <1>2, <2>1 DEF Sound, NotCalled
<1>4. /\ acc' \in [Clients -> [Dumped -> Call]]
      /\ \A d \in Clients, b \in Dumped : acc'[d][b] = IF d = c THEN NotCalled ELSE acc[d][b]
  BY <1>1, <1>3
<1>5. \A d \in Clients, b \in Dumped : Sound(acc'[d][b], Pushed(b)', wanted'[d])
  BY <1>1, <1>2, <1>4 DEF Pushed
<1>6. /\ step' \in [Clients -> {"idle", "join_first", "join_second", "join", "write"}]
      /\ wanted' \in [Clients -> SampleCounts \cup {0}]
      /\ files' \in [Clients -> 0 .. 4]
  BY <1>1
<1>7. ASSUME NEW d \in Clients
      PROVE  /\ step'[d] \in {"idle", "join_first"} => \A b \in Dumped : acc'[d][b].phase = "none"
             /\ step'[d] = "write" => \A b \in Dumped : acc'[d][b].phase = "full"
             /\ files'[d] > 0 => step'[d] = "write"
  BY <1>1, <1>3, <1>4 DEF BothSucceeded
<1> QED  BY <1>1, <1>4, <1>5, <1>6, <1>7 DEF BothSucceeded

\* All open calls on a buffer hear of the frame it pushes.
LEMMA PublishKeepsRequestInv ==
  ASSUME TaskInv, RequestInv, NEW b \in Dumped, Pushed(b) < MaxFrames,
         Pushed(b)' = Pushed(b) + 1, \A e \in Dumped \ {b} : Pushed(e)' = Pushed(e),
         acc' = Heard(b, Pushed(b)'), UNCHANGED <<step, wanted, files>>,
         sktilde' \in 0 .. MaxFrames, level' \in 0 .. MaxFrames
  PROVE  RequestInv'
<1> USE DEF RequestInv
<1>1. Pushed(b) \in 0 .. (MaxFrames - 1)
  BY PushedInBounds, FramesAssumption
<1>2. \A c \in Clients, e \in Dumped :
        acc'[c][e] = IF e = b THEN Hear(acc[c][e], Pushed(b) + 1) ELSE acc[c][e]
  BY DEF Heard
<1>3. \A c \in Clients, e \in Dumped :
        /\ Sound(acc'[c][e], Pushed(e)', wanted[c])
        /\ acc'[c][e].phase = acc[c][e].phase
  BY <1>1, <1>2, HearKeepsSound
<1>4. acc' \in [Clients -> [Dumped -> Call]]
  <2>1. \A c \in Clients, e \in Dumped : acc'[c][e] \in Call
    BY <1>3 DEF Sound
  <2>2. \A c \in Clients : Hear(acc[c][b], Pushed(b) + 1) \in Call
    BY <1>2, <2>1
  <2>3. acc' = [c \in Clients |-> [acc[c] EXCEPT ![b] = Hear(acc[c][b], Pushed(b) + 1)]]
    BY DEF Heard
  <2> QED  BY <2>2, <2>3
<1>5. ASSUME NEW c \in Clients
      PROVE  /\ step'[c] \in {"idle", "join_first"} => \A e \in Dumped : acc'[c][e].phase = "none"
             /\ step'[c] = "write" => \A e \in Dumped : acc'[c][e].phase = "full"
             /\ files'[c] > 0 => step'[c] = "write"
  BY <1>3 DEF BothSucceeded
<1>6. \A c \in Clients, e \in Dumped : Sound(acc'[c][e], Pushed(e)', wanted'[c])
  BY <1>3
<1> QED  BY <1>4, <1>5, <1>6 DEF BothSucceeded

\* There are four files to write.
LEMMA FourFiles ==
  ASSUME NEW c \in Clients
  PROVE  NumberOfFiles(c) \in 0 .. 4
<1>1. Cardinality(Dumped) = 2
  <2>1. /\ IsFiniteSet({"sktilde_avg"}) /\ Cardinality({"sktilde_avg"}) = 1
        /\ "skbar_avg" \notin {"sktilde_avg"}
    BY FS_Singleton
  <2>2. Cardinality({"sktilde_avg"} \cup {"skbar_avg"}) = 2
    BY <2>1, FS_AddElement
  <2>3. Dumped = {"sktilde_avg"} \cup {"skbar_avg"}
    BY DEF Dumped
  <2> QED  BY <2>2, <2>3
<1> QED  BY <1>1 DEF NumberOfFiles

-----------------------------------------------------------------------------

\* What each step does to the requests.
LEMMA StepKeepsRequestInv ==
  ASSUME TaskInv, RequestInv, [BrokerNext]_brokerVars
  PROVE  RequestInv'
<1>1. ASSUME UNCHANGED <<published, sktilde, level, requestVars>> PROVE RequestInv'
  BY <1>1 DEF requestVars, RequestInv, BothSucceeded, Pushed
<1>2. CASE PublishSktilde
  <2>1. /\ sktilde < MaxFrames /\ sktilde' = sktilde + 1 /\ published' = published
        /\ acc' = Heard("sktilde_avg", sktilde') /\ UNCHANGED <<level, step, wanted, files>>
    BY <1>2 DEF PublishSktilde, vars
  <2>2. "sktilde_avg" \in Dumped /\ Pushed("sktilde_avg") = sktilde
        /\ Pushed("sktilde_avg")' = sktilde'
    BY DEF Dumped, Pushed
  <2>3. \A e \in Dumped \ {"sktilde_avg"} : Pushed(e)' = Pushed(e)
    BY <2>1 DEF Pushed
  <2>4. sktilde' \in 0 .. MaxFrames /\ level' \in 0 .. MaxFrames
    BY <2>1, FramesAssumption DEF RequestInv
  <2> QED  BY <2>1, <2>2, <2>3, <2>4, PublishKeepsRequestInv
<1>3. CASE PublishSkbar
  <2>1. /\ published < MaxFrames /\ published' = published + 1 /\ sktilde' = sktilde
        /\ acc' = Heard("skbar_avg", published') /\ UNCHANGED <<step, wanted, files>>
        /\ level' \in {sktilde, level}
    BY <1>3 DEF PublishSkbar, Publish
  <2>2. "skbar_avg" \in Dumped /\ Pushed("skbar_avg") = published
        /\ Pushed("skbar_avg")' = published'
    BY DEF Dumped, Pushed
  <2>3. \A e \in Dumped \ {"skbar_avg"} : Pushed(e)' = Pushed(e)
    BY <2>1 DEF Pushed, Dumped
  <2>4. sktilde' \in 0 .. MaxFrames /\ level' \in 0 .. MaxFrames
    BY <2>1 DEF RequestInv
  <2> QED  BY <2>1, <2>2, <2>3, <2>4, PublishKeepsRequestInv
<1>4. ASSUME NEW c \in Clients, Request(c) PROVE RequestInv'
  <2>1. PICK n \in SampleCounts : wanted' = [wanted EXCEPT ![c] = n]
    BY <1>4 DEF Request
  <2>2. /\ step[c] = "idle" /\ step' = [step EXCEPT ![c] = "join_first"]
        /\ UNCHANGED <<published, sktilde, level, acc, files>>
    BY <1>4 DEF Request, vars
  <2>3. \A d \in Clients, b \in Dumped : Sound(acc[d][b], Pushed(b), wanted'[d])
    <3> TAKE d \in Clients, b \in Dumped
    <3>1. CASE d = c
      <4>1. acc[c][b].phase = "none" /\ Sound(acc[c][b], Pushed(b), wanted[c])
        BY <2>2 DEF RequestInv
      <4> QED  BY <3>1, <4>1 DEF Sound
    <3>2. CASE d # c
      <4>1. wanted'[d] = wanted[d]
        BY <2>1, <3>2 DEF RequestInv
      <4> QED  BY <4>1 DEF RequestInv
    <3> QED  BY <3>1, <3>2
  <2>4. /\ wanted' \in [Clients -> SampleCounts \cup {0}]
        /\ step' \in [Clients -> {"idle", "join_first", "join_second", "join", "write"}]
        /\ \A d \in Clients : step'[d] = IF d = c THEN "join_first" ELSE step[d]
    BY <2>1, <2>2 DEF RequestInv
  <2>5. ASSUME NEW d \in Clients
        PROVE  /\ step'[d] \in {"idle", "join_first"} => \A b \in Dumped : acc'[d][b].phase = "none"
               /\ step'[d] = "write" => \A b \in Dumped : acc'[d][b].phase = "full"
               /\ files'[d] > 0 => step'[d] = "write"
    BY <2>2, <2>4 DEF RequestInv, BothSucceeded
  <2>6. \A d \in Clients, b \in Dumped : Sound(acc'[d][b], Pushed(b)', wanted'[d])
    BY <2>2, <2>3 DEF Pushed
  <2> QED  BY <2>2, <2>4, <2>5, <2>6 DEF RequestInv, BothSucceeded
<1>5. ASSUME NEW c \in Clients, NEW b \in Dumped, Subscribes(c, b) PROVE RequestInv'
  <2>1. /\ acc' = [acc EXCEPT ![c][b] = Open(b, wanted[c])]
        /\ UNCHANGED <<published, sktilde, level, wanted, files>>
    BY <1>5 DEF Subscribes, vars
  <2>2. Sound(Open(b, wanted[c]), Pushed(b), wanted[c])
    BY OpenIsSound, PushedInBounds
  <2>3. /\ step[c] # "write"
        /\ \E s \in {"join_second", "join"} : step' = [step EXCEPT ![c] = s]
    BY <1>5 DEF Subscribes
  <2>4. files[c] = 0
    BY <2>3 DEF RequestInv
  <2> QED  BY <2>1, <2>2, <2>3, <2>4, CallChangesInJoin
<1>6. ASSUME NEW c \in Clients, NEW b \in Dumped,
             Collect(c, b) \/ MissedFrames(c, b) \/ TimedOut(c, b)
      PROVE  RequestInv'
  <2>1. /\ acc[c][b].phase = "open" /\ step' = step
        /\ UNCHANGED <<published, sktilde, level, wanted, files>>
    BY <1>6 DEF Collect, MissedFrames, TimedOut, Collecting, vars
  <2>2. Sound(acc[c][b], Pushed(b), wanted[c]) /\ Pushed(b) \in Nat
    BY PushedInBounds DEF RequestInv
  <2>3. /\ step[c] \in {"join_second", "join"} /\ files[c] = 0
        /\ step' = [step EXCEPT ![c] = step[c]]
    BY <2>1, OpenInJoin
  <2>4. CASE Collect(c, b)
    <3>1. /\ ~ acc[c][b].lagged /\ acc[c][b].queue # <<>>
          /\ acc' = [acc EXCEPT ![c][b] =
                       Closed([acc[c][b] EXCEPT !.frames = Append(@, Head(acc[c][b].queue)),
                                                !.queue = Tail(@)], wanted[c])]
      BY <2>4 DEF Collect
    <3> DEFINE call == Closed([acc[c][b] EXCEPT !.frames = Append(@, Head(acc[c][b].queue)),
                                                !.queue = Tail(@)], wanted[c])
    <3>2. Sound(call, Pushed(b), wanted[c])
      BY <2>1, <2>2, <3>1, CollectIsSound
    <3>3. acc' = [acc EXCEPT ![c][b] = call]
      BY <3>1
    <3> HIDE DEF call
    <3> QED  BY <2>1, <2>3, <3>2, <3>3, CallChangesInJoin
  <2>5. CASE MissedFrames(c, b) \/ TimedOut(c, b)
    <3>1. acc' = [acc EXCEPT ![c][b] = Failed(acc[c][b])]
      BY <2>5 DEF MissedFrames, TimedOut
    <3>2. Sound(Failed(acc[c][b]), Pushed(b), wanted[c])
      BY <2>2, FailedIsSound
    <3> QED  BY <2>1, <2>3, <3>1, <3>2, CallChangesInJoin
  <2> QED  BY <1>6, <2>4, <2>5
<1>7. ASSUME NEW c \in Clients, JoinReturns(c) PROVE RequestInv'
  <2>1. CASE Answer(c)
    BY <2>1, AnswerKeepsRequestInv
  <2>2. CASE /\ BothSucceeded(c)
             /\ step' = [step EXCEPT ![c] = "write"]
             /\ UNCHANGED <<vars, sktilde, level, wanted, acc, files>>
    <3>1. published' = published
      BY <2>2 DEF vars
    <3>2. \A d \in Clients : step'[d] = IF d = c THEN "write" ELSE step[d]
      BY <2>2 DEF RequestInv
    <3> QED  BY <2>2, <3>1, <3>2 DEF RequestInv, BothSucceeded, Pushed
  <2> QED  BY <1>7, <2>1, <2>2 DEF JoinReturns
<1>8. ASSUME NEW c \in Clients, WriteFile(c) PROVE RequestInv'
  <2>1. /\ step[c] = "write" /\ files[c] < NumberOfFiles(c)
        /\ files' = [files EXCEPT ![c] = @ + 1]
        /\ UNCHANGED <<published, sktilde, level, step, wanted, acc>>
    BY <1>8 DEF WriteFile, vars
  <2>2. files' \in [Clients -> 0 .. 4]
    BY <2>1, FourFiles DEF RequestInv
  <2>3. \A d \in Clients : files'[d] > 0 => step'[d] = "write"
    BY <2>1 DEF RequestInv
  <2> QED  BY <2>1, <2>2, <2>3 DEF RequestInv, BothSucceeded, Pushed
<1>9. ASSUME NEW c \in Clients, WritingEnds(c) PROVE RequestInv'
  BY <1>9, AnswerKeepsRequestInv DEF WritingEnds
<1>10. CASE BrokerStep
  <2>1. published' = published
    BY <1>10 DEF BrokerStep, CreateBuffer, TaskStep, Poll, Wake, Subscribe, Recv, RecvLagged,
                 Update, BindSocket, BindHttp, Exited, vars
  <2> QED  BY <1>1, <1>10, <2>1 DEF BrokerStep
<1>11. CASE RunReturns
  <2>1. /\ published' = published /\ UNCHANGED <<sktilde, level>>
        /\ step' = AllIdle /\ wanted' = Zeros /\ acc' = NoCalls /\ files' = Zeros
    BY <1>11 DEF RunReturns, Exit, BindFails, ExitWithAnother
  <2>2. \A b \in Dumped : Sound(NotCalled, Pushed(b), 0)
    BY PushedInBounds, NotCalledIsSound
  <2>3. NotCalled \in Call /\ NotCalled.phase = "none"
    <3>1. "skbar_avg" \in Dumped
      BY DEF Dumped
    <3> QED  BY <2>2, <3>1 DEF Sound, NotCalled
  <2>4. \A d \in Clients, b \in Dumped : Sound(acc'[d][b], Pushed(b)', wanted'[d])
    BY <2>1, <2>2 DEF NoCalls, Zeros, Pushed
  <2> QED  BY <2>1, <2>3, <2>4 DEF RequestInv, AllIdle, NoCalls, Zeros, BothSucceeded
<1>12. CASE UNCHANGED brokerVars
  BY <1>1, <1>12 DEF brokerVars, vars
<1> QED  BY <1>2, <1>3, <1>4, <1>5, <1>6, <1>7, <1>8, <1>9, <1>10, <1>11, <1>12
         DEF BrokerNext, RequestStep

\* The invariant of the task and that of the requests.
THEOREM BrokerInvariance == BrokerSpec => []BrokerInv
<1>1. BrokerInit => BrokerInv
  <2> SUFFICES ASSUME BrokerInit PROVE BrokerInv
    OBVIOUS
  <2>1. TaskInv
    BY InitEstablishesTaskInv DEF BrokerInit
  <2>2. published = 0 /\ sktilde = 0 /\ 0 \in 0 .. MaxFrames
    BY FramesAssumption DEF BrokerInit, Init
  <2>3. \A n, last : last = 0 => Sound(NotCalled, last, n)
    BY NotCalledIsSound
  <2>4. NotCalled \in Call /\ NotCalled.phase = "none"
    BY <2>3 DEF Sound, NotCalled
  <2>5. \A d \in Clients, b \in Dumped : Sound(acc[d][b], Pushed(b), wanted[d])
    BY <2>2, <2>3 DEF BrokerInit, NoCalls, Zeros, Pushed
  <2>6. RequestInv
    BY <2>2, <2>4, <2>5 DEF BrokerInit, RequestInv, AllIdle, NoCalls, Zeros, BothSucceeded
  <2> QED  BY <2>1, <2>6 DEF BrokerInv
<1>2. BrokerInv /\ [BrokerNext]_brokerVars => BrokerInv'
  BY BrokerStepsAreSteps, NextKeepsTaskInv, StepKeepsRequestInv DEF BrokerInv
<1> QED  BY <1>1, <1>2, PTL DEF BrokerSpec

\* The requests keep their types, and no channel holds more than it can.
THEOREM RequestsTypeCorrect == BrokerSpec => []RequestsTypeOK
<1>1. BrokerInv => RequestsTypeOK
  BY DEF BrokerInv, RequestInv, Sound, RequestsTypeOK
<1> QED  BY <1>1, BrokerInvariance, PTL

\* No request writes frames between which one is missing, however many requests
\* there are, and however far the two buffers are apart when they begin.
THEOREM DumpsHaveNoGap == BrokerSpec => []DumpsAreWhole
<1>1. ASSUME BrokerInv PROVE DumpsAreWhole
  <2> SUFFICES ASSUME NEW c \in Clients, NEW b \in Dumped, files[c] > 0
               PROVE  /\ Len(acc[c][b].frames) = wanted[c]
                      /\ \A n \in 1 .. wanted[c] : acc[c][b].frames[n] = acc[c][b].since + n
    BY DEF DumpsAreWhole
  <2>1. acc[c][b].phase = "full" /\ Sound(acc[c][b], Pushed(b), wanted[c])
    BY <1>1 DEF BrokerInv, RequestInv, BothSucceeded
  <2> QED  BY <2>1 DEF Sound
<1> QED  BY <1>1, BrokerInvariance, PTL

\* What holds of the task alone holds of it among requests.
THEOREM TaskAmongRequests ==
  BrokerSpec => [](TypeOK /\ AveragesWithoutGap /\ AgreeingStayClear)
<1>1. BrokerInv => TypeOK /\ AveragesWithoutGap /\ AgreeingStayClear
  BY DEF BrokerInv, TaskInv
<1> QED  BY <1>1, BrokerInvariance, PTL

\* The requests and the other buffer leave the task what it is: what it does
\* among them it may do alone.
THEOREM BrokerKeepsTheTask == BrokerSpec => Init /\ [][Next]_vars
<1>1. BrokerInit => Init
  BY DEF BrokerInit
<1> QED  BY <1>1, BrokerStepsAreSteps, PTL DEF BrokerSpec

\* So the average has the weights it should have among requests too.
THEOREM AverageAmongRequests ==
  ASSUME ExactUnits
  PROVE  BrokerSpec => []AverageIsWeighted
<1>1. BrokerInit => AverageInv
  BY DEF BrokerInit, Init, AverageInv, AverageIsWeighted
<1>2. BrokerInv /\ AverageInv /\ [BrokerNext]_brokerVars => AverageInv'
  BY BrokerStepsAreSteps, StepKeepsAverage DEF BrokerInv, TaskInv
<1>3. AverageInv => AverageIsWeighted
  BY DEF AverageInv
<1> QED  BY <1>1, <1>2, <1>3, BrokerInvariance, PTL DEF BrokerSpec

=============================================================================
