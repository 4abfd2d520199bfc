---------------------------- MODULE WriteBuffers ----------------------------
(***************************************************************************)
(* POST /write-buffers of network/endpoints.rs, next to bad_input_task:    *)
(* both subscribe to skbar_avg.  A request joins two accumulate calls, one *)
(* on sktilde_avg and one on skbar_avg, each with a receiver of its own,   *)
(* and writes what they collected to four files.                           *)
(*                                                                         *)
(* This module composes BadInputs, whose frames are those of skbar_avg,    *)
(* with the buffer before it, which Buffers::push and flush always serve   *)
(* first, and with any number of requests.                                 *)
(***************************************************************************)
EXTENDS BadInputs

CONSTANTS
  Clients,      \* who may send a request
  SampleCounts  \* values of nsamples

ASSUME SampleCountsAssumption == SampleCounts \subseteq Nat

VARIABLES
  sktilde,  \* number of frames sktilde_avg has pushed
  level,    \* frames in both buffers before the handler's present call
  step,     \* [Clients -> where the request is]
  wanted,   \* [Clients -> nsamples]
  acc,      \* [Clients -> [Dumped -> the accumulate call on that buffer]]
  files     \* [Clients -> files written]

requestVars == <<step, wanted, acc, files>>
brokerVars  == <<vars, sktilde, level, requestVars>>

Dumped == {"sktilde_avg", "skbar_avg"}

\* An accumulate call: its receiver, the frames it has, and as a history how
\* many the buffer had pushed when it subscribed.
NotCalled == [phase |-> "none", queue |-> <<>>, lagged |-> FALSE, since |-> 0, frames |-> <<>>]

Pushed(b) == IF b = "sktilde_avg" THEN sktilde ELSE published

AllIdle == [c \in Clients |-> "idle"]
Zeros   == [c \in Clients |-> 0]
NoCalls == [c \in Clients |-> [b \in Dumped |-> NotCalled]]

BrokerInit ==
  /\ Init
  /\ sktilde = 0
  /\ level = 0
  /\ step = AllIdle
  /\ wanted = Zeros
  /\ acc = NoCalls
  /\ files = Zeros

-----------------------------------------------------------------------------
\* The packet handler.

\* An open receiver hears of frame n.
Hear(call, n) ==
  IF call.phase = "open"
  THEN [call EXCEPT !.queue = LastOnes(Append(@, n)),
                    !.lagged = @ \/ Overflows(call.queue)]
  ELSE call

Heard(b, n) == [c \in Clients |-> [acc[c] EXCEPT ![b] = Hear(@, n)]]

\* A call of Buffers::push or flush pushes all its frames into sktilde_avg
\* before it turns to skbar_avg, and as many there.  That they are as many holds
\* for clean sources (Lockstep of Ingest); the early returns of Buffers::push can
\* make the two buffers differ for others.
PublishSktilde ==
  /\ Receiving
  /\ sktilde < MaxFrames
  /\ published = level
  /\ sktilde' = sktilde + 1
  /\ acc' = Heard("sktilde_avg", sktilde')
  /\ UNCHANGED <<vars, level, step, wanted, files>>

PublishSkbar ==
  /\ published < sktilde
  /\ Publish
  /\ acc' = Heard("skbar_avg", published')
  /\ level' = IF published' = sktilde THEN sktilde ELSE level
  /\ UNCHANGED <<sktilde, step, wanted, files>>

-----------------------------------------------------------------------------
\* A request.  HTTP is served while run is in its select!.

\* With a buffer missing there is nothing to do: the answer is OK, and no file.
Request(c) ==
  /\ app = "running"
  /\ step[c] = "idle"
  /\ created
  /\ \E n \in SampleCounts : wanted' = [wanted EXCEPT ![c] = n]
  /\ step' = [step EXCEPT ![c] = "join_first"]
  /\ UNCHANGED <<vars, sktilde, level, acc, files>>

\* accumulate has as many frames as it was asked for: it drops its receiver.
Closed(call, n) ==
  IF Len(call.frames) = n THEN [call EXCEPT !.phase = "full", !.queue = <<>>, !.lagged = FALSE]
  ELSE call

\* The first poll of an accumulate call subscribes.
Open(b, n) == Closed([NotCalled EXCEPT !.phase = "open", !.since = Pushed(b)], n)

\* join! polls the call on sktilde_avg before that on skbar_avg.  Frames can be
\* pushed in between.
Subscribes(c, b) ==
  /\ app = "running"
  /\ \/ b = "sktilde_avg" /\ step[c] = "join_first" /\ step' = [step EXCEPT ![c] = "join_second"]
     \/ b = "skbar_avg" /\ step[c] = "join_second" /\ step' = [step EXCEPT ![c] = "join"]
  /\ acc' = [acc EXCEPT ![c][b] = Open(b, wanted[c])]
  /\ UNCHANGED <<vars, sktilde, level, wanted, files>>

Collecting(c, b) == app = "running" /\ acc[c][b].phase = "open"

\* recv has a frame.
Collect(c, b) ==
  /\ Collecting(c, b)
  /\ ~ acc[c][b].lagged
  /\ acc[c][b].queue # <<>>
  /\ acc' = [acc EXCEPT ![c][b] =
               Closed([acc[c][b] EXCEPT !.frames = Append(@, Head(acc[c][b].queue)),
                                        !.queue = Tail(@)], wanted[c])]
  /\ UNCHANGED <<vars, sktilde, level, step, wanted, files>>

Failed(call) == [call EXCEPT !.phase = "failed", !.queue = <<>>, !.lagged = FALSE]

\* Defect: frames that were missed are passed over.
SkipMissed(c, b) ==
  /\ Collecting(c, b)
  /\ acc[c][b].lagged
  /\ acc' = [acc EXCEPT ![c][b].lagged = FALSE]
  /\ UNCHANGED <<vars, sktilde, level, step, wanted, files>>

\* recv returns Lagged: the call bails.
MissedFrames(c, b) ==
  /\ Collecting(c, b)
  /\ acc[c][b].lagged
  /\ acc' = [acc EXCEPT ![c][b] = Failed(@)]
  /\ UNCHANGED <<vars, sktilde, level, step, wanted, files>>

\* Defect: the call has no timeout.
WaitForEver(c, b) ==
  /\ Collecting(c, b)
  /\ UNCHANGED brokerVars

\* Nothing came for item_timeout.  select! is biased: what there is in the
\* channel comes first.
TimedOut(c, b) ==
  /\ Collecting(c, b)
  /\ step[c] = "join"
  /\ ~ acc[c][b].lagged
  /\ acc[c][b].queue = <<>>
  /\ acc' = [acc EXCEPT ![c][b] = Failed(@)]
  /\ UNCHANGED <<vars, sktilde, level, step, wanted, files>>

\* The answer is sent.
Answer(c) ==
  /\ step' = [step EXCEPT ![c] = "idle"]
  /\ wanted' = [wanted EXCEPT ![c] = 0]
  /\ acc' = [acc EXCEPT ![c] = [b \in Dumped |-> NotCalled]]
  /\ files' = [files EXCEPT ![c] = 0]
  /\ UNCHANGED <<vars, sktilde, level>>

\* The ? behind each of the two results.
BothSucceeded(c) == \A b \in Dumped : acc[c][b].phase = "full"

\* join! returns when both calls have, also if one of them fails early.
JoinReturns(c) ==
  /\ app = "running"
  /\ step[c] = "join"
  /\ \A b \in Dumped : acc[c][b].phase \in {"full", "failed"}
  /\ \/ /\ BothSucceeded(c)
        /\ step' = [step EXCEPT ![c] = "write"]
        /\ UNCHANGED <<vars, sktilde, level, wanted, acc, files>>
     \/ ~ BothSucceeded(c) /\ Answer(c)

\* No frames stack to no array, and no file is written.
NumberOfFiles(c) == IF wanted[c] = 0 THEN 0 ELSE 2 * Cardinality(Dumped)

\* The array and the mask of sktilde_avg, then those of skbar_avg.
WriteFile(c) ==
  /\ app = "running"
  /\ step[c] = "write"
  /\ files[c] < NumberOfFiles(c)
  /\ files' = [files EXCEPT ![c] = @ + 1]
  /\ UNCHANGED <<vars, sktilde, level, step, wanted, acc>>

\* All files are there, or write_npy fails and leaves those that are.
WritingEnds(c) ==
  /\ app = "running"
  /\ step[c] = "write"
  /\ Answer(c)

-----------------------------------------------------------------------------

RequestStep(c) ==
  \/ \E b \in Dumped :
       Subscribes(c, b) \/ Collect(c, b) \/ MissedFrames(c, b) \/ TimedOut(c, b)
  \/ JoinReturns(c)
  \/ WriteFile(c)
  \/ WritingEnds(c)

\* Steps of BadInputs that this module adds nothing to.
BrokerStep ==
  /\ CreateBuffer \/ TaskStep \/ BindSocket \/ BindHttp \/ Exited
  /\ UNCHANGED <<sktilde, level, requestVars>>

\* run returns, and the runtime drops the requests with its other tasks.
RunReturns ==
  /\ Exit \/ BindFails \/ ExitWithAnother
  /\ step' = AllIdle
  /\ wanted' = Zeros
  /\ acc' = NoCalls
  /\ files' = Zeros
  /\ UNCHANGED <<sktilde, level>>

BrokerNext ==
  \/ BrokerStep
  \/ RunReturns
  \/ PublishSktilde
  \/ PublishSkbar
  \/ \E c \in Clients : Request(c) \/ RequestStep(c)

\* The runtime polls each request when it is ready; its sleeps end.
BrokerFairness ==
  Fairness /\ \A c \in Clients : WF_brokerVars(RequestStep(c))

BrokerSpec == BrokerInit /\ [][BrokerNext]_brokerVars /\ BrokerFairness

-----------------------------------------------------------------------------
\* Properties.

Call == [phase : {"none", "open", "full", "failed"}, queue : Seq(1 .. MaxFrames),
         lagged : BOOLEAN, since : 0 .. MaxFrames, frames : Seq(1 .. MaxFrames)]

RequestsTypeOK ==
  /\ sktilde \in 0 .. MaxFrames /\ level \in 0 .. MaxFrames
  /\ step \in [Clients -> {"idle", "join_first", "join_second", "join", "write"}]
  /\ wanted \in [Clients -> SampleCounts \cup {0}]
  /\ acc \in [Clients -> [Dumped -> Call]]
  /\ \A c \in Clients, b \in Dumped : Len(acc[c][b].queue) <= TxCapacity
  /\ files \in [Clients -> 0 .. 4]

\* What a request writes are, for each of the two buffers, the frames that were
\* pushed from its subscription on, nsamples of them, in order and without a
\* gap.  The files of the two buffers begin with the same frame exactly if both
\* buffers had pushed equally many when each was subscribed to.
DumpsAreWhole ==
  \A c \in Clients, b \in Dumped : files[c] > 0 =>
    /\ Len(acc[c][b].frames) = wanted[c]
    /\ \A n \in 1 .. wanted[c] : acc[c][b].frames[n] = acc[c][b].since + n

\* A request is answered, however slow the source of frames or the request is,
\* or the broker ends.
RequestsEnd ==
  \A c \in Clients : step[c] # "idle" ~> step[c] = "idle" \/ app = "exited"

=============================================================================
