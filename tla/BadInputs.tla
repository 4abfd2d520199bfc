------------------------------ MODULE BadInputs ------------------------------
(***************************************************************************)
(* bad_input_task of tasks/bad_inputs.rs, which averages the frames of     *)
(* skbar_avg, and run of app.rs, which starts it and ends with it.         *)
(*                                                                         *)
(* The task starts before the buffer exists.  It polls for it, subscribes, *)
(* and averages frame after frame; if recv fails, which it does when the   *)
(* task is slower than the channel is long, the task returns the error and *)
(* run ends with the first task that ends.  A frame is its number in the   *)
(* order of publication.  The paths on which the task skips a frame cannot *)
(* be taken: frames of skbar_avg have two dimensions and one shape.        *)
(***************************************************************************)
EXTENDS Broadcast, Statistics

CONSTANTS
  MaxFrames,  \* bound: frames that are published
  Content     \* what the frames hold: rows, and the indices received

ASSUME FramesAssumption ==
  MaxFrames \in Nat /\ Content \in [1 .. MaxFrames -> FrameContent]

VARIABLES
  created,    \* the OnceLock of skbar_avg holds a buffer
  published,  \* number of frames the buffer has pushed
  pc,         \* where the task is
  queue,      \* what the channel keeps for the task
  lagged,     \* recv will return Lagged
  frame,      \* the frame the task works on, 0 if it has none
  averaged,   \* history: the frames in the moving average, oldest first
  since,      \* history: frames published before the task subscribed
  average,    \* bad_input_likelihood
  app         \* how far run has come: its sockets, its select!, its end

vars == <<created, published, pc, queue, lagged, frame, averaged, since, average, app>>

\* What sk_fisher_chi2 makes of each frame.
Likelihoods == [n \in 1 .. MaxFrames |-> Likelihood(Content[n])]

\* The packet handler is there.
Receiving == app \in {"receiving", "running"}

Listening == pc \in {"recv", "update"}

Init ==
  /\ created = FALSE
  /\ published = 0
  /\ pc = "poll"
  /\ queue = <<>>
  /\ lagged = FALSE
  /\ frame = 0
  /\ averaged = <<>>
  /\ since = 0
  /\ average = NoAverage
  /\ app = "starting"

-----------------------------------------------------------------------------
\* The packet handler.

\* The first packet that gets as far as skbar_avg.
CreateBuffer ==
  /\ Receiving
  /\ ~ created
  /\ created' = TRUE
  /\ UNCHANGED <<published, pc, queue, lagged, frame, averaged, since, average, app>>

\* The buffer pushes a frame to its subscribers.
Publish ==
  /\ Receiving
  /\ created
  /\ published < MaxFrames
  /\ published' = published + 1
  /\ IF Listening
     THEN /\ queue' = LastOnes(Append(queue, published'))
          /\ lagged' = (lagged \/ Overflows(queue))
     ELSE UNCHANGED <<queue, lagged>>
  /\ UNCHANGED <<created, pc, frame, averaged, since, average, app>>

-----------------------------------------------------------------------------
\* The task.

\* Look for the buffer.
Poll ==
  /\ pc = "poll"
  /\ pc' = IF created THEN "subscribe" ELSE "sleep"
  /\ UNCHANGED <<created, published, queue, lagged, frame, averaged, since, average, app>>

\* Defect: the task looks for the buffer only once.
NeverWake ==
  /\ pc = "sleep"
  /\ UNCHANGED vars

\* A second later, look again.
Wake ==
  /\ pc = "sleep"
  /\ pc' = "poll"
  /\ UNCHANGED <<created, published, queue, lagged, frame, averaged, since, average, app>>

Subscribe ==
  /\ pc = "subscribe"
  /\ pc' = "recv"
  /\ since' = published
  /\ UNCHANGED <<created, published, queue, lagged, frame, averaged, average, app>>

Recv ==
  /\ pc = "recv"
  /\ ~ lagged
  /\ queue # <<>>
  /\ frame' = Head(queue)
  /\ queue' = Tail(queue)
  /\ pc' = "update"
  /\ UNCHANGED <<created, published, lagged, averaged, since, average, app>>

\* Defect: the task goes on with the next frame there is.
IgnoreLag ==
  /\ pc = "recv"
  /\ lagged
  /\ lagged' = FALSE
  /\ UNCHANGED <<created, published, pc, queue, frame, averaged, since, average, app>>

\* recv fails: the task returns, and drops its receiver.
RecvLagged ==
  /\ pc = "recv"
  /\ lagged
  /\ pc' = "ended"
  /\ queue' = <<>>
  /\ lagged' = FALSE
  /\ UNCHANGED <<created, published, frame, averaged, since, average, app>>

\* The likelihoods of the frame enter the moving average.
Update ==
  /\ pc = "update"
  /\ pc' = "recv"
  /\ frame' = 0
  /\ averaged' = Append(averaged, frame)
  /\ average' = NextAverage(average, Likelihoods[frame])
  /\ UNCHANGED <<created, published, queue, lagged, since, app>>

-----------------------------------------------------------------------------
\* The runner.

\* The socket is bound and the packet handler spawned.  The two other tasks
\* have been running since before.
BindSocket ==
  /\ app = "starting"
  /\ app' = "receiving"
  /\ UNCHANGED <<created, published, pc, queue, lagged, frame, averaged, since, average>>

\* The HTTP server is spawned, and run gets to its select!.
BindHttp ==
  /\ app = "receiving"
  /\ app' = "running"
  /\ UNCHANGED <<created, published, pc, queue, lagged, frame, averaged, since, average>>

\* One of the addresses cannot be bound: run returns, and the tasks go with it.
BindFails ==
  /\ app \in {"starting", "receiving"}
  /\ app' = "exited"
  /\ UNCHANGED <<created, published, pc, queue, lagged, frame, averaged, since, average>>

\* The select! of run returns what the task returned.
Exit ==
  /\ app = "running"
  /\ pc = "ended"
  /\ app' = "exited"
  /\ UNCHANGED <<created, published, pc, queue, lagged, frame, averaged, since, average>>

\* Another task ends first, and the runtime drops this one.
ExitWithAnother ==
  /\ app = "running"
  /\ app' = "exited"
  /\ UNCHANGED <<created, published, pc, queue, lagged, frame, averaged, since, average>>

\* The end of the process.
Exited == app = "exited" /\ UNCHANGED vars

TaskStep ==
  /\ app # "exited"
  /\ Poll \/ Wake \/ Subscribe \/ Recv \/ RecvLagged \/ Update

RunnerStep == BindSocket \/ BindHttp \/ Exit

Next ==
  \/ CreateBuffer
  \/ Publish
  \/ TaskStep
  \/ RunnerStep
  \/ BindFails
  \/ ExitWithAnother
  \/ Exited

\* The runtime polls the task and the runner when they are ready; an attempt to
\* bind an address ends.
Fairness == WF_vars(TaskStep) /\ WF_vars(RunnerStep)

Spec == Init /\ [][Next]_vars /\ Fairness

-----------------------------------------------------------------------------
\* Properties.

TypeOK ==
  /\ created \in BOOLEAN
  /\ published \in 0 .. MaxFrames
  /\ pc \in {"poll", "sleep", "subscribe", "recv", "update", "ended"}
  /\ queue \in Seq(1 .. MaxFrames) /\ Len(queue) <= TxCapacity
  /\ lagged \in BOOLEAN
  /\ frame \in 0 .. MaxFrames
  /\ averaged \in Seq(1 .. MaxFrames)
  /\ since \in 0 .. MaxFrames
  /\ average \in [Inputs -> 0 .. Unit] \cup {NoAverage}
  /\ app \in {"starting", "receiving", "running", "exited"}

\* The moving average is that of the frames published since the task has
\* subscribed, in their order, each once and without a gap, for however long
\* the task is slow: the broker rather ends than misses one.
AveragesWithoutGap ==
  \A n \in DOMAIN averaged : averaged[n] = since + n

\* More than half of the inputs have value v in this row.
Majority(row, v) ==
  2 * Cardinality({i \in Inputs : row[i] = v}) > Cardinality(Inputs)

\* The inputs that have the value of the majority in every row of the frame.
Agreeing ==
  [n \in 1 .. MaxFrames |->
     {i \in Inputs : \A r \in DOMAIN Content[n].rows :
        Majority(Content[n].rows[r], Content[n].rows[r][i])}]

\* An input that had the value of the majority in every row of every frame that
\* was averaged has likelihood 0, whatever the others did: neither rows that
\* were not received nor rows without a spread make it suspect.
AgreeingStayClear ==
  average # NoAverage =>
    \A i \in Inputs :
      (\A n \in DOMAIN averaged : i \in Agreeing[averaged[n]]) => average[i] = 0

\* The powers of b, and the sums of the first values of f.
Power(b) == LET p[n \in Nat] == IF n = 0 THEN 1 ELSE b * p[n - 1] IN p
Sums(f)  == LET s[n \in Nat] == IF n = 0 THEN 0 ELSE s[n - 1] + f[n] IN s

\* What the j-th of n samples counts in their average, in units of the
\* (Lookback + 1)-th part to the power n - 1.
Weight(n, j) ==
  IF j = 1 THEN Power(Lookback - 1)[n - 1]
  ELSE 2 * Power(Lookback - 1)[n - j] * Power(Lookback + 1)[j - 2]

Weighted(samples) ==
  [j \in Nat |-> IF j \in DOMAIN samples THEN Weight(Len(samples), j) * samples[j] ELSE 0]

\* The likelihoods of an input in the averaged frames.
SamplesOf(i) == [n \in DOMAIN averaged |-> Likelihoods[averaged[n]][i]]

\* The units are fine enough for the average of all frames to be exact.
ExactUnits == \A n \in 1 .. MaxFrames : Unit % Power(Lookback + 1)[n - 1] = 0

\* Every averaged frame keeps the weight its age gives it, and the oldest one
\* the rest: one deviation fades but is not forgotten, as long as nothing is
\* rounded to zero, and an empty frame counts like one in which all inputs agree.
AverageIsWeighted ==
  averaged # <<>> =>
    \A i \in Inputs :
      average[i] * Power(Lookback + 1)[Len(averaged) - 1]
        = Sums(Weighted(SamplesOf(i)))[Len(averaged)]

\* Once the buffer exists the task gets to the newest frame, or the broker
\* ends: it neither waits for ever nor stays behind.
CatchesUp ==
  created ~> \/ app = "exited"
             \/ pc = "recv" /\ since + Len(averaged) = published

=============================================================================
