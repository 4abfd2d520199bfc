# A verification of rfi-broker

rfi-broker receives UDP packets of spectral-kurtosis statistics from the
correlator, assembles them into frames, shows the frames to HTTP clients and
Prometheus, estimates which inputs are bad, and turns RFI zeroing off while the
sun transits.  This directory models the parts of it that keep state in TLA+,
checks them with TLC on small instances, and proves the most important results
with TLAPS for every value of the constants.  All definitions are translated
from the code under `src/`; `PROJECT.json` names the lines of each.

## The system

| Component | State | Operations | Interacts with |
|---|---|---|---|
| `core/buffer.rs`: `Frame` | array, mask, `sample_count` | `new`, `insert_chunk` | owned by a `Buffer` |
| `core/buffer.rs`: `Buffer` | map of partial frames under a mutex; `last_frame` under a lock of its own; broadcast channel | `push_vec`/`push_array`, `flush`, `push`, `last_frame`, `subscribe`, `accumulate` | `Buffers` calls it; endpoints read `last_frame`; `bad_input_task` and `accumulate` subscribe |
| `state/buffers.rs`: `Buffers` | the metadata header, three lazily created buffers | `push(packet)`, `flush` | called by the packet handler |
| `network/udp.rs`: packet handler | flush timer | drain the socket, parse and push, flush after silence | `Buffers`, packet counters |
| `network/packet.rs` | none | `parse`, `check_expected_equal` | packet handler, `Buffers` |
| `tasks/solar_zeroing.rs` | `next_noon` | sleep, disable both stages, sleep, enable both stages, next noon | the correlator's REST endpoints, two gauges |
| `tasks/bad_inputs.rs` | none of its own | poll for `skbar_avg`, subscribe, receive, update the moving average | `Buffer`, `Computed` |
| `core/stats.rs` | value of the moving average | `update`, `value`; `median`, `sk_fisher_chi2` | bad input task, endpoints |
| `state/metrics.rs` | counters and gauges | `inc_recv`, `inc_lost`, `set_first`, `set_second`, `update_from_slice` | packet handler, solar task, `/metrics` |
| `network/endpoints.rs`, `router.rs` | none | read-only views; `write_buffers` in debug builds | all of the above |
| `app.rs`, `main.rs`, `config.rs` | none | start the tasks, bind two addresses, exit with the first task that ends | all tasks |

What is hard, and what makes each component correct:

* **Buffer.**  `insert_chunk` can fail half way and does not roll back, so the
  map must stay consistent across every mixture of whole and refused chunks:
  counts exact, size bounded, no sample lost or published twice, evictions in
  order, evicted ids not reopened.  `push` writes twice under two locks, so
  subscribers and readers of `last_frame` must be kept in agreement by the
  mutex.
* **Buffers and packet handler.**  One packet is three pushes with an early
  return after each; the buffers, the metadata and the counters must agree.
  Partial frames wait for a timer that every datagram restarts.
* **Solar task.**  Deadlines come from UTC dates, the window from the sun;
  POSTs take time and fail, and the process may be stopped anywhere.  Stages
  must be off during the transit and on outside it, in the right order.
* **Bad input task and statistics.**  Lag ends the task and with it the broker,
  so that the average has no gap.  Rows without a spread, which every row that
  was not received is, must not make all inputs suspect.
* **`write_buffers`.**  Two `accumulate` calls are joined, each with a receiver,
  a lag and a timeout of its own; each file a request writes is a dump without a
  gap, and nothing is written unless both calls succeeded.  (A failure while
  writing can leave the first of the files behind.)
* **Metrics.**  Scrapes interleave with each other, with the publication of
  frames and with the two increments of `inc_lost`; an export must be made of
  data that was there, and the counters must make sense together.

The full list of hazards, with the properties aimed at each, is in
`PROJECT.json`.

## Modules

```
Frames            pure operators: one frame, the map of partial frames
 |- FrameBuffer   one Buffer: callers, mutex, last_frame, channel, subscribers
 |    |- refines FrameDelivery    (abstract: accept samples, deliver batches)
 |    |- refines AtomicBuffer     (abstract: each call is one step)
 |- Ingest        socket, packet handler, timer, metadata, three AtomicBuffers
Broadcast         tokio's bounded channel; used by FrameBuffer and BadInputs
Statistics        pure operators: median, suspicious inputs, moving average
 |- BadInputs     the bad input task; run, from its start to its end
      |- WriteBuffers   the task next to requests that dump two buffers
Scrapes           /metrics and /human-metrics while frames and packets come in
SolarZeroing      the solar task, the sun, the correlator, stops and starts

FrameProofs                 lemmas on Frames
 |- FrameBufferProofs       theorems about FrameBuffer; it implements AtomicBuffer
 |    |- FrameDeliveryProofs    FrameBuffer implements FrameDelivery
 |- IngestProofs            theorems about Ingest; its buffers are AtomicBuffers
BadInputsProofs             lemmas on Statistics, theorems about BadInputs
 |- WriteBuffersProofs      theorems about the composition
ScrapesProofs, SolarZeroingProofs
MCFrameBuffer, MCIngest, MCWriteBuffers, MCScrapes, MCSolarZeroing
                            small instances for TLC
```

Each property of a passing run has been tried against a plausible defect in
the code.  The defective variants are operators marked `Defect` in front of
the definition they would replace; no specification uses them.

### Frames

A sample is a slice of a frame along its split axis, known by its index; the
numbers in it are abstracted away, because no branch of the code depends on
them.  `InsertChunk` writes the positions before the first index that is out
of range, already in the mask, or repeated within the chunk.  The map is a
function from ids to frames or `NoFrame`.  `MapAfterPush`, `PublishedByPush`
and `PushAccepted` are the three results of `push_array`: the new map, the
frames handed to `push` in order, and `Ok` or an error.  Shapes are not
modelled: `push_vec` gives the chunk the buffer's shape, and the header check
keeps the number of indices and of elements equal for all packets
(`PacketsAssumption` states it).

### FrameBuffer

`PushArray(w, id, indices)` is a call of `push_vec` up to the frames it
publishes; a call that publishes nothing is over, another keeps the mutex and
gives its frames, one by one, to `StoreLastFrame` and `SendToReceivers`, the
two halves of `push`.  `FlushPop` is one round of the loop in `flush`.
`Return` drops the guard.  Changing the map in one step is sound because only
the holder of the mutex sees it; that eviction publishes before the new chunk
is inserted makes no difference for the same reason.  Readers subscribe at any
time, receive, give up after a lag (`bad_input_task`, `accumulate`) or leave.
`LastOnes` of `Broadcast` is tokio's channel: a slow receiver keeps the newest
`TxCapacity` messages and learns that it lagged.

`closed` is a history variable: the ids evicted since the map was last empty.
`heard` is one too: the newest frame a reader knows of, which for a new reader
is the `last_frame` at the moment it subscribes.

### FrameDelivery

The abstract promise: a sample is accepted once, stays pending, and leaves
together with all pending samples of its id, and no others, when they become
the latest batch.  The refinement mapping takes the samples in the map and in
frames not yet shown as pending, and those of `last_frame` as latest.

### AtomicBuffer

The other abstract promise: each call of `push_array` or `flush` is one step
on the map and on what `last_frame` will be.  The refinement mapping looks
ahead: while `flush` is in progress the map is already empty, and while a call
has frames to push the last of them is already the latest.  What a call does to
the map is a parameter, for which FrameBuffer and Ingest have the operators of
Frames.  This is what allows Ingest to take one step per call: FrameBuffer
implements AtomicBuffer for any number of callers, and each buffer of Ingest is
an AtomicBuffer.  Its steps are stated as `Change`, steps that change something,
which spares TLC from comparing calls that change nothing.

### Ingest

One task with a program counter: `select!`, draining, the three pushes, the
metadata update, the three flushes.  A step is one access to one buffer, since
other tasks can look in between.  A datagram is a header kind (all the fields
that `check_expected_equal` compares), a `seq_num` and a list of indices, or
something that does not parse.  `outcome` is what the packet counters get.
The `biased` select is the guard `socket = <<>>` of `FlushTimerFires`.  A
buffer that has not been created is an empty map, which `flush` treats alike.
An error of `try_recv_from` counts as a lost packet, also when the error itself
and no datagram made the socket readable; an error of `readable()` ends the task
(`ReadableFails`) with whatever is pending.

### Statistics

A row of a frame has a whole number per input.  `TwiceMedian` is `median` after
its sort, for odd and even lengths.  `sk_fisher_chi2` is reduced to what its
result tells apart: an input's Fisher sum is positive exactly if it differs from
the median in some row with a spread, and its likelihood is positive exactly if
in addition some sample of the frame was received.  A row whose values are all
equal takes no part (`Skipped`), for without the early return the division by
its variance would yield NaN and, through `max`, the smallest p-value for every
input.  Rounding to zero is left out: a deviation so small that `erfc` or
`gamma_lr` rounds it away, or a row with a NaN, makes fewer inputs suspect in the
code than here, never more.  `NextAverage` is `MovingAverage::update`, in units of `Unit`; where the units
are fine enough (`ExactUnits`) all divisions leave whole numbers, as those of
the code do but for rounding.  `Lookback` is a parameter: the code has 128
(`BAD_INPUT_LIKELIHOOD_LOOKBACK`, metrics.rs:24), although the repository's README
speaks of "a 32-sample lookback period" (line 98).  No run depends on either.

### BadInputs

`bad_input_task` polls for `skbar_avg` once a second, subscribes, and averages
frame after frame.  `Lagged` makes it return, and `run` with it.  A frame is
its number in the order of publication; `averaged` lists those that entered the
moving average and `since` counts those published before the subscription.
The doc of the task says that the metric is updated "every time a new frame is
generated": the frames that come before the task has noticed the buffer, up to
a second after its creation, are not averaged, and `AveragesWithoutGap` says
exactly which are.  The task's other way to fail, a closed channel, needs the
buffer to be dropped, and the task itself keeps it alive; its two branches that
skip a frame need a frame of other than two dimensions or of another shape than
the first, which `skbar_avg` does not publish.

`app` follows `run`: the two tasks are spawned first, then the socket is bound
and the packet handler spawned, then the HTTP address is bound, and only then is
anybody waiting for a task to end.  Either address may be unavailable.

### WriteBuffers

A composition: `Next` of BadInputs, its frames being those of `skbar_avg`, with
`sktilde_avg` in front of it and requests next to it.  `level` keeps the order
of `Buffers::push` and `flush`: a call pushes all its frames into `sktilde_avg`
and then as many into `skbar_avg`.  That they are as many holds for clean sources
(`Lockstep` of Ingest); for others the early returns of `Buffers::push` can
separate the two buffers.  `DumpsAreWhole` speaks of each dump by itself and does
not need it, only the remark that both dumps begin with the same frame does.  A
request checks that the buffers exist,
subscribes to the one and then the other (`join!` polls in this order), collects,
fails on lag or on silence, and writes its files one after the other.  An early
failure of one call does not end the other, which is waited for.  That
`wanted = 0` gives no file is what `ndarray::stack` makes of no arrays.

### Scrapes

A scrape clones the average, then the newest frames of `sktilde_avg` and of
`frac_flagged`, and after each sets the gauges of a family one by one; the first
to come creates them with `get_or_init`.  `human_metrics` reads `lost` and then
`total`.  The value of a gauge is the number of the frame it came from, `NaN` or
what it was made with.  `sources` is a history variable: the frames read by
scrapes that overlap with this one.  The numbers of frames are the same in the
three buffers, which `Lockstep` of Ingest shows for clean sources.  The counters
are relaxed atomics, taken to be in program order.

Two things that the properties do not forbid and that do happen: `/metrics`
encodes `total` before `lost`, so the exported number of lost packets can exceed
that of received ones by one; and a scrape that found no frame itself may export
the `0.0` of gauges that another scrape has created and not set yet.

### SolarZeroing

Time is `Day` ticks per UTC day; noon comes at tick `Noon` of every UTC date,
which abstracts from its drift over the year.  `next_noon` is kept relative to
the present (`noon_in`), so the model is finite without a last day.
`StartIn` and `EndIn` are the window, with the integer division of the code.
A POST takes up to `MaxPost` ticks and is confirmed, refused (no effect) or
carried out and not answered; the task ignores all but the first.  `Stop`
ends the process anywhere, with a POST in flight carried out or not, and
`Start` is a new process that finds the correlator as it was left.  `NoonFails`
is the task's error return, for the first noon (invalid coordinates included) as
well as for a later one.  A POST
that is carried out only after the broker is up again is not modelled.  The
`valid_at_time_ns` in the payloads is never later than the POST itself, so a
stage obeys on arrival.  Sleeps end when they are due.

## Runs

| Run | Configuration | Shows |
|---|---|---|
| `buffer` | `Buffer.cfg` | map, counts, eviction; subscribers against `last_frame`; calls count down and return; refinement of FrameDelivery and AtomicBuffer |
| `buffer_complete` | `BufferComplete.cfg` | finding 1 |
| `ingest_clean` | `IngestClean.cfg` | buffers in lockstep for a clean source |
| `ingest_retransmit` | `IngestRetransmit.cfg` | counters, metadata and flush for any source |
| `ingest_first_header` | `IngestFirstHeader.cfg` | finding 2 |
| `ingest_starved` | `IngestStarved.cfg` | finding 3 |
| `bad_inputs` | `BadInputs.cfg` | averages and dumps without a gap; lag, silence and failed binds end well |
| `scrapes` | `Scrapes.cfg` | what concurrent scrapes and readers of the counters can see |
| `solar_daily` | `SolarDaily.cfg` | zeroing follows the sun, with stops |
| `solar_failures` | `SolarFailures.cfg` | gauges and daily round under failures |
| `solar_midnight` | `SolarMidnight.cfg` | finding 4 |
| `solar_slow_post` | `SolarSlowPost.cfg` | finding 5 |

Bounds.  Frames of two samples are enough for empty, unfinished and full
frames and for chunks that overlap, repeat themselves or leave the frame half
way; `buffer_complete` needs three, for two chunks that share a sample.  The five
chunks of `buffer` (`MCChunks`) are accepted as a whole, refused half way or
refused at once, depending on what is there; one is empty.  Three ids in a map of
two make eviction, late ids and ids between two others happen.  Two callers are
the least that can interleave.  Subscribers do not act on each other, so `buffer`
has one, with a channel of one: it can be up to date, behind by one frame, or lag.
`ingest_clean` has seven datagrams with three frames, one of another kind and one
that does not parse, in every order and with losses.
`ingest_retransmit` allows any number of copies, so that its executions are
infinite, with `MaxErrors` socket errors.  `bad_inputs` has four frames for
channels of two: enough to be published before the subscription, to be
collected, and to lag after that.  Its request asks for two frames or for none.
Its rows have four inputs, of which one or half deviate, and some are missing.
With a look-back of three, `Unit = 64` makes the averages of four frames exact,
which the instance states as an assumption.
`scrapes` has two clients, two gauges, two frames, of which the second lacks an
index, and two packets: two scrapes can be at any two points of two frames, and
one packet can be counted between two reads.  Clients are interchangeable
(symmetry); that run checks no liveness.
In the solar runs the day is long enough for the window, the POSTs before and
after it and a rest; `MaxRestarts` stops at any point with outages up to
`MaxOutage`; `solar_failures` has POSTs as long as the window, `solar_slow_post`
one that may be longer.

`solar_daily` leaves out starts in the last `2 * MaxPost` ticks of a UTC day
(`DailyStarts`): they lead to finding 4.  `ingest_clean` states its
properties for sources that send every sample once under a valid index
(`CleanSource`); without this the early returns do separate the buffers, which
is the reason for `ReceivedMeansStored` being about accepted packets only.

No run turns the deadlock check off.  The end of the process is a state that
stays as it is (`Ended`, `Exited`).

## Fairness

* FrameBuffer: weak fairness of the steps of the call in progress; the mutex
  admits one, so one condition serves for all callers.  A call
  blocks on nothing while it has the mutex (`send` does not wait for
  receivers), so its thread gets to the end.  No one is obliged to call.
* Ingest: weak fairness of the handler, which the runtime polls whenever it is
  ready, and of the clock.  The network owes nothing; socket errors are not
  fair.
* BadInputs: weak fairness of the task and of the runner, whose attempts to
  bind end one way or the other.  Frames need not come.
* WriteBuffers: in addition weak fairness of each request, whose sleeps end.
  So `RequestsEnd` does not rest on frames coming: the timeout answers.
* Scrapes: none; it has safety properties only.
* SolarZeroing: weak fairness of the task, which includes that a POST in
  flight ends and that a service manager starts a stopped broker again, and of
  the clock.  `reqwest::Client::new()` sets no timeout, so that a POST ends is
  an assumption about the peer; `MaxPost` says how late.

## Findings

1. **A complete frame can stay in the map.**  `insert_chunk` bails at an index
   already written even if the chunk has just completed the frame, and
   `push_array` returns before it looks at the count.
2. **The metadata can come from a refused packet.**  It is set before any
   buffer has taken the packet.
3. **Refused datagrams keep partial frames from being flushed.**  They restart
   the flush timer like good ones.
4. **A noon can be skipped.**  `solar_noon(.., 1)` counts from the UTC date of
   the moment; if the enable events are answered after midnight, the next noon
   it returns is the one after the next.
5. **The `else` of the second sleep is not for the first pass only.**  A disable
   event without an answer until the window is over takes the task there on any
   pass, since POSTs have no timeout.  `ElseIsForLateStarts` gives the condition
   under which the comment is right.

## Proofs

The theorems hold for every value of the constants that satisfies the
assumptions the modules state about them.

**FrameBufferProofs**: `TypeOK`, `CountMatchesMask`, `MapBounded`,
`EvictedStayClosed`, `SubscribersAgreeWithLastFrame`, `OldestOnlyAdvances` and
`UnfinishedLeaveOldestFirst`.  The inductive invariant `IInv` has three parts.
`MapInv`: every entry is a frame filed under its own id with an exact count,
the map is within its capacity, evicted ids lie below every key, and there are
none when the map is empty.  The last two carry each other: an id is opened
only at or above the oldest key, or in an empty map, and both must exclude the
evicted ids.
`LockInv`: a writer is in a call exactly if it holds the mutex, only it has
frames to push, and between the two writes of `push` the frame shown is the
one about to be sent.  Without it two writers could interleave their writes
and the agreement with subscribers would not be preserved.
`ReaderInv`: queues are empty for those who do not listen, and otherwise end
with the frame shown.
The two action properties follow from `IInv` before the step: `TooOld` refuses
whatever would be opened below the oldest key, and an entry can only disappear
as the victim of `OpenFrame`, as the frame that is ready, or as the oldest.
`OpenFrame` touches no other frame, so the one to be filled keeps its samples.
`FrameProofs` has the facts about the map this rests on: `InsertChunk` keeps
the count exact (by counting the image of the written positions), `OpenFrame`
makes room before it adds, `Oldest` is the least key (from well-founded
induction on the naturals).

`Spec => ImplementsAtomic`: under `IInv` the first step of a call is a `Push` or
a `Flush` and all others stutter.  That needs the mutex in every case (a second
call in progress would have a map and a latest frame of its own) and, for
`flush`, that the frame popped last is the one with the greatest id
(`PopLeavesNewest`).

`CallsCountDown` and `CallsAreShort` are what can be proved of `CallsReturn`.
`StepsLeft` counts the steps a call has still to take: two per frame it has to
push, three per frame it has to pop, and its return.  While a call is in
progress no one else's step changes the buffer and each of its own leaves one
less, so that the fairness of `CallsReturn` is all that is missing for the call
to end; it starts with at most five for `push_array` (it publishes no more than
the evicted frame and the full one) and three per frame of the capacity for
`flush`.

**FrameDeliveryProofs**: `Spec => ImplementsDelivery`, the refinement.  Two
lemmas follow the samples through the map: after `push_array`, those in the map
and in the published frames are those from before and the newly written ones,
which were not there (an evicted frame that is not published holds nothing, as
`MIN_FRAME_SAMPLE_COUNT` is 1 and the count is exact); `pop_first` moves those of
one frame.  `OnePlaceInv` adds to `IInv` that the frames on their way out have
different ids, none of which is in the map: so the frame that becomes
`last_frame` has all pending samples of its id.  `PushArray` is then an
`Accept`, `StoreLastFrame` a `Deliver`, and all other steps stutter.

**IngestProofs**: `TypeOK`, `ReceivedMeansStored` and `MetadataOfReceived` for
every set of datagrams, `Lockstep` and `CompleteFramesLeave` for every clean
source.  `HandlerInv`: the three maps are well formed; a packet in hand has the
kind of the metadata, and each buffer before the program counter holds all its
samples, in the map or in the frame it has just shown.  `SourceInv`, for clean
sources: a datagram is unsent, once in the socket, or consumed; each sample in a
map came with a consumed datagram, not with the one in hand where that has not
been pushed yet; no frame in a map is full; and `InStep`, that buffers on the
same side of the program counter are equal, and those behind it are one call
ahead of those before it.  The second part is what makes `insert_chunk` accept
the whole chunk in all three buffers or refuse the id in all three.
`BuffersAreAtomic` says that each buffer, with what the handler does to it, is
an AtomicBuffer.

**BadInputsProofs**: `TypeOK`, `AveragesWithoutGap` and `AgreeingStayClear`, for
every content of the frames.  `TaskInv` says that what the receiver holds are
the newest frames and, unless it lagged, that they follow the one in hand, which
follows the averaged ones.  The statistics are proved about as well: if more
than half of the inputs share a value it is the median (`MajorityIsMedian`), so
an input that has it is not suspicious, and a likelihood of 0 stays 0 in the
average.  `Nth`, which is defined by counting, is shown to be what the code
computes: there is exactly one value at each position of a row, it is the one
that any sort puts there (`MedianOfSorted`), and the median leaves at most half
of the inputs on either side (`MedianSplits`).

`AverageIsWeighted` holds for every look-back and any number of frames, assumed
that `Unit` can be divided often enough (`ExactUnits`).  Powers and sums are
recursive functions over the naturals; that such functions exist and satisfy
their equations is proved from well-founded induction (`RecursionExists`,
`Powers`, `SumsAddUp`).  `NextWeightedSum` says what one more sample makes of
the weighted sum, `AverageInv` adds to the closed form how often each average
can still be divided, and `Update` is the one step that matters.  `WeightsAddUp`
shows that the weights are those of a mean, so that the closed form is not an
arbitrary one.

**WriteBuffersProofs**: `RequestsTypeOK` and `DumpsAreWhole` for any number of
clients, and `TaskInv` again in the composition, which is a behaviour of
BadInputs for those who look at the task only (`BrokerKeepsTheTask`);
`AverageIsWeighted` holds there too.  `Sound` is the invariant of one
`accumulate` call against the number of frames its buffer has pushed.

**ScrapesProofs**: `TypeOK`, `RejectedWithinTotal`, `ExportsWhatScrapesRead` and
`ScrapeFollowsData`.  `CountInv` relates a reader that has `lost` to the present
`total`.  `SourceInv` says that a scrape in progress knows of every frame held by
a scrape that overlaps with it, so that whatever overwrites a gauge it has set
is among its sources (`GaugeInv`); `StreamInv` and `OrderInv` order the stages and
the readings.

**SolarZeroingProofs**: `SecondNeverAlone` when every POST succeeds, with
`HalfWay`, what the first POST of a pair has achieved, as strengthening, and
`GaugeShowsStage` for all outcomes; then `TypeOK`, `ElseOnlyFirstPass`,
`NextNoonIsNext`, `OffDuringTransit` and `OnOutsideTransit`.
`DeadlineInv` bounds how late the task can be at each point, because sleeps end
when due and POSTs within `MaxPost`; from it follows `TypeOK` and, when two POSTs
fit into the window (`2 * MaxPost <= Downtime`, an assumption of that theorem
only), `ElseOnlyFirstPass`; `solar_slow_post` violates it without.
`DateInv` says that `next_noon` is always that of the present UTC date or, while
waiting, of the next one, and where in the date the task then is.  It needs
`WithinDate`: the window and the POSTs after it lie within one UTC date, and the
broker is not started in the last ticks of one.  The instance of `solar_daily`
satisfies it; `solar_midnight` shows what happens without its last part.
`SwitchInv` adds what the stages do at each point; together with `SunAndDate`,
which compares the sun's clock with the UTC date, it gives the two properties
about the transit for the case that every POST succeeds.  `OnOutsideTransit` is
about a task that was up at some time between the end of the window and the end
of that UTC date; one that is started after UTC midnight with stages off enables
them only after its first window, which is what `OffIsTemporary` is about.

Every invariant and action property of a passing run is proved.  Only
model-checked is what needs fairness, which is out of the prover's reach:
`CallsReturn`, `SilencePublishesAll`, `CatchesUp`, `RequestsEnd`,
`OffIsTemporary` and `TransitsKeepComing`.

## Not modelled

* The byte layout of packets, which `binrw` derives; `to_bytes` serves tests.
* The values of the distribution functions in `core/stats.rs`, beyond their being
  zero or positive.  `masked_mean` is called by tests only.
* `GET /metadata`, `/last_frame` and the two likelihood dumps: each is one read
  of state that Ingest, FrameBuffer and BadInputs have.  The router is a table.
* Configuration and command line, which are read once; text formatting, label
  encoding, logging; the lower layers of tokio, axum and the Prometheus client;
  sunrise and sunset.  The solar task without configuration is idle for ever.
* An error that persists in `try_recv_from` keeps the handler in its drain loop
  without an `await`.  Whether one persists is the kernel's choice, and no
  property of the code decides it, so Ingest bounds the errors instead.
* A crash of the broker outside SolarZeroing: nothing is persisted, so a new
  process starts from `Init`.

## Plan

Done, in this order: Frames, FrameBuffer with FrameDelivery, Ingest,
FrameBufferProofs, SolarZeroing and its proofs, BadInputs; then Statistics,
WriteBuffers, Scrapes, and the proofs of all of them, of Ingest and of the
refinement; then AtomicBuffer, which ties FrameBuffer to Ingest, the measure of
calls, and the proofs about the median and the moving average.

What would come next:

1. **Republication** in Ingest: how often an id can be published when a source
   repeats itself after the map has run empty, and what the average makes of it.
2. **SolarZeroing**: a solar noon that moves from day to day, and windows that
   reach across UTC midnight.
3. **Numbers**: likelihoods as an order rather than zero or positive, to say
   that more deviating rows never make an input less suspect.
