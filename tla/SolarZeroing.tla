---------------------------- MODULE SolarZeroing ----------------------------
(***************************************************************************)
(* solar_event_task of tasks/solar_zeroing.rs: every day it disables RFI   *)
(* zeroing in both stages of the correlator for the hours around the solar *)
(* transit, and enables it again afterwards.                               *)
(*                                                                         *)
(* Time is a clock of Day ticks per UTC day, and solar noon comes at the   *)
(* same tick of every UTC date.  The deadline next_noon is kept relative   *)
(* to the present, so that the model has finitely many states.  A POST     *)
(* takes up to MaxPost ticks and ends in one of the Outcomes; the code     *)
(* ignores all but success.  The broker may be stopped at any time and     *)
(* started again; the correlator keeps what it was told.                   *)
(***************************************************************************)
EXTENDS Integers, FiniteSets

CONSTANTS
  Day,          \* ticks in a UTC day
  Noon,         \* tick of solar noon, which the coordinates of the site decide
  Downtime,     \* zeroing.downtime
  MaxPost,      \* bound: ticks a POST can take
  Outcomes,     \* how a POST can end
  NoonMayFail,  \* solar_noon can return None, or the coordinates are invalid
  StartTimes,   \* times of day at which the broker may be started
  MaxRestarts,  \* bound: times the broker is stopped
  MaxOutage     \* bound: ticks it then stays down when it may be started

ASSUME ClockAssumption ==
  /\ Day \in Nat \ {0} /\ Noon \in 0 .. (Day - 1)
  /\ Downtime \in 0 .. (Day - 1) /\ MaxPost \in Nat
ASSUME OutcomesAssumption ==
  Outcomes \subseteq {"ok", "refused", "unanswered"} /\ NoonMayFail \in BOOLEAN
ASSUME RestartAssumption ==
  /\ StartTimes \subseteq 0 .. (Day - 1) /\ StartTimes # {}
  /\ MaxRestarts \in Nat /\ MaxOutage \in Nat

VARIABLES
  now,         \* the time of day
  pc,          \* where the task is
  noon_in,     \* ticks from now to next_noon, negative once it is past
  waited,      \* ticks spent on the POST in flight, or being down
  remote,      \* [Stages -> what the correlator does]
  gauge,       \* [Stages -> what RFIZeroingTracker exports]
  known,       \* history: stages that confirmed the last POST they carried out
  first_pass,  \* history: next_noon is still the one of the start
  uptime,      \* history: ticks since the start, up to one day
  restarts

vars == <<now, pc, noon_in, waited, remote, gauge, known, first_pass, uptime, restarts>>

Stages  == {"first", "second"}
Posts   == {"off_second", "off_first", "on_first", "on_second"}
Sleeps  == {"sleep_start", "sleep_end"}

\* Defect: the enable events are sent in the order of the disable events.
SecondFirst(post) == IF post \in {"off_first", "on_second"} THEN "first" ELSE "second"

\* The endpoint a POST goes to, and the toggle value it carries.
StageOf(post) == IF post \in {"off_first", "on_first"} THEN "first" ELSE "second"

\* Defect: the disable payload is sent again.
AlwaysDisable(post) == FALSE

ValueOf(post) == post \in {"on_first", "on_second"}

\* Defects: a day is added twice, or not at all.
NoonIsIn2(days_offset) == Noon - now + 2 * days_offset * Day
NoonIsInToday(days_offset) == Noon - now

\* solar_noon takes the UTC date of the present, moves it by days_offset days,
\* and returns the noon of that date.
NoonIsIn(days_offset) == Noon - now + days_offset * Day

\* Defects: the window starts at noon, or ends a whole downtime after noon.
StartsAtNoon == noon_in
EndsLate     == noon_in + Downtime

StartIn == noon_in - Downtime \div 2
EndIn   == noon_in - Downtime \div 2 + Downtime

\* Defect: the comparison in seconds_until is the wrong way round.
IsPast(ticks) == ticks < 0

\* seconds_until returns Some: there is something to wait for, or just nothing.
IsAhead(ticks) == ticks >= 0

\* Where the task goes when it asks for the end of the window.
UntilEnd == IF IsAhead(EndIn) THEN "sleep_end" ELSE "on_first"

\* The gauges of a new process.
NoGauge == [s \in Stages |-> FALSE]

\* The broker is started at some time of day, and finds the stages in either
\* state.  The first noon is that of the present UTC date.
Init ==
  /\ now \in StartTimes
  /\ pc = "loop"
  /\ noon_in = NoonIsIn(0)
  /\ waited = 0
  /\ remote \in {[s \in Stages |-> b] : b \in BOOLEAN}
  /\ gauge = NoGauge
  /\ known = {}
  /\ first_pass = TRUE
  /\ uptime = 0
  /\ restarts = 0

-----------------------------------------------------------------------------

\* The head of the loop: wait for the window, unless it has begun.
Loop ==
  /\ pc = "loop"
  /\ pc' = IF IsAhead(StartIn) THEN "sleep_start" ELSE UntilEnd
  /\ UNCHANGED <<now, noon_in, waited, remote, gauge, known, first_pass, uptime, restarts>>

Wake ==
  /\ \/ pc = "sleep_start" /\ StartIn <= 0 /\ pc' = "off_second"
     \/ pc = "sleep_end" /\ EndIn <= 0 /\ pc' = "on_first"
  /\ waited' = 0
  /\ UNCHANGED <<now, noon_in, remote, gauge, known, first_pass, uptime, restarts>>

\* Where the task goes when a POST has ended, in whatever way.
AfterPost(post) ==
  CASE post = "off_second" -> "off_first"
    [] post = "off_first"  -> UntilEnd
    [] post = "on_first"   -> "on_second"
    [] post = "on_second"  -> "next"

\* Defect: the gauge is set before the outcome is known.
GaugeAnyway(outcome, stage, value) == [gauge EXCEPT ![stage] = value]

GaugeAfter(outcome, stage, value) ==
  IF outcome = "ok" THEN [gauge EXCEPT ![stage] = value] ELSE gauge

\* post_event returns.  A POST that is not answered may have been carried out:
\* here it has, a refused one has not.
PostEnds(outcome) ==
  /\ pc \in Posts
  /\ LET stage == StageOf(pc)
         value == ValueOf(pc)
     IN  /\ remote' = IF outcome = "refused" THEN remote
                      ELSE [remote EXCEPT ![stage] = value]
         /\ gauge' = GaugeAfter(outcome, stage, value)
         /\ known' = IF outcome = "ok" THEN known \cup {stage}
                     ELSE IF outcome = "refused" THEN known
                     ELSE known \ {stage}
  /\ pc' = AfterPost(pc)
  /\ waited' = 0
  /\ UNCHANGED <<now, noon_in, first_pass, uptime, restarts>>

\* The window is over: the next one is a UTC date later.
NextNoon ==
  /\ pc = "next"
  /\ pc' = "loop"
  /\ noon_in' = NoonIsIn(1)
  /\ first_pass' = FALSE
  /\ UNCHANGED <<now, waited, remote, gauge, known, uptime, restarts>>

\* There is no solar noon, for the next window or, with coordinates that are none
\* or in a polar night, for the first one: the task returns an error, and the
\* broker exits with it.
NoonFails ==
  /\ NoonMayFail
  /\ \/ pc = "next"
     \/ pc = "loop" /\ first_pass
  /\ pc' = "failed"
  /\ UNCHANGED <<now, noon_in, waited, remote, gauge, known, first_pass, uptime, restarts>>

-----------------------------------------------------------------------------
\* Time, and the life of the process.

\* Nothing the task computes takes time.  A sleep ends when it is due.
TimeMayPass ==
  \/ pc = "sleep_start" /\ StartIn > 0
  \/ pc = "sleep_end" /\ EndIn > 0
  \/ pc \in Posts /\ waited < MaxPost
  \/ pc = "down" /\ (waited < MaxOutage \/ now \notin StartTimes)

Tick ==
  /\ TimeMayPass
  /\ now' = (now + 1) % Day
  /\ noon_in' = IF pc = "down" THEN 0 ELSE noon_in - 1
  /\ waited' = IF pc \in Sleeps THEN 0
               ELSE IF pc = "down" /\ waited = MaxOutage THEN waited ELSE waited + 1
  /\ uptime' = IF pc = "down" \/ uptime = Day THEN uptime ELSE uptime + 1
  /\ UNCHANGED <<pc, remote, gauge, known, first_pass, restarts>>

\* The broker stops.  A POST in flight may be carried out nevertheless.
Stop ==
  /\ pc \in Sleeps \cup Posts
  /\ restarts < MaxRestarts
  /\ restarts' = restarts + 1
  /\ pc' = "down"
  /\ waited' = 0
  /\ noon_in' = 0
  /\ uptime' = 0
  /\ \/ UNCHANGED remote
     \/ pc \in Posts /\ remote' = [remote EXCEPT ![StageOf(pc)] = ValueOf(pc)]
  /\ UNCHANGED <<now, gauge, known, first_pass>>

Start ==
  /\ pc = "down"
  /\ now \in StartTimes
  /\ pc' = "loop"
  /\ noon_in' = NoonIsIn(0)
  /\ waited' = 0
  /\ gauge' = NoGauge
  /\ known' = {}
  /\ first_pass' = TRUE
  /\ UNCHANGED <<now, remote, uptime, restarts>>

\* Once the task has failed only the rest of the world goes on.
Over == pc = "failed" /\ UNCHANGED vars

TaskStep ==
  \/ Loop
  \/ Wake
  \/ \E outcome \in Outcomes : PostEnds(outcome)
  \/ NextNoon
  \/ NoonFails
  \/ Start

Next == TaskStep \/ Tick \/ Stop \/ Over

\* The runtime polls the task when its sleep or its POST is over, time passes,
\* and the service manager starts the broker again.
Fairness == WF_vars(TaskStep) /\ WF_vars(Tick)

Spec == Init /\ [][Next]_vars /\ Fairness

-----------------------------------------------------------------------------
\* Properties.

TypeOK ==
  /\ now \in 0 .. (Day - 1)
  /\ pc \in Posts \cup Sleeps \cup {"loop", "next", "failed", "down"}
  /\ noon_in \in (- Day - 4 * MaxPost) .. (Noon + Day)
  /\ waited \in 0 .. (MaxPost + MaxOutage)
  /\ remote \in [Stages -> BOOLEAN]
  /\ gauge \in [Stages -> BOOLEAN]
  /\ known \in SUBSET Stages
  /\ first_pass \in BOOLEAN
  /\ uptime \in 0 .. Day
  /\ restarts \in 0 .. MaxRestarts

\* The sun's own clock: ticks since the transit window of the site last began.
SinceTransit == (now - Noon + Downtime \div 2) % Day

\* The time of day at which the window ends.
TransitEnd == (Noon - Downtime \div 2 + Downtime) % Day

\* A task that was up when the transit began has disabled both stages, but for
\* the time its two POSTs take, and keeps them so until the transit ends: what
\* it computes from UTC dates are the days of the sun.
OffDuringTransit ==
  /\ SinceTransit > 2 * MaxPost
  /\ SinceTransit < Downtime
  /\ uptime >= SinceTransit
  /\ pc # "down"
  => \A s \in Stages : ~ remote[s]

\* Outside the transit both stages are enabled, but for the time two POSTs
\* take, whatever they were when the task started and wherever in the window
\* an earlier run of the broker was stopped.  The task must have been up at
\* some time between the end of the window and the end of that UTC date.
OnOutsideTransit ==
  /\ SinceTransit > Downtime + 2 * MaxPost
  /\ uptime > 2 * MaxPost
  /\ now >= TransitEnd \/ uptime > now
  /\ pc # "down"
  => \A s \in Stages : remote[s]

\* The second stage never zeroes what the first stage has let through: it is
\* disabled first and enabled last, also when the broker stops in between.
SecondNeverAlone == remote["second"] => remote["first"]

\* A disabled stage is enabled again, also if the broker stops in the window.
OffIsTemporary == \A s \in Stages : ~ remote[s] ~> remote[s]

\* The comment on the second sleep: its "else case here should only be
\* accessible on the first pass of this loop".  It is so as long as two POSTs fit
\* into the window; nothing in the code sees to that, a POST has no timeout.
ElseOnlyFirstPass ==
  [][(pc \in {"loop", "off_first"} /\ pc' = "on_first") => first_pass]_vars

\* The doc of the task: "5. Compute the next solar noon".  It is ahead, and no
\* other noon lies between.
NextNoonIsNext ==
  [][pc = "next" /\ pc' = "loop" => noon_in' > 0 /\ noon_in' <= Day]_vars

\* From the first POST a stage has confirmed, its gauge shows what the stage
\* does, across refused POSTs, until one is carried out and not answered.
GaugeShowsStage ==
  pc # "down" => \A s \in known : gauge[s] = remote[s]

\* Failing POSTs never end the daily round: unless solar_noon fails, a disable
\* event is sent again and again.
TransitsKeepComing == []<>(pc = "off_second") \/ <>(pc = "failed")

=============================================================================
