------------------------- MODULE SolarZeroingProofs -------------------------
(***************************************************************************)
(* The safety properties of SolarZeroing for every day length, site,       *)
(* downtime, POST duration and number of restarts.                         *)
(***************************************************************************)
EXTENDS SolarZeroing, TLAPS

\* Both stages and both gauges are on or off.
Switches ==
  /\ remote \in [Stages -> BOOLEAN]
  /\ gauge \in [Stages -> BOOLEAN]
  /\ known \in SUBSET Stages

\* Between the two POSTs of a pair the first of them has had its effect.
HalfWay ==
  /\ pc = "off_first" => ~ remote["second"]
  /\ pc = "on_second" => remote["first"]

OrderInv == Switches /\ HalfWay /\ SecondNeverAlone

GaugeInv == Switches /\ GaugeShowsStage

\* Every step leaves switches switches.
LEMMA StepKeepsSwitches ==
  ASSUME Switches, [Next]_vars
  PROVE  Switches'
<1> USE DEF Switches
<1>1. ASSUME NEW outcome \in Outcomes, PostEnds(outcome)
      PROVE  Switches'
  <2>1. StageOf(pc) \in Stages /\ ValueOf(pc) \in BOOLEAN
    BY DEF StageOf, ValueOf, Stages
  <2>2. outcome \in {"ok", "refused", "unanswered"}
    BY OutcomesAssumption
  <2>3. gauge' = GaugeAfter(outcome, StageOf(pc), ValueOf(pc))
    BY <1>1 DEF PostEnds
  <2> QED  BY <1>1, <2>1, <2>2, <2>3 DEF PostEnds, GaugeAfter
<1>2. CASE Stop
  <2>1. StageOf(pc) \in Stages /\ ValueOf(pc) \in BOOLEAN
    BY DEF StageOf, ValueOf, Stages
  <2> QED  BY <1>2, <2>1 DEF Stop
<1>3. CASE Start
  BY <1>3 DEF Start, NoGauge
<1>4. CASE Loop \/ Wake \/ NextNoon \/ NoonFails \/ Tick \/ Over \/ UNCHANGED vars
  BY <1>4 DEF Loop, Wake, NextNoon, NoonFails, Tick, Over, vars
<1> QED  BY <1>1, <1>2, <1>3, <1>4 DEF Next, TaskStep

\* When every POST succeeds, the second stage is never on with the first off,
\* wherever the broker is stopped.
THEOREM StagesInOrder ==
  ASSUME Outcomes = {"ok"}
  PROVE  Spec => []SecondNeverAlone
<1>1. Init => OrderInv
  BY DEF Init, OrderInv, Switches, HalfWay, SecondNeverAlone, NoGauge, Stages
<1>2. OrderInv /\ [Next]_vars => OrderInv'
  <2> SUFFICES ASSUME OrderInv, [Next]_vars
               PROVE  HalfWay' /\ SecondNeverAlone'
    BY StepKeepsSwitches DEF OrderInv
  <2> USE DEF OrderInv, Switches, HalfWay, SecondNeverAlone, Stages
  <2>1. ASSUME NEW outcome \in Outcomes, PostEnds(outcome)
        PROVE  HalfWay' /\ SecondNeverAlone'
    <3>1. remote' = [remote EXCEPT ![StageOf(pc)] = ValueOf(pc)]
      BY <2>1 DEF PostEnds
    <3>2. pc \in Posts /\ pc' = AfterPost(pc)
      BY <2>1 DEF PostEnds
    <3>3. UntilEnd \in {"sleep_end", "on_first"}
      BY DEF UntilEnd
    <3> QED  BY <3>1, <3>2, <3>3 DEF Posts, AfterPost, StageOf, ValueOf
  <2>2. CASE Stop
    <3>1. pc' = "down"
      BY <2>2 DEF Stop
    <3>2. CASE UNCHANGED remote
      BY <3>1, <3>2
    <3>3. CASE pc \in Posts /\ remote' = [remote EXCEPT ![StageOf(pc)] = ValueOf(pc)]
      BY <3>1, <3>3 DEF Posts, StageOf, ValueOf
    <3> QED  BY <2>2, <3>2, <3>3 DEF Stop
  <2>3. CASE Start
    BY <2>3 DEF Start
  <2>4. CASE Loop
    BY <2>4 DEF Loop, UntilEnd
  <2>5. CASE Wake
    BY <2>5 DEF Wake
  <2>6. CASE NextNoon \/ NoonFails
    BY <2>6 DEF NextNoon, NoonFails
  <2>7. CASE Tick \/ Over \/ UNCHANGED vars
    BY <2>7 DEF Tick, Over, vars
  <2> QED  BY <2>1, <2>2, <2>3, <2>4, <2>5, <2>6, <2>7 DEF Next, TaskStep
<1> QED  BY <1>1, <1>2, PTL DEF Spec, OrderInv

\* A gauge is right from the first confirmed POST until one goes unanswered,
\* whatever else fails and whenever.
THEOREM GaugesAreRight == Spec => []GaugeShowsStage
<1>1. Init => GaugeInv
  BY DEF Init, GaugeInv, Switches, GaugeShowsStage, NoGauge
<1>2. GaugeInv /\ [Next]_vars => GaugeInv'
  <2> SUFFICES ASSUME GaugeInv, [Next]_vars
               PROVE  GaugeShowsStage'
    BY StepKeepsSwitches DEF GaugeInv
  <2> USE DEF GaugeInv, Switches, GaugeShowsStage
  <2>1. ASSUME NEW outcome \in Outcomes, PostEnds(outcome)
        PROVE  GaugeShowsStage'
    <3>1. pc \in Posts /\ gauge' = GaugeAfter(outcome, StageOf(pc), ValueOf(pc))
      BY <2>1 DEF PostEnds
    <3>2. pc # "down"
      BY <3>1 DEF Posts
    <3>3. StageOf(pc) \in Stages
      BY DEF StageOf, Stages
    <3>4. CASE outcome = "ok"
      BY <2>1, <3>1, <3>2, <3>3, <3>4 DEF PostEnds, GaugeAfter
    <3>5. CASE outcome = "refused"
      BY <2>1, <3>1, <3>2, <3>5 DEF PostEnds, GaugeAfter
    <3>6. CASE outcome = "unanswered"
      <4>1. known' = known \ {StageOf(pc)} /\ gauge' = gauge
        BY <2>1, <3>1, <3>6 DEF PostEnds, GaugeAfter
      <4>2. remote' = [remote EXCEPT ![StageOf(pc)] = ValueOf(pc)]
        BY <2>1, <3>6 DEF PostEnds
      <4> QED  BY <3>2, <4>1, <4>2
    <3> QED  BY <3>4, <3>5, <3>6, OutcomesAssumption
  <2>2. CASE Stop
    BY <2>2 DEF Stop
  <2>3. CASE Start
    BY <2>3 DEF Start
  <2>4. CASE Loop \/ Wake \/ NextNoon \/ NoonFails
    BY <2>4 DEF Loop, Wake, NextNoon, NoonFails
  <2>5. CASE Tick \/ Over \/ UNCHANGED vars
    BY <2>5 DEF Tick, Over, vars
  <2> QED  BY <2>1, <2>2, <2>3, <2>4, <2>5 DEF Next, TaskStep
<1> QED  BY <1>1, <1>2, PTL DEF Spec, GaugeInv

-----------------------------------------------------------------------------
\* Deadlines, for every clock.

\* The clock goes round.
LEMMA NextTick ==
  ASSUME NEW t \in 0 .. (Day - 1)
  PROVE  (t + 1) % Day = IF t = Day - 1 THEN 0 ELSE t + 1
<1>1. Day \in Nat \ {0}
  BY ClockAssumption
<1>2. CASE t = Day - 1
  BY <1>1, <1>2
<1>3. CASE t # Day - 1
  BY <1>1, <1>3
<1> QED  BY <1>2, <1>3

\* Half of the downtime.
LEMMA HalfOfDowntime ==
  /\ Downtime \div 2 \in Nat
  /\ 2 * (Downtime \div 2) <= Downtime
  /\ Downtime <= 2 * (Downtime \div 2) + 1
BY ClockAssumption

\* How late the task can be at each point: it sleeps no longer than it should,
\* and each POST takes up to MaxPost.
DeadlineInv ==
  /\ pc \notin Posts \cup {"down"} => waited = 0
  /\ pc \in Posts => waited <= MaxPost
  /\ pc = "down" => waited <= MaxOutage /\ noon_in = 0
  /\ pc = "loop" => noon_in > - Day /\ (first_pass \/ noon_in > 0)
  /\ pc = "sleep_start" => StartIn >= 0
  /\ pc = "off_second"  => StartIn >= - waited
  /\ pc = "off_first"   => StartIn >= - MaxPost - waited
  /\ pc = "sleep_end"   => EndIn >= 0
  /\ pc = "on_first"    => noon_in >= - Day - 2 * MaxPost - waited
  /\ pc = "on_second"   => noon_in >= - Day - 3 * MaxPost - waited
  /\ pc \in {"next", "failed"} => noon_in >= - Day - 4 * MaxPost

ClockInv == TypeOK /\ DeadlineInv

\* The bounds are those of a new process.
LEMMA InitEstablishesClockInv == Init => ClockInv
<1> SUFFICES ASSUME Init PROVE ClockInv
  OBVIOUS
<1>1. now \in 0 .. (Day - 1)
  BY RestartAssumption DEF Init
<1>2. noon_in = Noon - now
  BY <1>1, ClockAssumption DEF Init, NoonIsIn
<1>3. noon_in \in (1 - Day) .. Noon
  BY <1>1, <1>2, ClockAssumption
<1>4. TypeOK
  BY <1>1, <1>3, ClockAssumption, RestartAssumption DEF Init, TypeOK, NoGauge
<1>5. DeadlineInv
  BY <1>3, ClockAssumption DEF Init, DeadlineInv, Posts
<1> QED  BY <1>4, <1>5 DEF ClockInv

\* Every step keeps the deadlines.
LEMMA NextKeepsClockInv == ClockInv /\ [Next]_vars => ClockInv'
<1> SUFFICES ASSUME TypeOK, DeadlineInv, [Next]_vars PROVE TypeOK' /\ DeadlineInv'
  BY DEF ClockInv
<1> DEFINE Constants == /\ Day \in Nat \ {0} /\ Noon \in 0 .. (Day - 1)
                        /\ Downtime \in 0 .. (Day - 1) /\ MaxPost \in Nat
                        /\ MaxRestarts \in Nat /\ MaxOutage \in Nat
<1>0. Constants
  BY ClockAssumption, RestartAssumption
<1>a. Switches' /\ Switches
  BY StepKeepsSwitches DEF TypeOK, Switches
<1>b. now \in 0 .. (Day - 1) /\ noon_in \in Int /\ waited \in Nat
  BY DEF TypeOK
<1> USE DEF Posts, Sleeps
<1>1. CASE Loop
  <2>1. TypeOK'
    BY <1>1 DEF Loop, TypeOK, UntilEnd
  <2>2. DeadlineInv'
    BY <1>0, <1>b, <1>1, HalfOfDowntime
    DEF Loop, DeadlineInv, UntilEnd, IsAhead, StartIn, EndIn
  <2> QED  BY <2>1, <2>2
<1>2. CASE Wake
  <2>1. TypeOK'
    BY <1>0, <1>2 DEF Wake, TypeOK
  <2>2. DeadlineInv'
    BY <1>0, <1>b, <1>2, HalfOfDowntime DEF Wake, DeadlineInv, StartIn, EndIn
  <2> QED  BY <2>1, <2>2
<1>3. ASSUME NEW outcome \in Outcomes, PostEnds(outcome)
      PROVE  TypeOK' /\ DeadlineInv'
  <2>1. /\ pc \in Posts /\ pc' = AfterPost(pc) /\ waited' = 0
        /\ UNCHANGED <<now, noon_in, first_pass, uptime, restarts>>
    BY <1>3 DEF PostEnds
  <2>2. pc' \in {"off_first", "sleep_end", "on_first", "on_second", "next"}
    BY <2>1 DEF AfterPost, UntilEnd
  <2>3. TypeOK'
    BY <1>0, <1>a, <2>1, <2>2 DEF TypeOK, Switches
  <2>4. DeadlineInv'
    BY <1>0, <1>b, <2>1, HalfOfDowntime
    DEF DeadlineInv, AfterPost, UntilEnd, IsAhead, StartIn, EndIn
  <2> QED  BY <2>3, <2>4
<1>4. CASE NextNoon
  <2>1. noon_in' = Noon - now + Day /\ pc' = "loop" /\ UNCHANGED <<now, waited, uptime, restarts>>
    BY <1>0, <1>b, <1>4 DEF NextNoon, NoonIsIn
  <2>2. noon_in' \in 1 .. (Noon + Day)
    BY <1>0, <1>b, <2>1
  <2>3. TypeOK'
    <3>1. noon_in' \in (- Day - 4 * MaxPost) .. (Noon + Day)
      BY <1>0, <2>2
    <3>2. first_pass' \in BOOLEAN
      BY <1>4 DEF NextNoon
    <3> QED  BY <1>a, <2>1, <3>1, <3>2 DEF TypeOK, Switches
  <2>4. DeadlineInv'
    BY <1>0, <1>4, <2>1, <2>2 DEF DeadlineInv, NextNoon
  <2> QED  BY <2>3, <2>4
<1>5. CASE NoonFails
  BY <1>5 DEF NoonFails, TypeOK, DeadlineInv
<1>6. CASE Tick
  <2>1. now' = (IF now = Day - 1 THEN 0 ELSE now + 1)
    BY <1>b, <1>6, NextTick DEF Tick
  <2>2. now' \in 0 .. (Day - 1)
    BY <1>0, <1>b, <2>1
  <2>3. /\ pc' = pc /\ first_pass' = first_pass /\ restarts' = restarts
        /\ noon_in' = (IF pc = "down" THEN 0 ELSE noon_in - 1)
        /\ waited' = (IF pc \in Sleeps THEN 0
                      ELSE IF pc = "down" /\ waited = MaxOutage THEN waited ELSE waited + 1)
        /\ uptime' = (IF pc = "down" \/ uptime = Day THEN uptime ELSE uptime + 1)
        /\ TimeMayPass
    BY <1>6 DEF Tick
  <2>4. DeadlineInv'
    BY <1>0, <1>b, <2>3, HalfOfDowntime DEF DeadlineInv, TimeMayPass, StartIn, EndIn
  <2>5. noon_in' \in (- Day - 4 * MaxPost) .. (Noon + Day)
    <3>1. noon_in' <= Noon + Day /\ noon_in' \in Int
      BY <1>0, <1>b, <2>3 DEF TypeOK
    <3>2. noon_in' >= - Day - 4 * MaxPost
      BY <1>0, <1>b, <2>3, <2>4, HalfOfDowntime DEF DeadlineInv, TimeMayPass, StartIn, EndIn
    <3> QED  BY <1>0, <3>1, <3>2
  <2>6. waited' \in 0 .. (MaxPost + MaxOutage) /\ uptime' \in 0 .. Day
    BY <1>0, <1>b, <2>3, <2>4 DEF TypeOK, DeadlineInv, TimeMayPass
  <2> QED  BY <1>a, <2>2, <2>3, <2>4, <2>5, <2>6 DEF TypeOK, Switches
<1>7. CASE Stop
  <2>1. /\ pc' = "down" /\ waited' = 0 /\ noon_in' = 0 /\ uptime' = 0
        /\ restarts' = restarts + 1 /\ restarts < MaxRestarts
        /\ UNCHANGED <<now, first_pass>>
    BY <1>7 DEF Stop
  <2>2. TypeOK'
    BY <1>0, <1>a, <2>1 DEF TypeOK, Switches
  <2> QED  BY <1>0, <2>1, <2>2 DEF DeadlineInv
<1>8. CASE Start
  <2>1. noon_in' = Noon - now /\ pc' = "loop" /\ waited' = 0 /\ first_pass' = TRUE
        /\ UNCHANGED <<now, uptime, restarts>>
    BY <1>0, <1>b, <1>8 DEF Start, NoonIsIn
  <2>2. noon_in' \in (1 - Day) .. Noon
    BY <1>0, <1>b, <2>1
  <2>3. TypeOK'
    BY <1>0, <1>a, <2>1, <2>2 DEF TypeOK, Switches
  <2> QED  BY <1>0, <2>1, <2>2, <2>3 DEF DeadlineInv
<1>9. CASE UNCHANGED vars
  BY <1>9 DEF vars, TypeOK, DeadlineInv, StartIn, EndIn
<1> QED  BY <1>1, <1>2, <1>3, <1>4, <1>5, <1>6, <1>7, <1>8, <1>9 DEF Next, TaskStep, Over

\* Type correctness: for how long the task can be late is bounded.
THEOREM SolarTypeCorrect == Spec => []TypeOK
<1>1. ClockInv => TypeOK
  BY DEF ClockInv
<1> QED  BY <1>1, InitEstablishesClockInv, NextKeepsClockInv, PTL DEF Spec

\* The comment on the second sleep is right if the two POSTs of a pair fit into
\* the window: its else branch is for a process that starts late.
THEOREM ElseIsForLateStarts ==
  ASSUME 2 * MaxPost <= Downtime
  PROVE  Spec => ElseOnlyFirstPass
<1> DEFINE Else == pc \in {"loop", "off_first"} /\ pc' = "on_first"
<1>1. ASSUME ClockInv, [Next]_vars, Else
      PROVE  first_pass
  <2>0. /\ Day \in Nat \ {0} /\ Downtime \in Nat /\ MaxPost \in Nat
        /\ noon_in \in Int /\ waited \in Nat
    BY <1>1, ClockAssumption DEF ClockInv, TypeOK
  <2>1. CASE Loop
    <3>1. ~ IsAhead(EndIn) /\ pc = "loop"
      BY <1>1, <2>1 DEF Loop, UntilEnd
    <3>2. EndIn >= noon_in
      BY <2>0, HalfOfDowntime DEF EndIn
    <3>3. EndIn \in Int
      BY <2>0, HalfOfDowntime DEF EndIn
    <3>4. ~ (noon_in > 0)
      BY <2>0, <3>1, <3>2, <3>3 DEF IsAhead
    <3> QED  BY <1>1, <3>1, <3>4 DEF ClockInv, DeadlineInv
  <2>2. ASSUME NEW outcome \in Outcomes, PostEnds(outcome)
        PROVE  FALSE
    <3>1. pc = "off_first" /\ ~ IsAhead(EndIn)
      BY <1>1, <2>2 DEF PostEnds, Posts, AfterPost, UntilEnd
    <3>2. StartIn >= - MaxPost - waited /\ waited <= MaxPost
      BY <1>1, <3>1 DEF ClockInv, DeadlineInv, Posts
    <3>3. EndIn >= 0
      BY <2>0, <3>2, HalfOfDowntime DEF StartIn, EndIn
    <3> QED  BY <3>1, <3>3 DEF IsAhead
  <2>3. ~ Wake /\ ~ NextNoon /\ ~ NoonFails /\ ~ Start /\ ~ Tick /\ ~ Stop /\ ~ Over
    BY <1>1 DEF Wake, NextNoon, NoonFails, Start, Tick, Stop, Over
  <2>4. pc' # pc
    BY <1>1
  <2> QED  BY <1>1, <2>1, <2>2, <2>3, <2>4 DEF Next, TaskStep, vars
<1>2. ClockInv /\ [Next]_vars => [Else => first_pass]_vars
  BY <1>1
<1> QED  BY <1>2, InitEstablishesClockInv, NextKeepsClockInv, PTL DEF Spec, ElseOnlyFirstPass

-----------------------------------------------------------------------------
\* The dates of the task and the days of the sun.

\* The window of a UTC date.
Begin == Noon - Downtime \div 2
End   == Begin + Downtime

\* The window and the POSTs at its end are within one UTC date, the POSTs at
\* its beginning within the window, and the broker is not started in the last
\* ticks of a UTC date.
WithinDate ==
  /\ 0 <= Begin
  /\ 2 * MaxPost <= Downtime
  /\ End + 2 * MaxPost < Day
  /\ \A t \in StartTimes : t + 2 * MaxPost < Day

\* next_noon is that of the present UTC date, or of the one after it.
Today    == noon_in = Noon - now
Tomorrow == noon_in = Noon - now + Day

\* Which noon the task deals with, and where in the UTC date it is.
DateInv ==
  /\ pc = "loop" => \/ Today /\ now + 2 * MaxPost < Day
                    \/ Tomorrow /\ End <= now
  /\ pc = "sleep_start" => Today \/ (Tomorrow /\ End <= now)
  /\ pc = "off_second" => Today /\ Begin <= now /\ now <= Begin + waited
  /\ pc = "off_first"  => Today /\ Begin <= now /\ now <= Begin + MaxPost + waited
  /\ pc = "sleep_end"  => Today /\ Begin <= now
  /\ pc = "on_first"   => Today /\ End <= now /\ now + 2 * MaxPost < Day + waited
  /\ pc = "on_second"  => Today /\ End <= now /\ now + MaxPost < Day + waited
  /\ pc = "next" => End <= now

\* The window as a part of the UTC date.
LEMMA WindowOfDate ==
  ASSUME WithinDate
  PROVE  /\ Day \in Nat \ {0} /\ MaxPost \in Nat /\ Downtime \in Nat
         /\ Begin \in Nat /\ End \in Nat
         /\ Begin <= Noon /\ Noon <= End /\ Begin + 2 * MaxPost <= End
         /\ End + 2 * MaxPost < Day /\ End = Begin + Downtime
BY ClockAssumption, HalfOfDowntime DEF WithinDate, Begin, End

\* Today's deadlines.
LEMMA DeadlinesToday ==
  ASSUME ClockInv, WithinDate
  PROVE  /\ now \in 0 .. (Day - 1) /\ noon_in \in Int /\ waited \in Nat
         /\ Today => StartIn = Begin - now /\ EndIn = End - now
         /\ Tomorrow => StartIn > 0
<1>1. now \in 0 .. (Day - 1) /\ noon_in \in Int /\ waited \in Nat
  BY DEF ClockInv, TypeOK
<1>2. Today => StartIn = Begin - now /\ EndIn = End - now
  BY <1>1, ClockAssumption, HalfOfDowntime DEF Today, StartIn, EndIn, Begin, End
<1>3. Tomorrow => StartIn > 0
  BY <1>1, ClockAssumption, HalfOfDowntime DEF Tomorrow, StartIn, WithinDate, Begin
<1> QED  BY <1>1, <1>2, <1>3

\* A new process starts with the noon of the present date.
LEMMA InitEstablishesDateInv ==
  ASSUME WithinDate
  PROVE  Init => DateInv
BY ClockAssumption, RestartAssumption
DEF Init, DateInv, Today, NoonIsIn, WithinDate

\* Every step keeps the task at the date of its noon.
LEMMA NextKeepsDateInv ==
  ASSUME WithinDate
  PROVE  ClockInv /\ DateInv /\ [Next]_vars => DateInv'
<1> SUFFICES ASSUME ClockInv, DateInv, [Next]_vars PROVE DateInv'
  OBVIOUS
<1>a. /\ Day \in Nat \ {0} /\ MaxPost \in Nat /\ Downtime \in Nat /\ Noon \in Nat
      /\ Begin \in Nat /\ End \in Nat
      /\ Begin <= Noon /\ Noon <= End /\ Begin + 2 * MaxPost <= End
      /\ End + 2 * MaxPost < Day
  BY WindowOfDate, ClockAssumption
<1>b. /\ now \in 0 .. (Day - 1) /\ noon_in \in Int /\ waited \in Nat
      /\ Today => StartIn = Begin - now /\ EndIn = End - now
      /\ Tomorrow => StartIn > 0
  BY DeadlinesToday
<1>c. ClockInv'
  BY NextKeepsClockInv
<1>d. /\ pc \notin Posts \cup {"down"} => waited = 0
      /\ pc \in Posts => waited <= MaxPost
      /\ pc = "sleep_start" => StartIn >= 0
      /\ pc = "sleep_end"   => EndIn >= 0
  BY DEF ClockInv, DeadlineInv
<1> USE DEF Posts, Sleeps
<1>1. CASE Loop
  <2>1. /\ pc = "loop" /\ UNCHANGED <<now, noon_in, waited>>
        /\ pc' = IF IsAhead(StartIn) THEN "sleep_start" ELSE UntilEnd
    BY <1>1 DEF Loop
  <2>2. (Today' <=> Today) /\ (Tomorrow' <=> Tomorrow)
    BY <2>1 DEF Today, Tomorrow
  <2>3. CASE Tomorrow /\ End <= now
    <3>1. StartIn \in Int /\ StartIn > 0
      BY <1>a, <1>b, <2>3, HalfOfDowntime DEF StartIn
    <3>2. pc' = "sleep_start"
      BY <2>1, <3>1 DEF IsAhead
    <3> QED  BY <2>1, <2>2, <2>3, <3>2 DEF DateInv
  <2>4. CASE Today /\ now + 2 * MaxPost < Day
    <3>1. StartIn = Begin - now /\ EndIn = End - now
      BY <1>b, <2>4
    <3>2. CASE Begin >= now
      <4>1. pc' = "sleep_start"
        BY <1>a, <1>b, <2>1, <3>1, <3>2 DEF IsAhead
      <4> QED  BY <2>2, <2>4, <4>1 DEF DateInv
    <3>3. CASE Begin < now /\ End >= now
      <4>1. pc' = "sleep_end"
        BY <1>a, <1>b, <2>1, <3>1, <3>3 DEF IsAhead, UntilEnd
      <4> QED  BY <1>a, <1>b, <2>1, <2>2, <2>4, <3>3, <4>1 DEF DateInv
    <3>4. CASE End < now
      <4>1. pc' = "on_first"
        BY <1>a, <1>b, <2>1, <3>1, <3>4 DEF IsAhead, UntilEnd
      <4>2. waited' = 0
        BY <1>d, <2>1
      <4> QED  BY <1>a, <1>b, <2>1, <2>2, <2>4, <3>4, <4>1, <4>2 DEF DateInv
    <3> QED  BY <1>a, <1>b, <3>2, <3>3, <3>4
  <2> QED  BY <2>1, <2>3, <2>4 DEF DateInv
<1>2. CASE Wake
  <2>1. waited' = 0 /\ UNCHANGED <<now, noon_in>>
    BY <1>2 DEF Wake
  <2>2. Today' <=> Today
    BY <2>1 DEF Today
  <2>3. CASE pc = "sleep_start"
    <3>1. StartIn <= 0 /\ StartIn >= 0 /\ pc' = "off_second"
      BY <1>d, <1>2, <2>3 DEF Wake
    <3>2. Today
      <4>1. ~ (StartIn > 0)
        BY <1>a, <1>b, <3>1 DEF StartIn
      <4> QED  BY <1>b, <2>3, <4>1 DEF DateInv
    <3>3. now = Begin
      BY <1>a, <1>b, <3>1, <3>2
    <3> QED  BY <1>a, <1>b, <2>1, <2>2, <3>1, <3>2, <3>3 DEF DateInv
  <2>4. CASE pc = "sleep_end"
    <3>1. EndIn <= 0 /\ EndIn >= 0 /\ pc' = "on_first"
      BY <1>d, <1>2, <2>4 DEF Wake
    <3>2. Today
      BY <2>4 DEF DateInv
    <3>3. now = End
      BY <1>a, <1>b, <3>1, <3>2
    <3> QED  BY <1>a, <1>b, <2>1, <2>2, <3>1, <3>2, <3>3 DEF DateInv
  <2> QED  BY <1>2, <2>3, <2>4 DEF Wake
<1>3. ASSUME NEW outcome \in Outcomes, PostEnds(outcome)
      PROVE  DateInv'
  <2>1. /\ pc \in Posts /\ pc' = AfterPost(pc) /\ waited' = 0
        /\ UNCHANGED <<now, noon_in>>
    BY <1>3 DEF PostEnds
  <2> QED  BY <1>a, <1>b, <1>d, <2>1
           DEF AfterPost, UntilEnd, IsAhead, DateInv, Today
<1>4. CASE NextNoon
  <2>1. noon_in' = Noon - now + Day /\ pc = "next" /\ pc' = "loop" /\ now' = now
    BY <1>a, <1>b, <1>4 DEF NextNoon, NoonIsIn
  <2> QED  BY <2>1 DEF DateInv, Tomorrow
<1>5. CASE NoonFails
  BY <1>5 DEF NoonFails, DateInv
<1>6. CASE Tick
  <2>1. now' = (IF now = Day - 1 THEN 0 ELSE now + 1)
    BY <1>b, <1>6, NextTick DEF Tick
  <2>2. /\ pc' = pc /\ TimeMayPass
        /\ pc # "down" => noon_in' = noon_in - 1
        /\ pc \in Posts => waited' = waited + 1
    BY <1>6 DEF Tick
  <2>3. CASE pc = "sleep_start"
    BY <1>a, <1>b, <2>1, <2>2, <2>3 DEF DateInv, Today, Tomorrow, TimeMayPass
  <2>4. CASE pc = "sleep_end"
    BY <1>a, <1>b, <2>1, <2>2, <2>4 DEF DateInv, Today, TimeMayPass
  <2>5. CASE pc \in Posts
    BY <1>a, <1>b, <1>d, <2>1, <2>2, <2>5 DEF DateInv, Today, TimeMayPass
  <2>6. CASE pc = "down"
    BY <2>2, <2>6 DEF DateInv
  <2> QED  BY <2>2, <2>3, <2>4, <2>5, <2>6 DEF TimeMayPass
<1>7. CASE Stop
  BY <1>7 DEF Stop, DateInv
<1>8. CASE Start
  <2>1. noon_in' = Noon - now /\ pc' = "loop" /\ now' = now /\ now \in StartTimes
    BY <1>a, <1>b, <1>8 DEF Start, NoonIsIn
  <2> QED  BY <2>1 DEF DateInv, Today, WithinDate
<1>9. CASE UNCHANGED vars
  BY <1>9 DEF vars, DateInv, Today, Tomorrow
<1> QED  BY <1>1, <1>2, <1>3, <1>4, <1>5, <1>6, <1>7, <1>8, <1>9 DEF Next, TaskStep, Over

\* If the window fits into the UTC date and the broker does not start at the
\* very end of one, no noon is skipped and none is dealt with twice.
THEOREM NoNoonIsSkipped ==
  ASSUME WithinDate
  PROVE  Spec => NextNoonIsNext
<1> DEFINE Turn == pc = "next" /\ pc' = "loop"
<1>1. ASSUME ClockInv, DateInv, [Next]_vars, Turn
      PROVE  noon_in' > 0 /\ noon_in' <= Day
  <2>1. NextNoon
    BY <1>1 DEF Next, TaskStep, Loop, Wake, PostEnds, NextNoon, NoonFails, Start, Tick, Stop,
                Over, vars, Posts
  <2>2. now \in 0 .. (Day - 1) /\ Day \in Nat \ {0} /\ Noon \in Nat /\ End \in Nat /\ Noon <= End
    BY <1>1, DeadlinesToday, WindowOfDate, ClockAssumption
  <2>3. noon_in' = Noon - now + Day
    BY <2>1, <2>2 DEF NextNoon, NoonIsIn
  <2>4. End <= now
    BY <1>1 DEF DateInv
  <2> QED  BY <2>2, <2>3, <2>4
<1>2. ClockInv /\ DateInv /\ [Next]_vars => [Turn => noon_in' > 0 /\ noon_in' <= Day]_vars
  BY <1>1
<1> QED  BY <1>2, InitEstablishesClockInv, NextKeepsClockInv, InitEstablishesDateInv,
            NextKeepsDateInv, PTL DEF Spec, NextNoonIsNext

-----------------------------------------------------------------------------
\* What the correlator does, and when.

AllOn  == \A s \in Stages : remote[s]
AllOff == \A s \in Stages : ~ remote[s]

\* What each stage does at each point, or why it may still do what it did when
\* the task was started.
SwitchInv ==
  /\ pc = "down" => uptime = 0
  /\ pc = "loop" => (Today /\ uptime = 0) \/ (Tomorrow /\ AllOn)
  /\ pc = "sleep_start" => AllOn \/ (Today /\ uptime <= now)
  /\ pc = "off_first"   => ~ remote["second"]
  /\ pc = "sleep_end"   => AllOff \/ uptime < now - Begin
  /\ pc = "on_first"    => now <= End + waited \/ uptime <= waited
  /\ pc = "on_second"   => /\ remote["first"]
                           /\ now <= End + MaxPost + waited \/ uptime <= MaxPost + waited
  /\ pc = "next" => AllOn
  /\ pc = "failed" => (AllOn /\ End <= now) \/ uptime = 0

\* A new process has not been up for any time.
LEMMA InitEstablishesSwitchInv == Init => SwitchInv
<1> SUFFICES ASSUME Init PROVE SwitchInv
  OBVIOUS
<1>1. pc = "loop" /\ uptime = 0 /\ noon_in = Noon - now
  BY ClockAssumption, RestartAssumption DEF Init, NoonIsIn
<1> QED  BY <1>1 DEF SwitchInv, Today

\* Every step keeps what the stages do.
LEMMA NextKeepsSwitchInv ==
  ASSUME WithinDate, Outcomes = {"ok"}
  PROVE  ClockInv /\ DateInv /\ SwitchInv /\ [Next]_vars => SwitchInv'
<1> SUFFICES ASSUME ClockInv, DateInv, SwitchInv, [Next]_vars PROVE SwitchInv'
  OBVIOUS
<1>a. /\ Day \in Nat \ {0} /\ MaxPost \in Nat /\ Noon \in Nat
      /\ Begin \in Nat /\ End \in Nat
      /\ Begin <= Noon /\ Noon <= End /\ Begin + 2 * MaxPost <= End
      /\ End + 2 * MaxPost < Day /\ End = Begin + Downtime
  BY WindowOfDate, ClockAssumption
<1>b. /\ now \in 0 .. (Day - 1) /\ noon_in \in Int /\ waited \in Nat
      /\ Today => StartIn = Begin - now /\ EndIn = End - now
      /\ Tomorrow => StartIn > 0
  BY DeadlinesToday
<1>c. uptime \in 0 .. Day /\ remote \in [Stages -> BOOLEAN]
  BY DEF ClockInv, TypeOK
<1>d. /\ pc \notin Posts \cup {"down"} => waited = 0
      /\ pc \in Posts => waited <= MaxPost
      /\ pc = "sleep_start" => StartIn >= 0
      /\ pc = "sleep_end"   => EndIn >= 0
  BY DEF ClockInv, DeadlineInv
<1> USE DEF Posts, Sleeps
<1>1. CASE Loop
  <2>1. /\ pc = "loop" /\ UNCHANGED <<now, noon_in, waited, remote, uptime>>
        /\ pc' = IF IsAhead(StartIn) THEN "sleep_start" ELSE UntilEnd
    BY <1>1 DEF Loop
  <2>2. (Today' <=> Today) /\ (AllOn' <=> AllOn)
    BY <2>1 DEF Today, AllOn
  <2>3. CASE Tomorrow /\ AllOn
    <3>1. StartIn \in Int /\ StartIn > 0
      BY <1>a, <1>b, <2>3, HalfOfDowntime, ClockAssumption DEF StartIn
    <3>2. pc' = "sleep_start"
      BY <2>1, <3>1 DEF IsAhead
    <3> QED  BY <2>2, <2>3, <3>2 DEF SwitchInv
  <2>4. CASE Today /\ uptime = 0
    <3>1. StartIn = Begin - now /\ EndIn = End - now
      BY <1>b, <2>4
    <3>2. CASE Begin >= now
      <4>1. pc' = "sleep_start"
        BY <1>a, <1>b, <2>1, <3>1, <3>2 DEF IsAhead
      <4> QED  BY <1>b, <2>1, <2>2, <2>4, <4>1 DEF SwitchInv
    <3>3. CASE Begin < now
      <4>1. pc' \in {"sleep_end", "on_first"}
        BY <1>a, <1>b, <2>1, <3>1, <3>3 DEF IsAhead, UntilEnd
      <4>2. 0 < now - Begin /\ uptime <= waited
        BY <1>a, <1>b, <2>4, <3>3
      <4> QED  BY <2>1, <2>4, <4>1, <4>2 DEF SwitchInv
    <3> QED  BY <1>a, <1>b, <3>2, <3>3
  <2> QED  BY <2>1, <2>3, <2>4 DEF SwitchInv
<1>2. CASE Wake
  <2>1. waited' = 0 /\ UNCHANGED <<now, noon_in, remote, uptime>>
    BY <1>2 DEF Wake
  <2>2. CASE pc = "sleep_start"
    BY <1>2, <2>2 DEF Wake, SwitchInv
  <2>3. CASE pc = "sleep_end"
    <3>1. EndIn <= 0 /\ EndIn >= 0 /\ pc' = "on_first"
      BY <1>d, <1>2, <2>3 DEF Wake
    <3>2. now = End
      BY <1>a, <1>b, <2>3, <3>1 DEF DateInv
    <3> QED  BY <1>a, <2>1, <3>1, <3>2 DEF SwitchInv
  <2> QED  BY <1>2, <2>2, <2>3 DEF Wake
<1>3. ASSUME NEW outcome \in Outcomes, PostEnds(outcome)
      PROVE  SwitchInv'
  <2>1. /\ pc \in Posts /\ pc' = AfterPost(pc) /\ waited' = 0
        /\ UNCHANGED <<now, noon_in, uptime>>
        /\ remote' = [remote EXCEPT ![StageOf(pc)] = ValueOf(pc)]
    BY <1>3 DEF PostEnds
  <2>2. CASE pc = "off_second"
    BY <1>c, <2>1, <2>2 DEF SwitchInv, AfterPost, StageOf, ValueOf, Stages
  <2>3. CASE pc = "off_first"
    <3>1. EndIn = End - now /\ now <= Begin + MaxPost + waited
      BY <1>b, <2>3 DEF DateInv
    <3>2. IsAhead(EndIn)
      BY <1>a, <1>b, <1>d, <2>3, <3>1 DEF IsAhead
    <3>3. pc' = "sleep_end"
      BY <2>1, <2>3, <3>2 DEF AfterPost, UntilEnd
    <3>4. AllOff'
      BY <1>c, <2>1, <2>3 DEF SwitchInv, AllOff, StageOf, ValueOf, Stages
    <3> QED  BY <3>3, <3>4 DEF SwitchInv
  <2>4. CASE pc = "on_first"
    <3>1. pc' = "on_second" /\ remote'["first"]
      BY <1>c, <2>1, <2>4 DEF AfterPost, StageOf, ValueOf, Stages
    <3>2. now <= End + MaxPost \/ uptime <= MaxPost
      BY <1>a, <1>b, <1>c, <1>d, <2>4 DEF SwitchInv
    <3> QED  BY <1>a, <2>1, <3>1, <3>2 DEF SwitchInv
  <2>5. CASE pc = "on_second"
    <3>1. pc' = "next" /\ AllOn'
      BY <1>c, <2>1, <2>5 DEF SwitchInv, AfterPost, AllOn, StageOf, ValueOf, Stages
    <3> QED  BY <3>1 DEF SwitchInv
  <2> QED  BY <2>1, <2>2, <2>3, <2>4, <2>5
<1>4. CASE NextNoon
  <2>1. /\ noon_in' = Noon - now + Day /\ pc = "next" /\ pc' = "loop"
        /\ UNCHANGED <<now, remote>>
    BY <1>a, <1>b, <1>4 DEF NextNoon, NoonIsIn
  <2> QED  BY <2>1 DEF SwitchInv, Tomorrow, AllOn
<1>5. CASE NoonFails
  <2>1. ~ (Today /\ Tomorrow)
    BY <1>a, <1>b, ClockAssumption DEF Today, Tomorrow
  <2>2. /\ pc = "next" \/ pc = "loop"
        /\ pc' = "failed" /\ UNCHANGED <<now, remote, uptime>>
    BY <1>5 DEF NoonFails
  <2>3. (AllOn /\ End <= now) \/ uptime = 0
    BY <2>1, <2>2 DEF DateInv, SwitchInv
  <2>4. (AllOn' /\ End <= now') \/ uptime' = 0
    BY <2>2, <2>3 DEF AllOn
  <2> QED  BY <2>2, <2>4 DEF SwitchInv
<1>6. CASE Tick
  <2>1. now' = (IF now = Day - 1 THEN 0 ELSE now + 1)
    BY <1>b, <1>6, NextTick DEF Tick
  <2>2. /\ pc' = pc /\ TimeMayPass /\ remote' = remote
        /\ pc # "down" => noon_in' = noon_in - 1
        /\ pc \in Posts => waited' = waited + 1
        /\ uptime' = (IF pc = "down" \/ uptime = Day THEN uptime ELSE uptime + 1)
    BY <1>6 DEF Tick
  <2>3. (AllOn' <=> AllOn) /\ (AllOff' <=> AllOff)
    BY <2>2 DEF AllOn, AllOff
  <2>4. CASE pc = "sleep_start"
    <3>1. CASE AllOn
      BY <2>2, <2>3, <2>4, <3>1 DEF SwitchInv
    <3>2. CASE Today /\ uptime <= now
      <4>1. now < Begin
        BY <1>a, <1>b, <2>2, <2>4, <3>2 DEF TimeMayPass
      <4>2. now' = now + 1
        BY <1>a, <1>b, <2>1, <4>1
      <4>3. Today' /\ uptime' <= now'
        BY <1>a, <1>b, <1>c, <2>2, <2>4, <3>2, <4>2 DEF Today
      <4> QED  BY <2>2, <2>4, <4>3 DEF SwitchInv
    <3> QED  BY <2>4, <3>1, <3>2 DEF SwitchInv
  <2>5. CASE pc = "sleep_end"
    <3>1. now < End
      BY <1>a, <1>b, <2>2, <2>5 DEF TimeMayPass, DateInv
    <3>2. now' = now + 1
      BY <1>a, <1>b, <2>1, <3>1
    <3>3. uptime < now - Begin => uptime' < now' - Begin
      BY <1>a, <1>b, <1>c, <2>2, <2>5, <3>2
    <3> QED  BY <2>2, <2>3, <2>5, <3>3 DEF SwitchInv
  <2>6. CASE pc = "off_first"
    BY <2>2, <2>6 DEF SwitchInv
  <2>7. CASE pc = "on_first"
    BY <1>a, <1>b, <1>c, <2>1, <2>2, <2>7 DEF SwitchInv
  <2>8. CASE pc = "on_second"
    BY <1>a, <1>b, <1>c, <2>1, <2>2, <2>8 DEF SwitchInv
  <2>9. CASE pc = "down"
    BY <2>2, <2>9 DEF SwitchInv
  <2>10. CASE pc = "off_second"
    BY <2>2, <2>10 DEF SwitchInv
  <2> QED  BY <2>2, <2>4, <2>5, <2>6, <2>7, <2>8, <2>9, <2>10 DEF TimeMayPass
<1>7. CASE Stop
  BY <1>7 DEF Stop, SwitchInv
<1>8. CASE Start
  <2>1. noon_in' = Noon - now /\ pc = "down" /\ pc' = "loop" /\ UNCHANGED <<now, uptime>>
    BY <1>a, <1>b, <1>8 DEF Start, NoonIsIn
  <2> QED  BY <2>1 DEF SwitchInv, Today
<1>9. CASE UNCHANGED vars
  BY <1>9 DEF vars, SwitchInv, Today, Tomorrow, AllOn, AllOff
<1> QED  BY <1>1, <1>2, <1>3, <1>4, <1>5, <1>6, <1>7, <1>8, <1>9 DEF Next, TaskStep, Over

\* The sun's clock and the UTC clock.
LEMMA SunAndDate ==
  ASSUME WithinDate, now \in 0 .. (Day - 1)
  PROVE  /\ SinceTransit = IF Begin <= now THEN now - Begin ELSE now - Begin + Day
         /\ TransitEnd = End
<1>1. /\ Day \in Nat \ {0} /\ Begin \in Nat /\ End \in Nat /\ End < Day /\ Begin < Day
      /\ now \in 0 .. (Day - 1)
  BY WindowOfDate
<1>2. SinceTransit = (now - Begin) % Day
  <2>1. now - Noon + Downtime \div 2 = now - Begin
    BY <1>1, ClockAssumption, HalfOfDowntime DEF Begin
  <2> QED  BY <2>1 DEF SinceTransit
<1>3. TransitEnd = End % Day
  BY DEF TransitEnd, End, Begin
<1>4. End % Day = End
  BY <1>1
<1>5. CASE Begin <= now
  <2>1. now - Begin \in 0 .. (Day - 1)
    BY <1>1, <1>5
  <2>2. (now - Begin) % Day = now - Begin
    BY <1>1, <2>1
  <2> QED  BY <1>2, <1>3, <1>4, <1>5, <2>2
<1>6. CASE ~ (Begin <= now)
  <2>1. now - Begin + Day \in 0 .. (Day - 1) /\ now - Begin \in - Day .. -1
    BY <1>1, <1>6
  <2>2. (now - Begin) % Day = now - Begin + Day
    BY <1>1, <2>1
  <2> QED  BY <1>2, <1>3, <1>4, <1>6, <2>2
<1> QED  BY <1>5, <1>6

\* The facts both theorems below need of a state.
SolarInv == ClockInv /\ DateInv /\ SwitchInv

\* They hold throughout.
LEMMA SolarInvHolds ==
  ASSUME WithinDate, Outcomes = {"ok"}
  PROVE  Spec => []SolarInv
<1>1. Init => SolarInv
  BY InitEstablishesClockInv, InitEstablishesDateInv, InitEstablishesSwitchInv DEF SolarInv
<1>2. SolarInv /\ [Next]_vars => SolarInv'
  BY NextKeepsClockInv, NextKeepsDateInv, NextKeepsSwitchInv DEF SolarInv
<1> QED  BY <1>1, <1>2, PTL DEF Spec

\* When the POSTs succeed, a task that was up when the transit began keeps both
\* stages off until it ends.
THEOREM StagesAreOffDuringTransit ==
  ASSUME WithinDate, Outcomes = {"ok"}
  PROVE  Spec => []OffDuringTransit
<1>1. SolarInv => OffDuringTransit
  <2> SUFFICES ASSUME SolarInv, SinceTransit > 2 * MaxPost, SinceTransit < Downtime,
                      uptime >= SinceTransit, pc # "down"
               PROVE  AllOff
    BY DEF OffDuringTransit, AllOff
  <2>1. /\ now \in 0 .. (Day - 1) /\ uptime \in 0 .. Day /\ waited \in Nat
        /\ pc \in Posts \cup Sleeps \cup {"loop", "next", "failed", "down"}
    BY DEF SolarInv, ClockInv, TypeOK
  <2>2. /\ Day \in Nat \ {0} /\ MaxPost \in Nat /\ Begin \in Nat /\ End \in Nat
        /\ End < Day /\ End = Begin + Downtime
        /\ Downtime \in Nat
    BY WindowOfDate
  <2>3. Begin + 2 * MaxPost < now /\ now < End /\ uptime >= now - Begin
    <3>1. SinceTransit = IF Begin <= now THEN now - Begin ELSE now - Begin + Day
      BY <2>1, SunAndDate
    <3>2. Begin <= now
      BY <2>1, <2>2, <3>1
    <3>3. SinceTransit = now - Begin
      BY <3>1, <3>2
    <3> QED  BY <2>1, <2>2, <3>3
  <2>4. pc \in Posts => waited <= MaxPost
    BY DEF SolarInv, ClockInv, DeadlineInv
  <2>5. pc = "sleep_end"
    <3>1. pc # "sleep_start"
      <4>1. ASSUME Today, pc = "sleep_start" PROVE FALSE
        <5>1. StartIn = Begin - now /\ StartIn >= 0
          BY <4>1, DeadlinesToday DEF SolarInv, ClockInv, DeadlineInv
        <5> QED  BY <2>1, <2>2, <2>3, <5>1
      <4> QED  BY <2>1, <2>2, <2>3, <4>1 DEF SolarInv, DateInv
    <3>2. pc \notin {"off_second", "off_first"}
      BY <2>1, <2>2, <2>3, <2>4 DEF SolarInv, DateInv, Posts
    <3>3. pc \notin {"on_first", "on_second", "next", "failed"}
      <4>1. uptime # 0
        BY <2>1, <2>2, <2>3
      <4> QED  BY <2>1, <2>2, <2>3, <4>1 DEF SolarInv, DateInv, SwitchInv
    <3>4. pc # "loop"
      <4>1. ~ (Today /\ Tomorrow)
        BY <2>1, <2>2, ClockAssumption DEF Today, Tomorrow
      <4>2. uptime # 0 /\ ~ (End <= now)
        BY <2>1, <2>2, <2>3
      <4> QED  BY <4>1, <4>2 DEF SolarInv, DateInv, SwitchInv
    <3> QED  BY <2>1, <3>1, <3>2, <3>3, <3>4 DEF Posts, Sleeps
  <2> QED  BY <2>1, <2>2, <2>3, <2>5 DEF SolarInv, SwitchInv
<1> QED  BY <1>1, SolarInvHolds, PTL

\* When the POSTs succeed, a task that has been up for more than two of them, and
\* at some time between the end of the window and the end of that UTC date, has
\* both stages on outside the transit, whatever they were when the broker was
\* started.  Nothing is said of a broker started after midnight, with the stages
\* off, until its first window is over.
THEOREM StagesAreOnOutsideTransit ==
  ASSUME WithinDate, Outcomes = {"ok"}
  PROVE  Spec => []OnOutsideTransit
<1>1. SolarInv => OnOutsideTransit
  <2> SUFFICES ASSUME SolarInv, SinceTransit > Downtime + 2 * MaxPost, uptime > 2 * MaxPost,
                      now >= TransitEnd \/ uptime > now, pc # "down"
               PROVE  AllOn
    BY DEF OnOutsideTransit, AllOn
  <2>1. /\ now \in 0 .. (Day - 1) /\ uptime \in 0 .. Day /\ waited \in Nat
        /\ pc \in Posts \cup Sleeps \cup {"loop", "next", "failed", "down"}
    BY DEF SolarInv, ClockInv, TypeOK
  <2>2. /\ Day \in Nat \ {0} /\ MaxPost \in Nat /\ Begin \in Nat /\ End \in Nat
        /\ Begin + 2 * MaxPost <= End /\ End < Day /\ End = Begin + Downtime
        /\ Downtime \in Nat
    BY WindowOfDate
  <2>3. now < Begin \/ now > End + 2 * MaxPost
    BY <2>1, <2>2, SunAndDate
  <2>4. now >= End \/ uptime > now
    BY <2>1, SunAndDate
  <2>5. pc \in Posts => waited <= MaxPost
    BY DEF SolarInv, ClockInv, DeadlineInv
  <2>6. CASE pc = "sleep_start"
    <3>1. ASSUME Today, uptime <= now PROVE FALSE
      <4>1. StartIn = Begin - now /\ StartIn >= 0
        BY <2>6, <3>1, DeadlinesToday DEF SolarInv, ClockInv, DeadlineInv
      <4> QED  BY <2>1, <2>2, <2>3, <2>4, <3>1, <4>1
    <3> QED  BY <2>6, <3>1 DEF SolarInv, SwitchInv
  <2>7. pc # "sleep_end"
    <3>1. ASSUME pc = "sleep_end" PROVE FALSE
      <4>1. Today /\ Begin <= now
        BY <3>1 DEF SolarInv, DateInv
      <4>2. EndIn = End - now /\ EndIn >= 0
        BY <3>1, <4>1, DeadlinesToday DEF SolarInv, ClockInv, DeadlineInv
      <4> QED  BY <2>1, <2>2, <2>3, <4>1, <4>2
    <3> QED  BY <3>1
  <2>8. pc \notin {"off_second", "off_first"}
    BY <2>1, <2>2, <2>3, <2>5 DEF SolarInv, DateInv, Posts
  <2>9. pc \notin {"on_first", "on_second"}
    <3>1. ASSUME pc \in {"on_first", "on_second"} PROVE FALSE
      <4>1. End <= now /\ waited <= MaxPost
        BY <2>5, <3>1 DEF SolarInv, DateInv, Posts
      <4>2. now <= End + 2 * MaxPost \/ uptime <= 2 * MaxPost
        BY <2>1, <2>2, <3>1, <4>1 DEF SolarInv, SwitchInv
      <4> QED  BY <2>1, <2>2, <2>3, <4>1, <4>2
    <3> QED  BY <3>1
  <2>10. CASE pc \in {"loop", "next", "failed"}
    BY <2>1, <2>2, <2>10 DEF SolarInv, SwitchInv
  <2> QED  BY <2>1, <2>6, <2>7, <2>8, <2>9, <2>10 DEF Posts, Sleeps
<1> QED  BY <1>1, SolarInvHolds, PTL

=============================================================================
