---------------------------- MODULE ScrapesProofs ----------------------------
(***************************************************************************)
(* Theorems about Scrapes, for every set of clients, every number of       *)
(* gauges, frames and packets, and every mask.                             *)
(***************************************************************************)
EXTENDS Scrapes, TLAPS

\* Scrape c is past its k-th family; it has read it; it has set gauge g of it.
Past(c, k) ==
  pc[c] = "encode" \/ (pc[c] \in {"read", "create", "set"} /\ k < family[c])
HasRead(c, k) == Past(c, k) \/ (pc[c] \in {"create", "set"} /\ family[c] = k)
HasSet(c, k, g) ==
  Past(c, k) \/ (pc[c] = "set" /\ family[c] = k /\ g < next[c])

\* total runs ahead of lost by the packet that is being counted, and a reader
\* that has seen lost will see at least as much in total.
CountInv ==
  /\ losing => lost < total
  /\ \A c \in Clients : pc[c] = "lost" => count[c].rejected <= total
  /\ RejectedWithinTotal

\* Counters of a request that is not there are at their start.
PlaceInv ==
  \A c \in Clients :
    /\ pc[c] \notin {"read", "create", "set"} => family[c] = 1
    /\ pc[c] # "set" => next[c] = 1

\* What a scrape holds is a frame it has read, all scrapes it overlaps with
\* know of it, and the gauges it has set come from such frames.
SourceInv ==
  /\ \A c \in Clients, k \in 1 .. 3 : ~ HasRead(c, k) => reading[c][FamilyAt(k)] = 0
  /\ \A c \in Clients : pc[c] \in {"create", "set"} => reading[c][FamilyAt(family[c])] # 0
  /\ \A c, d \in Clients, f \in Families :
       Scraping(c) /\ reading[d][f] # 0 => reading[d][f] \in sources[c][f]

GaugeInv ==
  \A c \in Clients, k \in 1 .. 3, g \in 1 .. Gauges :
    HasSet(c, k, g) /\ reading[c][FamilyAt(k)] # 0 =>
      \E n \in sources[c][FamilyAt(k)] :
        gauge[FamilyAt(k)][g] = ValueOf(FamilyAt(k), n, g)

\* The stages follow each other, and so do the readings.
StreamInv ==
  /\ newest["bad_input_likelihood"] <= newest["skbar_avg"]
  /\ newest["skbar_avg"] <= newest["sktilde_avg"]
  /\ newest["sktilde_avg"] <= newest["frac_flagged"]

OrderInv ==
  \A c \in Clients :
    /\ \A f \in Families : reading[c][f] <= newest[f]
    /\ HasRead(c, 2) => reading[c]["bad_input_likelihood"] <= reading[c]["sktilde_avg"]
    /\ HasRead(c, 3) => reading[c]["sktilde_avg"] <= reading[c]["frac_flagged"]

IInv ==
  TypeOK /\ CountInv /\ PlaceInv /\ SourceInv /\ GaugeInv /\ StreamInv /\ OrderInv

-----------------------------------------------------------------------------

\* The three families and the order in which they are read.
LEMMA FamiliesInOrder ==
  /\ \A k \in 1 .. 3 : FamilyAt(k) \in Families
  /\ \A f \in Families : \E k \in 1 .. 3 : f = FamilyAt(k)
  /\ \A j, k \in 1 .. 3 : FamilyAt(j) = FamilyAt(k) => j = k
  /\ FamilyAt(1) = "bad_input_likelihood"
  /\ FamilyAt(2) = "sktilde_avg"
  /\ FamilyAt(3) = "frac_flagged"
<1>1. /\ FamilyAt(1) = "bad_input_likelihood"
      /\ FamilyAt(2) = "sktilde_avg"
      /\ FamilyAt(3) = "frac_flagged"
  BY DEF FamilyAt
<1>2. \A k \in 1 .. 3 : k = 1 \/ k = 2 \/ k = 3
  OBVIOUS
<1> QED  BY <1>1, <1>2 DEF Families

\* What a scrape writes says that it comes from a frame.
LEMMA ValuesAreWritten ==
  ASSUME NEW f \in Families, NEW n \in Frame, NEW g \in 1 .. Gauges
  PROVE  /\ Written(f, n, g) = ValueOf(f, n, g)
         /\ ValueOf(f, n, g) \in Frame \cup {NaN}
         /\ ValueOf(f, n, g) # Absent
BY DEF Written, ValueOf, Frame, NaN, Absent, BoundsAssumption, Valid

\* Type correctness is inductive together with the counters.
LEMMA StepKeepsTypes ==
  ASSUME TypeOK, CountInv, SourceInv, [Next]_vars
  PROVE  TypeOK'
<1> USE BoundsAssumption, GaugesAssumption DEF TypeOK
<1>1. ASSUME NEW b \in Buffers, Publish(b) PROVE TypeOK'
  <2>1. newest' \in [Stages -> 0 .. MaxFrames]
    BY <1>1 DEF Publish, Buffers, Stages
  <2> QED  BY <1>1, <2>1 DEF Publish, scrapeVars
<1>2. ASSUME Average PROVE TypeOK'
  <2>1. newest' \in [Stages -> 0 .. MaxFrames]
    BY <1>2 DEF Average, Frame, Stages, Families
  <2> QED  BY <1>2, <2>1 DEF Average, scrapeVars
<1>3. ASSUME inc_recv PROVE TypeOK'
  BY <1>3 DEF inc_recv, scrapeVars
<1>4. ASSUME inc_lost PROVE TypeOK'
  BY <1>4 DEF inc_lost, Increment, scrapeVars, CountInv
<1>5. ASSUME NEW c \in Clients, StartScrape(c) PROVE TypeOK'
  <2>1. sources' \in [Clients -> [Families -> SUBSET Frame]]
    BY <1>5 DEF StartScrape, Frame
  <2> QED  BY <1>5, <2>1 DEF StartScrape, handlerVars
<1>6. ASSUME NEW c \in Clients, Proceed(c)
      PROVE  /\ pc' \in [Clients -> {"idle", "read", "create", "set", "encode", "lost", "answer"}]
             /\ family' \in [Clients -> 1 .. 3]
  <2>1. family[c] \in 1 .. 3
    OBVIOUS
  <2>2. (IF family[c] = 3 THEN 1 ELSE family[c] + 1) \in 1 .. 3
    BY <2>1
  <2>3. family' = [family EXCEPT ![c] = IF family[c] = 3 THEN 1 ELSE family[c] + 1]
    BY <1>6 DEF Proceed
  <2>4. family' \in [Clients -> 1 .. 3]
    BY <2>2, <2>3
  <2>5. (IF family[c] = 3 THEN "encode" ELSE "read") \in {"read", "encode"}
    OBVIOUS
  <2>6. pc' = [pc EXCEPT ![c] = IF family[c] = 3 THEN "encode" ELSE "read"]
    BY <1>6 DEF Proceed
  <2>7. pc' \in [Clients -> {"idle", "read", "create", "set", "encode", "lost", "answer"}]
    BY <2>5, <2>6
  <2> QED  BY <2>4, <2>7
<1>7. ASSUME NEW c \in Clients, Read(c) PROVE TypeOK'
  <2> DEFINE f == FamilyAt(family[c])
  <2>1. f \in Families /\ f \in Stages
    BY FamiliesInOrder DEF Stages
  <2>2. newest[f] \in 0 .. MaxFrames
    BY <2>1
  <2>3. UNCHANGED <<newest, total, lost, losing, next, gauge, count>>
    BY <1>7 DEF Read, handlerVars
  <2>4. CASE newest[f] = 0
    BY <1>6, <1>7, <2>3, <2>4 DEF Read
  <2>5. CASE newest[f] # 0
    <3>1. newest[f] \in Frame
      BY <2>2, <2>5 DEF Frame
    <3>2. /\ pc' = [pc EXCEPT ![c] = "create"]
          /\ reading' = [reading EXCEPT ![c][f] = newest[f]]
          /\ sources' = [d \in Clients |->
               IF Scraping(d) THEN [sources[d] EXCEPT ![f] = @ \cup {newest[f]}]
               ELSE sources[d]]
          /\ family' = family
      BY <1>7, <2>5 DEF Read
    <3> HIDE DEF f
    <3>3. sources' \in [Clients -> [Families -> SUBSET Frame]]
      BY <2>1, <3>1, <3>2
    <3>4. reading' \in [Clients -> [Families -> 0 .. MaxFrames]]
      BY <2>1, <2>2, <3>2
    <3> QED  BY <2>3, <3>2, <3>3, <3>4
  <2> QED  BY <2>4, <2>5
<1>8. ASSUME NEW c \in Clients, Create(c) PROVE TypeOK'
  <2>1. gauge' \in [Families -> [1 .. Gauges -> Frame \cup {Absent, Default, NaN}]]
    BY <1>8, FamiliesInOrder DEF Create
  <2> QED  BY <1>8, <2>1 DEF Create, handlerVars
<1>9. ASSUME NEW c \in Clients, Set(c) PROVE TypeOK'
  <2> DEFINE f == FamilyAt(family[c])
  <2>1. f \in Families /\ next[c] \in 1 .. Gauges
    BY FamiliesInOrder
  <2>2. reading[c][f] \in Frame
    BY <1>9, <2>1 DEF Set, SourceInv, Frame
  <2>3. Written(f, reading[c][f], next[c]) \in Frame \cup {NaN}
    BY <2>1, <2>2, ValuesAreWritten
  <2>4. gauge' \in [Families -> [1 .. Gauges -> Frame \cup {Absent, Default, NaN}]]
    BY <1>9, <2>1, <2>3 DEF Set
  <2>5. next' \in [Clients -> 1 .. Gauges]
    BY <1>9 DEF Set
  <2>6. /\ pc' \in [Clients -> {"idle", "read", "create", "set", "encode", "lost", "answer"}]
        /\ family' \in [Clients -> 1 .. 3]
    BY <1>6, <1>9 DEF Set
  <2> QED  BY <1>9, <2>4, <2>5, <2>6 DEF Set, handlerVars
<1>10. ASSUME NEW c \in Clients, Encoded(c) PROVE TypeOK'
  BY <1>10 DEF Encoded, handlerVars
<1>11. ASSUME NEW c \in Clients, ReadLost(c) \/ ReadTotal(c) \/ Answer(c) PROVE TypeOK'
  <2>1. lost \in 0 .. MaxPackets /\ total \in 0 .. MaxPackets
    OBVIOUS
  <2>2. count' \in [Clients -> [rejected : 0 .. MaxPackets, total : 0 .. MaxPackets]]
    <3> DEFINE Counts == [rejected : 0 .. MaxPackets, total : 0 .. MaxPackets]
    <3>1. count \in [Clients -> Counts] /\ count[c] \in Counts
      OBVIOUS
    <3>2. /\ [count[c] EXCEPT !.rejected = lost] \in Counts
          /\ [count[c] EXCEPT !.total = total] \in Counts
          /\ [rejected |-> 0, total |-> 0] \in Counts
      <4> DEFINE old == count[c]
      <4>1. old \in Counts /\ 0 \in 0 .. MaxPackets
        BY <3>1
      <4> HIDE DEF old
      <4>2. [old EXCEPT !.rejected = lost] \in Counts
        BY <2>1, <4>1
      <4>3. [old EXCEPT !.total = total] \in Counts
        BY <2>1, <4>1
      <4>4. [rejected |-> 0, total |-> 0] \in Counts
        BY <4>1
      <4> QED  BY <4>2, <4>3, <4>4 DEF old
    <3>3. \/ count' = [count EXCEPT ![c] = [count[c] EXCEPT !.rejected = lost]]
          \/ count' = [count EXCEPT ![c] = [count[c] EXCEPT !.total = total]]
          \/ count' = [count EXCEPT ![c] = [rejected |-> 0, total |-> 0]]
      BY <1>11 DEF ReadLost, ReadTotal, Answer
    <3> HIDE DEF Counts
    <3>4. count' \in [Clients -> Counts]
      BY <3>1, <3>2, <3>3
    <3> QED  BY <3>4 DEF Counts
  <2> QED  BY <1>11, <2>2 DEF ReadLost, ReadTotal, Answer, handlerVars
<1>12. CASE UNCHANGED vars
  BY <1>12 DEF vars, handlerVars, scrapeVars
<1> QED  BY <1>1, <1>2, <1>3, <1>4, <1>5, <1>7, <1>8, <1>9, <1>10, <1>11, <1>12
         DEF Next, Handler, Client

\* Requests do not touch the counters, the handler does not touch requests.
LEMMA HandlerKeepsRequests ==
  ASSUME Handler \/ Average
  PROVE  UNCHANGED <<scrapeVars, gauge, count>>
BY DEF Handler, Publish, Average, inc_recv, inc_lost

\* Requests read the counters and do not change them.
LEMMA ClientKeepsCounters ==
  ASSUME NEW c \in Clients, Client(c)
  PROVE  UNCHANGED handlerVars
BY DEF Client, StartScrape, Read, Create, Set, Encoded, ReadLost, ReadTotal, Answer

\* inc_lost increments total first, and human_metrics reads lost first.
LEMMA StepKeepsCountInv ==
  ASSUME TypeOK, CountInv, [Next]_vars
  PROVE  CountInv'
<1> USE DEF CountInv, RejectedWithinTotal
<1>1. total \in Nat /\ lost \in Nat /\ lost <= total /\ losing \in BOOLEAN
  BY BoundsAssumption DEF TypeOK
<1>2. \A c \in Clients : count[c].rejected \in Nat
  BY BoundsAssumption DEF TypeOK
<1>3. ASSUME Handler \/ Average PROVE CountInv'
  <2>1. /\ UNCHANGED <<pc, count>>
        /\ total <= total' /\ (losing' => lost' < total')
    <3>1. UNCHANGED <<pc, count>>
      BY <1>3, HandlerKeepsRequests DEF scrapeVars
    <3>2. CASE inc_recv
      BY <3>1, <3>2, <1>1 DEF inc_recv
    <3>3. CASE inc_lost
      <4>1. CASE losing
        <5>1. total' = total /\ losing' = FALSE
          BY <3>3, <4>1 DEF inc_lost, Increment
        <5> QED  BY <1>1, <3>1, <5>1
      <4>2. CASE ~ losing
        <5>1. total' = total + 1 /\ lost' = lost
          BY <3>3, <4>2 DEF inc_lost, Increment
        <5> QED  BY <1>1, <3>1, <5>1
      <4> QED  BY <4>1, <4>2
    <3>4. CASE Average \/ \E b \in Buffers : Publish(b)
      BY <3>1, <3>4, <1>1 DEF Average, Publish
    <3> QED  BY <1>3, <3>1, <3>2, <3>3, <3>4 DEF Handler
  <2>2. total' \in Nat
    BY <1>1, <1>3 DEF Handler, Average, Publish, inc_recv, inc_lost, Increment
  <2> QED  BY <1>1, <1>2, <2>1, <2>2
<1>4. ASSUME NEW c \in Clients, Client(c) PROVE CountInv'
  <2>1. UNCHANGED <<total, lost, losing>>
    BY <1>4, ClientKeepsCounters DEF handlerVars
  <2>2. CASE ReadLost(c)
    BY <1>1, <2>1, <2>2 DEF ReadLost, TypeOK
  <2>3. CASE ReadTotal(c)
    BY <1>1, <2>1, <2>3 DEF ReadTotal, TypeOK
  <2>4. CASE Answer(c)
    BY <2>1, <2>4 DEF Answer, TypeOK
  <2>5. ASSUME count' = count,
               \A d \in Clients : pc'[d] \in {"lost", "answer"} => pc'[d] = pc[d]
        PROVE  CountInv'
    BY <2>1, <2>5
  <2>6. CASE StartScrape(c) \/ Read(c) \/ Create(c) \/ Set(c) \/ Encoded(c)
    <3>1. count' = count
      BY <2>6 DEF StartScrape, Read, Create, Set, Encoded
    <3>2. \E stage \in {"idle", "read", "create", "set", "encode"} :
            pc' = [pc EXCEPT ![c] = stage] \/ pc' = pc
      BY <2>6 DEF StartScrape, Read, Create, Set, Encoded, Proceed
    <3>3. \A d \in Clients : pc'[d] \in {"lost", "answer"} => pc'[d] = pc[d]
      BY <3>2 DEF TypeOK
    <3> QED  BY <2>5, <3>1, <3>3
  <2> QED  BY <1>4, <2>2, <2>3, <2>4, <2>6 DEF Client
<1>5. CASE UNCHANGED vars
  BY <1>5 DEF vars, handlerVars, scrapeVars
<1> QED  BY <1>3, <1>4, <1>5 DEF Next

\* The place of a scrape after one of its steps: only that scrape moves.
LEMMA StepKeepsPlaceInv ==
  ASSUME TypeOK, PlaceInv, [Next]_vars
  PROVE  PlaceInv'
<1> USE DEF PlaceInv
<1>1. ASSUME Handler \/ Average PROVE PlaceInv'
  BY <1>1, HandlerKeepsRequests DEF scrapeVars
<1>2. ASSUME NEW c \in Clients, Client(c) PROVE PlaceInv'
  <2> USE DEF TypeOK
  <2>1. CASE StartScrape(c) \/ Create(c) \/ Encoded(c)
    BY <2>1 DEF StartScrape, Create, Encoded
  <2>2. CASE ReadLost(c) \/ ReadTotal(c) \/ Answer(c)
    BY <2>2 DEF ReadLost, ReadTotal, Answer
  <2>3. CASE Read(c)
    BY <2>3 DEF Read, Proceed
  <2>4. CASE Set(c)
    BY <2>4 DEF Set, Proceed
  <2> QED  BY <1>2, <2>1, <2>2, <2>3, <2>4 DEF Client
<1>3. CASE UNCHANGED vars
  BY <1>3 DEF vars, scrapeVars
<1> QED  BY <1>1, <1>2, <1>3 DEF Next

\* Where a step of scrape c takes it: what it has read and set afterwards.
LEMMA ProgressOfStep ==
  ASSUME TypeOK, PlaceInv, NEW c \in Clients, Client(c), NEW k \in 1 .. 3
  PROVE  /\ \A d \in Clients \ {c} : HasRead(d, k)' = HasRead(d, k)
         /\ \A d \in Clients \ {c}, g \in 1 .. Gauges : HasSet(d, k, g)' = HasSet(d, k, g)
         /\ StartScrape(c) => ~ HasRead(c, k)'
         /\ Read(c) => (HasRead(c, k)' <=> HasRead(c, k) \/ k = family[c])
         /\ Create(c) \/ Set(c) => (HasRead(c, k)' <=> HasRead(c, k))
         /\ ~ (StartScrape(c) \/ Read(c) \/ Create(c) \/ Set(c)) => ~ HasRead(c, k)'
         /\ \A g \in 1 .. Gauges : HasSet(c, k, g)' =>
              \/ HasSet(c, k, g) /\ (Read(c) \/ Create(c) \/ Set(c))
              \/ Read(c) /\ k = family[c] /\ newest[FamilyAt(k)] = 0
              \/ Set(c) /\ k = family[c] /\ g = next[c]
<1> USE DEF HasRead, HasSet, Past, TypeOK, PlaceInv
<1>1. ASSUME NEW d \in Clients \ {c}
      PROVE  pc'[d] = pc[d] /\ family'[d] = family[d] /\ next'[d] = next[d]
  BY DEF Client, StartScrape, Read, Create, Set, Encoded, ReadLost, ReadTotal, Answer, Proceed
<1>2. /\ StartScrape(c) => /\ pc[c] = "idle" /\ pc' = [pc EXCEPT ![c] = "read"]
                           /\ UNCHANGED <<family, next>>
      /\ Read(c) => /\ pc[c] = "read"
                    /\ \/ newest[FamilyAt(family[c])] = 0 /\ Proceed(c)
                       \/ pc' = [pc EXCEPT ![c] = "create"] /\ UNCHANGED family
                    /\ UNCHANGED next
      /\ Create(c) => /\ pc[c] = "create" /\ pc' = [pc EXCEPT ![c] = "set"]
                      /\ UNCHANGED <<family, next>>
      /\ Set(c) => /\ pc[c] = "set"
                   /\ next' = [next EXCEPT ![c] = IF @ = Gauges THEN 1 ELSE @ + 1]
                   /\ IF next[c] = Gauges THEN Proceed(c) ELSE UNCHANGED <<pc, family>>
  BY DEF StartScrape, Read, Create, Set
<1>3. CASE StartScrape(c)
  <2>1. pc[c] = "idle" /\ pc'[c] = "read" /\ family'[c] = 1
    BY <1>2, <1>3
  <2>2. ~ HasRead(c, k)' /\ \A g \in 1 .. Gauges : ~ HasSet(c, k, g)'
    BY <2>1
  <2>3. ~ Read(c) /\ ~ Create(c) /\ ~ Set(c)
    BY <1>2, <2>1
  <2> QED  BY <1>1, <1>3, <2>2, <2>3
<1>4. CASE Read(c)
  BY <1>1, <1>2, <1>4 DEF Proceed
<1>5. CASE Create(c) \/ Set(c)
  BY <1>1, <1>2, <1>5, GaugesAssumption DEF Proceed
<1>6. CASE Encoded(c) \/ ReadLost(c) \/ ReadTotal(c) \/ Answer(c)
  BY <1>1, <1>6 DEF StartScrape, Read, Create, Set, Encoded, ReadLost, ReadTotal, Answer
<1> QED  BY <1>3, <1>4, <1>5, <1>6 DEF Client

\* Every scrape that is under way learns of every frame that is read.
LEMMA StepKeepsSourceInv ==
  ASSUME TypeOK, PlaceInv, SourceInv, [Next]_vars
  PROVE  SourceInv'
<1>1. ASSUME UNCHANGED <<pc, family, next, reading, sources>> PROVE SourceInv'
  BY <1>1 DEF SourceInv, HasRead, Past, Scraping
<1>2. ASSUME NEW c \in Clients, Client(c) PROVE SourceInv'
  <2> DEFINE Unread(d, k)  == reading[d][FamilyAt(k)] = 0
             Known(b, d, f) == Scraping(b) /\ reading[d][f] # 0 => reading[d][f] \in sources[b][f]
  <2> SUFFICES ASSUME NEW d \in Clients
               PROVE  /\ \A k \in 1 .. 3 : ~ HasRead(d, k)' => Unread(d, k)'
                      /\ pc'[d] \in {"create", "set"} => reading'[d][FamilyAt(family'[d])] # 0
                      /\ \A b \in Clients, f \in Families : Known(b, d, f)'
    BY DEF SourceInv
  <2>1. /\ \A k \in 1 .. 3 : ~ HasRead(d, k) => Unread(d, k)
        /\ pc[d] \in {"create", "set"} => reading[d][FamilyAt(family[d])] # 0
        /\ \A b \in Clients, f \in Families : Known(b, d, f)
    BY DEF SourceInv
  <2>2. \A k \in 1 .. 3 :
          /\ d # c => HasRead(d, k)' = HasRead(d, k)
          /\ Read(c) => (HasRead(c, k)' <=> HasRead(c, k) \/ k = family[c])
          /\ Create(c) \/ Set(c) => (HasRead(c, k)' <=> HasRead(c, k))
    BY <1>2, ProgressOfStep
  <2>3. family[c] \in 1 .. 3 /\ family[d] \in 1 .. 3
    BY DEF TypeOK
  <2>4. CASE StartScrape(c)
    <3>1. /\ pc' = [pc EXCEPT ![c] = "read"]
          /\ sources' = [sources EXCEPT ![c] =
               [f \in Families |-> {reading[b][f] : b \in Clients} \ {0}]]
          /\ UNCHANGED <<family, reading>> /\ pc[c] = "idle"
      BY <2>4 DEF StartScrape
    <3>2. \A k \in 1 .. 3 : ~ HasRead(c, k)
      BY <3>1 DEF HasRead, Past
    <3>3. \A k \in 1 .. 3 : ~ HasRead(d, k)' => Unread(d, k)'
      BY <2>1, <2>2, <3>1, <3>2
    <3>4. pc'[d] \in {"create", "set"} => reading'[d][FamilyAt(family'[d])] # 0
      BY <2>1, <3>1 DEF TypeOK
    <3>5. \A b \in Clients, f \in Families : Known(b, d, f)'
      BY <2>1, <3>1 DEF Scraping, TypeOK
    <3> QED  BY <3>3, <3>4, <3>5
  <2>5. CASE Read(c)
    <3> DEFINE g == FamilyAt(family[c])
    <3>1. g \in Families /\ newest[g] \in Nat
      BY <2>3, FamiliesInOrder, BoundsAssumption DEF TypeOK, Stages
    <3>2. pc[c] = "read" /\ ~ HasRead(c, family[c])
      BY <2>3, <2>5 DEF Read, HasRead, Past
    <3>3. CASE newest[g] = 0
      <4>1. Proceed(c) /\ UNCHANGED <<reading, sources>>
        BY <2>5, <3>3 DEF Read
      <4>2. \A k \in 1 .. 3 : ~ HasRead(d, k)' => Unread(d, k)'
        BY <2>1, <2>2, <2>5, <4>1
      <4>3. /\ pc'[c] \notin {"create", "set"}
            /\ d # c => pc'[d] = pc[d] /\ family'[d] = family[d]
            /\ \A b \in Clients : Scraping(b)' = Scraping(b)
        BY <3>2, <4>1 DEF Proceed, Scraping, TypeOK
      <4> QED  BY <2>1, <4>1, <4>2, <4>3
    <3>4. CASE newest[g] # 0
      <4>1. /\ pc' = [pc EXCEPT ![c] = "create"]
            /\ reading' = [reading EXCEPT ![c][g] = newest[g]]
            /\ sources' = [b \in Clients |->
                 IF Scraping(b) THEN [sources[b] EXCEPT ![g] = @ \cup {newest[g]}]
                 ELSE sources[b]]
            /\ family' = family
        BY <2>5, <3>4 DEF Read
      <4> HIDE DEF g
      <4>2. \A b \in Clients : Scraping(b)' = Scraping(b)
        BY <3>2, <4>1 DEF Scraping, TypeOK
      <4>3. /\ \A f \in Families : reading'[d][f] =
                 IF d = c /\ f = g THEN newest[g] ELSE reading[d][f]
            /\ \A b \in Clients, f \in Families : sources'[b][f] =
                 IF Scraping(b) /\ f = g THEN sources[b][f] \cup {newest[g]}
                 ELSE sources[b][f]
        BY <3>1, <4>1 DEF TypeOK
      <4>4. \A k \in 1 .. 3 : ~ HasRead(d, k)' => Unread(d, k)'
        BY <2>1, <2>2, <2>3, <2>5, <4>3, FamiliesInOrder DEF g
      <4>5. pc'[d] \in {"create", "set"} => reading'[d][FamilyAt(family'[d])] # 0
        BY <2>1, <2>3, <3>4, <4>1, <4>3, FamiliesInOrder DEF TypeOK, g
      <4>6. \A b \in Clients, f \in Families : Known(b, d, f)'
        BY <2>1, <4>2, <4>3
      <4> QED  BY <4>4, <4>5, <4>6
    <3> QED  BY <3>3, <3>4
  <2>6. CASE Create(c) \/ Set(c)
    <3>1. UNCHANGED <<reading, sources>>
      BY <2>6 DEF Create, Set
    <3>2. \A b \in Clients : Scraping(b)' = Scraping(b)
      BY <2>6 DEF Create, Set, Proceed, Scraping, TypeOK
    <3>3. /\ pc'[c] \in {"create", "set"} => family'[c] = family[c]
          /\ d # c => pc'[d] = pc[d] /\ family'[d] = family[d]
          /\ pc[c] \in {"create", "set"}
      BY <2>6 DEF Create, Set, Proceed, TypeOK
    <3>4. \A k \in 1 .. 3 : ~ HasRead(d, k)' => Unread(d, k)'
      BY <2>1, <2>2, <2>6, <3>1
    <3>5. \A b \in Clients, f \in Families : Known(b, d, f)'
      BY <2>1, <3>1, <3>2
    <3> QED  BY <2>1, <3>1, <3>3, <3>4, <3>5
  <2>7. CASE Encoded(c)
    <3>1. /\ pc' = [pc EXCEPT ![c] = "idle"] /\ family' = family
          /\ reading' = [reading EXCEPT ![c] = [f \in Families |-> 0]]
          /\ sources' = [sources EXCEPT ![c] = [f \in Families |-> {}]]
      BY <2>7 DEF Encoded
    <3>2. \A f \in Families : reading'[d][f] = IF d = c THEN 0 ELSE reading[d][f]
      BY <3>1 DEF TypeOK
    <3>3. \A k \in 1 .. 3 : ~ HasRead(d, k)' => Unread(d, k)'
      BY <2>1, <2>2, <3>2, FamiliesInOrder
    <3>4. pc'[d] \in {"create", "set"} => reading'[d][FamilyAt(family'[d])] # 0
      BY <2>1, <2>3, <3>1, <3>2, FamiliesInOrder DEF TypeOK
    <3>5. \A b \in Clients, f \in Families : Known(b, d, f)'
      BY <2>1, <3>1, <3>2 DEF Scraping, TypeOK
    <3> QED  BY <3>3, <3>4, <3>5
  <2>8. CASE ReadLost(c) \/ ReadTotal(c) \/ Answer(c)
    <3>1. UNCHANGED <<family, reading, sources>>
      BY <2>8 DEF ReadLost, ReadTotal, Answer
    <3>2. /\ pc[c] \in {"idle", "lost", "answer"} /\ pc'[c] \in {"idle", "lost", "answer"}
          /\ \A b \in Clients \ {c} : pc'[b] = pc[b]
      BY <2>8 DEF ReadLost, ReadTotal, Answer, TypeOK
    <3>3. \A b \in Clients : Scraping(b)' = Scraping(b)
      BY <3>2 DEF Scraping
    <3>4. \A k \in 1 .. 3 : HasRead(d, k)' = HasRead(d, k)
      BY <3>1, <3>2 DEF HasRead, Past
    <3> QED  BY <2>1, <3>1, <3>2, <3>3, <3>4
  <2> QED  BY <1>2, <2>4, <2>5, <2>6, <2>7, <2>8 DEF Client
<1>3. ASSUME Handler \/ Average PROVE SourceInv'
  BY <1>1, <1>3, HandlerKeepsRequests DEF scrapeVars
<1>4. CASE UNCHANGED vars
  BY <1>1, <1>4 DEF vars, scrapeVars
<1> QED  BY <1>2, <1>3, <1>4 DEF Next

\* A gauge a scrape has set holds the value of a frame the scrape knows of,
\* whoever sets it next.
LEMMA StepKeepsGaugeInv ==
  ASSUME TypeOK, PlaceInv, SourceInv, GaugeInv, [Next]_vars
  PROVE  GaugeInv'
<1> DEFINE Shown(d, f, g) == \E n \in sources[d][f] : gauge[f][g] = ValueOf(f, n, g)
<1>1. ASSUME UNCHANGED <<pc, family, next, reading, sources, gauge>> PROVE GaugeInv'
  BY <1>1 DEF GaugeInv, HasSet, Past
<1>2. ASSUME NEW c \in Clients, Client(c) PROVE GaugeInv'
  <2> SUFFICES ASSUME NEW d \in Clients, NEW k \in 1 .. 3, NEW g \in 1 .. Gauges,
                      HasSet(d, k, g)', reading'[d][FamilyAt(k)] # 0
               PROVE  Shown(d, FamilyAt(k), g)'
    BY DEF GaugeInv
  <2> DEFINE f == FamilyAt(k)
             h == FamilyAt(family[c])
  <2>1. f \in Families /\ h \in Families /\ family[c] \in 1 .. 3 /\ next[c] \in 1 .. Gauges
    BY FamiliesInOrder DEF TypeOK
  <2>2. HasSet(d, k, g) /\ reading[d][f] # 0 => Shown(d, f, g)
    BY DEF GaugeInv
  <2>3. /\ d # c => HasSet(d, k, g)
        /\ \/ HasSet(d, k, g)
           \/ d = c /\ Read(c) /\ k = family[c] /\ newest[f] = 0
           \/ d = c /\ Set(c) /\ k = family[c] /\ g = next[c]
    BY <1>2, ProgressOfStep
  <2>4. HasSet(d, k, g) => Scraping(d)
    BY DEF HasSet, Past, Scraping
  <2>5. reading[d][f] # 0 /\ Scraping(d) => reading[d][f] \in sources[d][f]
    BY <2>1 DEF SourceInv
  <2>6. CASE StartScrape(c) \/ Encoded(c) \/ ReadLost(c) \/ ReadTotal(c) \/ Answer(c)
    <3>1. d # c
      <4>1. ~ (Read(c) \/ Create(c) \/ Set(c))
        BY <2>6 DEF StartScrape, Encoded, ReadLost, ReadTotal, Answer, Read, Create, Set
      <4>2. ~ HasSet(c, k, g)'
        BY <1>2, <4>1, ProgressOfStep
      <4> QED  BY <4>2
    <3>2. gauge' = gauge /\ reading'[d] = reading[d] /\ sources'[d] = sources[d]
      BY <2>6, <3>1 DEF StartScrape, Encoded, ReadLost, ReadTotal, Answer, TypeOK
    <3> QED  BY <2>2, <2>3, <3>1, <3>2
  <2>7. CASE Read(c)
    <3>1. gauge' = gauge /\ sources[d][f] \subseteq sources'[d][f]
      <4>1. \/ sources' = sources
            \/ sources' = [b \in Clients |->
                 IF Scraping(b) THEN [sources[b] EXCEPT ![h] = @ \cup {newest[h]}]
                 ELSE sources[b]]
        BY <2>7 DEF Read
      <4>2. gauge' = gauge
        BY <2>7 DEF Read
      <4>3. sources[d] \in [Families -> SUBSET Frame]
        BY DEF TypeOK
      <4>4. sources'[d] = sources[d]
            \/ sources'[d] = [sources[d] EXCEPT ![h] = @ \cup {newest[h]}]
        BY <4>1
      <4> HIDE DEF f, h
      <4>5. f \in Families
        BY <2>1
      <4> QED  BY <4>2, <4>3, <4>4, <4>5
    <3>2. HasSet(d, k, g) => d # c \/ k # family[c]
      BY <2>7 DEF Read, HasSet, Past, TypeOK
    <3>3. CASE newest[h] = 0
      <4>1. reading' = reading
        BY <2>7, <3>3 DEF Read
      <4>2. HasSet(d, k, g)
        <5>1. d = c /\ k = family[c] => reading[d][f] = 0
          BY <2>1, <2>7 DEF SourceInv, Read, HasRead, Past
        <5>2. ~ Set(c)
          BY <2>7 DEF Read, Set
        <5> QED  BY <2>3, <4>1, <5>1, <5>2
      <4> QED  BY <2>2, <3>1, <4>1, <4>2
    <3>4. CASE newest[h] # 0
      <4>1. HasSet(d, k, g)
        <5>1. ~ Set(c)
          BY <2>7 DEF Read, Set
        <5> QED  BY <2>3, <3>4, <5>1
      <4>2. reading' = [reading EXCEPT ![c][h] = newest[h]]
        BY <2>7, <3>4 DEF Read
      <4>3. d = c => f # h
        BY <2>1, <3>2, <4>1, FamiliesInOrder
      <4>4. reading'[d][f] = reading[d][f]
        BY <2>1, <4>2, <4>3 DEF TypeOK
      <4> QED  BY <2>2, <3>1, <4>1, <4>4
    <3> QED  BY <3>3, <3>4
  <2>8. CASE Create(c)
    <3>1. /\ UNCHANGED <<reading, sources>>
          /\ gauge' = IF \A j \in 1 .. Gauges : gauge[h][j] = Absent
                      THEN [gauge EXCEPT ![h] = [j \in 1 .. Gauges |-> Default]]
                      ELSE gauge
      BY <2>8 DEF Create
    <3>2. HasSet(d, k, g)
      <4>1. ~ Read(c) /\ ~ Set(c)
        BY <2>8 DEF Create, Read, Set
      <4> QED  BY <2>3, <4>1
    <3>3. PICK n \in sources[d][f] : gauge[f][g] = ValueOf(f, n, g)
      BY <2>2, <3>1, <3>2
    <3>4. n \in Frame
      BY <2>1 DEF TypeOK
    <3>5. gauge[f][g] # Absent
      BY <2>1, <3>3, <3>4, ValuesAreWritten
    <3>6. gauge'[f] = gauge[f]
      BY <2>1, <3>1, <3>5 DEF TypeOK
    <3> QED  BY <3>1, <3>3, <3>6
  <2>9. CASE Set(c)
    <3> DEFINE m == reading[c][h]
    <3>1. /\ UNCHANGED <<reading, sources>> /\ pc[c] = "set"
          /\ gauge' = [gauge EXCEPT ![h][next[c]] = Written(h, m, next[c])]
      BY <2>9 DEF Set
    <3>2. m # 0 /\ Scraping(d) /\ Scraping(c)
      <4>1. d = c \/ HasSet(d, k, g)
        BY <2>3
      <4> QED  BY <2>4, <3>1, <4>1 DEF SourceInv, Scraping
    <3>3. m \in Frame /\ m \in sources[d][h]
      <4>1. m \in sources[d][h]
        BY <2>1, <3>2 DEF SourceInv
      <4> QED  BY <2>1, <4>1 DEF TypeOK
    <3>4. Written(h, m, next[c]) = ValueOf(h, m, next[c])
      BY <2>1, <3>3, ValuesAreWritten
    <3>5. CASE f = h /\ g = next[c]
      <4>1. gauge'[f][g] = ValueOf(f, m, g)
        BY <2>1, <3>1, <3>4, <3>5 DEF TypeOK
      <4> HIDE DEF m
      <4> QED  BY <3>1, <3>3, <3>5, <4>1
    <3>6. CASE ~ (f = h /\ g = next[c])
      <4>1. gauge'[f][g] = gauge[f][g]
        BY <2>1, <3>1, <3>6 DEF TypeOK
      <4>2. HasSet(d, k, g)
        <5>1. ~ Read(c)
          BY <2>9 DEF Read, Set
        <5> QED  BY <2>3, <3>6, <5>1
      <4> QED  BY <2>2, <3>1, <4>1, <4>2
    <3> QED  BY <3>5, <3>6
  <2> QED  BY <1>2, <2>6, <2>7, <2>8, <2>9 DEF Client
<1>3. ASSUME Handler \/ Average PROVE GaugeInv'
  BY <1>1, <1>3, HandlerKeepsRequests DEF scrapeVars
<1>4. CASE UNCHANGED vars
  BY <1>1, <1>4 DEF vars, scrapeVars
<1> QED  BY <1>2, <1>3, <1>4 DEF Next

\* The stages are served one after the other.
LEMMA StepKeepsStreamInv ==
  ASSUME TypeOK, StreamInv, [Next]_vars
  PROVE  /\ StreamInv'
         /\ \A f \in Stages : newest[f] <= newest'[f] /\ newest'[f] \in Nat
<1> USE BoundsAssumption DEF TypeOK, StreamInv, Stages, Buffers, Families
<1>1. ASSUME NEW b \in Buffers, Publish(b)
      PROVE  StreamInv' /\ \A f \in Stages : newest[f] <= newest'[f] /\ newest'[f] \in Nat
  <2>1. /\ newest' = [newest EXCEPT ![b] = @ + 1] /\ MayPublish(b)
        /\ newest \in [Stages -> Nat]
    BY <1>1 DEF Publish
  <2>2. CASE b = "frac_flagged"
    BY <2>1, <2>2 DEF MayPublish
  <2>3. CASE b = "sktilde_avg"
    <3>1. newest["sktilde_avg"] < newest["frac_flagged"]
      BY <2>1, <2>3 DEF MayPublish
    <3> QED  BY <2>1, <2>3, <3>1
  <2>4. CASE b = "skbar_avg"
    <3>1. newest["skbar_avg"] < newest["sktilde_avg"]
      BY <2>1, <2>4 DEF MayPublish
    <3> QED  BY <2>1, <2>4, <3>1
  <2> QED  BY <2>2, <2>3, <2>4
<1>2. ASSUME Average
      PROVE  StreamInv' /\ \A f \in Stages : newest[f] <= newest'[f] /\ newest'[f] \in Nat
  <2>1. PICK n \in Frame :
          /\ newest["bad_input_likelihood"] < n /\ n <= newest["skbar_avg"]
          /\ newest' = [newest EXCEPT !["bad_input_likelihood"] = n]
    BY <1>2 DEF Average
  <2>2. n \in Nat /\ newest \in [Stages -> Nat]
    BY DEF Frame
  <2> QED  BY <2>1, <2>2
<1>3. CASE newest' = newest
  BY <1>3
<1>4. inc_recv \/ inc_lost \/ (\E c \in Clients : Client(c)) \/ UNCHANGED vars => newest' = newest
  BY DEF inc_recv, inc_lost, Client, StartScrape, Read, Create, Set, Encoded, ReadLost,
         ReadTotal, Answer, handlerVars, vars
<1> QED  BY <1>1, <1>2, <1>3, <1>4 DEF Next, Handler

\* What a scrape reads later is not older than what it has read before.
LEMMA StepKeepsOrderInv ==
  ASSUME TypeOK, PlaceInv, SourceInv, StreamInv, OrderInv, [Next]_vars
  PROVE  OrderInv'
<1>1. /\ newest \in [Stages -> Nat] /\ Families \subseteq Stages
      /\ {"bad_input_likelihood", "sktilde_avg", "frac_flagged"} \subseteq Families
      /\ newest["bad_input_likelihood"] <= newest["sktilde_avg"]
      /\ newest["sktilde_avg"] <= newest["frac_flagged"]
  BY BoundsAssumption DEF TypeOK, StreamInv, Stages, Families, Buffers
<1>2. \A d \in Clients, f \in Families : reading[d][f] \in Nat
  BY BoundsAssumption DEF TypeOK
<1>3. ASSUME UNCHANGED <<pc, family, next, reading, sources>>,
             \A f \in Stages : newest[f] <= newest'[f] /\ newest'[f] \in Nat
      PROVE  OrderInv'
  BY <1>1, <1>2, <1>3 DEF OrderInv, HasRead, Past
<1>4. ASSUME NEW c \in Clients, Client(c) PROVE OrderInv'
  <2> SUFFICES ASSUME NEW d \in Clients
      PROVE  /\ \A f \in Families : reading'[d][f] <= newest'[f]
             /\ HasRead(d, 2)' => reading'[d]["bad_input_likelihood"] <= reading'[d]["sktilde_avg"]
             /\ HasRead(d, 3)' => reading'[d]["sktilde_avg"] <= reading'[d]["frac_flagged"]
    BY DEF OrderInv
  <2>1. newest' = newest
    BY <1>4 DEF Client, StartScrape, Read, Create, Set, Encoded, ReadLost, ReadTotal, Answer,
                handlerVars
  <2>2. /\ \A f \in Families : reading[d][f] <= newest[f]
        /\ HasRead(d, 2) => reading[d]["bad_input_likelihood"] <= reading[d]["sktilde_avg"]
        /\ HasRead(d, 3) => reading[d]["sktilde_avg"] <= reading[d]["frac_flagged"]
    BY DEF OrderInv
  <2>3. \A k \in 2 .. 3 :
          /\ d # c => HasRead(d, k)' = HasRead(d, k)
          /\ StartScrape(c) => ~ HasRead(c, k)'
          /\ Read(c) => (HasRead(c, k)' <=> HasRead(c, k) \/ k = family[c])
          /\ Create(c) \/ Set(c) => (HasRead(c, k)' <=> HasRead(c, k))
          /\ ~ (StartScrape(c) \/ Read(c) \/ Create(c) \/ Set(c)) => ~ HasRead(c, k)'
    BY <1>4, ProgressOfStep
  <2>4. CASE reading'[d] = reading[d] /\ ~ Read(c)
    <3>1. \A k \in 2 .. 3 : HasRead(d, k)' => HasRead(d, k)
      BY <2>3, <2>4
    <3> QED  BY <2>1, <2>2, <2>4, <3>1
  <2>5. CASE Encoded(c) /\ d = c
    <3>1. \A f \in Families : reading'[d][f] = 0
      BY <2>5 DEF Encoded, TypeOK
    <3> QED  BY <1>1, <2>1, <3>1
  <2>6. CASE Read(c)
    <3> DEFINE h == FamilyAt(family[c])
    <3>1. pc[c] = "read" /\ family[c] \in 1 .. 3
      BY <2>6 DEF Read, TypeOK
    <3>2. \A k \in 2 .. 3 : HasRead(c, k) <=> k < family[c]
      BY <3>1 DEF HasRead, Past
    <3>3. \/ newest[h] = 0 /\ reading' = reading
          \/ newest[h] # 0 /\ reading' = [reading EXCEPT ![c][h] = newest[h]]
      BY <2>6 DEF Read
    <3>4. h \in Families
      BY <3>1, FamiliesInOrder
    <3>5. CASE d # c
      <4>1. reading'[d] = reading[d]
        BY <3>3, <3>5 DEF TypeOK
      <4> QED  BY <2>1, <2>2, <2>3, <3>5, <4>1
    <3>6. CASE d = c
      <4> HIDE DEF h
      <4>1. \A f \in Families : reading'[c][f] =
              IF f = h /\ newest[h] # 0 THEN newest[h] ELSE reading[c][f]
        BY <3>3, <3>4 DEF TypeOK
      <4>2. \A f \in Families : reading[c][f] <= newest[f]
        BY <2>2, <3>6
      <4>3. \A f \in Families : reading'[c][f] =
              IF f = h THEN newest[h] ELSE reading[c][f]
        BY <1>1, <1>2, <3>4, <4>1, <4>2
      <4>4. \A f \in Families : reading'[c][f] <= newest'[f]
        BY <1>1, <2>1, <4>2, <4>3
      <4>5. \A k \in 2 .. 3 : HasRead(c, k)' => k <= family[c]
        BY <2>3, <2>6, <3>1, <3>2
      <4>6. /\ family[c] = 1 <=> h = "bad_input_likelihood"
            /\ family[c] = 2 <=> h = "sktilde_avg"
            /\ family[c] = 3 <=> h = "frac_flagged"
        BY <3>1, FamiliesInOrder DEF h
      <4>7. HasRead(c, 2)' => reading'[c]["bad_input_likelihood"] <= reading'[c]["sktilde_avg"]
        <5>1. CASE family[c] = 2
          BY <1>1, <1>2, <4>2, <4>3, <4>6, <5>1
        <5>2. CASE family[c] = 3
          BY <1>1, <2>2, <3>2, <3>6, <4>3, <4>6, <5>2
        <5> QED  BY <3>1, <4>5, <5>1, <5>2
      <4>8. HasRead(c, 3)' => reading'[c]["sktilde_avg"] <= reading'[c]["frac_flagged"]
        <5>1. CASE family[c] = 3
          BY <1>1, <1>2, <4>2, <4>3, <4>6, <5>1
        <5> QED  BY <3>1, <4>5, <5>1
      <4> QED  BY <3>6, <4>4, <4>7, <4>8
    <3> QED  BY <3>5, <3>6
  <2>7. ~ Read(c) => reading'[d] = reading[d] \/ (Encoded(c) /\ d = c)
    BY <1>4 DEF Client, StartScrape, Create, Set, Encoded, ReadLost, ReadTotal, Answer, TypeOK
  <2> QED  BY <2>4, <2>5, <2>6, <2>7
<1>5. \A f \in Stages : newest[f] <= newest'[f] /\ newest'[f] \in Nat
  BY StepKeepsStreamInv
<1>6. ASSUME Handler \/ Average PROVE OrderInv'
  BY <1>3, <1>5, <1>6, HandlerKeepsRequests DEF scrapeVars
<1>7. CASE UNCHANGED vars
  BY <1>3, <1>5, <1>7 DEF vars, scrapeVars
<1> QED  BY <1>4, <1>6, <1>7 DEF Next

-----------------------------------------------------------------------------

\* The types and the invariants that lead to the properties hold in every
\* reachable state.
THEOREM Invariance == Spec => []IInv
<1>1. Init => IInv
  <2> SUFFICES ASSUME Init PROVE IInv
    OBVIOUS
  <2> USE BoundsAssumption, GaugesAssumption DEF Init
  <2>1. TypeOK
    <3>1. newest \in [Stages -> 0 .. MaxFrames]
      OBVIOUS
    <3>2. gauge \in [Families -> [1 .. Gauges -> Frame \cup {Absent, Default, NaN}]]
      OBVIOUS
    <3>3. /\ total \in 0 .. MaxPackets /\ lost \in 0 .. total /\ losing \in BOOLEAN
          /\ count \in [Clients -> [rejected : 0 .. MaxPackets, total : 0 .. MaxPackets]]
      <4>1. 0 \in 0 .. MaxPackets /\ 0 \in 0 .. 0
        OBVIOUS
      <4>2. [rejected |-> 0, total |-> 0] \in [rejected : 0 .. MaxPackets, total : 0 .. MaxPackets]
        BY <4>1
      <4>3. /\ total \in 0 .. MaxPackets /\ losing \in BOOLEAN
            /\ lost = 0 /\ total = 0
        BY <4>1, Zenon
      <4> QED  BY <4>1, <4>2, <4>3, Zenon
    <3>4. /\ pc \in [Clients -> {"idle", "read", "create", "set", "encode", "lost", "answer"}]
          /\ family \in [Clients -> 1 .. 3] /\ next \in [Clients -> 1 .. Gauges]
      OBVIOUS
    <3>5. /\ reading \in [Clients -> [Families -> 0 .. MaxFrames]]
          /\ sources \in [Clients -> [Families -> SUBSET Frame]]
      OBVIOUS
    <3> QED  BY <3>1, <3>2, <3>3, <3>4, <3>5 DEF TypeOK
  <2>2. \A c \in Clients, k \in 1 .. 3, g \in 1 .. Gauges : ~ HasRead(c, k) /\ ~ HasSet(c, k, g)
    BY DEF HasRead, HasSet, Past
  <2>3. CountInv /\ PlaceInv
    BY DEF CountInv, PlaceInv, RejectedWithinTotal
  <2>4. \A c \in Clients, f \in Families : reading[c][f] = 0
    OBVIOUS
  <2>5. SourceInv /\ GaugeInv
    BY <2>2, <2>4, FamiliesInOrder DEF SourceInv, GaugeInv
  <2>6. StreamInv
    BY DEF StreamInv, Stages, Families, Buffers
  <2>7. OrderInv
    BY <2>2, <2>4 DEF OrderInv, Stages
  <2> QED  BY <2>1, <2>3, <2>5, <2>6, <2>7 DEF IInv
<1>2. IInv /\ [Next]_vars => IInv'
  BY StepKeepsTypes, StepKeepsCountInv, StepKeepsPlaceInv, StepKeepsSourceInv,
     StepKeepsGaugeInv, StepKeepsStreamInv, StepKeepsOrderInv DEF IInv
<1> QED  BY <1>1, <1>2, PTL DEF Spec

\* Requests and counters keep their types, and lost never passes total.
THEOREM TypeCorrect == Spec => []TypeOK
<1>1. IInv => TypeOK
  BY DEF IInv
<1> QED  BY <1>1, Invariance, PTL

\* human_metrics never answers that more was rejected than there was.
THEOREM RejectedNeverAboveTotal == Spec => []RejectedWithinTotal
<1>1. IInv => RejectedWithinTotal
  BY DEF IInv, CountInv
<1> QED  BY <1>1, Invariance, PTL

\* What /metrics answers was read by a scrape it overlaps with, gauge by gauge,
\* for any number of scrapes.
THEOREM ExportsAreOfScrapes == Spec => []ExportsWhatScrapesRead
<1>1. ASSUME IInv PROVE ExportsWhatScrapesRead
  <2> SUFFICES ASSUME NEW c \in Clients, NEW f \in Families,
                      pc[c] = "encode", reading[c][f] # 0, NEW g \in 1 .. Gauges
               PROVE  \E n \in sources[c][f] : gauge[f][g] = ValueOf(f, n, g)
    BY DEF ExportsWhatScrapesRead
  <2>1. PICK k \in 1 .. 3 : f = FamilyAt(k)
    BY FamiliesInOrder
  <2>2. HasSet(c, k, g)
    BY DEF HasSet, Past
  <2> QED  BY <1>1, <2>1, <2>2 DEF IInv, GaugeInv
<1> QED  BY <1>1, Invariance, PTL

\* A scrape never exports a likelihood with older frames than went into it.
THEOREM ScrapesFollowData == Spec => []ScrapeFollowsData
<1>1. ASSUME IInv PROVE ScrapeFollowsData
  <2>1. \A c \in Clients : pc[c] = "encode" => HasRead(c, 2) /\ HasRead(c, 3)
    BY DEF HasRead, Past
  <2> QED  BY <1>1, <2>1 DEF IInv, OrderInv, ScrapeFollowsData
<1> QED  BY <1>1, Invariance, PTL

=============================================================================
