------------------------------- MODULE Scrapes -------------------------------
(***************************************************************************)
(* GET /metrics and GET /human-metrics of network/endpoints.rs, over the   *)
(* Metrics of state/metrics.rs, while the broker receives.                 *)
(*                                                                         *)
(* A scrape copies the moving average and the newest frames of sktilde_avg *)
(* and frac_flagged into three families of gauges, gauge by gauge, and     *)
(* then encodes the registry.  Nothing keeps scrapes apart: they share the *)
(* gauges.  A frame is its number in the order of publication, which is    *)
(* the same in the three buffers; the value of a gauge is the frame it is  *)
(* from.  All frames have the shape of the first, so that the length       *)
(* checks of update_from_slice pass.                                       *)
(***************************************************************************)
EXTENDS Integers, FiniteSets

CONSTANTS
  Clients,     \* who may send requests
  Gauges,      \* number of gauges in a family
  MaxFrames,   \* bound: frames that are published
  MaxPackets,  \* bound: packets that are counted
  Received     \* [1 .. MaxFrames -> the indices the mask of the frame has set]

ASSUME GaugesAssumption  == Gauges \in Nat \ {0}
ASSUME BoundsAssumption  == MaxFrames \in Nat /\ MaxPackets \in Nat
ASSUME ReceivedAssumption == Received \in [1 .. MaxFrames -> SUBSET (1 .. Gauges)]

VARIABLES
  newest,   \* [Stages -> the newest frame there, 0 if there is none]
  total,    \* packets received, the lost ones included
  lost,     \* packets lost
  losing,   \* the handler is between the two increments of inc_lost
  gauge,    \* [Families -> [1 .. Gauges -> value]]
  pc,       \* [Clients -> where the request is]
  family,   \* [Clients -> number of the family the scrape is at]
  next,     \* [Clients -> the gauge it sets next]
  reading,  \* [Clients -> [Families -> the frame it has read, 0 if none]]
  sources,  \* history: [Clients -> [Families -> frames read by scrapes that
            \* overlap with this one, its own included]]
  count     \* [Clients -> what human_metrics has read]

handlerVars == <<newest, total, lost, losing>>
scrapeVars  == <<pc, family, next, reading, sources>>
vars        == <<handlerVars, scrapeVars, gauge, count>>

Buffers  == {"frac_flagged", "sktilde_avg", "skbar_avg"}
Families == {"frac_flagged", "sktilde_avg", "bad_input_likelihood"}
Stages   == Buffers \cup Families

Frame == 1 .. MaxFrames

\* What a gauge can hold besides a frame: it does not exist, it is as
\* get_or_create made it, it is NaN.
Absent  == -1
Default == 0
NaN     == -2

Scraping(c) == pc[c] \in {"read", "create", "set", "encode"}

Init ==
  /\ newest = [s \in Stages |-> 0]
  /\ total = 0 /\ lost = 0 /\ losing = FALSE
  /\ gauge = [f \in Families |-> [g \in 1 .. Gauges |-> Absent]]
  /\ pc = [c \in Clients |-> "idle"]
  /\ family = [c \in Clients |-> 1]
  /\ next = [c \in Clients |-> 1]
  /\ reading = [c \in Clients |-> [f \in Families |-> 0]]
  /\ sources = [c \in Clients |-> [f \in Families |-> {}]]
  /\ count = [c \in Clients |-> [rejected |-> 0, total |-> 0]]

-----------------------------------------------------------------------------
\* The packet handler, and the task that averages.

\* Buffers::push and flush turn to a buffer once they are done with the ones
\* before it.
MayPublish(b) ==
  CASE b = "frac_flagged" -> newest["sktilde_avg"] = newest["skbar_avg"]
    [] b = "sktilde_avg"  -> newest["sktilde_avg"] < newest["frac_flagged"]
    [] b = "skbar_avg"    -> newest["sktilde_avg"] = newest["frac_flagged"]
                             /\ newest["skbar_avg"] < newest["sktilde_avg"]

Publish(b) ==
  /\ ~ losing
  /\ newest[b] < MaxFrames
  /\ MayPublish(b)
  /\ newest' = [newest EXCEPT ![b] = @ + 1]
  /\ UNCHANGED <<total, lost, losing, scrapeVars, gauge, count>>

\* The moving average has a further frame of skbar_avg in it.  The first need
\* not be the first that was published.
Average ==
  /\ \E n \in Frame :
       /\ newest["bad_input_likelihood"] < n /\ n <= newest["skbar_avg"]
       /\ newest["bad_input_likelihood"] # 0 => n = newest["bad_input_likelihood"] + 1
       /\ newest' = [newest EXCEPT !["bad_input_likelihood"] = n]
  /\ UNCHANGED <<total, lost, losing, scrapeVars, gauge, count>>

\* A packet was pushed.
inc_recv ==
  /\ ~ losing
  /\ total < MaxPackets
  /\ total' = total + 1
  /\ UNCHANGED <<newest, lost, losing, scrapeVars, gauge, count>>

\* Defect: lost first.
LostFirst(first) ==
  IF first THEN lost' = lost + 1 /\ total' = total ELSE total' = total + 1 /\ lost' = lost

\* The two counters of a lost packet, in the order they are incremented.
Increment(first) ==
  IF first THEN total' = total + 1 /\ lost' = lost ELSE lost' = lost + 1 /\ total' = total

inc_lost ==
  /\ total < MaxPackets \/ losing
  /\ Increment(~ losing)
  /\ losing' = ~ losing
  /\ UNCHANGED <<newest, scrapeVars, gauge, count>>

-----------------------------------------------------------------------------
\* GET /metrics.

\* Defect: the data is read in the order in which it is published.
DownTheStream(k) == <<"frac_flagged", "sktilde_avg", "bad_input_likelihood">>[k]

\* The order in which a scrape reads.
FamilyAt(k) == <<"bad_input_likelihood", "sktilde_avg", "frac_flagged">>[k]

StartScrape(c) ==
  /\ pc[c] = "idle"
  /\ pc' = [pc EXCEPT ![c] = "read"]
  /\ sources' = [sources EXCEPT ![c] =
       [f \in Families |-> {reading[d][f] : d \in Clients} \ {0}]]
  /\ UNCHANGED <<handlerVars, family, next, reading, gauge, count>>

\* Scrape c is done with its family.
Proceed(c) ==
  /\ pc' = [pc EXCEPT ![c] = IF family[c] = 3 THEN "encode" ELSE "read"]
  /\ family' = [family EXCEPT ![c] = IF @ = 3 THEN 1 ELSE @ + 1]

\* Clone the average or the newest frame, if there is one.
Read(c) ==
  LET f == FamilyAt(family[c])
  IN  /\ pc[c] = "read"
      /\ IF newest[f] = 0
         THEN Proceed(c) /\ UNCHANGED <<reading, sources>>
         ELSE /\ pc' = [pc EXCEPT ![c] = "create"]
              /\ reading' = [reading EXCEPT ![c][f] = newest[f]]
              /\ sources' = [d \in Clients |->
                   IF Scraping(d) THEN [sources[d] EXCEPT ![f] = @ \cup {newest[f]}]
                   ELSE sources[d]]
              /\ UNCHANGED family
      /\ UNCHANGED <<handlerVars, next, gauge, count>>

\* handles.get_or_init: one of the scrapes that get here first makes the gauges.
Create(c) ==
  LET f == FamilyAt(family[c])
  IN  /\ pc[c] = "create"
      /\ pc' = [pc EXCEPT ![c] = "set"]
      /\ gauge' = IF \A g \in 1 .. Gauges : gauge[f][g] = Absent
                  THEN [gauge EXCEPT ![f] = [g \in 1 .. Gauges |-> Default]]
                  ELSE gauge
      /\ UNCHANGED <<handlerVars, family, next, reading, sources, count>>

\* The likelihoods have no mask.
Valid(f, n, g) == f = "bad_input_likelihood" \/ g \in Received[n]

ValueOf(f, n, g) == IF Valid(f, n, g) THEN n ELSE NaN

\* Defect: a gauge without a sample keeps its value.
KeepInvalid(f, n, g) == IF Valid(f, n, g) THEN n ELSE gauge[f][g]

\* What update_from_slice writes.
Written(f, n, g) == ValueOf(f, n, g)

Set(c) ==
  LET f == FamilyAt(family[c])
      g == next[c]
  IN  /\ pc[c] = "set"
      /\ gauge' = [gauge EXCEPT ![f][g] = Written(f, reading[c][f], g)]
      /\ next' = [next EXCEPT ![c] = IF @ = Gauges THEN 1 ELSE @ + 1]
      /\ IF g = Gauges THEN Proceed(c) ELSE UNCHANGED <<pc, family>>
      /\ UNCHANGED <<handlerVars, reading, sources, count>>

\* The answer is complete.  encode reads the gauges one by one, at any moment
\* before this.
Encoded(c) ==
  /\ pc[c] = "encode"
  /\ pc' = [pc EXCEPT ![c] = "idle"]
  /\ reading' = [reading EXCEPT ![c] = [f \in Families |-> 0]]
  /\ sources' = [sources EXCEPT ![c] = [f \in Families |-> {}]]
  /\ UNCHANGED <<handlerVars, family, next, gauge, count>>

-----------------------------------------------------------------------------
\* GET /human-metrics.

ReadLost(c) ==
  /\ pc[c] = "idle"
  /\ pc' = [pc EXCEPT ![c] = "lost"]
  /\ count' = [count EXCEPT ![c].rejected = lost]
  /\ UNCHANGED <<handlerVars, family, next, reading, sources, gauge>>

ReadTotal(c) ==
  /\ pc[c] = "lost"
  /\ pc' = [pc EXCEPT ![c] = "answer"]
  /\ count' = [count EXCEPT ![c].total = total]
  /\ UNCHANGED <<handlerVars, family, next, reading, sources, gauge>>

Answer(c) ==
  /\ pc[c] = "answer"
  /\ pc' = [pc EXCEPT ![c] = "idle"]
  /\ count' = [count EXCEPT ![c] = [rejected |-> 0, total |-> 0]]
  /\ UNCHANGED <<handlerVars, family, next, reading, sources, gauge>>

-----------------------------------------------------------------------------

Handler == inc_recv \/ inc_lost \/ \E b \in Buffers : Publish(b)

Client(c) ==
  \/ StartScrape(c) \/ Read(c) \/ Create(c) \/ Set(c) \/ Encoded(c)
  \/ ReadLost(c) \/ ReadTotal(c) \/ Answer(c)

Next == Handler \/ Average \/ \E c \in Clients : Client(c)

Spec == Init /\ [][Next]_vars

-----------------------------------------------------------------------------
\* Properties.

TypeOK ==
  /\ newest \in [Stages -> 0 .. MaxFrames]
  /\ total \in 0 .. MaxPackets /\ lost \in 0 .. total /\ losing \in BOOLEAN
  /\ gauge \in [Families -> [1 .. Gauges -> Frame \cup {Absent, Default, NaN}]]
  /\ pc \in [Clients -> {"idle", "read", "create", "set", "encode", "lost", "answer"}]
  /\ family \in [Clients -> 1 .. 3]
  /\ next \in [Clients -> 1 .. Gauges]
  /\ reading \in [Clients -> [Families -> 0 .. MaxFrames]]
  /\ sources \in [Clients -> [Families -> SUBSET Frame]]
  /\ count \in [Clients -> [rejected : 0 .. MaxPackets, total : 0 .. MaxPackets]]

\* human_metrics never tells of more rejected samples than there were samples,
\* whatever is counted between its two reads: the order of the increments and
\* that of the reads go together.
RejectedWithinTotal ==
  \A c \in Clients : pc[c] = "answer" => count[c].rejected <= count[c].total

\* While a scrape that has read a frame for a family encodes the registry, each
\* gauge of the family holds what a frame has there, NaN if nothing was
\* received, and the frame was read by this scrape or by one that overlaps with
\* it: never what an older scrape left, nor the value a gauge is made with.
\* Scrapes that do not overlap export single frames.
ExportsWhatScrapesRead ==
  \A c \in Clients, f \in Families : pc[c] = "encode" /\ reading[c][f] # 0 =>
    \A g \in 1 .. Gauges : \E n \in sources[c][f] : gauge[f][g] = ValueOf(f, n, g)

\* A scrape goes against the direction of the data: if it has a likelihood, the
\* frames it has read of the two other families are not older than the frames
\* that went into it.
ScrapeFollowsData ==
  \A c \in Clients : pc[c] = "encode" =>
    /\ reading[c]["bad_input_likelihood"] <= reading[c]["sktilde_avg"]
    /\ reading[c]["sktilde_avg"] <= reading[c]["frac_flagged"]

=============================================================================
