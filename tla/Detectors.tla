----------------------------- MODULE Detectors ------------------------------
(***************************************************************************)
(* The exact-hash (HashDetector), structural (S), tool-cycle (T) and       *)
(* velocity (V) detectors, each on its own, and the metrics: the counters  *)
(* of what they block and let pass (M) and the token gauge (W).  They share*)
(* no state, so one specification holds all six: part says which of them   *)
(* is exercised in a behaviour, and the others rest.  Pipeline is about    *)
(* the interplay of the detectors.                                         *)
(***************************************************************************)
EXTENDS HashDetector, Sequences

CONSTANTS
  Others,        (* the agents of the other parts                         *)
  Solo,          (* the one of them that the tool-cycle part is about     *)
  OthersMemory,  (* cfg.MaxEntries of each of them                        *)
  SketchBodies, Near, ShingleSize, MaxShingles, SketchWindow, SketchLimit,
  SketchTTL, SketchSecond, SketchClock, SketchRequests,              (* S *)
  ToolBodies, MaxSeq, MaxPeriod, CycleLimit, ToolTTL, ToolSecond,
  ToolClock, MaxNames,                                               (* T *)
  TokenCounts, Window, ShortWindow, BurstTokens, SpikeFactor, MaxEvents,
  RateClock, MaxObserved,                                            (* V *)
  Latencies, Savings, TriggerCap, MaxServed,                         (* M *)
  Amounts, Buckets, Horizon, BootSecond, GaugeClock, MaxLag, MaxTokens (* W *)

VARIABLES
  part, clock,
  sketches, sketchVerdict, recent,     (* S *)
  tools, toolVerdict, hist, pushed, singles,                          (* T *)
  rates, rateVerdict, obs, alert,      (* V *)
  counter, ring, todo, value, loads, snap, served, settled, episodes, (* M *)
  second, buckets, last, call, stamp, amount, gauge, points, total    (* W *)

sketchVars == <<sketches, sketchVerdict, recent>>
toolVars   == <<tools, toolVerdict, hist, pushed, singles>>
rateVars   == <<rates, rateVerdict, obs, alert>>
meterVars  == <<counter, ring, todo, value, loads, snap, served, settled, episodes>>
gaugeVars  == <<second, buckets, last, call, stamp, amount, gauge, points, total>>
restVars   == <<sketchVars, toolVars, rateVars, meterVars, gaugeVars>>

S == INSTANCE StructuralHasher WITH
       Agents <- Others, Bodies <- SketchBodies, Window <- SketchWindow,
       Limit <- SketchLimit, TTL <- SketchTTL, MaxEntries <- OthersMemory,
       Second <- SketchSecond, MaxClock <- SketchClock, MaxRequests <- SketchRequests,
       now <- clock, seen <- sketches, verdict <- sketchVerdict

T == INSTANCE ToolMatcher WITH
       Agents <- {Solo}, Bodies <- ToolBodies, Limit <- CycleLimit, TTL <- ToolTTL,
       MaxEntries <- OthersMemory, Second <- ToolSecond, MaxClock <- ToolClock,
       now <- clock, states <- tools, verdict <- toolVerdict

V == INSTANCE VelocityBreaker WITH
       Agents <- Others, MaxEntries <- OthersMemory, MaxClock <- RateClock,
       now <- clock, states <- rates, verdict <- rateVerdict

M == INSTANCE Metrics WITH Requests <- Others

W == INSTANCE TokenWindow WITH
       Callers <- Others, Start <- BootSecond, MaxClock <- GaugeClock, now <- second,
       pc <- call

ASSUME PartsAssumption ==
  /\ S!StructuralConstants /\ T!ToolConstants /\ V!VelocityConstants
  /\ M!MetricsConstants /\ W!WindowConstants

-----------------------------------------------------------------------------
PartInit ==
  /\ part \in {"exact", "structural", "tools", "velocity", "metrics", "gauge"}
  /\ Init /\ S!Init /\ T!Init /\ V!Init /\ M!Init /\ W!Init

Exact == part = "exact" /\ Next /\ UNCHANGED <<part, clock, restVars>>
Structural ==
  part = "structural" /\ S!Next /\ UNCHANGED <<part, vars, toolVars, rateVars, meterVars, gaugeVars>>
Tools ==
  part = "tools" /\ T!Next /\ UNCHANGED <<part, vars, sketchVars, rateVars, meterVars, gaugeVars>>
Velocity ==
  part = "velocity" /\ V!Next /\ UNCHANGED <<part, vars, sketchVars, toolVars, meterVars, gaugeVars>>
Count ==
  /\ part = "metrics" /\ M!Next
  /\ UNCHANGED <<part, clock, vars, sketchVars, toolVars, rateVars, gaugeVars>>
Gauge ==
  /\ part = "gauge" /\ W!Next
  /\ UNCHANGED <<part, clock, vars, sketchVars, toolVars, rateVars, meterVars>>

PartNext == Exact \/ Structural \/ Tools \/ Velocity \/ Count \/ Gauge

PartSpec == PartInit /\ [][PartNext]_<<part, clock, vars, restVars>>

-----------------------------------------------------------------------------
(* The properties of S, T and V, stated in their modules: a loop that only  *)
(* changes its dynamic fields is stopped; tool cycles are blocked, and      *)
(* nothing but cycles; the running sums of the token rings are exact; and   *)
(* the tokens let through stay within the burst cap.                        *)
LoopQuota           == S!LoopQuota
BlocksCycles        == T!BlocksCycles
RingsAreExact       == V!RingsAreExact
AdmittedWithinBurst == V!AdmittedWithinBurst

(* One incident, one alert: FirstBlock is answered for the first block of a *)
(* window only (structural), and not again within a ShortWindow (velocity), *)
(* so a loop does not flood the notifier.                                   *)
AlertsAreRare == []S!FirstBlockIsFirst /\ V!IncidentsAreSpaced

(* Stated in Metrics: a torn snapshot does not belie the work done.         *)
SnapshotIsOrdered == M!SnapshotIsOrdered

(* Stated in TokenWindow: the gauge and the sparkline of a poll are exact.  *)
PollIsExact == W!PollIsExact
=============================================================================
