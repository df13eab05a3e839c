------------------------------- MODULE Metrics -------------------------------
(***************************************************************************)
(* The counters of Metrics in pkg/proxy/metrics.go and its ring of recent  *)
(* triggers, and what a poll of GET /v1/metrics makes of them.  (The gauge *)
(* of token velocity is TokenWindow.)                                      *)
(*                                                                         *)
(* Each counter is an atomic of its own, and the ring has a mutex of its   *)
(* own: a mark method and Snapshot are sequences of atomic steps, which    *)
(* those of other goroutines come between.                                 *)
(***************************************************************************)
EXTENDS Integers, Sequences

CONSTANTS
  Requests,    (* goroutines that serve requests                          *)
  Latencies,   (* upstream latencies                                      *)
  Savings,     (* costs saved by a block                                  *)
  TriggerCap,  (* triggerCap                                              *)
  MaxServed    (* bound: requests served                                  *)

MetricsConstants ==
  /\ Latencies \subseteq Nat /\ Savings \subseteq Nat
  /\ TriggerCap \in Nat \ {0} /\ MaxServed \in Nat

Counters == {"active", "requests", "loopBlocks", "savedCost", "latencyNs", "latencyN"}

VARIABLES
  counter,   (* the atomics                                               *)
  ring,      (* triggers.ring, oldest first                               *)
  todo,      (* of each request: the steps it has still to take           *)
  loads,     (* of the poll: what it has still to load                    *)
  snap,      (* what it has loaded: the average for latencyNs; and        *)
             (* settled, as it was when latencyN was loaded               *)
  value,     (* of each request: its latency, or what blocking it saved   *)
  served,    (* history: requests begun                                   *)
  settled,   (* history: the latencies of the samples latencyN counts     *)
  episodes   (* history: all triggers recorded                            *)

vars == <<counter, ring, todo, loads, snap, value, served, settled, episodes>>

Zero == [c \in Counters \cup {"settled", "triggers"} |-> IF c = "triggers" THEN <<>> ELSE 0]

Add(name, n) == [name |-> name, n |-> n]

(* Mutant: the sample counted before it is in the sum. *)
MarkForwardedEarly(latency) ==
  <<Add("requests", 1), Add("latencyN", 1), Add("latencyNs", latency)>>

MarkForwarded(latency) ==
  <<Add("requests", 1), Add("latencyNs", latency), Add("latencyN", 1)>>

MarkLoopBlocked(saved) == <<Add("loopBlocks", 1), Add("savedCost", saved)>>

RecordTrigger(saved) == <<Add("triggers", saved)>>

MarkDone == <<Add("active", -1)>>

(* push drops the oldest when the ring is over its cap. *)
Push(t) ==
  LET all == Append(ring, t)
  IN  IF Len(all) > TriggerCap THEN SubSeq(all, Len(all) - TriggerCap + 1, Len(all)) ELSE all

Marks(outcome, n) ==
  CASE outcome = "forwarded" -> MarkForwarded(n) \o MarkDone
    [] outcome = "blocked"   -> MarkLoopBlocked(n) \o RecordTrigger(n) \o MarkDone
    [] outcome = "neither"   -> MarkDone

-----------------------------------------------------------------------------
(* A request is served: markStart, and what it will do until its deferred   *)
(* markDone.  n is its latency or what blocking it saved.                   *)
Serve(r, outcome, n) ==
  /\ todo[r] = <<>> /\ served < MaxServed
  /\ served' = served + 1
  /\ counter' = [counter EXCEPT !["active"] = @ + 1]
  /\ todo' = [todo EXCEPT ![r] = Marks(outcome, n)]
  /\ value' = [value EXCEPT ![r] = n]
  /\ UNCHANGED <<ring, loads, snap, settled, episodes>>

(* Its next atomic step. *)
Mark(r) ==
  /\ todo[r] # <<>>
  /\ LET step == Head(todo[r]) IN
       /\ IF step.name = "triggers"
          THEN ring' = Push(step.n) /\ episodes' = Append(episodes, step.n) /\ UNCHANGED counter
          ELSE /\ counter' = [counter EXCEPT ![step.name] = @ + step.n]
               /\ UNCHANGED <<ring, episodes>>
       /\ settled' = IF step.name = "latencyN" THEN settled + value[r] ELSE settled
  /\ todo' = [todo EXCEPT ![r] = Tail(@)]
  /\ value' = [value EXCEPT ![r] = IF Len(todo[r]) = 1 THEN 0 ELSE @]
  /\ UNCHANGED <<loads, snap, served>>

(* Snapshot loads the number of samples, their sum only if there are any,   *)
(* the other counters in the order of its result's fields, and the ring.    *)
BeginSnapshot ==
  /\ loads = <<>>
  /\ loads' = (IF counter["latencyN"] > 0 THEN <<"latencyNs">> ELSE <<>>)
               \o <<"active", "requests", "loopBlocks", "savedCost", "triggers">>
  /\ snap' = [Zero EXCEPT !["latencyN"] = counter["latencyN"], !["settled"] = settled]
  /\ UNCHANGED <<counter, ring, todo, value, served, settled, episodes>>

Load ==
  /\ loads # <<>> /\ Head(loads) \in Counters
  /\ LET name == Head(loads) IN
       snap' = [snap EXCEPT ![name] =
                  IF name = "latencyNs" THEN counter[name] \div snap["latencyN"]
                  ELSE counter[name]]
  /\ loads' = Tail(loads)
  /\ UNCHANGED <<counter, ring, todo, value, served, settled, episodes>>

Newest(seq) == [i \in 1..Len(seq) |-> seq[Len(seq) + 1 - i]]

(* The last load: the ring, newest first. *)
LoadTriggers ==
  /\ loads = <<"triggers">>
  /\ snap' = [snap EXCEPT !["triggers"] = Newest(ring)]
  /\ loads' = <<"encode">>
  /\ UNCHANGED <<counter, ring, todo, value, served, settled, episodes>>

(* MetricsHandler answers with it. *)
Encode ==
  /\ loads = <<"encode">>
  /\ loads' = <<>> /\ snap' = Zero
  /\ UNCHANGED <<counter, ring, todo, value, served, settled, episodes>>

Init ==
  /\ counter = [c \in Counters |-> 0]
  /\ ring = <<>> /\ episodes = <<>>
  /\ todo = [r \in Requests |-> <<>>]
  /\ value = [r \in Requests |-> 0]
  /\ loads = <<>> /\ snap = Zero
  /\ served = 0 /\ settled = 0

Next ==
  \/ \E r \in Requests :
       \/ \E l \in Latencies : Serve(r, "forwarded", l)
       \/ \E s \in Savings : Serve(r, "blocked", s)
       \/ Serve(r, "neither", 0)
       \/ Mark(r)
  \/ BeginSnapshot \/ Load \/ LoadTriggers \/ Encode

Spec == Init /\ [][Next]_vars

-----------------------------------------------------------------------------
(* What a poll reports may be torn, but never so that it belies the work    *)
(* done: every latency sample it divides by is in the sum it divides, and   *)
(* belongs to a request it counts, so the average is at least that of the   *)
(* samples counted; and its triggers are the newest TriggerCap recorded, no *)
(* one of them missing, newest first.                                       *)
SnapshotIsOrdered ==
  [][LoadTriggers =>
       /\ snap["requests"] >= snap["latencyN"]
       /\ snap["latencyN"] > 0 => snap["latencyNs"] >= snap["settled"] \div snap["latencyN"]
       /\ LET k == Len(episodes) IN
            /\ Len(snap'["triggers"]) = (IF k < TriggerCap THEN k ELSE TriggerCap)
            /\ \A i \in DOMAIN snap'["triggers"] : snap'["triggers"][i] = episodes[k + 1 - i]]_vars
=============================================================================
