---------------------------- MODULE HashDetector ----------------------------
(***************************************************************************)
(* The exact-hash loop detector, pkg/circuitbreaker/hash_detector.go.      *)
(*                                                                         *)
(* Every method of HashDetector holds the one mutex d.mu from its first to *)
(* its last statement and reads the clock inside it, so each method is one *)
(* atomic action here.  Time is counted in ticks; Second ticks make one    *)
(* second, so that rounding RetryAfter up to whole seconds is visible.     *)
(*                                                                         *)
(* seen is the Go map: a function whose domain is the set of tracked keys. *)
(* verdict is the CheckResult of the last Check.  alerts and passed are    *)
(* history variables: no action reads them.                                *)
(***************************************************************************)
EXTENDS Integers, FiniteSets

CONSTANTS
  Agents,       (* agent identities, the scope of a history               *)
  Fps,          (* request fingerprints                                   *)
  TTL,          (* length of the fixed window, in ticks                   *)
  MaxEntries,   (* d.max, the cap on tracked keys                         *)
  InitLimit,    (* the limit handed to NewHashDetector                    *)
  LimitInputs,  (* the values a caller may hand to SetLimit               *)
  Second,       (* ticks per second                                       *)
  MaxClock,     (* bound: the clock stops here                            *)
  MaxSightings  (* bound: sightings counted in one window                 *)

ASSUME DetectorAssumption ==
  /\ TTL \in Nat \ {0}
  /\ MaxEntries \in Nat \ {0}
  /\ InitLimit \in Int
  /\ LimitInputs \subseteq Int
  /\ Second \in Nat \ {0}
  /\ MaxClock \in Nat
  /\ MaxSightings \in Nat

VARIABLES
  now,      (* the clock d.now reads                                      *)
  seen,     (* d.seen                                                     *)
  limit,    (* d.limit                                                    *)
  verdict,  (* result of the last Check                                   *)
  alerts,   (* history: FirstBlock results since the key's window opened  *)
  passed    (* history: the passes of the key during the last TTL ticks,  *)
            (* as <<time, number in its window>>, since a live window of  *)
            (* it was last thrown away                                    *)

vars == <<now, seen, limit, verdict, alerts, passed>>

Keys == Agents \X Fps

(* Go's zero time.Time: no tick of the clock equals it. *)
ZeroTime == -1

(* entry: expires is fixed when the window opens; blockedAt and lastBlock  *)
(* stay zero until the count first reaches the limit.                      *)
Entry == [count     : Nat \ {0},
          expires   : Nat,
          blockedAt : Nat \cup {ZeroTime},
          lastBlock : Nat \cup {ZeroTime}]

NewEntry(t) == [count |-> 1, expires |-> t + TTL,
                blockedAt |-> ZeroTime, lastBlock |-> ZeroTime]

(* A non-positive limit becomes the default at construction, and is clamped *)
(* to 1 by SetLimit.                                                        *)
DefaultLimit == 2
ConstructedLimit(n) == IF n <= 0 THEN DefaultLimit ELSE n
(* Mutant: SetLimit forgets the clamp. *)
UnclampedLimit(n) == n

ClampedLimit(n) == IF n < 1 THEN 1 ELSE n

(* The limits the detector can ever run with; they are Go ints, so there is *)
(* a highest one.                                                           *)
LimitsInUse == {ConstructedLimit(InitLimit)} \cup {ClampedLimit(n) : n \in LimitInputs}

ASSUME LimitsAssumption == \E n \in LimitsInUse : \A m \in LimitsInUse : m <= n

Pass == [block |-> FALSE, first |-> FALSE, retryAfter |-> 0]

(* now.Before(expires): the window is still open. *)
Live(e) == now < e.expires

LiveKeys == {k \in DOMAIN seen : Live(seen[k])}

(* Mutant: RetryAfter rounds down. *)
FloorSeconds(ticks) == ticks \div Second

CeilSeconds(ticks) == (ticks + Second - 1) \div Second

-----------------------------------------------------------------------------
(* How many entries must go to make room for one more. *)
Excess == Cardinality(DOMAIN seen) - MaxEntries + 1

(* Mutant: evicting in map order. *)
EvictionsAnyOrder ==
  IF Excess <= 0 THEN {{}} ELSE {gone \in SUBSET DOMAIN seen : Cardinality(gone) = Excess}

(***************************************************************************)
(* evictIfNeeded deletes an entry with the smallest expires until fewer    *)
(* than MaxEntries are left; among equals Go's map order decides.  What it *)
(* deletes in total is a set of the right size none of whose members       *)
(* expires later than a survivor.                                          *)
(***************************************************************************)
Evictions ==
  IF Excess <= 0
  THEN {{}}
  ELSE {gone \in SUBSET DOMAIN seen :
          /\ Cardinality(gone) = Excess
          /\ \A k \in gone, l \in DOMAIN seen \ gone :
                seen[k].expires <= seen[l].expires}

(* Dropping a key whose window is open restarts its history of passes. *)
Forget(gone) ==
  [k \in Keys |-> IF k \in gone /\ k \in LiveKeys THEN {} ELSE passed[k]]

-----------------------------------------------------------------------------
(* Check on a key that is absent, or whose window is over: make room, then  *)
(* open a fresh window.  The request passes.                                *)
OpenWindow(k) ==
  /\ k \notin LiveKeys
  /\ \E gone \in Evictions :
       /\ seen' = [l \in (DOMAIN seen \ gone) \cup {k} |->
                     IF l = k THEN NewEntry(now) ELSE seen[l]]
       /\ passed' = [Forget(gone) EXCEPT ![k] = @ \cup {<<now, 1>>}]
  /\ verdict' = Pass
  /\ alerts' = [alerts EXCEPT ![k] = 0]
  /\ UNCHANGED <<now, limit>>

(* Check on a key whose window is open: count the sighting, and block once  *)
(* the count has reached the limit.                                         *)
Counted(e) ==
  LET n   == e.count + 1
      hit == n >= limit
  IN  [count     |-> n,
       expires   |-> e.expires,
       blockedAt |-> IF hit /\ e.blockedAt = ZeroTime THEN now ELSE e.blockedAt,
       lastBlock |-> IF hit THEN now ELSE e.lastBlock]

(* Mutants: blocking one sighting late, and taking a count equal to the     *)
(* limit for the first block.                                               *)
RepeatVerdictLate(e) ==
  IF e.count + 1 <= limit
  THEN Pass
  ELSE [block |-> TRUE, first |-> e.blockedAt = ZeroTime,
        retryAfter |-> CeilSeconds(e.expires - now)]

RepeatVerdictFirstByCount(e) ==
  IF e.count + 1 < limit
  THEN Pass
  ELSE [block |-> TRUE, first |-> e.count + 1 = limit,
        retryAfter |-> CeilSeconds(e.expires - now)]

RepeatVerdict(e) ==
  IF e.count + 1 < limit
  THEN Pass
  ELSE [block      |-> TRUE,
        first      |-> e.blockedAt = ZeroTime,
        retryAfter |-> CeilSeconds(e.expires - now)]

RepeatSighting(k) ==
  /\ k \in LiveKeys
  /\ seen[k].count < MaxSightings
  /\ seen' = [seen EXCEPT ![k] = Counted(@)]
  /\ verdict' = RepeatVerdict(seen[k])
  /\ alerts' = [alerts EXCEPT ![k] = IF verdict'.first THEN @ + 1 ELSE @]
  /\ passed' = [passed EXCEPT ![k] =
                   IF verdict'.block THEN @ ELSE @ \cup {<<now, seen'[k].count>>}]
  /\ UNCHANGED <<now, limit>>

Check(k) == OpenWindow(k) \/ RepeatSighting(k)

(* Keep only the keys in S. *)
Restricted(S) == [k \in S |-> seen[k]]

(* Reset: the DELETE /v1/agent/{id}/history operation. *)
Reset(a) ==
  LET gone == {k \in DOMAIN seen : k[1] = a}
  IN  /\ seen' = Restricted(DOMAIN seen \ gone)
      /\ passed' = Forget(gone)
      /\ UNCHANGED <<now, limit, verdict, alerts>>

SetLimit(n) ==
  /\ limit' = ClampedLimit(n)
  /\ UNCHANGED <<now, seen, verdict, alerts, passed>>

(* AgentStatus and BlockedAgents delete the expired entries they come       *)
(* across; what they report changes nothing.                                *)
SweepAgent(a) ==
  /\ seen' = Restricted({k \in DOMAIN seen : k[1] # a \/ Live(seen[k])})
  /\ UNCHANGED <<now, limit, verdict, alerts, passed>>

SweepAll ==
  /\ seen' = Restricted(LiveKeys)
  /\ UNCHANGED <<now, limit, verdict, alerts, passed>>

Tick ==
  /\ now < MaxClock
  /\ now' = now + 1
  /\ passed' = [k \in Keys |-> {p \in passed[k] : p[1] > now' - TTL}]
  /\ UNCHANGED <<seen, limit, verdict, alerts>>

Init ==
  /\ now = 0
  /\ seen = [k \in {} |-> NewEntry(0)]
  /\ limit = ConstructedLimit(InitLimit)
  /\ verdict = Pass
  /\ alerts = [k \in Keys |-> 0]
  /\ passed = [k \in Keys |-> {}]

Next ==
  \/ \E k \in Keys : Check(k)
  \/ \E a \in Agents : Reset(a) \/ SweepAgent(a)
  \/ \E n \in LimitInputs : SetLimit(n)
  \/ SweepAll
  \/ Tick

Spec == Init /\ [][Next]_vars

-----------------------------------------------------------------------------
(* The types of the variables; the map's keys are (agent, fp) pairs. *)
TypeOK ==
  /\ now \in 0..MaxClock
  /\ DOMAIN seen \subseteq Keys
  /\ seen \in [DOMAIN seen -> Entry]
  /\ limit \in Nat \ {0}
  /\ verdict \in [block : BOOLEAN, first : BOOLEAN, retryAfter : Nat]
  /\ alerts \in [Keys -> Nat]
  /\ passed \in [Keys -> SUBSET (Nat \X Nat)]

(* Whatever traffic arrives, the map never holds more than max entries:     *)
(* evictIfNeeded runs before every insertion, and a refresh of an expired   *)
(* key that is itself evicted puts it back in the room it left.             *)
BoundedMemory ==
  /\ IsFiniteSet(DOMAIN seen)
  /\ Cardinality(DOMAIN seen) <= MaxEntries

(* The timestamps of an entry fit together: its window opened in the past   *)
(* and lasts at most one TTL from now; a block lies inside the window it    *)
(* belongs to; first and last block are set together and in order, and only *)
(* on a repeat.                                                             *)
WindowShape ==
  \A k \in DOMAIN seen :
    LET e == seen[k] IN
      /\ e.expires <= now + TTL
      /\ e.blockedAt = ZeroTime <=> e.lastBlock = ZeroTime
      /\ e.blockedAt # ZeroTime =>
           /\ e.expires - TTL <= e.blockedAt
           /\ e.blockedAt <= e.lastBlock
           /\ e.lastBlock <= now
           /\ e.lastBlock < e.expires
           /\ e.count >= 2

(* One loop_blocked notification per incident: within one window Check      *)
(* answers FirstBlock at most once, however the limit is moved up and down  *)
(* meanwhile, and it has answered it exactly when blockedAt is set.         *)
OneAlertPerWindow ==
  \A k \in DOMAIN seen :
    alerts[k] = IF seen[k].blockedAt = ZeroTime THEN 0 ELSE 1

(* What a fixed window guarantees over a sliding one: as long as a key's    *)
(* history is not thrown away, no interval of length TTL contains more than *)
(* two windows' worth of passes, where one window lets through the first    *)
(* sighting and every repeat below the highest limit in use.                *)
WindowQuota(n) == IF n <= 2 THEN 1 ELSE n - 1

SlidingQuota ==
  \E n \in LimitsInUse :
    \A k \in Keys : Cardinality(passed[k]) <= 2 * WindowQuota(n)

(* A 429 carries a Retry-After that is honest: at least one second, late    *)
(* enough that the window is over when the client comes back, and not a     *)
(* whole second later than that.                                            *)
HonestRetryAfter ==
  [][\A k \in Keys :
       (RepeatSighting(k) /\ verdict'.block) =>
          /\ verdict'.retryAfter >= 1
          /\ now + verdict'.retryAfter * Second >= seen[k].expires
          /\ now + (verdict'.retryAfter - 1) * Second < seen[k].expires]_vars

(* A stuck agent that keeps sending does not prolong its own penalty: the   *)
(* end of a window that is still open never moves.                          *)
WindowNeverExtended ==
  [][\A k \in LiveKeys \cap DOMAIN seen' :
        seen'[k].expires = seen[k].expires]_vars

(* Only a Reset of its own agent, or pressure on a full map, can make the   *)
(* detector forget a key whose window is open; under pressure every expired *)
(* entry goes first, and refreshing a key that is already tracked never     *)
(* costs another key its open window.                                       *)
ForgetsDeadFirst ==
  [][\A k \in LiveKeys \ DOMAIN seen' :
       \/ Reset(k[1])
       \/ /\ Cardinality(DOMAIN seen) = MaxEntries
          /\ DOMAIN seen = LiveKeys
          /\ DOMAIN seen' \ DOMAIN seen # {}]_vars
=============================================================================
