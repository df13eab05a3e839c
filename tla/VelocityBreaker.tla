-------------------------- MODULE VelocityBreaker ---------------------------
(***************************************************************************)
(* The token-velocity detector, pkg/circuitbreaker/velocity_breaker.go.    *)
(*                                                                         *)
(* Both methods hold v.mu throughout and CheckVelocity reads the clock     *)
(* inside it, so each is one atomic action.  The clock counts seconds.     *)
(* The two rates are compared by cross-multiplication, which is exact: the *)
(* rounding of the code's float64 quotient at exact equality with          *)
(* SpikeFactor is abstracted away.                                         *)
(*                                                                         *)
(* obs and alert are history variables: no action reads them.              *)
(***************************************************************************)
EXTENDS Integers, FiniteSets, Sequences

CONSTANTS
  Agents,
  TokenCounts,  (* the prompt-token estimates a request may carry         *)
  Window,       (* cfg.Window, in seconds                                 *)
  ShortWindow,  (* cfg.ShortWindow                                        *)
  BurstTokens,  (* cfg.BurstTokens                                        *)
  SpikeFactor,  (* cfg.SpikeFactor                                        *)
  MaxEntries,   (* cfg.MaxEntries                                         *)
  MaxEvents,    (* maxVelocityEvents, the cap of each ring                *)
  MaxClock,     (* bound: the clock stops here                            *)
  MaxObserved   (* bound: observations of an agent within one Window      *)

(* NewVelocityBreaker replaces zero and invalid values by defaults, which   *)
(* satisfy these.  It leaves one gap: with a Window below 5 seconds the     *)
(* default ShortWindow of 5 seconds is the longer one.  main runs it with   *)
(* 30 and 5.                                                                *)
VelocityConstants ==
  /\ TokenCounts \subseteq Nat
  /\ Window \in Nat \ {0}
  /\ ShortWindow \in 1..Window
  /\ BurstTokens \in Nat \ {0}
  /\ SpikeFactor \in Nat \ {0}
  /\ MaxEntries \in Nat \ {0}
  /\ MaxEvents \in Nat \ {0}
  /\ MaxClock \in Nat
  /\ MaxObserved \in Nat

VARIABLES
  now,
  states,   (* v.states: its domain is the set of tracked agents          *)
  verdict,  (* result of the last CheckVelocity, and whose it was         *)
  obs,      (* history: every observation of the agent that its last      *)
            (* check found inside Window, and whether it was let through  *)
  alert     (* history: when FirstBlock was last reported for the agent   *)

vars == <<now, states, verdict, obs, alert>>

ZeroTime == -1

Event == [t : Nat, n : TokenCounts]

(* The sum of f[1] to f[n]. *)
Sum(f, n) ==
  LET upTo[i \in Nat] == IF i = 0 THEN 0 ELSE upTo[i - 1] + f[i]
  IN  upTo[n]

Total(s) == Sum([i \in 1..Len(s) |-> s[i].n], Len(s))

LastN(s, n) == SubSeq(s, Len(s) - n + 1, Len(s))

State == [events : Seq(Event), sumLong : Nat, short : Seq(Event), sumShort : Nat,
          firstAt : Nat, lastAt : Nat, blockedAt : Nat \cup {ZeroTime}]

-----------------------------------------------------------------------------
(* How many at the head are not after a time; the ring is in time order. *)
Expired(ring, cutoff) ==
  CHOOSE i \in 0..Len(ring) :
    /\ \A j \in 1..i : ring[j].t <= cutoff
    /\ i < Len(ring) => ring[i + 1].t > cutoff

(* They go, and their tokens leave the running sum. *)
Expire(ring, sum, horizon) ==
  LET i == Expired(ring, now - horizon)
  IN  [ring |-> SubSeq(ring, i + 1, Len(ring)), sum |-> sum - Total(SubSeq(ring, 1, i))]

(* Mutant: the ring is cut but its sum is not. *)
CapSumKept(r) ==
  IF Len(r.ring) <= MaxEvents THEN r
  ELSE [ring |-> LastN(r.ring, MaxEvents), sum |-> r.sum]

(* The hard cap drops the oldest events of a ring, and their tokens. *)
Cap(r) ==
  LET excess == Len(r.ring) - MaxEvents
  IN  IF excess <= 0 THEN r
      ELSE [ring |-> LastN(r.ring, MaxEvents),
            sum  |-> r.sum - Total(SubSeq(r.ring, 1, excess))]

(* velocityState.append *)
Appended(st, n) ==
  LET e     == [t |-> now, n |-> n]
      long  == Cap(Expire(Append(st.events, e), st.sumLong + n, Window))
      short == Cap(Expire(Append(st.short, e), st.sumShort + n, ShortWindow))
  IN  [events |-> long.ring, sumLong |-> long.sum,
       short |-> short.ring, sumShort |-> short.sum,
       firstAt |-> IF st.firstAt = ZeroTime THEN now ELSE st.firstAt,
       lastAt |-> now, blockedAt |-> st.blockedAt]

FreshState ==
  [events |-> <<>>, sumLong |-> 0, short |-> <<>>, sumShort |-> 0,
   firstAt |-> ZeroTime, lastAt |-> ZeroTime, blockedAt |-> ZeroTime]

(* Mutant: the burst cap only judges warmed-up agents. *)
BurstOnceWarm(st) == st.sumLong > BurstTokens /\ now - st.firstAt >= Window

Burst(st) == st.sumLong > BurstTokens

(* The acceleration trigger: silent for the first Window of an agent. *)
Spike(st) ==
  /\ now - st.firstAt >= Window
  /\ st.sumLong > 0
  /\ st.sumShort * Window > SpikeFactor * st.sumLong * ShortWindow

(* evictIfNeeded: the agents seen longest ago go, until there is room.      *)
Evictions ==
  LET tracked == DOMAIN states
      excess  == Cardinality(tracked) - MaxEntries + 1
  IN  IF excess <= 0 THEN {{}}
      ELSE {gone \in SUBSET tracked :
              /\ Cardinality(gone) = excess
              /\ \A a \in gone, b \in tracked \ gone :
                    states[a].lastAt <= states[b].lastAt}

(* Mutant: the incident flag is cleared by the first check that passes. *)
SubsidedAtOnce(st) == TRUE

(* An incident is over when a check passes ShortWindow after its first block. *)
Subsided(st) == now - st.blockedAt >= ShortWindow

(* The observations of an agent that are still inside Window. *)
Kept(a) == SubSeq(obs[a], Expired(obs[a], now - Window) + 1, Len(obs[a]))

-----------------------------------------------------------------------------
CheckVelocity(a, n) ==
  /\ Len(Kept(a)) < MaxObserved
  /\ \E gone \in IF a \in DOMAIN states THEN {{}} ELSE Evictions :
       LET st    == Appended(IF a \in DOMAIN states THEN states[a] ELSE FreshState, n)
           block == Burst(st) \/ Spike(st)
           first == block /\ st.blockedAt = ZeroTime
           flag  == IF first THEN now
                    ELSE IF ~block /\ st.blockedAt # ZeroTime /\ Subsided(st)
                         THEN ZeroTime
                         ELSE st.blockedAt
       IN  /\ states' = [b \in (DOMAIN states \ gone) \cup {a} |->
                           IF b = a THEN [st EXCEPT !.blockedAt = flag] ELSE states[b]]
           /\ verdict' = [agent |-> a, block |-> block, first |-> first,
                          retryAfter |-> IF block THEN ShortWindow + 1 ELSE 0]
           /\ obs' = [b \in Agents |->
                        IF b = a THEN Append(Kept(a), [t |-> now, n |-> n, pass |-> ~block])
                        ELSE IF b \in gone THEN <<>> ELSE obs[b]]
           /\ alert' = [b \in Agents |->
                          IF b = a /\ first THEN now
                          ELSE IF b \in gone THEN ZeroTime ELSE alert[b]]
  /\ UNCHANGED now

(* Reset forgets the agent. *)
Reset(a) ==
  /\ states' = [b \in DOMAIN states \ {a} |-> states[b]]
  /\ obs' = [obs EXCEPT ![a] = <<>>]
  /\ alert' = [alert EXCEPT ![a] = ZeroTime]
  /\ UNCHANGED <<now, verdict>>

Tick ==
  /\ now < MaxClock
  /\ now' = now + 1
  /\ UNCHANGED <<states, verdict, obs, alert>>

NoVerdict == [agent |-> CHOOSE a \in Agents : TRUE, block |-> FALSE, first |-> FALSE, retryAfter |-> 0]

Init ==
  /\ now = 0
  /\ states = [a \in {} |-> FreshState]
  /\ verdict = NoVerdict
  /\ obs = [a \in Agents |-> <<>>]
  /\ alert = [a \in Agents |-> ZeroTime]

Next ==
  \/ \E a \in Agents, n \in TokenCounts : CheckVelocity(a, n)
  \/ \E a \in Agents : Reset(a)
  \/ Tick

Spec == Init /\ [][Next]_vars

-----------------------------------------------------------------------------
(* Type invariant, with the bounds on memory: at most MaxEntries agents and *)
(* MaxEvents events in each ring.                                           *)
TypeOK ==
  /\ now \in 0..MaxClock
  /\ DOMAIN states \subseteq Agents
  /\ Cardinality(DOMAIN states) <= MaxEntries
  /\ \A a \in DOMAIN states :
       /\ states[a] \in [events : Seq([t : 0..MaxClock, n : TokenCounts]), sumLong : Nat,
                         short : Seq([t : 0..MaxClock, n : TokenCounts]), sumShort : Nat,
                         firstAt : 0..MaxClock, lastAt : 0..MaxClock,
                         blockedAt : 0..MaxClock \cup {ZeroTime}]
       /\ Len(states[a].events) <= MaxEvents
  /\ verdict \in [agent : Agents, block : BOOLEAN, first : BOOLEAN, retryAfter : Nat]

(* A ring is the newest, at most MaxEvents, of the observations of its      *)
(* horizon.                                                                 *)
Smaller(m, n) == IF m <= n THEN m ELSE n

NewestOf(a, ring, horizon) ==
  \E n \in 0..Len(obs[a]) :
    /\ \A i \in 1..Len(obs[a]) :
         obs[a][i].t > states[a].lastAt - horizon <=> i > Len(obs[a]) - n
    /\ Len(ring) = Smaller(n, MaxEvents)
    /\ \A i \in 1..Len(ring) : LET o == obs[a][Len(obs[a]) - Len(ring) + i]
                              IN  ring[i] = [t |-> o.t, n |-> o.n]

(* The running sums never drift, however checks, expiry and the ring cap    *)
(* alternate: each ring holds the newest observations of its horizon, each  *)
(* sum is the total of its ring, and the short ring is the "tail of events" *)
(* its declaration promises (velocity_breaker.go:43).                       *)
RingsAreExact ==
  \A a \in DOMAIN states :
    LET st == states[a]
    IN  /\ NewestOf(a, st.events, Window) /\ NewestOf(a, st.short, ShortWindow)
        /\ st.sumLong = Total(st.events) /\ st.sumShort = Total(st.short)
        /\ st.short = LastN(st.events, Len(st.short))

(* The burst cap holds over every window, not only at the request that      *)
(* crosses it: of the observations that a ring has room for, those let      *)
(* through within any Window never add up to more than BurstTokens.         *)
Admitted(s) == Sum([i \in 1..Len(s) |-> IF s[i].pass THEN s[i].n ELSE 0], Len(s))

AdmittedWithinBurst ==
  \A a \in DOMAIN states :
    Admitted(LastN(obs[a], Smaller(Len(obs[a]), MaxEvents))) <= BurstTokens

(* One incident is reported once: two FirstBlock verdicts of an agent that  *)
(* was not forgotten in between are at least a ShortWindow apart, however   *)
(* its spikes and its passing requests alternate.                           *)
IncidentsAreSpaced ==
  [][\A a \in Agents :
       (/\ alert[a] # ZeroTime
        /\ alert'[a] \notin {alert[a], ZeroTime})
         => alert'[a] - alert[a] >= ShortWindow]_vars
=============================================================================
