---------------------------- MODULE TokenWindow -----------------------------
(***************************************************************************)
(* The token-velocity gauge of the metrics, tokenWindow in                 *)
(* pkg/proxy/metrics.go: a ring of per-second buckets under one mutex.     *)
(*                                                                         *)
(* Callers read the clock before they take the mutex (time.Now() is an     *)
(* argument of add, and Snapshot hands one reading to velocity and then to *)
(* series), so they reach the ring late and out of order.  How late is     *)
(* bounded by MaxLag.  total is a history variable: the tokens recorded    *)
(* for each second.                                                        *)
(***************************************************************************)
EXTENDS Integers, Functions

CONSTANTS
  Callers,    (* goroutines: requests that record, polls that read        *)
  Amounts,    (* token counts a request may record                        *)
  Buckets,    (* velocityBuckets                                          *)
  Horizon,    (* velocityWindow                                           *)
  Start,      (* the second in which the process starts                   *)
  MaxClock,   (* bound: the clock stops here                              *)
  MaxLag,     (* bound: seconds between reading the clock and the ring    *)
  MaxTokens   (* bound: tokens recorded for one second                    *)

WindowConstants ==
  /\ Amounts \subseteq Int
  /\ Buckets \in Nat \ {0}
  /\ Horizon \in 1..Buckets
  /\ MaxClock \in Nat /\ Start \in 0..MaxClock
  /\ MaxLag \in 0..(Buckets - Horizon)
  /\ MaxTokens \in Nat

VARIABLES
  now,
  buckets,   (* w.buckets                                                 *)
  last,      (* w.last                                                    *)
  pc, stamp, amount,  (* of each caller: its next call, its clock reading *)
                      (* and the tokens it records                        *)
  gauge,     (* what velocity summed, before the division by Horizon      *)
  points,    (* what series returned: tokens by second                    *)
  total

vars == <<now, buckets, last, pc, stamp, amount, gauge, points, total>>

Seconds == 0..MaxClock

Slot(s) == s % Buckets

(* advance clears the buckets of the seconds after last, up to sec. *)
Advanced(sec) ==
  LET first == IF sec - last > Buckets THEN sec - Buckets + 1 ELSE last + 1
  IN  [b \in 0..(Buckets - 1) |->
         IF \E s \in first..sec : Slot(s) = b THEN 0 ELSE buckets[b]]

Recording(sec) == {c \in Callers : pc[c] = "add" /\ stamp[c] = sec}

Later(sec) == IF sec > last THEN sec ELSE last

-----------------------------------------------------------------------------
(* A caller reads the clock: to record n tokens, or to take a snapshot. *)
BeginAdd(c, n) ==
  /\ pc[c] = "idle"
  /\ n + total[now] + SumFunctionOnSet(amount, Recording(now)) <= MaxTokens
  /\ pc' = [pc EXCEPT ![c] = "add"]
  /\ stamp' = [stamp EXCEPT ![c] = now]
  /\ amount' = [amount EXCEPT ![c] = n]
  /\ UNCHANGED <<now, buckets, last, gauge, points, total>>

BeginSnapshot(c) ==
  /\ pc[c] = "idle"
  /\ pc' = [pc EXCEPT ![c] = "velocity"]
  /\ stamp' = [stamp EXCEPT ![c] = now]
  /\ UNCHANGED <<now, buckets, last, amount, gauge, points, total>>

(* The call returns. *)
Return(c) ==
  /\ pc' = [pc EXCEPT ![c] = "idle"]
  /\ stamp' = [stamp EXCEPT ![c] = 0]
  /\ amount' = [amount EXCEPT ![c] = 0]

(* Nothing is recorded, and the mutex not taken, for no tokens. *)
AddNothing(c) ==
  /\ pc[c] = "add" /\ amount[c] <= 0
  /\ Return(c)
  /\ UNCHANGED <<now, buckets, last, gauge, points, total>>

Add(c) ==
  /\ pc[c] = "add" /\ amount[c] > 0
  /\ buckets' = [Advanced(stamp[c]) EXCEPT ![Slot(stamp[c])] = @ + amount[c]]
  /\ last' = Later(stamp[c])
  /\ total' = [total EXCEPT ![stamp[c]] = @ + amount[c]]
  /\ Return(c)
  /\ UNCHANGED <<now, gauge, points>>

(* Mutant: one second too many. *)
TrailingLong(sec) == {s \in Seconds : sec - Horizon <= s /\ s <= sec}

(* The seconds velocity adds up. *)
Trailing(sec) == {s \in Seconds : sec - Horizon < s /\ s <= sec}

Velocity(c) ==
  /\ pc[c] = "velocity"
  /\ buckets' = Advanced(stamp[c])
  /\ last' = Later(stamp[c])
  /\ gauge' = SumFunction([s \in Trailing(stamp[c]) |-> buckets'[Slot(s)]])
  /\ pc' = [pc EXCEPT ![c] = "series"]
  /\ UNCHANGED <<now, stamp, amount, points, total>>

Series(c) ==
  /\ pc[c] = "series"
  /\ buckets' = Advanced(stamp[c])
  /\ last' = Later(stamp[c])
  /\ points' = [s \in {t \in Seconds : stamp[c] - Buckets < t /\ t <= stamp[c]} |->
                  buckets'[Slot(s)]]
  /\ Return(c)
  /\ UNCHANGED <<now, gauge, total>>

(* Nobody is held up for more than MaxLag seconds. *)
Tick ==
  /\ now < MaxClock
  /\ \A c \in Callers : pc[c] # "idle" => now - stamp[c] < MaxLag
  /\ now' = now + 1
  /\ UNCHANGED <<buckets, last, pc, stamp, amount, gauge, points, total>>

Init ==
  /\ now = Start
  /\ buckets = [b \in 0..(Buckets - 1) |-> 0]
  /\ last = 0
  /\ pc = [c \in Callers |-> "idle"]
  /\ stamp = [c \in Callers |-> 0]
  /\ amount = [c \in Callers |-> 0]
  /\ gauge = 0
  /\ points = [s \in {} |-> 0]
  /\ total = [s \in Seconds |-> 0]

Next ==
  \/ \E c \in Callers, n \in Amounts : BeginAdd(c, n)
  \/ \E c \in Callers : BeginSnapshot(c) \/ AddNothing(c) \/ Add(c) \/ Velocity(c) \/ Series(c)
  \/ Tick

Spec == Init /\ [][Next]_vars

-----------------------------------------------------------------------------
(* Type invariant. *)
TypeOK ==
  /\ now \in Start..MaxClock
  /\ buckets \in [0..(Buckets - 1) -> 0..MaxTokens]
  /\ last \in 0..now
  /\ pc \in [Callers -> {"idle", "add", "velocity", "series"}]
  /\ stamp \in [Callers -> 0..now]
  /\ total \in [Seconds -> 0..MaxTokens]

(* What a poll reports is exact for its own clock reading, although         *)
(* requests of later seconds may have reached the ring before it and taken  *)
(* over the oldest buckets: the gauge is the total of its trailing seconds, *)
(* and so is every point of the sparkline whose bucket has not been taken   *)
(* over, that is all but as many of the oldest as the poll is seconds late. *)
PollIsExact ==
  [][\A c \in Callers :
       /\ Velocity(c) =>
            gauge' = SumFunction([s \in {t \in Seconds : stamp[c] - Horizon < t /\ t <= stamp[c]} |->
                                    total[s]])
       /\ Series(c) =>
            \A s \in DOMAIN points' : s > last' - Buckets => points'[s] = total[s]]_vars
=============================================================================
