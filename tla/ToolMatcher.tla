---------------------------- MODULE ToolMatcher -----------------------------
(***************************************************************************)
(* The tool-cycle detector, pkg/circuitbreaker/tool_matcher.go.            *)
(*                                                                         *)
(* A body is what extractToolNames can see of it: the tool calls of its    *)
(* messages, its legacy function definitions and its tool definitions, in  *)
(* order, or no structure at all when it is not JSON.  CheckPayload parses *)
(* outside the mutex and touches the agent's state only under it, so each  *)
(* method is one atomic action.                                            *)
(*                                                                         *)
(* hist, pushed and singles are history variables: no action reads them.   *)
(***************************************************************************)
EXTENDS Integers, FiniteSets, Sequences

CONSTANTS
  Agents,
  Bodies,      (* request bodies, see ToolConstants                       *)
  MaxSeq,      (* cfg.MaxSeq                                              *)
  MaxPeriod,   (* cfg.MaxPeriod                                           *)
  Limit,       (* cfg.Limit                                               *)
  TTL,         (* cfg.TTL, in ticks                                       *)
  MaxEntries,  (* cfg.MaxEntries                                          *)
  Second,      (* ticks per second                                        *)
  MaxClock,    (* bound: the clock stops here                             *)
  MaxNames     (* bound: tool names of an agent within one window         *)

(* NewToolMatcher replaces numbers that break these by a default; a body is *)
(* what toolCallEnvelope takes in.                                          *)
ToolConstants ==
  /\ MaxSeq \in Nat \ {0}
  /\ MaxPeriod \in Nat \ {0, 1}
  /\ Limit \in Nat \ {0}
  /\ TTL \in Nat \ {0}
  /\ MaxEntries \in Nat \ {0}
  /\ Second \in Nat \ {0}
  /\ MaxClock \in Nat
  /\ MaxNames \in Nat
  /\ \A body \in Bodies :
       /\ body.parses \in BOOLEAN /\ body.calls \in Seq(STRING)
       /\ body.functions \in Seq(STRING) /\ body.tools \in Seq(STRING)

VARIABLES
  now,
  states,   (* m.states                                                   *)
  verdict,  (* result of the last CheckPayload, and whose it was          *)
  hist,     (* history: all names of the agent's current window           *)
  pushed,   (* history: names pushed since the first confirmation of the  *)
            (* current period, or since the last request that carried     *)
            (* more names than the period has                             *)
  singles   (* history: requests of one name since the last of several    *)

vars == <<now, states, verdict, hist, pushed, singles>>

ZeroTime == -1

(* Calls first, then the definitions the request carries. *)
ExtractToolNames(body) ==
  IF body.parses THEN body.calls \o body.functions \o body.tools ELSE <<>>

CeilSeconds(ticks) ==
  IF ticks <= 0 THEN 1 ELSE (ticks + Second - 1) \div Second

(* The last p names are the p names before them. *)
Repeats(seq, p) ==
  /\ 2 * p <= Len(seq)
  /\ SubSeq(seq, Len(seq) - 2 * p + 1, Len(seq) - p) = SubSeq(seq, Len(seq) - p + 1, Len(seq))

(* The smallest period of the tail, from 2 to MaxPeriod; 0 for none. *)
DetectCycle(seq) ==
  LET ps == {p \in 2..MaxPeriod : Repeats(seq, p)}
  IN  IF ps = {} THEN 0 ELSE CHOOSE p \in ps : \A q \in ps : p <= q

(* Mutant: the head is kept instead of the tail. *)
PushHead(seq, names) ==
  LET all == seq \o names
  IN  IF Len(all) <= MaxSeq THEN all ELSE SubSeq(all, 1, MaxSeq)

(* Append, then keep the most recent MaxSeq names. *)
Push(seq, names) ==
  LET all == seq \o names
  IN  IF Len(all) <= MaxSeq THEN all ELSE SubSeq(all, Len(all) - MaxSeq + 1, Len(all))

FreshState ==
  [seq |-> <<>>, period |-> 0, confirms |-> 0, expires |-> now + TTL, blockedAt |-> ZeroTime]

(* Consecutive checks that found the same period. *)
Confirm(st, p) ==
  IF p = 0 THEN 0 ELSE IF p = st.period THEN st.confirms + 1 ELSE 1

Evictions ==
  LET tracked == DOMAIN states
      excess  == Cardinality(tracked) - MaxEntries + 1
  IN  IF excess <= 0 THEN {{}}
      ELSE {gone \in SUBSET tracked :
              /\ Cardinality(gone) = excess
              /\ \A a \in gone, b \in tracked \ gone :
                    states[a].expires <= states[b].expires}

(* The agent's window is open. *)
Open(a) == a \in DOMAIN states /\ now < states[a].expires

(* The state a check starts from: a new or an expired one starts afresh. *)
WindowOf(a) == IF Open(a) THEN states[a] ELSE FreshState

-----------------------------------------------------------------------------
(* A body without tool names passes before any state is touched. *)
CheckWithoutTools(a, body) ==
  /\ ExtractToolNames(body) = <<>>
  /\ verdict' = [agent |-> a, block |-> FALSE, first |-> FALSE, retryAfter |-> 0]
  /\ UNCHANGED <<now, states, hist, pushed, singles>>

CheckWithTools(a, body) ==
  LET names == ExtractToolNames(body)
      old   == WindowOf(a)
      seq   == Push(old.seq, names)
      p     == DetectCycle(seq)
      conf  == Confirm(old, p)
      block == conf >= Limit
      first == block /\ old.blockedAt = ZeroTime
  IN  /\ names # <<>>
      /\ Len(IF Open(a) THEN hist[a] ELSE <<>>) + Len(names) <= MaxNames
      /\ \E gone \in IF a \in DOMAIN states THEN {{}} ELSE Evictions :
           /\ states' = [b \in (DOMAIN states \ gone) \cup {a} |->
                IF b # a THEN states[b]
                ELSE [seq |-> seq, period |-> p, confirms |-> conf, expires |-> old.expires,
                      blockedAt |-> IF first THEN now ELSE old.blockedAt]]
           /\ hist' = [b \in Agents |->
                IF b = a THEN (IF Open(a) THEN hist[a] ELSE <<>>) \o names
                ELSE IF b \in gone THEN <<>> ELSE hist[b]]
      /\ verdict' = [agent |-> a, block |-> block, first |-> first,
                     retryAfter |-> IF block THEN CeilSeconds(old.expires - now) ELSE 0]
      /\ pushed' = [pushed EXCEPT ![a] =
                      IF conf <= 1 \/ Len(names) > p THEN 0 ELSE @ + Len(names)]
      /\ singles' = [singles EXCEPT ![a] =
                       IF Len(names) > 1 THEN 0 ELSE IF Open(a) THEN @ + 1 ELSE 1]
      /\ UNCHANGED now

CheckPayload(a, body) == CheckWithoutTools(a, body) \/ CheckWithTools(a, body)

Reset(a) ==
  /\ states' = [b \in DOMAIN states \ {a} |-> states[b]]
  /\ hist' = [hist EXCEPT ![a] = <<>>]
  /\ pushed' = [pushed EXCEPT ![a] = 0]
  /\ singles' = [singles EXCEPT ![a] = 0]
  /\ UNCHANGED <<now, verdict>>

Tick ==
  /\ now < MaxClock
  /\ now' = now + 1
  /\ UNCHANGED <<states, verdict, hist, pushed, singles>>

Init ==
  /\ now = 0
  /\ states = [a \in {} |-> FreshState]
  /\ verdict = [agent |-> CHOOSE a \in Agents : TRUE,
                block |-> FALSE, first |-> FALSE, retryAfter |-> 0]
  /\ hist = [a \in Agents |-> <<>>]
  /\ pushed = [a \in Agents |-> 0]
  /\ singles = [a \in Agents |-> 0]

Next ==
  \/ \E a \in Agents, body \in Bodies : CheckPayload(a, body)
  \/ \E a \in Agents : Reset(a)
  \/ Tick

Spec == Init /\ [][Next]_vars

-----------------------------------------------------------------------------
(* Type invariant, with the bounds on memory. *)
TypeOK ==
  /\ now \in 0..MaxClock
  /\ DOMAIN states \subseteq Agents
  /\ Cardinality(DOMAIN states) <= MaxEntries
  /\ \A a \in DOMAIN states :
       /\ Len(states[a].seq) <= MaxSeq
       /\ states[a].period \in {0} \cup 2..MaxPeriod
       /\ states[a].confirms \in Nat
       /\ states[a].expires \in 0..(MaxClock + TTL)
       /\ states[a].blockedAt \in 0..MaxClock \cup {ZeroTime}

Periodic(seq, p) == \A i \in 1..(Len(seq) - p) : seq[i] = seq[i + p]

(* A block is never a coincidence of two tails: while period p is confirmed *)
(* again and again, everything the agent named since, and the two periods   *)
(* before, is one unbroken repetition of period p.  A request with more     *)
(* than a period of names starts a stretch of its own, for the code looks   *)
(* at the last two periods only after each request.  It relates the         *)
(* confirmation counter to the whole history, through trimming and fresh    *)
(* windows.                                                                 *)
ConfirmedIsPeriodic ==
  \A a \in DOMAIN states :
    LET st == states[a]
        n  == 2 * st.period + pushed[a]
    IN  st.confirms > 0 =>
          /\ n <= Len(hist[a])
          /\ Periodic(SubSeq(hist[a], Len(hist[a]) - n + 1, Len(hist[a])), st.period)

(* No cycle escapes: an agent whose last three periods repeat a cycle of at *)
(* most MaxPeriod tools, named one per request, has been blocked in this    *)
(* window, whatever it did before and although detectCycle may find a       *)
(* shorter period on the way and start counting anew.  (Limit = 2, the      *)
(* default.)                                                                *)
CycleIsCaught ==
  \A a \in DOMAIN states : \A p \in 2..MaxPeriod :
    (/\ 3 * p <= singles[a]
     /\ Periodic(SubSeq(hist[a], Len(hist[a]) - 3 * p + 1, Len(hist[a])), p))
      => states[a].blockedAt # ZeroTime

(* Both ways: the detector blocks cycles, and nothing but cycles. *)
BlocksCycles == ConfirmedIsPeriodic /\ CycleIsCaught
=============================================================================
