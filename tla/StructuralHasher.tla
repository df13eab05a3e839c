-------------------------- MODULE StructuralHasher --------------------------
(***************************************************************************)
(* The structural near-duplicate detector,                                 *)
(* pkg/circuitbreaker/structural_hasher.go.                                *)
(*                                                                         *)
(* A body is the sequence of its lexical tokens, each of a kind the code   *)
(* tells apart and with a value.  Normalising replaces the dynamic kinds   *)
(* by placeholders and drops white space; the sketch of a form is the set  *)
(* of its first MaxShingles shingles.  What MinHash estimates for two      *)
(* different sets depends on hash values: Near is the set of pairs it puts *)
(* at or above the threshold, any symmetric relation.  Equal sets always   *)
(* have equal sketches.                                                    *)
(*                                                                         *)
(* CheckPayload normalises and hashes outside the mutex and touches the    *)
(* agent's state only under it, so each method is one atomic action.       *)
(* recent is a history variable: no action reads it.                       *)
(***************************************************************************)
EXTENDS Integers, FiniteSets, Sequences

CONSTANTS
  Agents,
  Bodies,       (* request bodies: sequences of tokens                    *)
  Near,         (* pairs of different sketches that count as similar      *)
  ShingleSize,  (* shingleSize                                            *)
  MaxShingles,  (* maxShingles                                            *)
  Window,       (* cfg.Window                                             *)
  Limit,        (* cfg.Limit                                              *)
  TTL,          (* cfg.TTL, in ticks                                      *)
  MaxEntries,   (* cfg.MaxEntries                                         *)
  Second,       (* ticks per second                                       *)
  MaxClock,     (* bound: the clock stops here                            *)
  MaxRequests   (* bound: requests of an agent within one TTL window      *)

(* NewStructuralHasher replaces what breaks these by a default, except that *)
(* it does not compare Window with Limit.                                   *)
StructuralConstants ==
  /\ ShingleSize \in Nat \ {0}
  /\ MaxShingles \in Nat \ {0}
  /\ Window \in Nat \ {0}
  /\ Limit \in Nat \ {0}
  /\ TTL \in Nat \ {0}
  /\ MaxEntries \in Nat \ {0}
  /\ Second \in Nat \ {0}
  /\ MaxClock \in Nat
  /\ MaxRequests \in Nat
  /\ \A pair \in Near : <<pair[2], pair[1]>> \in Near

VARIABLES
  now,
  seen,     (* s.seen                                                     *)
  verdict,  (* result of the last CheckPayload, and whose it was          *)
  recent    (* history: the requests of the agent's current window that   *)
            (* had a form, and whether they were let through              *)

vars == <<now, seen, verdict, recent>>

ZeroTime == -1

CeilSeconds(ticks) ==
  IF ticks <= 0 THEN 1 ELSE (ticks + Second - 1) \div Second

-----------------------------------------------------------------------------
(* Mutant: numbers are kept. *)
PlaceholderKeepsNumbers(token) ==
  CASE token.kind = "uuid" -> "U" [] OTHER -> token.value

(* classifyString and the literals of normalizePayload: the tag of a        *)
(* dynamic token; everything else is kept verbatim.                         *)
Placeholder(token) ==
  CASE token.kind = "number"    -> "#"
    [] token.kind = "uuid"      -> "U"
    [] token.kind = "timestamp" -> "T"
    [] token.kind = "hex"       -> "H"
    [] token.kind = "bool"      -> "B"
    [] token.kind = "null"      -> "N"
    [] OTHER                    -> token.value

Solid(body) == SelectSeq(body, LAMBDA token : token.kind # "space")

NormalizePayload(body) == [i \in 1..Len(Solid(body)) |-> Placeholder(Solid(body)[i])]

(* The shingles that are hashed: those that start at the first MaxShingles  *)
(* positions.                                                               *)
Sketch(form) ==
  {SubSeq(form, i, i + ShingleSize - 1) :
     i \in {j \in 1..MaxShingles : j + ShingleSize - 1 <= Len(form)}}

(* jaccard(a, b) >= Threshold *)
Similar(a, b) == a = b \/ <<a, b>> \in Near

Matches(sigs, sig) == {i \in 1..Len(sigs) : Similar(sigs[i], sig)}

AppendWindow(sigs, sig) ==
  LET all == Append(sigs, sig)
  IN  IF Len(all) <= Window THEN all ELSE SubSeq(all, Len(all) - Window + 1, Len(all))

FreshState == [sigs |-> <<>>, expires |-> now + TTL, blockedAt |-> ZeroTime]

Evictions ==
  LET tracked == DOMAIN seen
      excess  == Cardinality(tracked) - MaxEntries + 1
  IN  IF excess <= 0 THEN {{}}
      ELSE {gone \in SUBSET tracked :
              /\ Cardinality(gone) = excess
              /\ \A a \in gone, b \in tracked \ gone : seen[a].expires <= seen[b].expires}

(* The agent's window is open. *)
Open(a) == a \in DOMAIN seen /\ now < seen[a].expires

(* The state a check starts from: a new or an expired one starts afresh. *)
WindowOf(a) == IF Open(a) THEN seen[a] ELSE FreshState

-----------------------------------------------------------------------------
(* A body too small to have structure passes before any state is touched. *)
CheckDegenerate(a, body) ==
  /\ Len(NormalizePayload(body)) < ShingleSize
  /\ verdict' = [agent |-> a, block |-> FALSE, first |-> FALSE, retryAfter |-> 0]
  /\ UNCHANGED <<now, seen, recent>>

CheckStructure(a, body) ==
  LET form  == NormalizePayload(body)
      sig   == Sketch(form)
      old   == WindowOf(a)
      block == Cardinality(Matches(old.sigs, sig)) >= Limit
      first == block /\ old.blockedAt = ZeroTime
      past  == IF Open(a) THEN recent[a] ELSE <<>>
  IN  /\ Len(form) >= ShingleSize
      /\ Len(past) < MaxRequests
      /\ \E gone \in IF a \in DOMAIN seen THEN {{}} ELSE Evictions :
           /\ seen' = [b \in (DOMAIN seen \ gone) \cup {a} |->
                IF b # a THEN seen[b]
                ELSE [sigs |-> AppendWindow(old.sigs, sig), expires |-> old.expires,
                      blockedAt |-> IF first THEN now ELSE old.blockedAt]]
           /\ recent' = [b \in Agents |->
                IF b = a THEN Append(past, [body |-> body, pass |-> ~block])
                ELSE IF b \in gone THEN <<>> ELSE recent[b]]
      /\ verdict' = [agent |-> a, block |-> block, first |-> first,
                     retryAfter |-> IF block THEN CeilSeconds(old.expires - now) ELSE 0]
      /\ UNCHANGED now

CheckPayload(a, body) == CheckDegenerate(a, body) \/ CheckStructure(a, body)

Reset(a) ==
  /\ seen' = [b \in DOMAIN seen \ {a} |-> seen[b]]
  /\ recent' = [recent EXCEPT ![a] = <<>>]
  /\ UNCHANGED <<now, verdict>>

Tick ==
  /\ now < MaxClock
  /\ now' = now + 1
  /\ UNCHANGED <<seen, verdict, recent>>

Init ==
  /\ now = 0
  /\ seen = [a \in {} |-> FreshState]
  /\ verdict = [agent |-> CHOOSE a \in Agents : TRUE,
                block |-> FALSE, first |-> FALSE, retryAfter |-> 0]
  /\ recent = [a \in Agents |-> <<>>]

Next ==
  \/ \E a \in Agents, body \in Bodies : CheckPayload(a, body)
  \/ \E a \in Agents : Reset(a)
  \/ Tick

Spec == Init /\ [][Next]_vars

-----------------------------------------------------------------------------
(* Type invariant, with the bounds on memory. *)
TypeOK ==
  /\ now \in 0..MaxClock
  /\ DOMAIN seen \subseteq Agents
  /\ Cardinality(DOMAIN seen) <= MaxEntries
  /\ \A a \in DOMAIN seen :
       /\ Len(seen[a].sigs) \in 1..Window
       /\ seen[a].expires \in 0..(MaxClock + TTL)
       /\ seen[a].blockedAt \in 0..MaxClock \cup {ZeroTime}

(* Two bodies that differ only in the values of their dynamic tokens and in *)
(* white space: the loop this detector is for.                              *)
Static(token) == token.kind \notin {"number", "uuid", "timestamp", "hex", "bool", "null"}

SameTurn(b, c) ==
  LET bs == Solid(b)
      cs == Solid(c)
  IN  /\ Len(bs) = Len(cs)
      /\ \A i \in 1..Len(bs) :
           bs[i].kind = cs[i].kind /\ (Static(bs[i]) => bs[i].value = cs[i].value)

(* A loop that changes its dynamic fields every turn is stopped: among any  *)
(* Window + 1 consecutive requests of an agent within one window, at most   *)
(* Limit of the same turn are let through, whatever other requests it mixes *)
(* in and although blocked requests take up room in the window as well.     *)
LoopQuota ==
  \A a \in DOMAIN seen :
    LET n    == Len(recent[a])
        span == IF n > Window THEN (n - Window)..n ELSE 1..n
    IN  \A i \in span :
          Cardinality({j \in span : recent[a][j].pass
                                    /\ SameTurn(recent[a][i].body, recent[a][j].body)}) <= Limit

(* A block is reported as the first one of its window, and only once:       *)
(* exactly when no earlier request of the window was blocked.               *)
FirstBlockIsFirst ==
  \A a \in DOMAIN seen :
    LET n == Len(recent[a])
    IN  (n > 0 /\ verdict.agent = a /\ verdict.block) =>
          (verdict.first <=> \A i \in 1..(n - 1) : recent[a][i].pass)
=============================================================================
