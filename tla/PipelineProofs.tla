--------------------------- MODULE PipelineProofs ---------------------------
(***************************************************************************)
(* Proofs about the detector pipeline: what a Reset leaves behind when     *)
(* requests cross it, and that no stage hears of what an earlier one has   *)
(* refused.                                                                *)
(*                                                                         *)
(* Both properties count.  The proofs therefore turn the state of every    *)
(* stage into numbers (SketchLen, NameLen, EventLen, ShortLen, SeenLen,    *)
(* the passes and the refusals), show what a check and a Reset of a stage  *)
(* do to its numbers, and leave the step lemmas with arithmetic alone.     *)
(***************************************************************************)
EXTENDS Pipeline, FiniteSetTheorems, WellFoundedInduction, TLAPS

-----------------------------------------------------------------------------
(* Sequences and sets. *)
LEMMA OneCardinality == \A s : E!Cardinality(s) = Cardinality(s)
BY DEF E!Cardinality, Cardinality, E!IsFiniteSet, IsFiniteSet

LEMMA LeastNumber ==
  ASSUME NEW X, X \subseteq Nat, X # {}
  PROVE  \E m \in X : \A n \in X : m <= n
<1>1. PICK m \in X : \A n \in X : ~(<<n, m>> \in OpToRel(<, Nat))
  BY NatLessThanWellFounded, WFMin, Zenon
<1>2. \A n \in X : ~(n < m)
  BY <1>1 DEF OpToRel
<1>3. \A n \in X : n \in Nat /\ m \in Nat
  OBVIOUS
<1> QED
  BY <1>2, <1>3

(* Any end of a sequence is one, and no longer. *)
LEMMA Slice ==
  ASSUME NEW U, NEW s \in Seq(U), NEW a \in Int, NEW b \in Int, 1 <= a, a <= b + 1, b <= Len(s)
  PROVE  SubSeq(s, a, b) \in Seq(U) /\ Len(SubSeq(s, a, b)) = b - a + 1
<1>1. SubSeq(s, a, b) = [i \in 1..(b - a + 1) |-> s[a + i - 1]]
  OBVIOUS
<1>2. \A i \in 1..(b - a + 1) : s[a + i - 1] \in U
  OBVIOUS
<1>3. b - a + 1 \in Nat
  OBVIOUS
<1> QED
  BY <1>1, <1>2, <1>3

LEMMA EndOfSeq ==
  ASSUME NEW U, NEW s \in Seq(U), NEW i \in 0..Len(s)
  PROVE  SubSeq(s, i + 1, Len(s)) \in Seq(U) /\ Len(SubSeq(s, i + 1, Len(s))) = Len(s) - i
<1> DEFINE a == i + 1
           b == Len(s)
<1>1. a \in Int /\ b \in Int /\ 1 <= a /\ a <= b + 1 /\ b <= Len(s) /\ b - a + 1 = Len(s) - i
  OBVIOUS
<1> HIDE DEF a, b
<1>2. SubSeq(s, a, b) \in Seq(U) /\ Len(SubSeq(s, a, b)) = b - a + 1
  BY <1>1, Slice
<1>3. SubSeq(s, a, b) = SubSeq(s, i + 1, Len(s))
  BY DEF a, b
<1> QED
  BY <1>1, <1>2, <1>3

(* The last n of a longer sequence, as the caps of the rings take them. *)
LEMMA LastOfSeq ==
  ASSUME NEW U, NEW s \in Seq(U), NEW n \in Nat, ~(Len(s) <= n)
  PROVE  /\ SubSeq(s, Len(s) - n + 1, Len(s)) \in Seq(U)
         /\ Len(SubSeq(s, Len(s) - n + 1, Len(s))) <= Len(s)
<1> DEFINE i == Len(s) - n
<1>1. i \in 0..Len(s) /\ Len(s) \in Nat
  OBVIOUS
<1>2. Len(s) - n + 1 = i + 1
  OBVIOUS
<1> HIDE DEF i
<1>3. SubSeq(s, i + 1, Len(s)) \in Seq(U) /\ Len(SubSeq(s, i + 1, Len(s))) = Len(s) - i
  BY <1>1, EndOfSeq
<1> QED
  BY <1>1, <1>2, <1>3

(* The expired head of a ring is a head of it. *)
LEMMA ExpiredIsHead ==
  ASSUME NEW U, NEW s \in Seq(U), \A i \in 1..Len(s) : s[i].t \in Nat, NEW cut \in Int
  PROVE  V!Expired(s, cut) \in 0..Len(s)
<1> DEFINE P(i) == /\ \A j \in 1..i : s[j].t <= cut
                   /\ i < Len(s) => s[i + 1].t > cut
           X == {i \in 0..Len(s) : i < Len(s) => s[i + 1].t > cut}
<1>0. Len(s) \in Nat
  OBVIOUS
<1>1. PICK m \in X : \A i \in X : m <= i
  <2>1. Len(s) \in X /\ X \subseteq Nat
    BY <1>0
  <2> QED
    BY <2>1, LeastNumber
<1>2. m \in 0..Len(s) /\ (m < Len(s) => s[m + 1].t > cut)
  BY <1>1
<1>3. \A j \in 1..m : s[j].t <= cut
  <2> SUFFICES ASSUME NEW j \in 1..m PROVE s[j].t <= cut
    OBVIOUS
  <2>1. j - 1 \in 0..Len(s) /\ ~(m <= j - 1) /\ j - 1 < Len(s) /\ (j - 1) + 1 = j /\ j \in 1..Len(s)
    BY <1>0, <1>2
  <2>2. j - 1 \notin X
    BY <1>1, <2>1
  <2>3. ~(s[j].t > cut)
    BY <2>1, <2>2
  <2> QED
    BY <2>1, <2>3
<1>4. V!Expired(s, cut) = CHOOSE i \in 0..Len(s) : P(i)
  BY DEF V!Expired
<1>5. \E i \in 0..Len(s) : P(i)
  BY <1>2, <1>3
<1> QED
  BY <1>4, <1>5

-----------------------------------------------------------------------------
(* What the stages keep, as numbers. *)
Sketches == {S!Sketch(S!NormalizePayload(b.tokens)) : b \in Bodies}
Turn     == [body : {b.tokens : b \in Bodies}, pass : BOOLEAN]
Events   == [t : Nat, n : Nat]
Observed == [t : Nat, n : Nat, pass : BOOLEAN]

SketchLen(a) == IF a \in DOMAIN sketches THEN Len(sketches[a].sigs) ELSE 0
NameLen(a)   == IF a \in DOMAIN tools THEN Len(tools[a].seq) ELSE 0
EventLen(a)  == IF a \in DOMAIN rates THEN Len(rates[a].events) ELSE 0
ShortLen(a)  == IF a \in DOMAIN rates THEN Len(rates[a].short) ELSE 0

Refused(s) == {i \in DOMAIN s : ~s[i].pass}
Refusals(a) == Cardinality(Refused(recent[a]))

SketchTypes ==
  /\ DOMAIN sketches \subseteq Agents
  /\ \A a \in DOMAIN sketches : sketches[a].sigs \in Seq(Sketches)
  /\ recent \in [Agents -> Seq(Turn)]

ToolTypes ==
  /\ DOMAIN tools \subseteq Agents
  /\ \A a \in DOMAIN tools : tools[a].seq \in Seq(STRING)

RateTypes ==
  /\ DOMAIN rates \subseteq Agents
  /\ \A a \in DOMAIN rates : rates[a].events \in Seq(Events) /\ rates[a].short \in Seq(Events)
  /\ obs \in [Agents -> Seq(Observed)]

LEMMA RefusedIsFinite ==
  ASSUME NEW s \in Seq(Turn)
  PROVE  IsFiniteSet(Refused(s)) /\ Cardinality(Refused(s)) \in Nat
<1>1. Refused(s) \subseteq 1..Len(s) /\ Len(s) \in Int /\ 1 \in Int
  BY DEF Refused
<1>2. IsFiniteSet(1..Len(s))
  BY <1>1, FS_Interval
<1>3. IsFiniteSet(Refused(s))
  BY <1>1, <1>2, FS_Subset
<1> QED
  BY <1>3, FS_CardinalityType

LEMMA RefusedGrows ==
  ASSUME NEW s \in Seq(Turn), NEW x \in Turn
  PROVE  /\ Cardinality(Refused(Append(s, x))) \in Nat
         /\ Cardinality(Refused(Append(s, x)))
              <= Cardinality(Refused(s)) + (IF x.pass THEN 0 ELSE 1)
<1> DEFINE n == Len(s) + 1
           g == Append(s, x)
           R == Refused(s)
           Q == Refused(g)
<1>1. g \in Seq(Turn) /\ DOMAIN g = DOMAIN s \cup {n} /\ n \notin DOMAIN s /\ g[n] = x
      /\ \A i \in DOMAIN s : g[i] = s[i]
  OBVIOUS
<1>2. x.pass \in BOOLEAN
  BY DEF Turn
<1>3. IsFiniteSet(R) /\ Cardinality(R) \in Nat /\ Cardinality(Q) \in Nat
  BY <1>1, RefusedIsFinite
<1> HIDE DEF g, n
<1>4. CASE x.pass
  <2>1. Q = R
    BY <1>1, <1>4 DEF Refused
  <2> QED
    BY <1>3, <1>4, <2>1 DEF g
<1>5. CASE ~x.pass
  <2>1. Q = R \cup {n} /\ n \notin R
    BY <1>1, <1>5 DEF Refused
  <2> HIDE DEF Q, R
  <2>2. Cardinality(Q) = Cardinality(R) + 1
    BY <1>3, <2>1, FS_AddElement
  <2> QED
    BY <1>3, <1>5, <2>2 DEF g, Q, R
<1> QED
  BY <1>2, <1>4, <1>5

-----------------------------------------------------------------------------
(* The structural stage: a check adds at most one sketch and one turn, and  *)
(* a refusal only when it blocks; a Reset leaves nothing.                   *)
LEMMA SketchNumbers ==
  SketchTypes => \A a \in Agents : SketchLen(a) \in Nat /\ Len(recent[a]) \in Nat /\ Refusals(a) \in Nat
<1> SUFFICES ASSUME SketchTypes, NEW a \in Agents
             PROVE  SketchLen(a) \in Nat /\ Len(recent[a]) \in Nat /\ Refusals(a) \in Nat
  OBVIOUS
<1>1. recent[a] \in Seq(Turn)
  BY DEF SketchTypes
<1>2. Refusals(a) \in Nat
  BY <1>1, RefusedIsFinite DEF Refusals
<1>3. SketchLen(a) \in Nat
  <2>1. CASE a \in DOMAIN sketches
    <3>1. sketches[a].sigs \in Seq(Sketches)
      BY <2>1 DEF SketchTypes
    <3> QED
      BY <2>1, <3>1 DEF SketchLen
  <2> QED
    BY <2>1 DEF SketchLen
<1> QED
  BY <1>1, <1>2, <1>3

LEMMA WindowGrows ==
  ASSUME NEW s \in Seq(Sketches), NEW x \in Sketches
  PROVE  S!AppendWindow(s, x) \in Seq(Sketches) /\ Len(S!AppendWindow(s, x)) <= Len(s) + 1
<1> DEFINE g == Append(s, x)
<1>1. g \in Seq(Sketches) /\ Len(g) = Len(s) + 1 /\ Len(s) \in Nat
  OBVIOUS
<1>2. SketchWindow \in Nat
  BY PipelineAssumption DEF S!StructuralConstants
<1>3. S!AppendWindow(s, x) = IF Len(g) <= SketchWindow THEN g
                             ELSE SubSeq(g, Len(g) - SketchWindow + 1, Len(g))
  BY DEF S!AppendWindow
<1> HIDE DEF g
<1>4. CASE Len(g) <= SketchWindow
  BY <1>1, <1>3, <1>4
<1>5. CASE ~(Len(g) <= SketchWindow)
  <2>1. /\ SubSeq(g, Len(g) - SketchWindow + 1, Len(g)) \in Seq(Sketches)
        /\ Len(SubSeq(g, Len(g) - SketchWindow + 1, Len(g))) <= Len(g)
    BY <1>1, <1>2, <1>5, LastOfSeq
  <2> QED
    BY <1>1, <1>3, <1>5, <2>1
<1> QED
  BY <1>4, <1>5

LEMMA SketchCheck ==
  ASSUME SketchTypes, NEW a \in Agents, NEW body \in Bodies, S!CheckPayload(a, body.tokens)
  PROVE  /\ SketchTypes' /\ sketchVerdict'.block \in BOOLEAN
         /\ \A b \in Agents \ {a} : /\ SketchLen(b)' <= SketchLen(b) /\ Len(recent[b])' <= Len(recent[b])
                                    /\ Refusals(b)' <= Refusals(b)
         /\ SketchLen(a)' <= SketchLen(a) + 1 /\ Len(recent[a])' <= Len(recent[a]) + 1
         /\ Refusals(a)' <= Refusals(a) + (IF sketchVerdict'.block THEN 1 ELSE 0)
<1>0. \A b \in Agents : SketchLen(b) \in Nat /\ Len(recent[b]) \in Nat /\ Refusals(b) \in Nat
                        /\ recent[b] \in Seq(Turn)
  BY SketchNumbers DEF SketchTypes
<1>1. CASE S!CheckDegenerate(a, body.tokens)
  <2>1. UNCHANGED <<sketches, recent>> /\ sketchVerdict'.block = FALSE
    BY <1>1 DEF S!CheckDegenerate
  <2>2. SketchTypes'
    BY <2>1 DEF SketchTypes
  <2>3. \A b \in Agents : SketchLen(b)' = SketchLen(b) /\ Len(recent[b])' = Len(recent[b])
                          /\ Refusals(b)' = Refusals(b)
    BY <2>1 DEF SketchLen, Refusals
  <2>4. (IF sketchVerdict'.block THEN 1 ELSE 0) = 0 /\ sketchVerdict'.block \in BOOLEAN
    BY <2>1
  <2>5. \A b \in Agents : SketchLen(b)' <= SketchLen(b) /\ Len(recent[b])' <= Len(recent[b])
                          /\ Refusals(b)' <= Refusals(b) + 0
    BY <1>0, <2>3
  <2>6. SketchLen(a)' <= SketchLen(a) + 1 /\ Len(recent[a])' <= Len(recent[a]) + 1
    BY <1>0, <2>3
  <2>7. \A b \in Agents : Refusals(b)' <= Refusals(b)
    BY <1>0, <2>3
  <2> QED
    BY <2>2, <2>4, <2>5, <2>6, <2>7
<1>2. CASE S!CheckStructure(a, body.tokens)
  <2> DEFINE sig   == S!Sketch(S!NormalizePayload(body.tokens))
             old   == S!WindowOf(a)
             block == S!Cardinality(S!Matches(old.sigs, sig)) >= SketchLimit
             first == block /\ old.blockedAt = S!ZeroTime
             past  == IF S!Open(a) THEN recent[a] ELSE <<>>
             x     == [body |-> body.tokens, pass |-> ~block]
  <2>1. PICK gone \in (IF a \in DOMAIN sketches THEN {{}} ELSE S!Evictions) :
          /\ sketches' = [b \in (DOMAIN sketches \ gone) \cup {a} |->
               IF b # a THEN sketches[b]
               ELSE [sigs |-> S!AppendWindow(old.sigs, sig), expires |-> old.expires,
                     blockedAt |-> IF first THEN now ELSE old.blockedAt]]
          /\ recent' = [b \in Agents |->
               IF b = a THEN Append(past, [body |-> body.tokens, pass |-> ~block])
               ELSE IF b \in gone THEN <<>> ELSE recent[b]]
    BY <1>2, Zenon DEF S!CheckStructure
  <2>2. sketchVerdict'.block = block
    BY <1>2 DEF S!CheckStructure
  <2>3. sig \in Sketches
    BY DEF Sketches
  <2>4. old.sigs \in Seq(Sketches) /\ Len(old.sigs) <= SketchLen(a) /\ Len(old.sigs) \in Nat
    <3>1. CASE S!Open(a)
      <4>1. a \in DOMAIN sketches /\ old = sketches[a]
        BY <3>1 DEF S!Open, S!WindowOf
      <4>2. sketches[a].sigs \in Seq(Sketches)
        BY <4>1 DEF SketchTypes
      <4> QED
        BY <4>1, <4>2 DEF SketchLen
    <3>2. CASE ~S!Open(a)
      <4>1. old.sigs = <<>>
        BY <3>2 DEF S!WindowOf, S!FreshState
      <4> QED
        BY <1>0, <4>1
    <3> QED
      BY <3>1, <3>2
  <2>5. x \in Turn /\ x.pass = ~block /\ block \in BOOLEAN
    BY DEF Turn
  <2>6. /\ past \in Seq(Turn) /\ Len(past) <= Len(recent[a]) /\ Len(past) \in Nat
        /\ Cardinality(Refused(past)) <= Refusals(a) /\ Cardinality(Refused(past)) \in Nat
    <3>1. CASE S!Open(a)
      BY <1>0, <3>1 DEF Refusals
    <3>2. CASE ~S!Open(a)
      <4>1. past = <<>> /\ past \in Seq(Turn) /\ Len(past) = 0
        BY <3>2
      <4>2. Refused(past) = {}
        BY <4>1 DEF Refused
      <4> HIDE DEF past
      <4>3. Cardinality(Refused(past)) = 0
        BY <4>2, FS_EmptySet
      <4> QED
        BY <1>0, <4>1, <4>3
    <3> QED
      BY <3>1, <3>2
  <2>7. /\ DOMAIN sketches' = (DOMAIN sketches \ gone) \cup {a}
        /\ sketches'[a].sigs = S!AppendWindow(old.sigs, sig)
        /\ \A b \in DOMAIN sketches' \ {a} : b \in DOMAIN sketches /\ sketches'[b] = sketches[b]
        /\ recent'[a] = Append(past, x) /\ DOMAIN recent' = Agents
        /\ \A b \in Agents \ {a} : recent'[b] \in {<<>>, recent[b]}
        /\ recent' = [b \in Agents |-> recent'[b]]
    BY <2>1
  <2> HIDE DEF sig, old, block, first, past, x
  <2>8. /\ S!AppendWindow(old.sigs, sig) \in Seq(Sketches)
        /\ Len(S!AppendWindow(old.sigs, sig)) <= Len(old.sigs) + 1
    BY <2>3, <2>4, WindowGrows
  <2>9. SketchTypes'
    <3>1. \A b \in DOMAIN sketches' : sketches'[b].sigs \in Seq(Sketches)
      BY <2>7, <2>8 DEF SketchTypes
    <3>2. \A b \in Agents : recent'[b] \in Seq(Turn)
      <4>1. Append(past, x) \in Seq(Turn)
        BY <2>5, <2>6
      <4>2. <<>> \in Seq(Turn)
        OBVIOUS
      <4> QED
        BY <1>0, <2>7, <4>1, <4>2
    <3> QED
      BY <2>7, <3>1, <3>2 DEF SketchTypes
  <2>10. SketchLen(a)' <= SketchLen(a) + 1
    <3>1. SketchLen(a)' = Len(S!AppendWindow(old.sigs, sig)) /\ Len(S!AppendWindow(old.sigs, sig)) \in Nat
      BY <2>7, <2>8 DEF SketchLen
    <3> QED
      BY <1>0, <2>4, <2>8, <3>1
  <2>11. Len(recent[a])' <= Len(recent[a]) + 1
    <3>1. Len(Append(past, x)) = Len(past) + 1
      BY <2>5, <2>6
    <3> QED
      BY <1>0, <2>6, <2>7, <3>1
  <2>12. Refusals(a)' <= Refusals(a) + (IF sketchVerdict'.block THEN 1 ELSE 0)
    <3>1. /\ Cardinality(Refused(Append(past, x))) \in Nat
          /\ Cardinality(Refused(Append(past, x)))
               <= Cardinality(Refused(past)) + (IF x.pass THEN 0 ELSE 1)
      BY <2>5, <2>6, RefusedGrows
    <3>2. Refusals(a)' = Cardinality(Refused(Append(past, x)))
      BY <2>7 DEF Refusals, Refused
    <3> QED
      <4>1. Refusals(a) \in Nat
        BY <1>0
      <4>2. CASE block
        <5>1. Cardinality(Refused(Append(past, x))) <= Cardinality(Refused(past)) + 1
          BY <2>5, <3>1, <4>2
        <5>2. Refusals(a)' <= Refusals(a) + 1
          BY <2>6, <3>1, <3>2, <4>1, <5>1
        <5> QED
          BY <2>2, <4>2, <5>2
      <4>3. CASE ~block
        <5>1. Cardinality(Refused(Append(past, x))) <= Cardinality(Refused(past)) + 0
          BY <2>5, <3>1, <4>3
        <5>2. Refusals(a)' <= Refusals(a) + 0
          BY <2>6, <3>1, <3>2, <4>1, <5>1
        <5> QED
          BY <2>2, <4>3, <5>2
      <4> QED
        BY <4>2, <4>3
  <2>13. ASSUME NEW b \in Agents \ {a}
         PROVE  /\ SketchLen(b)' <= SketchLen(b) /\ Len(recent[b])' <= Len(recent[b])
                /\ Refusals(b)' <= Refusals(b)
    <3>1. SketchLen(b)' <= SketchLen(b)
      <4>1. CASE b \in DOMAIN sketches'
        <5>1. SketchLen(b)' = SketchLen(b)
          BY <2>7, <4>1 DEF SketchLen
        <5> QED
          BY <1>0, <5>1
      <4>2. CASE b \notin DOMAIN sketches'
        <5>1. SketchLen(b)' = 0
          BY <4>2 DEF SketchLen
        <5> QED
          BY <1>0, <5>1
      <4> QED
        BY <4>1, <4>2
    <3>2. CASE recent'[b] = recent[b]
      BY <1>0, <3>1, <3>2 DEF Refusals, Refused
    <3>3. CASE recent'[b] = <<>>
      <4>1. Refused(recent'[b]) = {} /\ Len(recent'[b]) = 0
        BY <3>3 DEF Refused
      <4>2. Refusals(b)' = 0
        BY <4>1, FS_EmptySet DEF Refusals, Refused
      <4> QED
        BY <1>0, <3>1, <4>1, <4>2
    <3> QED
      BY <2>7, <3>2, <3>3
  <2> QED
    BY <2>2, <2>5, <2>9, <2>10, <2>11, <2>12, <2>13
<1> QED
  BY <1>1, <1>2 DEF S!CheckPayload

LEMMA SketchReset ==
  ASSUME SketchTypes, NEW a \in Agents, S!Reset(a)
  PROVE  /\ SketchTypes' /\ SketchLen(a)' = 0 /\ Len(recent[a])' = 0 /\ Refusals(a)' = 0
         /\ \A b \in Agents \ {a} : /\ SketchLen(b)' = SketchLen(b) /\ Len(recent[b])' = Len(recent[b])
                                    /\ Refusals(b)' = Refusals(b)
<1>1. sketches' = [b \in DOMAIN sketches \ {a} |-> sketches[b]] /\ recent' = [recent EXCEPT ![a] = <<>>]
  BY DEF S!Reset
<1>2. /\ DOMAIN sketches' = DOMAIN sketches \ {a} /\ \A b \in DOMAIN sketches' : sketches'[b] = sketches[b]
      /\ recent'[a] = <<>> /\ \A b \in Agents \ {a} : recent'[b] = recent[b]
  BY <1>1 DEF SketchTypes
<1>3. recent' \in [Agents -> Seq(Turn)]
  BY <1>1 DEF SketchTypes
<1>4. SketchTypes'
  BY <1>2, <1>3 DEF SketchTypes
<1>5. SketchLen(a)' = 0 /\ Len(recent[a])' = 0
  BY <1>2 DEF SketchLen
<1>6. Refusals(a)' = 0
  <2>1. Refused(recent'[a]) = {}
    BY <1>2 DEF Refused
  <2> QED
    BY <2>1, FS_EmptySet DEF Refusals, Refused
<1>7. \A b \in Agents \ {a} : /\ SketchLen(b)' = SketchLen(b) /\ Len(recent[b])' = Len(recent[b])
                              /\ Refusals(b)' = Refusals(b)
  BY <1>2 DEF SketchLen, Refusals, Refused
<1> QED
  BY <1>4, <1>5, <1>6, <1>7

-----------------------------------------------------------------------------
(* The tool stage: a check adds at most the names of its body. *)
LEMMA ToolNumbers == ToolTypes => \A a \in Agents : NameLen(a) \in Nat
<1> SUFFICES ASSUME ToolTypes, NEW a \in Agents PROVE NameLen(a) \in Nat
  OBVIOUS
<1>1. CASE a \in DOMAIN tools
  <2>1. tools[a].seq \in Seq(STRING)
    BY <1>1 DEF ToolTypes
  <2> QED
    BY <1>1, <2>1 DEF NameLen
<1> QED
  BY <1>1 DEF NameLen

LEMMA PushGrows ==
  ASSUME NEW s \in Seq(STRING), NEW names \in Seq(STRING)
  PROVE  T!Push(s, names) \in Seq(STRING) /\ Len(T!Push(s, names)) <= Len(s) + Len(names)
<1> DEFINE g == s \o names
<1>1. g \in Seq(STRING) /\ Len(g) = Len(s) + Len(names) /\ Len(s) \in Nat /\ Len(names) \in Nat
  OBVIOUS
<1>2. MaxSeq \in Nat
  BY PipelineAssumption DEF T!ToolConstants
<1>3. T!Push(s, names) = IF Len(g) <= MaxSeq THEN g ELSE SubSeq(g, Len(g) - MaxSeq + 1, Len(g))
  BY DEF T!Push
<1> HIDE DEF g
<1>4. CASE Len(g) <= MaxSeq
  BY <1>1, <1>3, <1>4
<1>5. CASE ~(Len(g) <= MaxSeq)
  <2>1. /\ SubSeq(g, Len(g) - MaxSeq + 1, Len(g)) \in Seq(STRING)
        /\ Len(SubSeq(g, Len(g) - MaxSeq + 1, Len(g))) <= Len(g)
    BY <1>1, <1>2, <1>5, LastOfSeq
  <2> QED
    BY <1>1, <1>3, <1>5, <2>1
<1> QED
  BY <1>4, <1>5

CallsOf(body) == Len(T!ExtractToolNames(body.tools))

LEMMA CallsAreNat == \A body \in Bodies : CallsOf(body) \in Nat /\ CallsOf(body) \in Calls
<1> SUFFICES ASSUME NEW body \in Bodies PROVE CallsOf(body) \in Nat /\ CallsOf(body) \in Calls
  OBVIOUS
<1>1. T!ExtractToolNames(body.tools) \in Seq(STRING)
  BY PipelineAssumption
<1> QED
  BY <1>1 DEF CallsOf, Calls

LEMMA ToolCheck ==
  ASSUME ToolTypes, NEW a \in Agents, NEW body \in Bodies, T!CheckPayload(a, body.tools)
  PROVE  /\ ToolTypes' /\ toolVerdict'.block \in BOOLEAN
         /\ \A b \in Agents \ {a} : NameLen(b)' <= NameLen(b)
         /\ NameLen(a)' <= NameLen(a) + CallsOf(body)
<1>0. \A b \in Agents : NameLen(b) \in Nat
  BY ToolNumbers
<1>1. T!ExtractToolNames(body.tools) \in Seq(STRING) /\ CallsOf(body) \in Nat
  BY CallsAreNat, PipelineAssumption
<1>2. CASE T!CheckWithoutTools(a, body.tools)
  <2>1. UNCHANGED tools /\ toolVerdict'.block = FALSE
    BY <1>2 DEF T!CheckWithoutTools
  <2>2. ToolTypes' /\ \A b \in Agents : NameLen(b)' = NameLen(b)
    BY <2>1 DEF ToolTypes, NameLen
  <2>3. (\A b \in Agents : NameLen(b)' <= NameLen(b)) /\ NameLen(a)' <= NameLen(a) + CallsOf(body)
    BY <1>0, <1>1, <2>2
  <2> QED
    BY <2>1, <2>2, <2>3
<1>3. CASE T!CheckWithTools(a, body.tools)
  <2> DEFINE names == T!ExtractToolNames(body.tools)
             old   == T!WindowOf(a)
             seq   == T!Push(old.seq, names)
             p     == T!DetectCycle(seq)
             conf  == T!Confirm(old, p)
             block == conf >= CycleLimit
             first == block /\ old.blockedAt = T!ZeroTime
  <2>1. PICK gone \in (IF a \in DOMAIN tools THEN {{}} ELSE T!Evictions) :
          tools' = [b \in (DOMAIN tools \ gone) \cup {a} |->
               IF b # a THEN tools[b]
               ELSE [seq |-> seq, period |-> p, confirms |-> conf, expires |-> old.expires,
                     blockedAt |-> IF first THEN now ELSE old.blockedAt]]
    BY <1>3, Zenon DEF T!CheckWithTools
  <2>2. toolVerdict'.block = block /\ block \in BOOLEAN
    BY <1>3 DEF T!CheckWithTools
  <2>3. old.seq \in Seq(STRING) /\ Len(old.seq) <= NameLen(a) /\ Len(old.seq) \in Nat
    <3>1. CASE T!Open(a)
      <4>1. a \in DOMAIN tools /\ old = tools[a]
        BY <3>1 DEF T!Open, T!WindowOf
      <4>2. tools[a].seq \in Seq(STRING)
        BY <4>1 DEF ToolTypes
      <4> QED
        BY <4>1, <4>2 DEF NameLen
    <3>2. CASE ~T!Open(a)
      <4>1. old.seq = <<>>
        BY <3>2 DEF T!WindowOf, T!FreshState
      <4>2. <<>> \in Seq(STRING) /\ Len(<<>>) = 0
        OBVIOUS
      <4> HIDE DEF old
      <4> QED
        BY <1>0, <4>1, <4>2
    <3> QED
      BY <3>1, <3>2
  <2> HIDE DEF names, old, p, conf, first, block
  <2>4. seq \in Seq(STRING) /\ Len(seq) <= Len(old.seq) + Len(names) /\ Len(names) = CallsOf(body)
    BY <1>1, <2>3, PushGrows DEF names, CallsOf
  <2> HIDE DEF seq
  <2>5. /\ DOMAIN tools' = (DOMAIN tools \ gone) \cup {a} /\ tools'[a].seq = seq
        /\ \A b \in DOMAIN tools' \ {a} : b \in DOMAIN tools /\ tools'[b] = tools[b]
    BY <2>1
  <2>6. ToolTypes'
    BY <2>4, <2>5 DEF ToolTypes
  <2>7. NameLen(a)' <= NameLen(a) + CallsOf(body)
    <3>1. NameLen(a)' = Len(seq) /\ Len(seq) \in Nat
      BY <2>4, <2>5 DEF NameLen
    <3> QED
      BY <1>0, <1>1, <2>3, <2>4, <3>1
  <2>8. ASSUME NEW b \in Agents \ {a} PROVE NameLen(b)' <= NameLen(b)
    <3>1. NameLen(b)' \in {0, NameLen(b)}
      BY <2>5 DEF NameLen
    <3> QED
      BY <1>0, <3>1
  <2> QED
    BY <2>2, <2>6, <2>7, <2>8
<1> QED
  BY <1>2, <1>3 DEF T!CheckPayload

LEMMA ToolReset ==
  ASSUME ToolTypes, NEW a \in Agents, T!Reset(a)
  PROVE  /\ ToolTypes' /\ NameLen(a)' = 0
         /\ \A b \in Agents \ {a} : NameLen(b)' = NameLen(b)
<1>1. tools' = [b \in DOMAIN tools \ {a} |-> tools[b]]
  BY DEF T!Reset
<1>2. DOMAIN tools' = DOMAIN tools \ {a} /\ \A b \in DOMAIN tools' : tools'[b] = tools[b]
  BY <1>1
<1> QED
  BY <1>2 DEF ToolTypes, NameLen

-----------------------------------------------------------------------------
(* The velocity stage: a check adds at most one event to each ring and one  *)
(* observation.                                                             *)
LEMMA RateNumbers ==
  RateTypes => \A a \in Agents : EventLen(a) \in Nat /\ ShortLen(a) \in Nat /\ Len(obs[a]) \in Nat
<1> SUFFICES ASSUME RateTypes, NEW a \in Agents
             PROVE  EventLen(a) \in Nat /\ ShortLen(a) \in Nat /\ Len(obs[a]) \in Nat
  OBVIOUS
<1>1. obs[a] \in Seq(Observed)
  BY DEF RateTypes
<1>2. CASE a \in DOMAIN rates
  <2>1. rates[a].events \in Seq(Events) /\ rates[a].short \in Seq(Events)
    BY <1>2 DEF RateTypes
  <2> QED
    BY <1>1, <1>2, <2>1 DEF EventLen, ShortLen
<1> QED
  BY <1>1, <1>2 DEF EventLen, ShortLen

(* A ring through velocityState.append. *)
LEMMA RingGrows ==
  ASSUME now \in Nat, NEW s \in Seq(Events), NEW n \in Nat, NEW sum, NEW horizon \in Nat
  PROVE  LET x == V!Cap(V!Expire(Append(s, [t |-> now, n |-> n]), sum, horizon))
         IN  x.ring \in Seq(Events) /\ Len(x.ring) <= Len(s) + 1
<1> DEFINE e == [t |-> now, n |-> n]
           q == Append(s, e)
           i == V!Expired(q, now - horizon)
           y == SubSeq(q, i + 1, Len(q))
           r == V!Expire(q, sum, horizon)
           x == V!Cap(r)
<1>1. e \in Events
  BY DEF Events
<1> HIDE DEF e
<1>2. q \in Seq(Events) /\ Len(q) = Len(s) + 1 /\ Len(s) \in Nat
  BY <1>1
<1> HIDE DEF q
<1>3. \A j \in 1..Len(q) : q[j].t \in Nat
  <2>1. \A j \in 1..Len(q) : q[j] \in Events
    BY <1>2
  <2> QED
    BY <2>1 DEF Events
<1>4. i \in 0..Len(q)
  <2>1. now - horizon \in Int
    OBVIOUS
  <2> QED
    BY <1>2, <1>3, <2>1, ExpiredIsHead
<1>5. r.ring = y
  BY DEF V!Expire
<1> HIDE DEF i
<1>6. y \in Seq(Events) /\ Len(y) = Len(q) - i
  BY <1>2, <1>4, EndOfSeq
<1>7. Len(y) \in Nat /\ Len(y) <= Len(s) + 1
  BY <1>2, <1>4, <1>6
<1> HIDE DEF y, r
<1>8. MaxEvents \in Nat
  BY PipelineAssumption DEF V!VelocityConstants
<1>9. CASE Len(y) <= MaxEvents
  <2>1. x = r
    BY <1>5, <1>7, <1>8, <1>9 DEF V!Cap
  <2> QED
    BY <1>5, <1>6, <1>7, <2>1 DEF r, q, e
<1>10. CASE ~(Len(y) <= MaxEvents)
  <2>1. x.ring = SubSeq(y, Len(y) - MaxEvents + 1, Len(y))
    BY <1>5, <1>7, <1>8, <1>10 DEF V!Cap, V!LastN
  <2>2. /\ SubSeq(y, Len(y) - MaxEvents + 1, Len(y)) \in Seq(Events)
        /\ Len(SubSeq(y, Len(y) - MaxEvents + 1, Len(y))) <= Len(y)
    BY <1>6, <1>8, <1>10, LastOfSeq
  <2>3. x.ring \in Seq(Events) /\ Len(x.ring) <= Len(s) + 1
    <3>1. x.ring \in Seq(Events) /\ Len(x.ring) <= Len(y)
      BY <2>1, <2>2
    <3> HIDE DEF x
    <3>2. Len(x.ring) \in Nat
      BY <3>1
    <3> QED
      BY <1>2, <1>7, <3>1, <3>2
  <2> QED
    BY <2>3 DEF r, q, e
<1> QED
  BY <1>9, <1>10

-----------------------------------------------------------------------------
LEMMA RateCheck ==
  ASSUME RateTypes, now \in Nat, NEW a \in Agents, NEW n \in Nat, V!CheckVelocity(a, n)
  PROVE  /\ RateTypes'
         /\ \A b \in Agents \ {a} : EventLen(b)' <= EventLen(b) /\ ShortLen(b)' <= ShortLen(b)
                                    /\ Len(obs[b])' <= Len(obs[b])
         /\ EventLen(a)' <= EventLen(a) + 1 /\ ShortLen(a)' <= ShortLen(a) + 1
         /\ Len(obs[a])' <= Len(obs[a]) + 1
<1>0. \A b \in Agents : EventLen(b) \in Nat /\ ShortLen(b) \in Nat /\ Len(obs[b]) \in Nat
                        /\ obs[b] \in Seq(Observed)
  BY RateNumbers DEF RateTypes
<1>c. Window \in Nat /\ ShortWindow \in Nat
  BY PipelineAssumption DEF V!VelocityConstants
<1> DEFINE old   == IF a \in DOMAIN rates THEN rates[a] ELSE V!FreshState
           st    == V!Appended(old, n)
           block == V!Burst(st) \/ V!Spike(st)
           first == block /\ st.blockedAt = V!ZeroTime
           flag  == IF first THEN now
                    ELSE IF ~block /\ st.blockedAt # V!ZeroTime /\ V!Subsided(st)
                         THEN V!ZeroTime
                         ELSE st.blockedAt
           o     == [t |-> now, n |-> n, pass |-> ~block]
           i     == V!Expired(obs[a], now - Window)
           k     == SubSeq(obs[a], i + 1, Len(obs[a]))
<1>1. PICK gone \in (IF a \in DOMAIN rates THEN {{}} ELSE V!Evictions) :
        /\ rates' = [b \in (DOMAIN rates \ gone) \cup {a} |->
                       IF b = a THEN [st EXCEPT !.blockedAt = flag] ELSE rates[b]]
        /\ obs' = [b \in Agents |->
                     IF b = a THEN Append(V!Kept(a), [t |-> now, n |-> n, pass |-> ~block])
                     ELSE IF b \in gone THEN <<>> ELSE obs[b]]
  BY Zenon DEF V!CheckVelocity
<1>2. /\ [st EXCEPT !.blockedAt = flag].events = st.events
      /\ [st EXCEPT !.blockedAt = flag].short = st.short
      /\ st.events = V!Cap(V!Expire(Append(old.events, [t |-> now, n |-> n]), old.sumLong + n, Window)).ring
      /\ st.short = V!Cap(V!Expire(Append(old.short, [t |-> now, n |-> n]), old.sumShort + n, ShortWindow)).ring
  BY DEF V!Appended
<1>3. /\ old.events \in Seq(Events) /\ Len(old.events) = EventLen(a)
      /\ old.short \in Seq(Events) /\ Len(old.short) = ShortLen(a)
  <2>1. CASE a \in DOMAIN rates
    BY <2>1 DEF RateTypes, EventLen, ShortLen
  <2>2. CASE a \notin DOMAIN rates
    BY <2>2 DEF V!FreshState, EventLen, ShortLen
  <2> QED
    BY <2>1, <2>2
<1>4. V!Kept(a) = k
  BY DEF V!Kept
<1>5. o \in Observed
  BY DEF Observed
<1> HIDE DEF old, block, first, flag, o
<1>6. k \in Seq(Observed) /\ Len(k) <= Len(obs[a]) /\ Len(k) \in Nat
  <2> DEFINE h == obs[a]
  <2>0. h \in Seq(Observed) /\ Len(h) \in Nat
    BY <1>0
  <2>1. \A j \in 1..Len(h) : h[j].t \in Nat
    <3>1. \A j \in 1..Len(h) : h[j] \in Observed
      BY <2>0
    <3> QED
      BY <3>1 DEF Observed
  <2>2. now - Window \in Int
    BY <1>c
  <2>3. i \in 0..Len(h)
    <3> HIDE DEF h
    <3>1. V!Expired(h, now - Window) \in 0..Len(h)
      BY <2>0, <2>1, <2>2, ExpiredIsHead
    <3> QED
      BY <3>1 DEF h
  <2> HIDE DEF h, i
  <2>4. SubSeq(h, i + 1, Len(h)) \in Seq(Observed) /\ Len(SubSeq(h, i + 1, Len(h))) = Len(h) - i
    BY <2>0, <2>3, EndOfSeq
  <2>5. k = SubSeq(h, i + 1, Len(h))
    BY DEF h
  <2> HIDE DEF k
  <2>6. k \in Seq(Observed) /\ Len(k) = Len(h) - i
    BY <2>4, <2>5
  <2>7. Len(k) <= Len(h) /\ Len(k) \in Nat
    BY <2>0, <2>3, <2>6
  <2> QED
    BY <2>6, <2>7 DEF h
<1> HIDE DEF k, i
<1>7. /\ st.events \in Seq(Events) /\ Len(st.events) <= EventLen(a) + 1
      /\ st.short \in Seq(Events) /\ Len(st.short) <= ShortLen(a) + 1
  <2> HIDE DEF st
  <2>1. /\ V!Cap(V!Expire(Append(old.events, [t |-> now, n |-> n]), old.sumLong + n, Window)).ring \in Seq(Events)
        /\ Len(V!Cap(V!Expire(Append(old.events, [t |-> now, n |-> n]), old.sumLong + n, Window)).ring) <= Len(old.events) + 1
    BY <1>c, <1>3, RingGrows
  <2>2. /\ V!Cap(V!Expire(Append(old.short, [t |-> now, n |-> n]), old.sumShort + n, ShortWindow)).ring \in Seq(Events)
        /\ Len(V!Cap(V!Expire(Append(old.short, [t |-> now, n |-> n]), old.sumShort + n, ShortWindow)).ring) <= Len(old.short) + 1
    BY <1>c, <1>3, RingGrows
  <2> QED
    BY <1>2, <1>3, <2>1, <2>2
<1>8. /\ DOMAIN rates' = (DOMAIN rates \ gone) \cup {a}
      /\ rates'[a].events = st.events /\ rates'[a].short = st.short
      /\ \A b \in DOMAIN rates' \ {a} : b \in DOMAIN rates /\ rates'[b] = rates[b]
      /\ obs'[a] = Append(k, o)
      /\ \A b \in Agents \ {a} : obs'[b] \in {<<>>, obs[b]}
      /\ obs' = [b \in Agents |-> obs'[b]]
  BY <1>1, <1>2, <1>4 DEF o
<1> HIDE DEF st
<1>9. Append(k, o) \in Seq(Observed) /\ Len(Append(k, o)) = Len(k) + 1
  BY <1>5, <1>6
<1>10. RateTypes'
  <2>1. \A b \in DOMAIN rates' : rates'[b].events \in Seq(Events) /\ rates'[b].short \in Seq(Events)
    BY <1>7, <1>8 DEF RateTypes
  <2>2. <<>> \in Seq(Observed)
    OBVIOUS
  <2>3. \A b \in Agents : obs'[b] \in Seq(Observed)
    BY <1>0, <1>8, <1>9, <2>2
  <2>4. DOMAIN rates' \subseteq Agents
    BY <1>8 DEF RateTypes
  <2> QED
    BY <1>8, <2>1, <2>3, <2>4 DEF RateTypes
<1>11. EventLen(a)' <= EventLen(a) + 1 /\ ShortLen(a)' <= ShortLen(a) + 1
  <2>1. EventLen(a)' = Len(st.events) /\ ShortLen(a)' = Len(st.short)
    BY <1>8 DEF EventLen, ShortLen
  <2> QED
    BY <1>7, <2>1
<1>12. Len(obs[a])' <= Len(obs[a]) + 1
  BY <1>0, <1>6, <1>8, <1>9
<1>13. ASSUME NEW b \in Agents \ {a}
       PROVE  EventLen(b)' <= EventLen(b) /\ ShortLen(b)' <= ShortLen(b) /\ Len(obs[b])' <= Len(obs[b])
  <2>1. (EventLen(b)' = 0 /\ ShortLen(b)' = 0) \/ (EventLen(b)' = EventLen(b) /\ ShortLen(b)' = ShortLen(b))
    BY <1>8 DEF EventLen, ShortLen
  <2>2. Len(obs'[b]) \in {0, Len(obs[b])}
    BY <1>8
  <2> QED
    BY <1>0, <2>1, <2>2
<1> QED
  BY <1>10, <1>11, <1>12, <1>13

LEMMA RateReset ==
  ASSUME RateTypes, NEW a \in Agents, V!Reset(a)
  PROVE  /\ RateTypes' /\ EventLen(a)' = 0 /\ ShortLen(a)' = 0 /\ Len(obs[a])' = 0
         /\ \A b \in Agents \ {a} : EventLen(b)' = EventLen(b) /\ ShortLen(b)' = ShortLen(b)
                                    /\ Len(obs[b])' = Len(obs[b])
<1>1. rates' = [b \in DOMAIN rates \ {a} |-> rates[b]] /\ obs' = [obs EXCEPT ![a] = <<>>]
  BY DEF V!Reset
<1>2. /\ DOMAIN rates' = DOMAIN rates \ {a} /\ \A b \in DOMAIN rates' : rates'[b] = rates[b]
      /\ obs'[a] = <<>> /\ \A b \in Agents \ {a} : obs'[b] = obs[b]
  BY <1>1 DEF RateTypes
<1>3. obs' \in [Agents -> Seq(Observed)]
  BY <1>1 DEF RateTypes
<1> QED
  BY <1>2, <1>3 DEF RateTypes, EventLen, ShortLen

LEMMA TokensAreNat == \A body \in Bodies : EstimateTokens(body) \in Nat
BY PipelineAssumption DEF V!VelocityConstants

-----------------------------------------------------------------------------
(* The exact stage. *)
LEMMA OneMore ==
  ASSUME NEW A, IsFiniteSet(A), NEW B, NEW x, B \subseteq A \cup {x}
  PROVE  IsFiniteSet(B) /\ Cardinality(B) \in Nat /\ Cardinality(B) <= Cardinality(A) + 1
<1> DEFINE C == A \cup {x}
<1>1. IsFiniteSet(C) /\ Cardinality(C) = IF x \in A THEN Cardinality(A) ELSE Cardinality(A) + 1
  BY FS_AddElement
<1>2. B \in SUBSET C
  OBVIOUS
<1> HIDE DEF C
<1>3. IsFiniteSet(B) /\ Cardinality(B) <= Cardinality(C)
  BY <1>1, <1>2, FS_Subset
<1>4. Cardinality(A) \in Nat /\ Cardinality(B) \in Nat /\ Cardinality(C) \in Nat
  BY <1>1, <1>3, FS_CardinalityType
<1> QED
  BY <1>1, <1>3, <1>4

LEMMA NoMore ==
  ASSUME NEW A, IsFiniteSet(A), NEW B, B \subseteq A
  PROVE  IsFiniteSet(B) /\ Cardinality(B) \in Nat /\ Cardinality(B) <= Cardinality(A)
<1>1. B \in SUBSET A
  OBVIOUS
<1>2. IsFiniteSet(B) /\ Cardinality(B) <= Cardinality(A)
  BY <1>1, FS_Subset
<1> QED
  BY <1>2, FS_CardinalityType

SightingsIn(f, a) == UNION {{k} \X (1..f[k].count) : k \in {l \in DOMAIN f : l[1] = a}}

LEMMA SightingsIff ==
  ASSUME NEW f, NEW a
  PROVE  \A z : z \in SightingsIn(f, a) <=>
                  \E l \in DOMAIN f : l[1] = a /\ \E j \in 1..f[l].count : z = <<l, j>>
BY DEF SightingsIn

(* One entry of the map changes, and counts one more at most. *)
CountsOneMore(f, g, k, x) ==
  /\ DOMAIN g \subseteq DOMAIN f \cup {k}
  /\ \A l \in DOMAIN g \ {k} : g[l].count = f[l].count
  /\ k \in DOMAIN g => \A j \in 1..g[k].count : j = x \/ (k \in DOMAIN f /\ j \in 1..f[k].count)

LEMMA SightingsGrow ==
  ASSUME NEW f, NEW g, NEW k, NEW x, CountsOneMore(f, g, k, x)
  PROVE  /\ \A a : SightingsIn(g, a) \subseteq SightingsIn(f, a) \cup {<<k, x>>}
         /\ \A a : a # k[1] => SightingsIn(g, a) \subseteq SightingsIn(f, a)
<1> SUFFICES ASSUME NEW a, NEW z \in SightingsIn(g, a)
             PROVE  /\ z \in SightingsIn(f, a) \/ z = <<k, x>>
                    /\ a # k[1] => z \in SightingsIn(f, a)
  OBVIOUS
<1>0. PICK l \in DOMAIN g : l[1] = a /\ \E j \in 1..g[l].count : z = <<l, j>>
  BY SightingsIff
<1>1. PICK j \in 1..g[l].count : z = <<l, j>>
  BY <1>0
<1>2. CASE l # k
  <2>1. l \in DOMAIN f /\ j \in 1..f[l].count
    BY <1>0, <1>1, <1>2 DEF CountsOneMore
  <2>2. z \in SightingsIn(f, a)
    BY <1>0, <1>1, <2>1, SightingsIff
  <2> QED
    BY <2>2
<1>3. CASE l = k
  <2>1. j = x \/ (k \in DOMAIN f /\ j \in 1..f[k].count)
    BY <1>0, <1>1, <1>3 DEF CountsOneMore
  <2>2. k \in DOMAIN f /\ j \in 1..f[k].count => z \in SightingsIn(f, a)
    BY <1>0, <1>1, <1>3, SightingsIff
  <2> QED
    BY <1>0, <1>1, <1>3, <2>1, <2>2
<1> QED
  BY <1>2, <1>3

ExactTypes ==
  /\ DOMAIN seen \subseteq Agents \X Fps
  /\ \A k \in DOMAIN seen : seen[k].count \in Nat /\ seen[k].expires \in Nat /\ seen[k].expires >= HashTTL
  /\ passed \in [Agents \X Fps -> SUBSET (Nat \X Nat)]
  /\ IsFiniteSet(DOMAIN seen)
  /\ \A a \in Agents : IsFiniteSet(Sightings(a))

(* What a check of k makes of the map. *)
LEMMA ExactMap ==
  ASSUME ExactTypes, now \in Nat, NEW k \in Agents \X Fps, E!Check(k)
  PROVE  /\ DOMAIN seen' \subseteq DOMAIN seen \cup {k} /\ k \in DOMAIN seen'
         /\ \A l \in DOMAIN seen' \ {k} : l \in DOMAIN seen /\ seen'[l] = seen[l]
         /\ seen'[k].count \in Nat /\ seen'[k].expires \in Nat /\ seen'[k].expires >= HashTTL
         /\ \E x : \A j \in 1..seen'[k].count : j = x \/ (k \in DOMAIN seen /\ j \in 1..seen[k].count)
         /\ passed' \in [Agents \X Fps -> SUBSET (Nat \X Nat)]
         /\ verdict'.block \in BOOLEAN /\ now' = now
<1>0. HashTTL \in Nat /\ E!Keys = Agents \X Fps
  BY PipelineAssumption DEF E!Keys
<1>1. CASE E!OpenWindow(k)
  <2>1. PICK gone \in E!Evictions :
          /\ seen' = [l \in (DOMAIN seen \ gone) \cup {k} |-> IF l = k THEN E!NewEntry(now) ELSE seen[l]]
          /\ passed' = [E!Forget(gone) EXCEPT ![k] = @ \cup {<<now, 1>>}]
    BY <1>1, Zenon DEF E!OpenWindow
  <2>2. E!NewEntry(now).count = 1 /\ E!NewEntry(now).expires = now + HashTTL
    BY DEF E!NewEntry
  <2>3. verdict'.block = FALSE /\ now' = now
    BY <1>1 DEF E!OpenWindow, E!Pass
  <2>4. /\ DOMAIN seen' = (DOMAIN seen \ gone) \cup {k}
        /\ seen'[k] = E!NewEntry(now) /\ \A l \in DOMAIN seen' \ {k} : l \in DOMAIN seen /\ seen'[l] = seen[l]
    BY <2>1
  <2>5. E!Forget(gone) \in [Agents \X Fps -> SUBSET (Nat \X Nat)]
    BY <1>0 DEF E!Forget, ExactTypes
  <2>6. passed' \in [Agents \X Fps -> SUBSET (Nat \X Nat)]
    <3> DEFINE F == E!Forget(gone)
    <3>1. passed' = [F EXCEPT ![k] = F[k] \cup {<<now, 1>>}] /\ <<now, 1>> \in Nat \X Nat
      BY <2>1
    <3> HIDE DEF F
    <3>2. F \in [Agents \X Fps -> SUBSET (Nat \X Nat)]
      BY <2>5 DEF F
    <3>3. F[k] \cup {<<now, 1>>} \in SUBSET (Nat \X Nat)
      BY <3>1, <3>2
    <3> QED
      BY <3>1, <3>2, <3>3
  <2>7. \A j \in 1..seen'[k].count : j = 1
    BY <2>2, <2>4
  <2>8. /\ seen'[k].count \in Nat /\ seen'[k].expires \in Nat /\ seen'[k].expires >= HashTTL
    BY <1>0, <2>2, <2>4
  <2> QED
    BY <2>3, <2>4, <2>6, <2>7, <2>8
<1>2. CASE E!RepeatSighting(k)
  <2>1. /\ k \in DOMAIN seen /\ seen' = [seen EXCEPT ![k] = E!Counted(seen[k])]
        /\ verdict' = E!RepeatVerdict(seen[k]) /\ now' = now
        /\ passed' = [passed EXCEPT ![k] =
                        IF verdict'.block THEN passed[k] ELSE passed[k] \cup {<<now, seen'[k].count>>}]
    BY <1>2 DEF E!RepeatSighting, E!LiveKeys
  <2>2. E!Counted(seen[k]).count = seen[k].count + 1 /\ E!Counted(seen[k]).expires = seen[k].expires
    BY DEF E!Counted
  <2>3. verdict'.block \in BOOLEAN
    BY <2>1 DEF E!RepeatVerdict, E!Pass
  <2>4. /\ DOMAIN seen' = DOMAIN seen /\ seen'[k] = E!Counted(seen[k])
        /\ \A l \in DOMAIN seen' \ {k} : seen'[l] = seen[l]
    BY <2>1
  <2>5. seen[k].count \in Nat /\ seen[k].expires \in Nat /\ seen[k].expires >= HashTTL
    BY <2>1 DEF ExactTypes
  <2>6. seen'[k].count = seen[k].count + 1 /\ seen'[k].expires = seen[k].expires
    BY <2>2, <2>4
  <2>7. \A j \in 1..seen'[k].count : j = seen[k].count + 1 \/ j \in 1..seen[k].count
    BY <2>5, <2>6
  <2>8. passed' \in [Agents \X Fps -> SUBSET (Nat \X Nat)]
    <3> DEFINE P == IF verdict'.block THEN passed[k] ELSE passed[k] \cup {<<now, seen'[k].count>>}
    <3>1. <<now, seen'[k].count>> \in Nat \X Nat
      BY <2>5, <2>6
    <3>2. passed[k] \in SUBSET (Nat \X Nat)
      BY DEF ExactTypes
    <3>3. P \in SUBSET (Nat \X Nat)
      BY <3>1, <3>2
    <3>4. passed' = [passed EXCEPT ![k] = P]
      BY <2>1
    <3> HIDE DEF P
    <3> QED
      BY <3>3, <3>4 DEF ExactTypes
  <2>9. seen'[k].count \in Nat /\ seen'[k].expires \in Nat /\ seen'[k].expires >= HashTTL
    BY <2>5, <2>6
  <2> QED
    BY <2>1, <2>3, <2>4, <2>7, <2>8, <2>9
<1> QED
  BY <1>1, <1>2 DEF E!Check

LEMMA ExactCheck ==
  ASSUME ExactTypes, now \in Nat, NEW a \in Agents, NEW fp \in Fps, E!Check(<<a, fp>>)
  PROVE  /\ ExactTypes' /\ verdict'.block \in BOOLEAN /\ now' = now
         /\ Cardinality(DOMAIN seen)' <= Cardinality(DOMAIN seen) + 1
         /\ \A b \in Agents : Cardinality(Sightings(b)') \in Nat
         /\ Cardinality(Sightings(a)') <= Cardinality(Sightings(a)) + 1
         /\ \A b \in Agents \ {a} : Cardinality(Sightings(b)') <= Cardinality(Sightings(b))
<1> DEFINE k == <<a, fp>>
<1>1. k \in Agents \X Fps /\ k[1] = a
  OBVIOUS
<1>1a. E!Check(k)
  OBVIOUS
<1> HIDE DEF k
<1>2. /\ DOMAIN seen' \subseteq DOMAIN seen \cup {k} /\ k \in DOMAIN seen'
      /\ \A l \in DOMAIN seen' \ {k} : l \in DOMAIN seen /\ seen'[l] = seen[l]
      /\ seen'[k].count \in Nat /\ seen'[k].expires \in Nat /\ seen'[k].expires >= HashTTL
      /\ passed' \in [Agents \X Fps -> SUBSET (Nat \X Nat)]
      /\ verdict'.block \in BOOLEAN /\ now' = now
  BY <1>1, <1>1a, ExactMap
<1>3. PICK x : \A j \in 1..seen'[k].count : j = x \/ (k \in DOMAIN seen /\ j \in 1..seen[k].count)
  BY <1>1, <1>1a, ExactMap
<1>4. /\ \A b : SightingsIn(seen', b) \subseteq SightingsIn(seen, b) \cup {<<k, x>>}
      /\ \A b : b # a => SightingsIn(seen', b) \subseteq SightingsIn(seen, b)
  <2>1. \A l \in DOMAIN seen' \ {k} : seen'[l].count = seen[l].count
    BY <1>2
  <2>2. CountsOneMore(seen, seen', k, x)
    BY <1>2, <1>3, <2>1 DEF CountsOneMore
  <2> QED
    BY <1>1, <2>2, SightingsGrow
<1>5. \A b \in Agents : /\ Sightings(b)' = SightingsIn(seen', b) /\ Sightings(b) = SightingsIn(seen, b)
                        /\ IsFiniteSet(SightingsIn(seen, b))
  BY DEF Sightings, SightingsIn, ExactTypes
<1>6. \A b \in Agents : /\ IsFiniteSet(SightingsIn(seen', b)) /\ Cardinality(SightingsIn(seen', b)) \in Nat
                        /\ Cardinality(SightingsIn(seen', b)) <= Cardinality(SightingsIn(seen, b)) + 1
  BY <1>4, <1>5, OneMore
<1>7. \A b \in Agents \ {a} : Cardinality(SightingsIn(seen', b)) <= Cardinality(SightingsIn(seen, b))
  BY <1>4, <1>5, NoMore
<1>8. IsFiniteSet(DOMAIN seen') /\ Cardinality(DOMAIN seen') <= Cardinality(DOMAIN seen) + 1
  <2>1. IsFiniteSet(DOMAIN seen)
    BY DEF ExactTypes
  <2> QED
    BY <1>2, <2>1, OneMore
<1>9. ExactTypes'
  <2>1. DOMAIN seen' \subseteq Agents \X Fps
    BY <1>1, <1>2 DEF ExactTypes
  <2>2. \A l \in DOMAIN seen' : seen'[l].count \in Nat /\ seen'[l].expires \in Nat /\ seen'[l].expires >= HashTTL
    BY <1>2 DEF ExactTypes
  <2>3. \A b \in Agents : IsFiniteSet(Sightings(b)')
    BY <1>5, <1>6
  <2> QED
    BY <1>2, <1>8, <2>1, <2>2, <2>3 DEF ExactTypes
<1> QED
  BY <1>2, <1>5, <1>6, <1>7, <1>8, <1>9

-----------------------------------------------------------------------------
(* The passes of the exact stage, and what its windows say of them. *)
KeysOf(a) == {a} \X Fps

PassesIn(p, a) == UNION {{<<k, q>> : q \in p[k]} : k \in KeysOf(a)}

Passes(a) == PassesIn(passed, a)

Remembers(a) ==
  \A k \in KeysOf(a) :
    /\ k \notin DOMAIN seen => passed[k] = {}
    /\ k \in DOMAIN seen => \A q \in passed[k] : q[2] <= seen[k].count

LEMMA KeysAreApart ==
  /\ \A a \in Agents : KeysOf(a) \subseteq Agents \X Fps /\ \A fp \in Fps : <<a, fp>> \in KeysOf(a)
  /\ \A a, k : k \in KeysOf(a) => k[1] = a
  /\ \A k \in Agents \X Fps : k \in KeysOf(k[1])
BY DEF KeysOf

LEMMA PassesIff ==
  ASSUME NEW p, NEW a, NEW z
  PROVE  z \in PassesIn(p, a) <=> \E k \in KeysOf(a) : \E q \in p[k] : z = <<k, q>>
<1>1. z \in PassesIn(p, a) <=> \E k \in KeysOf(a) : z \in {<<k, q>> : q \in p[k]}
  BY DEF PassesIn
<1>2. \A k : z \in {<<k, q>> : q \in p[k]} <=> \E q \in p[k] : z = <<k, q>>
  OBVIOUS
<1> QED
  BY <1>1, <1>2

LEMMA SamePasses ==
  ASSUME NEW p, NEW g, NEW a, \A k \in KeysOf(a) : g[k] = p[k]
  PROVE  PassesIn(g, a) = PassesIn(p, a)
<1>1. ASSUME NEW z PROVE z \in PassesIn(g, a) <=> z \in PassesIn(p, a)
  <2>1. z \in PassesIn(p, a) <=> \E k \in KeysOf(a) : \E q \in p[k] : z = <<k, q>>
    BY PassesIff
  <2>2. z \in PassesIn(g, a) <=> \E k \in KeysOf(a) : \E q \in g[k] : z = <<k, q>>
    BY PassesIff
  <2> QED
    BY <2>1, <2>2
<1> QED
  BY <1>1

LEMMA OnePass ==
  ASSUME NEW p, NEW g, NEW a, NEW k \in KeysOf(a), NEW x, x \notin p[k],
         g[k] = p[k] \cup {x}, \A l \in KeysOf(a) \ {k} : g[l] = p[l],
         IsFiniteSet(PassesIn(p, a))
  PROVE  IsFiniteSet(PassesIn(g, a)) /\ Cardinality(PassesIn(g, a)) = Cardinality(PassesIn(p, a)) + 1
<1> DEFINE y == <<k, x>>
<1>1. y \notin PassesIn(p, a)
  <2>1. y \in PassesIn(p, a) <=> \E l \in KeysOf(a) : \E q \in p[l] : y = <<l, q>>
    BY PassesIff
  <2> QED
    BY <2>1
<1>2. ASSUME NEW z PROVE z \in PassesIn(g, a) <=> z \in PassesIn(p, a) \/ z = y
  <2>1. z \in PassesIn(p, a) <=> \E l \in KeysOf(a) : \E q \in p[l] : z = <<l, q>>
    BY PassesIff
  <2>2. z \in PassesIn(g, a) <=> \E l \in KeysOf(a) : \E q \in g[l] : z = <<l, q>>
    BY PassesIff
  <2>3. \A l \in KeysOf(a) : \A q : q \in g[l] <=> q \in p[l] \/ (l = k /\ q = x)
    OBVIOUS
  <2> QED
    BY <2>1, <2>2, <2>3
<1> HIDE DEF y
<1>3. PassesIn(g, a) = PassesIn(p, a) \cup {y}
  BY <1>2
<1> QED
  BY <1>1, <1>3, FS_AddElement

(* Before the first window ends and while there is room, a check that       *)
(* passes is a pass more, and no other is forgotten.                        *)
LEMMA ExactPasses ==
  ASSUME ExactTypes, now \in Nat, NEW a \in Agents, NEW fp \in Fps, E!Check(<<a, fp>>),
         now < HashTTL, Cardinality(DOMAIN seen) < MaxEntries
  PROVE  /\ \A b \in Agents \ {a} : Passes(b)' = Passes(b) /\ (Remembers(b) => Remembers(b)')
         /\ Remembers(a) /\ IsFiniteSet(Passes(a)) =>
              /\ Remembers(a)' /\ IsFiniteSet(Passes(a))'
              /\ Cardinality(Passes(a))' = Cardinality(Passes(a)) + (IF verdict'.block THEN 0 ELSE 1)
<1> DEFINE k == <<a, fp>>
<1>0. /\ k \in Agents \X Fps /\ E!Keys = Agents \X Fps
      /\ k \in KeysOf(a) /\ \A b \in Agents \ {a} : k \notin KeysOf(b)
      /\ \A b \in Agents : KeysOf(b) \subseteq Agents \X Fps
  BY KeysAreApart DEF E!Keys
<1>c. HashTTL \in Nat /\ MaxEntries \in Nat /\ Cardinality(DOMAIN seen) \in Nat
  BY PipelineAssumption, FS_CardinalityType DEF ExactTypes
<1>1. \A l \in DOMAIN seen : l \in E!LiveKeys
  BY <1>c DEF E!LiveKeys, E!Live, ExactTypes
<1>2. E!Evictions = {{}}
  <2>1. E!Excess <= 0
    BY <1>c, OneCardinality DEF E!Excess
  <2> QED
    BY <2>1 DEF E!Evictions
<1>3. \A l \in Agents \X Fps : passed[l] \in SUBSET (Nat \X Nat)
  BY DEF ExactTypes
<1>a. E!Check(k)
  OBVIOUS
<1> HIDE DEF k
<1>4. ASSUME NEW x, NEW c,
             /\ \A l \in Agents \X Fps : l # k => passed'[l] = passed[l]
             /\ \A l : l # k => (l \in DOMAIN seen' <=> l \in DOMAIN seen)
             /\ \A l \in DOMAIN seen : l # k => seen'[l] = seen[l]
             /\ k \in DOMAIN seen' /\ seen'[k].count = c /\ c \in Nat
             /\ Remembers(a) => \A q \in passed[k] : q[2] <= c /\ q # x
             /\ x = <<now, c>> /\ passed'[k] = IF verdict'.block THEN passed[k] ELSE passed[k] \cup {x}
      PROVE  /\ \A b \in Agents \ {a} : Passes(b)' = Passes(b) /\ (Remembers(b) => Remembers(b)')
             /\ Remembers(a) /\ IsFiniteSet(Passes(a)) =>
                  /\ Remembers(a)' /\ IsFiniteSet(Passes(a))'
                  /\ Cardinality(Passes(a))' = Cardinality(Passes(a)) + (IF verdict'.block THEN 0 ELSE 1)
  <2>1. ASSUME NEW b \in Agents \ {a}
        PROVE  Passes(b)' = Passes(b) /\ (Remembers(b) => Remembers(b)')
    <3>1. \A l \in KeysOf(b) : passed'[l] = passed[l]
      BY <1>0, <1>4
    <3>2. PassesIn(passed', b) = PassesIn(passed, b)
      BY <3>1, SamePasses
    <3>3. Passes(b)' = PassesIn(passed', b)
      BY DEF Passes, PassesIn, KeysOf
    <3>4. \A l \in KeysOf(b) : /\ l \in DOMAIN seen' <=> l \in DOMAIN seen
                               /\ l \in DOMAIN seen => seen'[l] = seen[l]
      BY <1>0, <1>4
    <3>5. Remembers(b) => Remembers(b)'
      BY <3>1, <3>4 DEF Remembers
    <3> QED
      BY <3>2, <3>3, <3>5 DEF Passes
  <2>2. ASSUME Remembers(a), IsFiniteSet(Passes(a))
        PROVE  /\ Remembers(a)' /\ IsFiniteSet(Passes(a))'
               /\ Cardinality(Passes(a))' = Cardinality(Passes(a)) + (IF verdict'.block THEN 0 ELSE 1)
    <3>1. \A l \in KeysOf(a) \ {k} : passed'[l] = passed[l]
      BY <1>0, <1>4
    <3>2. Passes(a)' = PassesIn(passed', a) /\ IsFiniteSet(PassesIn(passed, a))
      BY <2>2 DEF Passes, PassesIn, KeysOf
    <3>3. \A q \in passed'[k] : q[2] <= c
      <4>1. x[2] = c
        BY <1>4
      <4>2. \A q \in passed[k] : q[2] <= c
        BY <1>4, <2>2
      <4> QED
        BY <1>4, <4>1, <4>2
    <3>4. Remembers(a)'
      <4>1. ASSUME NEW l \in KeysOf(a) \ {k}
            PROVE  /\ l \notin DOMAIN seen' => passed'[l] = {}
                   /\ l \in DOMAIN seen' => \A q \in passed'[l] : q[2] <= seen'[l].count
        <5>1. /\ l \in DOMAIN seen' <=> l \in DOMAIN seen
              /\ l \in DOMAIN seen => seen'[l] = seen[l]
          BY <1>0, <1>4
        <5> QED
          BY <2>2, <3>1, <5>1 DEF Remembers
      <4>2. k \in DOMAIN seen' /\ \A q \in passed'[k] : q[2] <= seen'[k].count
        BY <1>4, <3>3
      <4> QED
        BY <4>1, <4>2 DEF Remembers, KeysOf
    <3>5. CASE verdict'.block
      <4>1. \A l \in KeysOf(a) : passed'[l] = passed[l]
        BY <1>4, <3>1, <3>5
      <4>2. PassesIn(passed', a) = PassesIn(passed, a)
        BY <4>1, SamePasses
      <4>3. Cardinality(Passes(a)) \in Nat
        BY <2>2, FS_CardinalityType
      <4> QED
        BY <3>2, <3>4, <3>5, <4>2, <4>3 DEF Passes
    <3>6. CASE ~verdict'.block
      <4>1. x \notin passed[k] /\ passed'[k] = passed[k] \cup {x} /\ k \in KeysOf(a)
        BY <1>0, <1>4, <2>2, <3>6
      <4>2. IsFiniteSet(PassesIn(passed', a)) /\ Cardinality(PassesIn(passed', a)) = Cardinality(PassesIn(passed, a)) + 1
        BY <3>1, <3>2, <4>1, OnePass
      <4> QED
        BY <3>2, <3>4, <3>6, <4>2 DEF Passes
    <3> QED
      BY <3>5, <3>6
  <2> QED
    BY <2>1, <2>2
<1>5. CASE E!OpenWindow(k)
  <2> DEFINE x == <<now, 1>>
  <2>1. /\ seen' = [l \in (DOMAIN seen \ {}) \cup {k} |-> IF l = k THEN E!NewEntry(now) ELSE seen[l]]
        /\ passed' = [E!Forget({}) EXCEPT ![k] = E!Forget({})[k] \cup {<<now, 1>>}]
    BY <1>2, <1>5 DEF E!OpenWindow
  <2>2. E!Forget({}) = [l \in Agents \X Fps |-> passed[l]]
    BY <1>0 DEF E!Forget
  <2>3. verdict'.block = FALSE /\ k \notin DOMAIN seen
    BY <1>1, <1>5 DEF E!OpenWindow, E!Pass
  <2>4. seen'[k].count = 1 /\ k \in DOMAIN seen'
    BY <2>1 DEF E!NewEntry
  <2>5. /\ \A l \in Agents \X Fps : l # k => passed'[l] = passed[l]
        /\ passed'[k] = passed[k] \cup {x}
    BY <1>0, <2>1, <2>2
  <2>6. /\ \A l : l # k => (l \in DOMAIN seen' <=> l \in DOMAIN seen)
        /\ \A l \in DOMAIN seen : l # k => seen'[l] = seen[l]
    BY <2>1
  <2>7. Remembers(a) => passed[k] = {}
    BY <1>0, <2>3 DEF Remembers
  <2>8. passed'[k] = IF verdict'.block THEN passed[k] ELSE passed[k] \cup {x}
    BY <2>3, <2>5
  <2>9. Remembers(a) => \A q \in passed[k] : q[2] <= 1 /\ q # x
    BY <2>7
  <2>10. x = <<now, 1>> /\ 1 \in Nat
    OBVIOUS
  <2> HIDE DEF x
  <2> QED
    BY <1>4, <2>4, <2>5, <2>6, <2>8, <2>9, <2>10
<1>6. CASE E!RepeatSighting(k)
  <2> DEFINE c == seen[k].count + 1
             x == <<now, c>>
  <2>1. /\ k \in DOMAIN seen /\ seen' = [seen EXCEPT ![k] = E!Counted(seen[k])]
        /\ passed' = [passed EXCEPT ![k] =
                        IF verdict'.block THEN passed[k] ELSE passed[k] \cup {<<now, seen'[k].count>>}]
    BY <1>6 DEF E!RepeatSighting, E!LiveKeys
  <2>2. seen'[k] = E!Counted(seen[k]) /\ E!Counted(seen[k]).count = c /\ seen[k].count \in Nat /\ c \in Nat
    BY <2>1 DEF E!Counted, ExactTypes
  <2>3. /\ \A l \in Agents \X Fps : l # k => passed'[l] = passed[l]
        /\ \A l : l # k => (l \in DOMAIN seen' <=> l \in DOMAIN seen)
        /\ \A l \in DOMAIN seen : l # k => seen'[l] = seen[l]
        /\ k \in DOMAIN seen' /\ seen'[k].count = c
    BY <2>1, <2>2 DEF ExactTypes
  <2>4. passed'[k] = IF verdict'.block THEN passed[k] ELSE passed[k] \cup {x}
    BY <1>0, <2>1, <2>3 DEF ExactTypes
  <2>5. Remembers(a) => \A q \in passed[k] : q[2] <= c /\ q # x
    <3> SUFFICES ASSUME Remembers(a), NEW q \in passed[k] PROVE q[2] <= c /\ q # x
      OBVIOUS
    <3>1. q[2] <= seen[k].count
      BY <1>0, <2>1 DEF Remembers
    <3>2. q[2] \in Nat
      BY <1>0, <1>3
    <3>3. x[2] = c
      OBVIOUS
    <3> HIDE DEF x
    <3> QED
      BY <2>2, <3>1, <3>2, <3>3
  <2>6. x = <<now, c>>
    OBVIOUS
  <2> HIDE DEF x, c
  <2> QED
    BY <1>4, <2>2, <2>3, <2>4, <2>5, <2>6
<1> QED
  BY <1>5, <1>6, <1>a DEF E!Check

-----------------------------------------------------------------------------
LEMMA ExactReset ==
  ASSUME ExactTypes, NEW a \in Agents, E!Reset(a)
  PROVE  /\ ExactTypes' /\ now' = now /\ Cardinality(DOMAIN seen)' <= Cardinality(DOMAIN seen)
         /\ Cardinality(Sightings(a)') = 0
         /\ \A b \in Agents \ {a} : /\ Cardinality(Sightings(b)') <= Cardinality(Sightings(b))
                                    /\ Cardinality(Sightings(b)') \in Nat
                                    /\ Passes(b)' = Passes(b) /\ (Remembers(b) => Remembers(b)')
<1> DEFINE gone == {k \in DOMAIN seen : k[1] = a}
<1>1. /\ seen' = [k \in DOMAIN seen \ gone |-> seen[k]] /\ now' = now
      /\ passed' = [k \in E!Keys |-> IF k \in gone /\ k \in E!LiveKeys THEN {} ELSE passed[k]]
  BY DEF E!Reset, E!Restricted, E!Forget
<1>2. E!Keys = Agents \X Fps
  BY DEF E!Keys
<1>3. /\ DOMAIN seen' = DOMAIN seen \ gone /\ \A k \in DOMAIN seen' : seen'[k] = seen[k]
      /\ \A k \in DOMAIN seen' : k[1] # a
      /\ passed' \in [Agents \X Fps -> SUBSET (Nat \X Nat)]
      /\ \A k \in Agents \X Fps : k[1] # a => passed'[k] = passed[k] /\ (k \in DOMAIN seen' <=> k \in DOMAIN seen)
  BY <1>1, <1>2 DEF ExactTypes
<1> HIDE DEF gone
<1>4. \A b \in Agents : Sightings(b)' = SightingsIn(seen', b) /\ Sightings(b) = SightingsIn(seen, b)
                        /\ IsFiniteSet(SightingsIn(seen, b))
  BY DEF Sightings, SightingsIn, ExactTypes
<1>5. \A b \in Agents : SightingsIn(seen', b) \subseteq SightingsIn(seen, b)
  <2> SUFFICES ASSUME NEW b \in Agents, NEW z \in SightingsIn(seen', b) PROVE z \in SightingsIn(seen, b)
    OBVIOUS
  <2>1. PICK l \in DOMAIN seen' : l[1] = b /\ \E j \in 1..seen'[l].count : z = <<l, j>>
    BY SightingsIff
  <2>2. l \in DOMAIN seen /\ \E j \in 1..seen[l].count : z = <<l, j>>
    BY <1>3, <2>1
  <2> QED
    BY <2>1, <2>2, SightingsIff
<1>6. SightingsIn(seen', a) = {}
  <2> SUFFICES ASSUME NEW z \in SightingsIn(seen', a) PROVE FALSE
    OBVIOUS
  <2>1. PICK l \in DOMAIN seen' : l[1] = a
    BY SightingsIff
  <2> QED
    BY <1>3, <2>1
<1>7. \A b \in Agents : /\ IsFiniteSet(SightingsIn(seen', b)) /\ Cardinality(SightingsIn(seen', b)) \in Nat
                        /\ Cardinality(SightingsIn(seen', b)) <= Cardinality(SightingsIn(seen, b))
  BY <1>4, <1>5, NoMore
<1>8. Cardinality(SightingsIn(seen', a)) = 0
  BY <1>6, FS_EmptySet
<1>9. IsFiniteSet(DOMAIN seen') /\ Cardinality(DOMAIN seen') <= Cardinality(DOMAIN seen)
  <2>1. IsFiniteSet(DOMAIN seen) /\ DOMAIN seen' \subseteq DOMAIN seen
    BY <1>3 DEF ExactTypes
  <2> QED
    BY <2>1, NoMore
<1>10. ExactTypes'
  <2>1. \A b \in Agents : IsFiniteSet(Sightings(b)')
    BY <1>4, <1>7
  <2>2. DOMAIN seen' \subseteq Agents \X Fps /\ \A k \in DOMAIN seen' : k \in DOMAIN seen
    BY <1>3 DEF ExactTypes
  <2>3. \A k \in DOMAIN seen' : seen'[k].count \in Nat /\ seen'[k].expires \in Nat /\ seen'[k].expires >= HashTTL
    BY <1>3, <2>2 DEF ExactTypes
  <2> QED
    BY <1>3, <1>9, <2>1, <2>2, <2>3 DEF ExactTypes
<1>11. ASSUME NEW b \in Agents \ {a} PROVE Passes(b)' = Passes(b) /\ (Remembers(b) => Remembers(b)')
  <2>1. \A k \in KeysOf(b) : /\ passed'[k] = passed[k] /\ (k \in DOMAIN seen' <=> k \in DOMAIN seen)
                             /\ (k \in DOMAIN seen => seen'[k] = seen[k])
    BY <1>3, KeysAreApart
  <2>2. PassesIn(passed', b) = PassesIn(passed, b)
    BY <2>1, SamePasses
  <2>3. Passes(b)' = PassesIn(passed', b)
    BY DEF Passes, PassesIn, KeysOf
  <2>4. Remembers(b) => Remembers(b)'
    BY <2>1 DEF Remembers, KeysOf
  <2> QED
    BY <2>2, <2>3, <2>4 DEF Passes
<1> QED
  BY <1>1, <1>4, <1>7, <1>8, <1>9, <1>10, <1>11

LEMMA ExactTick ==
  ASSUME ExactTypes, now \in Nat, E!Tick
  PROVE  ExactTypes' /\ now' = now + 1 /\ seen' = seen /\ (now' < HashTTL => passed' = passed)
<1>0. HashTTL \in Nat /\ E!Keys = Agents \X Fps
  BY PipelineAssumption DEF E!Keys
<1>1. /\ now' = now + 1 /\ seen' = seen
      /\ passed' = [k \in Agents \X Fps |-> {p \in passed[k] : p[1] > now' - HashTTL}]
  BY <1>0 DEF E!Tick
<1>2. passed' \in [Agents \X Fps -> SUBSET (Nat \X Nat)]
  BY <1>1 DEF ExactTypes
<1>3. ASSUME now' < HashTTL PROVE passed' = passed
  <2>1. ASSUME NEW k \in Agents \X Fps PROVE passed'[k] = passed[k]
    <3>1. \A p \in passed[k] : p[1] \in Nat
      BY DEF ExactTypes
    <3>2. \A p \in passed[k] : p[1] > now' - HashTTL
      BY <1>0, <1>1, <1>3, <3>1
    <3> QED
      BY <1>1, <3>2
  <2> QED
    BY <1>1, <2>1 DEF ExactTypes
<1>4. ExactTypes'
  BY <1>1, <1>2 DEF ExactTypes, Sightings
<1> QED
  BY <1>1, <1>3, <1>4

-----------------------------------------------------------------------------
(* The requests in flight, by the stage they are to call next. *)
Stages == {"idle", "structural", "tools", "velocity"}

At(a, s) == {r \in Requests : pc[r] = s /\ req[r].agent = a}

Waiting(a, s) == Cardinality(At(a, s))

OwnTypes ==
  /\ now \in Nat /\ checks \in Nat
  /\ pc \in [Requests -> Stages] /\ DOMAIN req = Requests
  /\ \A r \in Requests : pc[r] # "idle" => req[r].agent \in Agents /\ req[r].body \in Bodies
  /\ reset \in [agent : Agents \cup {NoRequest.agent}, stage : Stages]
  /\ reset.stage # "idle" => reset.agent \in Agents
  /\ fresh \in [Agents -> BOOLEAN] /\ crossing \in [Agents -> Nat] /\ resets \in [Agents -> Nat]

FlightTypes ==
  \A a \in Agents : /\ IsFiniteSet(At(a, "structural")) /\ IsFiniteSet(At(a, "tools"))
                    /\ IsFiniteSet(At(a, "velocity"))

Flying(a) == Waiting(a, "structural") + Waiting(a, "tools") + Waiting(a, "velocity")

LEMMA FlightNumbers ==
  FlightTypes => \A a \in Agents : /\ Waiting(a, "structural") \in Nat /\ Waiting(a, "tools") \in Nat
                                   /\ Waiting(a, "velocity") \in Nat
BY FS_CardinalityType DEF FlightTypes, Waiting

LEMMA FlightIsSum ==
  OwnTypes /\ FlightTypes => \A a \in Agents : Cardinality(InFlight(a)) = Flying(a)
<1> SUFFICES ASSUME OwnTypes, FlightTypes, NEW a \in Agents PROVE Cardinality(InFlight(a)) = Flying(a)
  OBVIOUS
<1> DEFINE A == At(a, "structural")
           B == At(a, "tools")
           C == At(a, "velocity")
<1>1. InFlight(a) = (A \cup B) \cup C
  BY DEF InFlight, At, OwnTypes, Stages
<1>2. A \cap B = {} /\ (A \cup B) \cap C = {}
  BY DEF At
<1>3. IsFiniteSet(A) /\ IsFiniteSet(B) /\ IsFiniteSet(C)
  BY DEF FlightTypes
<1> HIDE DEF A, B, C
<1>4. Cardinality({}) = 0
  BY FS_EmptySet
<1>5. IsFiniteSet(A \cup B) /\ Cardinality(A \cup B) = Cardinality(A) + Cardinality(B) - Cardinality(A \cap B)
  BY <1>3, FS_Union
<1>6. Cardinality((A \cup B) \cup C) = Cardinality(A \cup B) + Cardinality(C) - Cardinality((A \cup B) \cap C)
  BY <1>3, <1>5, FS_Union
<1>7. Cardinality(A) \in Nat /\ Cardinality(B) \in Nat /\ Cardinality(C) \in Nat
  BY <1>3, FS_CardinalityType
<1>8. Cardinality(A \cap B) = 0 /\ Cardinality((A \cup B) \cap C) = 0
  BY <1>2, <1>4
<1>9. Cardinality(A \cup B) = Cardinality(A) + Cardinality(B)
  BY <1>5, <1>7, <1>8
<1>10. Cardinality((A \cup B) \cup C) = Cardinality(A) + Cardinality(B) + Cardinality(C)
  BY <1>6, <1>7, <1>8, <1>9
<1> QED
  BY <1>1, <1>10 DEF Flying, Waiting, A, B, C

(* A request of agent a moves on from a stage, to the next one or out. *)
Moved(a, from, to) ==
  \A b \in Agents, s \in Stages : s # "idle" =>
    Waiting(b, s)' = IF b # a THEN Waiting(b, s)
                     ELSE IF s = from THEN Waiting(b, s) - 1
                     ELSE IF s = to THEN Waiting(b, s) + 1
                     ELSE Waiting(b, s)

Hop(r, from, to) == pc[r] = from /\ pc' = [pc EXCEPT ![r] = to] /\ req' = req

LEMMA Moves ==
  ASSUME OwnTypes, FlightTypes, NEW r \in Requests, NEW from \in Stages, NEW to \in Stages,
         from # "idle", to # from, Hop(r, from, to), NEW a, a = req[r].agent
  PROVE  FlightTypes' /\ Moved(a, from, to)
<1>0. pc[r] = from /\ pc' = [pc EXCEPT ![r] = to] /\ req' = req
  BY DEF Hop
<1>1. \A b \in Agents, s \in Stages : s # "idle" => IsFiniteSet(At(b, s)) /\ Cardinality(At(b, s)) \in Nat
  BY FS_CardinalityType DEF FlightTypes, Stages
<1>2. ASSUME NEW b \in Agents, NEW s \in Stages, s # "idle"
      PROVE  /\ IsFiniteSet(At(b, s)')
             /\ Cardinality(At(b, s)') = IF b # a THEN Cardinality(At(b, s))
                               ELSE IF s = from THEN Cardinality(At(b, s)) - 1
                               ELSE IF s = to THEN Cardinality(At(b, s)) + 1
                               ELSE Cardinality(At(b, s))
  <2> DEFINE A == At(b, s)
             B == At(b, s)'
  <2>0. IsFiniteSet(A)
    BY <1>1, <1>2
  <2>1. \A q \in Requests : pc'[q] = IF q = r THEN to ELSE pc[q]
    BY <1>0 DEF OwnTypes
  <2>2. CASE b # a \/ (s # from /\ s # to)
    <3>1. B = A
      BY <1>0, <2>1, <2>2 DEF At
    <3> QED
      BY <2>0, <2>2, <3>1
  <2>3. CASE b = a /\ s = from
    <3>1. B = A \ {r} /\ r \in A
      BY <1>0, <2>1, <2>3 DEF At
    <3> HIDE DEF A, B
    <3>2. IsFiniteSet(B) /\ Cardinality(B) = Cardinality(A) - 1
      BY <2>0, <3>1, FS_RemoveElement
    <3> QED
      BY <2>3, <3>2 DEF A, B
  <2>4. CASE b = a /\ s = to
    <3>1. B = A \cup {r} /\ r \notin A
      BY <1>0, <2>1, <2>4 DEF At
    <3> HIDE DEF A, B
    <3>2. IsFiniteSet(B) /\ Cardinality(B) = Cardinality(A) + 1
      BY <2>0, <3>1, FS_AddElement
    <3> QED
      BY <2>4, <3>2 DEF A, B
  <2> QED
    BY <2>2, <2>3, <2>4
<1>3. FlightTypes'
  BY <1>2 DEF FlightTypes, Stages
<1> QED
  BY <1>2, <1>3 DEF Waiting, Moved

(* A request comes from nowhere: it waits for the structural stage, or is   *)
(* blocked at once.                                                         *)
Entered(a, to) ==
  \A b \in Agents, s \in Stages : s # "idle" =>
    Waiting(b, s)' = IF b = a /\ s = to THEN Waiting(b, s) + 1 ELSE Waiting(b, s)

Arrives(r, to, x) == pc[r] = "idle" /\ pc' = [pc EXCEPT ![r] = to] /\ req' = [req EXCEPT ![r] = x]

LEMMA Enters ==
  ASSUME OwnTypes, FlightTypes, NEW r \in Requests, NEW to \in {"idle", "structural"}, NEW x,
         Arrives(r, to, x), NEW a, a = x.agent
  PROVE  FlightTypes' /\ Entered(a, to)
<1>0. pc[r] = "idle" /\ pc' = [pc EXCEPT ![r] = to] /\ req' = [req EXCEPT ![r] = x]
  BY DEF Arrives
<1>1. \A b \in Agents, s \in Stages : s # "idle" => IsFiniteSet(At(b, s)) /\ Cardinality(At(b, s)) \in Nat
  BY FS_CardinalityType DEF FlightTypes, Stages
<1>2. ASSUME NEW b \in Agents, NEW s \in Stages, s # "idle"
      PROVE  /\ IsFiniteSet(At(b, s)')
             /\ Cardinality(At(b, s)') = IF b = a /\ s = to THEN Cardinality(At(b, s)) + 1
                                         ELSE Cardinality(At(b, s))
  <2> DEFINE A == At(b, s)
             B == At(b, s)'
  <2>0. IsFiniteSet(A)
    BY <1>1, <1>2
  <2>1. \A q \in Requests : /\ pc'[q] = IF q = r THEN to ELSE pc[q]
                            /\ req'[q] = IF q = r THEN x ELSE req[q]
    BY <1>0 DEF OwnTypes
  <2>2. r \notin A
    BY <1>0, <1>2 DEF At
  <2>3. CASE ~(b = a /\ s = to)
    <3>1. B = A
      BY <1>0, <1>2, <2>1, <2>3 DEF At
    <3> QED
      BY <2>0, <2>3, <3>1
  <2>4. CASE b = a /\ s = to
    <3>1. B = A \cup {r}
      BY <2>1, <2>4 DEF At
    <3> HIDE DEF A, B
    <3>2. IsFiniteSet(B) /\ Cardinality(B) = Cardinality(A) + 1
      BY <2>0, <2>2, <3>1, FS_AddElement
    <3> QED
      BY <2>4, <3>2 DEF A, B
  <2> QED
    BY <2>3, <2>4
<1>3. FlightTypes'
  BY <1>2 DEF FlightTypes, Stages
<1> QED
  BY <1>2, <1>3 DEF Waiting, Entered

-----------------------------------------------------------------------------
(***************************************************************************)
(* The inductive invariant.  What a Reset leaves of agent a is known stage *)
(* by stage, from the moment it has cleared that stage.                    *)
(***************************************************************************)
ResetAt(a, stages) == reset.agent = a /\ reset.stage \in stages

Begun(a)    == fresh[a] \/ ResetAt(a, {"structural", "tools", "velocity"})
Unsketched(a) == fresh[a] \/ ResetAt(a, {"tools", "velocity"})
Uncalled(a)   == fresh[a] \/ ResetAt(a, {"velocity"})

SeenLen(a) == Cardinality(Sightings(a))
TurnLen(a) == Len(recent[a])
ObsLen(a)  == Len(obs[a])

(* The requests that have yet to call the tool stage. *)
Coming(a) == Waiting(a, "structural") + Waiting(a, "tools")

Greatest(n) == n \in Calls /\ \A m \in Calls : m <= n

NamesFit(a) == \A n : Greatest(n) => NameLen(a) <= (crossing[a] - Coming(a)) * n

LeftExact(a)    == Begun(a) => Flying(a) <= crossing[a] /\ SeenLen(a) <= crossing[a]
LeftSketches(a) == Unsketched(a) => SketchLen(a) + Waiting(a, "structural") <= crossing[a]
LeftNames(a)    == Uncalled(a) => NamesFit(a)
LeftRings(a)    == fresh[a] => /\ EventLen(a) + Flying(a) <= crossing[a]
                               /\ ShortLen(a) + Flying(a) <= crossing[a]

LeftInv(a) == LeftExact(a) /\ LeftSketches(a) /\ LeftNames(a) /\ LeftRings(a)

(* Nothing has expired and nothing was evicted. *)
Young(a) == resets[a] = 0 /\ now < HashTTL /\ checks <= MaxEntries

FunnelInv(a) ==
  Young(a) => /\ Remembers(a) /\ IsFiniteSet(Passes(a))
              /\ ObsLen(a) + Refusals(a) + Flying(a) <= Cardinality(Passes(a))
              /\ TurnLen(a) + Waiting(a, "structural") <= Cardinality(Passes(a))

Typed == /\ OwnTypes /\ ExactTypes /\ SketchTypes /\ ToolTypes /\ RateTypes /\ FlightTypes

Counts(a) ==
  /\ Waiting(a, "structural") \in Nat /\ Waiting(a, "tools") \in Nat /\ Waiting(a, "velocity") \in Nat
  /\ SketchLen(a) \in Nat /\ NameLen(a) \in Nat /\ EventLen(a) \in Nat /\ ShortLen(a) \in Nat
  /\ ObsLen(a) \in Nat /\ TurnLen(a) \in Nat /\ Refusals(a) \in Nat
  /\ SeenLen(a) \in Nat

PipeInv ==
  /\ Typed /\ Cardinality(DOMAIN seen) \in Nat /\ Cardinality(DOMAIN seen) <= checks
  /\ \A a \in Agents : LeftInv(a) /\ FunnelInv(a)

LEMMA CountsAreNat == Typed => \A a \in Agents : Counts(a)
<1> SUFFICES ASSUME Typed, NEW a \in Agents PROVE Counts(a)
  OBVIOUS
<1>1. SeenLen(a) \in Nat
  BY FS_CardinalityType DEF Typed, ExactTypes, SeenLen
<1> QED
  BY <1>1, FlightNumbers, SketchNumbers, ToolNumbers, RateNumbers DEF Typed, Counts, ObsLen, TurnLen

LEMMA CountsStayNat == Typed' => (\A a \in Agents : Counts(a))'
BY CountsAreNat, PTL

LEMMA CallsArePos == \A n : Greatest(n) => n \in Nat
BY CallsAreNat DEF Greatest, Calls, CallsOf

(* Products, which the solvers need help with. *)
LEMMA MoreTimes ==
  ASSUME NEW x \in Nat, NEW y \in Int, NEW z \in Int, NEW n \in Nat, x <= y * n, y <= z
  PROVE  x <= z * n
<1>1. y * n <= z * n
  BY SMTT(30)
<1> QED
  BY <1>1, SMTT(30)

LEMMA OneMoreTime ==
  ASSUME NEW x \in Nat, NEW y \in Int, NEW n \in Nat, NEW m \in Nat, x <= y * n, m <= n, NEW p \in Nat, p <= x + m
  PROVE  p <= (y + 1) * n
<1>1. (y + 1) * n = y * n + n
  BY SMTT(30)
<1>2. y * n \in Int
  BY SMTT(30)
<1> QED
  BY <1>1, <1>2

LEMMA NoTimes ==
  ASSUME NEW y \in Nat, NEW n \in Nat
  PROVE  0 <= y * n
BY SMTT(30)

(* The bound on the tool sequence carries over when the sequence is no      *)
(* longer and no less room is left.                                         *)
LEMMA NamesStillFit ==
  ASSUME NEW a \in Agents, Counts(a), Counts(a)', crossing \in [Agents -> Nat], (crossing \in [Agents -> Nat])',
         NamesFit(a), NameLen(a)' <= NameLen(a),
         crossing[a] - Coming(a) <= crossing'[a] - Coming(a)'
  PROVE  NamesFit(a)'
<1> DEFINE y == crossing[a] - Coming(a)
           z == (crossing[a] - Coming(a))'
<1>0. /\ Waiting(a, "structural") \in Nat /\ Waiting(a, "tools") \in Nat
      /\ Waiting(a, "structural")' \in Nat /\ Waiting(a, "tools")' \in Nat
  BY DEF Counts
<1>a. Coming(a)' \in Nat
  BY <1>0 DEF Coming
<1>b. Coming(a) \in Nat
  BY <1>0 DEF Coming
<1>1. y \in Int /\ z \in Int /\ y <= z
  BY <1>a, <1>b
<1>2. NameLen(a) \in Nat /\ NameLen(a)' \in Nat
  BY DEF Counts
<1>3. \A n : Greatest(n) => NameLen(a) <= y * n
  BY DEF NamesFit
<1> HIDE DEF y, z
<1>4. ASSUME NEW n, Greatest(n) PROVE NameLen(a)' <= z * n
  <2>1. n \in Nat
    BY <1>4, CallsArePos
  <2>2. NameLen(a) <= z * n
    BY <1>1, <1>2, <1>3, <1>4, <2>1, MoreTimes
  <2>3. z * n \in Int
    BY <1>1, <2>1, SMTT(30)
  <2> QED
    BY <1>2, <2>2, <2>3
<1>5. \A n : Greatest(n)' <=> Greatest(n)
  BY DEF Greatest, Calls
<1> QED
  BY <1>4, <1>5 DEF NamesFit, z

-----------------------------------------------------------------------------
(* What a step leaves alone. *)
LEMMA SketchSame ==
  ASSUME SketchTypes, UNCHANGED sketchVars
  PROVE  /\ SketchTypes'
         /\ \A b \in Agents : /\ SketchLen(b)' = SketchLen(b) /\ TurnLen(b)' = TurnLen(b)
                              /\ Refusals(b)' = Refusals(b)
BY DEF SketchTypes, SketchLen, Refusals, TurnLen, sketchVars

LEMMA ToolSame ==
  ASSUME ToolTypes, UNCHANGED toolVars
  PROVE  ToolTypes' /\ \A b \in Agents : NameLen(b)' = NameLen(b)
BY DEF ToolTypes, NameLen, toolVars

LEMMA RateSame ==
  ASSUME RateTypes, UNCHANGED rateVars
  PROVE  /\ RateTypes'
         /\ \A b \in Agents : /\ EventLen(b)' = EventLen(b) /\ ShortLen(b)' = ShortLen(b)
                              /\ ObsLen(b)' = ObsLen(b)
BY DEF RateTypes, EventLen, ShortLen, ObsLen, rateVars

LEMMA ExactSame ==
  ASSUME ExactTypes, UNCHANGED exactVars
  PROVE  /\ ExactTypes' /\ Cardinality(DOMAIN seen)' = Cardinality(DOMAIN seen)
         /\ \A b \in Agents : /\ SeenLen(b)' = SeenLen(b)
                              /\ Passes(b)' = Passes(b) /\ (Remembers(b) => Remembers(b)')
<1>1. seen' = seen /\ passed' = passed
  BY DEF exactVars
<1>2. \A b \in Agents : Sightings(b)' = Sightings(b)
  BY <1>1 DEF Sightings
<1>3. \A b \in Agents : Passes(b)' = Passes(b) /\ (Remembers(b) => Remembers(b)')
  BY <1>1 DEF Passes, PassesIn, KeysOf, Remembers
<1>4. ExactTypes'
  BY <1>1, <1>2 DEF ExactTypes
<1> QED
  BY <1>1, <1>2, <1>3, <1>4 DEF SeenLen

LEMMA FlightSame ==
  ASSUME FlightTypes, UNCHANGED <<pc, req>>
  PROVE  FlightTypes' /\ \A b \in Agents, s \in Stages : Waiting(b, s)' = Waiting(b, s)
BY DEF FlightTypes, Waiting, At

-----------------------------------------------------------------------------
(* An agent that a step only brushes against. *)
SameTurn(a) ==
  /\ fresh'[a] = fresh[a] /\ crossing'[a] = crossing[a]
  /\ (Begun(a)' <=> Begun(a)) /\ (Unsketched(a)' <=> Unsketched(a)) /\ (Uncalled(a)' <=> Uncalled(a))

SameFlight(a) ==
  /\ Waiting(a, "structural")' = Waiting(a, "structural")
  /\ Waiting(a, "tools")' = Waiting(a, "tools")
  /\ Waiting(a, "velocity")' = Waiting(a, "velocity")

KeepsNoMore(a) ==
  /\ SeenLen(a)' <= SeenLen(a)
  /\ SketchLen(a)' <= SketchLen(a) /\ NameLen(a)' <= NameLen(a)
  /\ EventLen(a)' <= EventLen(a) /\ ShortLen(a)' <= ShortLen(a)
  /\ ObsLen(a)' <= ObsLen(a) /\ TurnLen(a)' <= TurnLen(a) /\ Refusals(a)' <= Refusals(a)

KeepsPasses(a) == Young(a)' => Young(a) /\ Passes(a)' = Passes(a) /\ (Remembers(a) => Remembers(a)')

LEMMA Bystander ==
  ASSUME NEW a \in Agents, Counts(a), Counts(a)', crossing \in [Agents -> Nat], crossing' \in [Agents -> Nat],
         LeftInv(a), SameTurn(a), SameFlight(a), KeepsNoMore(a)
  PROVE  LeftInv(a)'
<1>0. crossing[a] \in Nat /\ crossing'[a] = crossing[a] /\ fresh'[a] = fresh[a]
  BY DEF SameTurn
<1>1. /\ Flying(a)' = Flying(a) /\ Coming(a)' = Coming(a) /\ Flying(a) \in Nat /\ Coming(a) \in Nat
  BY DEF SameFlight, Flying, Coming, Counts
<1>2. LeftExact(a)'
  BY <1>0, <1>1 DEF LeftInv, LeftExact, SameTurn, KeepsNoMore, Counts
<1>3. LeftSketches(a)'
  BY <1>0, <1>1 DEF LeftInv, LeftSketches, SameTurn, SameFlight, KeepsNoMore, Counts
<1>4. LeftNames(a)'
  <2>1. NamesFit(a) => NamesFit(a)'
    BY <1>0, <1>1, NamesStillFit DEF KeepsNoMore
  <2> QED
    BY <2>1 DEF LeftInv, LeftNames, SameTurn
<1>5. LeftRings(a)'
  BY <1>0, <1>1 DEF LeftInv, LeftRings, KeepsNoMore, Counts
<1> QED
  BY <1>2, <1>3, <1>4, <1>5 DEF LeftInv

LEMMA BystanderPasses ==
  ASSUME NEW a \in Agents, Counts(a), Counts(a)', FunnelInv(a), SameFlight(a), KeepsNoMore(a), KeepsPasses(a)
  PROVE  FunnelInv(a)'
<1> SUFFICES ASSUME Young(a)' PROVE FunnelInv(a)'
  BY DEF FunnelInv
<1>1. Young(a) /\ Passes(a)' = Passes(a) /\ (Remembers(a) => Remembers(a)')
  BY DEF KeepsPasses
<1>2. /\ Remembers(a) /\ IsFiniteSet(Passes(a))
      /\ ObsLen(a) + Refusals(a) + Flying(a) <= Cardinality(Passes(a))
      /\ TurnLen(a) + Waiting(a, "structural") <= Cardinality(Passes(a))
  BY <1>1 DEF FunnelInv
<1>3. Cardinality(Passes(a)) \in Nat
  BY <1>2, FS_CardinalityType
<1>4. Flying(a)' = Flying(a) /\ Flying(a) \in Nat
  BY DEF SameFlight, Flying, Counts
<1>5. (ObsLen(a) + Refusals(a) + Flying(a))' <= Cardinality(Passes(a))
  BY <1>2, <1>3, <1>4 DEF KeepsNoMore, Counts
<1>6. (TurnLen(a) + Waiting(a, "structural"))' <= Cardinality(Passes(a))
  BY <1>2, <1>3 DEF KeepsNoMore, SameFlight, Counts
<1> QED
  BY <1>1, <1>2, <1>5, <1>6 DEF FunnelInv

-----------------------------------------------------------------------------
(* A call begins, and the exact stage answers it. *)
LEMMA BeginEffect ==
  ASSUME OwnTypes, NEW a \in Agents, Begin(a)
  PROVE  /\ reset' = reset /\ resets' = resets /\ checks' = checks + 1
         /\ fresh' \in [Agents -> BOOLEAN] /\ crossing' \in [Agents -> Nat]
         /\ \A b \in Agents \ {a} : SameTurn(b)
         /\ \/ /\ crossing'[a] = crossing[a] + 1 /\ fresh'[a] = fresh[a]
               /\ (Begun(a)' <=> Begun(a)) /\ (Unsketched(a)' <=> Unsketched(a)) /\ (Uncalled(a)' <=> Uncalled(a))
            \/ ~Begun(a)' /\ ~Unsketched(a)' /\ ~Uncalled(a)' /\ ~fresh'[a]
<1>1. reset' = reset /\ resets' = resets /\ checks' = checks + 1
  BY DEF Begin
<1>2. crossing \in [Agents -> Nat] /\ fresh \in [Agents -> BOOLEAN]
  BY DEF OwnTypes
<1>3. CASE reset.stage # "idle" /\ reset.agent = a
  <2>1. crossing' = [crossing EXCEPT ![a] = crossing[a] + 1] /\ fresh' = fresh
    BY <1>3 DEF Begin
  <2>2. crossing' \in [Agents -> Nat] /\ crossing'[a] = crossing[a] + 1
        /\ \A b \in Agents \ {a} : crossing'[b] = crossing[b]
    BY <1>2, <2>1
  <2>3. \A b \in Agents : (Begun(b)' <=> Begun(b)) /\ (Unsketched(b)' <=> Unsketched(b)) /\ (Uncalled(b)' <=> Uncalled(b))
    BY <1>1, <2>1 DEF Begun, Unsketched, Uncalled, ResetAt
  <2> QED
    BY <1>1, <1>2, <2>1, <2>2, <2>3 DEF SameTurn
<1>4. CASE ~(reset.stage # "idle" /\ reset.agent = a)
  <2>1. fresh' = [fresh EXCEPT ![a] = FALSE] /\ crossing' = crossing
    BY <1>4 DEF Begin
  <2>2. fresh' \in [Agents -> BOOLEAN] /\ ~fresh'[a] /\ \A b \in Agents \ {a} : fresh'[b] = fresh[b]
    BY <1>2, <2>1
  <2>3. \A b \in Agents \ {a} : (Begun(b)' <=> Begun(b)) /\ (Unsketched(b)' <=> Unsketched(b)) /\ (Uncalled(b)' <=> Uncalled(b))
    BY <1>1, <2>2 DEF Begun, Unsketched, Uncalled, ResetAt
  <2>4. ~Begun(a)' /\ ~Unsketched(a)' /\ ~Uncalled(a)'
    BY <1>1, <1>4, <2>2 DEF Begun, Unsketched, Uncalled, ResetAt
  <2> QED
    BY <1>1, <1>2, <2>1, <2>2, <2>3, <2>4 DEF SameTurn
<1> QED
  BY <1>3, <1>4

LEMMA Begins ==
  ASSUME PipeInv, NEW a \in Agents, NEW fp \in Fps, Begin(a), E!Check(<<a, fp>>),
         UNCHANGED <<sketchVars, toolVars, rateVars>>, OwnTypes', FlightTypes',
         NEW grow \in {0, 1}, grow = 1 => ~verdict'.block,
         Waiting(a, "structural")' = Waiting(a, "structural") + grow,
         Waiting(a, "tools")' = Waiting(a, "tools"), Waiting(a, "velocity")' = Waiting(a, "velocity"),
         \A b \in Agents \ {a} : SameFlight(b)
  PROVE  PipeInv'
<1>1. /\ OwnTypes /\ ExactTypes /\ SketchTypes /\ ToolTypes /\ RateTypes /\ FlightTypes
      /\ now \in Nat /\ checks \in Nat /\ Cardinality(DOMAIN seen) \in Nat /\ Cardinality(DOMAIN seen) <= checks
      /\ crossing \in [Agents -> Nat] /\ MaxEntries \in Nat
  BY PipelineAssumption DEF PipeInv, Typed, OwnTypes
<1>2. \A b \in Agents : LeftInv(b) /\ FunnelInv(b)
  BY DEF PipeInv
<1>3. /\ ExactTypes' /\ verdict'.block \in BOOLEAN /\ now' = now
      /\ Cardinality(DOMAIN seen)' <= Cardinality(DOMAIN seen) + 1
      /\ SeenLen(a)' <= SeenLen(a) + 1
      /\ \A b \in Agents \ {a} : SeenLen(b)' <= SeenLen(b)
  BY <1>1, ExactCheck DEF SeenLen
<1>4. /\ SketchTypes'
      /\ \A b \in Agents : SketchLen(b)' = SketchLen(b) /\ TurnLen(b)' = TurnLen(b) /\ Refusals(b)' = Refusals(b)
  BY <1>1, SketchSame
<1>5. ToolTypes' /\ \A b \in Agents : NameLen(b)' = NameLen(b)
  BY <1>1, ToolSame
<1>6. /\ RateTypes'
      /\ \A b \in Agents : EventLen(b)' = EventLen(b) /\ ShortLen(b)' = ShortLen(b) /\ ObsLen(b)' = ObsLen(b)
  BY <1>1, RateSame
<1>7. Typed'
  BY <1>3, <1>4, <1>5, <1>6 DEF Typed
<1>8. \A b \in Agents : Counts(b) /\ Counts(b)'
  BY <1>1, <1>7, CountsAreNat, CountsStayNat DEF Typed
<1>9. /\ reset' = reset /\ resets' = resets /\ checks' = checks + 1 /\ crossing' \in [Agents -> Nat]
      /\ \A b \in Agents \ {a} : SameTurn(b)
      /\ \/ /\ crossing'[a] = crossing[a] + 1 /\ fresh'[a] = fresh[a]
            /\ (Begun(a)' <=> Begun(a)) /\ (Unsketched(a)' <=> Unsketched(a)) /\ (Uncalled(a)' <=> Uncalled(a))
         \/ ~Begun(a)' /\ ~Unsketched(a)' /\ ~Uncalled(a)' /\ ~fresh'[a]
  BY <1>1, BeginEffect
<1>10. Cardinality(DOMAIN seen)' \in Nat /\ Cardinality(DOMAIN seen)' <= checks'
  <2>1. Cardinality(DOMAIN seen') \in Nat
    BY <1>3, FS_CardinalityType DEF ExactTypes
  <2> QED
    BY <1>1, <1>3, <1>9, <2>1
<1>11. ASSUME NEW b \in Agents \ {a} PROVE LeftInv(b)' /\ FunnelInv(b)'
  <2>1. KeepsNoMore(b)
    BY <1>3, <1>4, <1>5, <1>6, <1>8 DEF KeepsNoMore, Counts
  <2>2. LeftInv(b)'
    BY <1>1, <1>2, <1>8, <1>9, <2>1, Bystander
  <2>3. KeepsPasses(b)
    <3> SUFFICES ASSUME Young(b)' PROVE Young(b) /\ Passes(b)' = Passes(b) /\ (Remembers(b) => Remembers(b)')
      BY DEF KeepsPasses
    <3>1. now < HashTTL /\ checks < MaxEntries /\ resets[b] = 0 /\ Cardinality(DOMAIN seen) < MaxEntries
      BY <1>1, <1>3, <1>9 DEF Young
    <3>2. Young(b)
      BY <1>1, <3>1 DEF Young
    <3> QED
      BY <1>1, <3>1, <3>2, ExactPasses
  <2> QED
    BY <1>2, <1>8, <2>1, <2>2, <2>3, BystanderPasses
<1>12. LeftInv(a)'
  <2>0. /\ Flying(a)' = Flying(a) + grow /\ Coming(a)' = Coming(a) + grow /\ Flying(a) \in Nat /\ Coming(a) \in Nat
    BY <1>8 DEF Flying, Coming, Counts
  <2>1. CASE /\ crossing'[a] = crossing[a] + 1 /\ fresh'[a] = fresh[a]
             /\ (Begun(a)' <=> Begun(a)) /\ (Unsketched(a)' <=> Unsketched(a)) /\ (Uncalled(a)' <=> Uncalled(a))
    <3>0. crossing[a] \in Nat /\ LeftInv(a) /\ Counts(a) /\ Counts(a)'
      BY <1>1, <1>2, <1>8
    <3>1. LeftExact(a)'
      BY <1>3, <2>0, <2>1, <3>0 DEF LeftInv, LeftExact, Counts
    <3>2. LeftSketches(a)'
      BY <1>4, <2>0, <2>1, <3>0 DEF LeftInv, LeftSketches, Counts
    <3>3. LeftRings(a)'
      BY <1>6, <2>0, <2>1, <3>0 DEF LeftInv, LeftRings, Counts
    <3>4. LeftNames(a)'
      <4>1. crossing[a] - Coming(a) <= crossing'[a] - Coming(a)' /\ NameLen(a)' <= NameLen(a)
        BY <1>5, <2>0, <2>1, <3>0 DEF Counts
      <4>2. NamesFit(a) => NamesFit(a)'
        BY <1>1, <1>9, <3>0, <4>1, NamesStillFit
      <4> QED
        BY <2>1, <3>0, <4>2 DEF LeftInv, LeftNames
    <3> QED
      BY <3>1, <3>2, <3>3, <3>4 DEF LeftInv
  <2>2. CASE ~Begun(a)' /\ ~Unsketched(a)' /\ ~Uncalled(a)' /\ ~fresh'[a]
    BY <2>2 DEF LeftInv, LeftExact, LeftSketches, LeftNames, LeftRings
  <2> QED
    BY <1>9, <2>1, <2>2
<1>13. FunnelInv(a)'
  <2> SUFFICES ASSUME Young(a)' PROVE FunnelInv(a)'
    BY DEF FunnelInv
  <2>1. now < HashTTL /\ checks < MaxEntries /\ resets[a] = 0 /\ Cardinality(DOMAIN seen) < MaxEntries
    BY <1>1, <1>3, <1>9 DEF Young
  <2>2. Young(a)
    BY <1>1, <2>1 DEF Young
  <2>3. /\ Remembers(a) /\ IsFiniteSet(Passes(a))
        /\ ObsLen(a) + Refusals(a) + Flying(a) <= Cardinality(Passes(a))
        /\ TurnLen(a) + Waiting(a, "structural") <= Cardinality(Passes(a))
    BY <1>2, <2>2 DEF FunnelInv
  <2>4. /\ Remembers(a)' /\ IsFiniteSet(Passes(a))'
        /\ Cardinality(Passes(a))' = Cardinality(Passes(a)) + (IF verdict'.block THEN 0 ELSE 1)
    BY <1>1, <2>1, <2>3, ExactPasses
  <2>5. Cardinality(Passes(a)) \in Nat /\ Cardinality(Passes(a)') \in Nat
    BY <2>3, <2>4, FS_CardinalityType
  <2>6. Cardinality(Passes(a)') >= Cardinality(Passes(a)) + grow
    BY <1>3, <2>4, <2>5
  <2>7. Counts(a) /\ Counts(a)'
    BY <1>8
  <2>8. Flying(a)' = Flying(a) + grow /\ Flying(a) \in Nat
    BY <2>7 DEF Flying, Counts
  <2>9. (ObsLen(a) + Refusals(a) + Flying(a))' <= Cardinality(Passes(a)')
    BY <1>4, <1>6, <2>3, <2>5, <2>6, <2>7, <2>8 DEF Counts
  <2>10. (TurnLen(a) + Waiting(a, "structural"))' <= Cardinality(Passes(a)')
    BY <1>4, <2>3, <2>5, <2>6, <2>7 DEF Counts
  <2> QED
    BY <2>4, <2>9, <2>10 DEF FunnelInv
<1>14. \A b \in Agents : LeftInv(b)' /\ FunnelInv(b)'
  BY <1>11, <1>12, <1>13
<1> QED
  BY <1>7, <1>10, <1>14 DEF PipeInv

-----------------------------------------------------------------------------
LEMMA CheckStep ==
  ASSUME PipeInv, NEW a \in Agents, NEW fp \in Fps, Check(a, fp)
  PROVE  PipeInv'
<1>1. OwnTypes /\ FlightTypes /\ ExactTypes /\ now \in Nat
  BY DEF PipeInv, Typed, OwnTypes
<1>2. /\ Begin(a) /\ E!Check(<<a, fp>>) /\ pc' = pc /\ req' = req
      /\ UNCHANGED <<sketchVars, toolVars, rateVars>>
  BY DEF Check
<1>3. FlightTypes' /\ \A b \in Agents, s \in Stages : Waiting(b, s)' = Waiting(b, s)
  BY <1>1, <1>2, FlightSame
<1>4. /\ reset' = reset /\ resets' = resets /\ checks' = checks + 1
      /\ fresh' \in [Agents -> BOOLEAN] /\ crossing' \in [Agents -> Nat]
  BY <1>1, <1>2, BeginEffect
<1>5. now' = now
  BY <1>1, <1>2, ExactCheck
<1>6. OwnTypes'
  BY <1>1, <1>2, <1>4, <1>5 DEF OwnTypes
<1> DEFINE grow == 0
<1>7. /\ Waiting(a, "structural") \in Nat
      /\ Waiting(a, "structural")' = Waiting(a, "structural") /\ Waiting(a, "tools")' = Waiting(a, "tools")
      /\ Waiting(a, "velocity")' = Waiting(a, "velocity") /\ \A b \in Agents \ {a} : SameFlight(b)
  BY <1>1, <1>3, FlightNumbers DEF SameFlight, Stages
<1>8. grow \in {0, 1} /\ ~(grow = 1) /\ Waiting(a, "structural")' = Waiting(a, "structural") + grow
  BY <1>7
<1> HIDE DEF grow
<1> QED
  BY <1>2, <1>3, <1>6, <1>7, <1>8, Begins

LEMMA ExactStep ==
  ASSUME PipeInv, NEW r \in Requests, NEW a \in Agents, NEW body \in Bodies, ExactStage(r, a, body)
  PROVE  PipeInv'
<1>1. OwnTypes /\ FlightTypes /\ ExactTypes /\ now \in Nat
  BY DEF PipeInv, Typed, OwnTypes
<1> DEFINE x  == [agent |-> a, body |-> body]
           fp == body.fp
<1>0. PICK to : to = After(verdict'.block, "structural")
  OBVIOUS
<1>2. /\ Begin(a) /\ E!Check(<<a, fp>>) /\ pc[r] = "idle" /\ pc' = [pc EXCEPT ![r] = to]
      /\ req' = [req EXCEPT ![r] = x] /\ UNCHANGED <<sketchVars, toolVars, rateVars>>
  BY <1>0 DEF ExactStage, Goto
<1>3. fp \in Fps
  BY PipelineAssumption
<1>4. x.agent = a /\ x.body = body
  OBVIOUS
<1>5. verdict'.block \in BOOLEAN /\ now' = now
  <2> HIDE DEF fp
  <2> QED
    BY <1>1, <1>2, <1>3, ExactCheck
<1>6. to = IF verdict'.block THEN "idle" ELSE "structural"
  BY <1>0 DEF After
<1>7. /\ reset' = reset /\ resets' = resets /\ checks' = checks + 1
      /\ fresh' \in [Agents -> BOOLEAN] /\ crossing' \in [Agents -> Nat]
  BY <1>1, <1>2, BeginEffect
<1> HIDE DEF x, fp
<1>8. to \in {"idle", "structural"} /\ to \in Stages
  BY <1>5, <1>6 DEF Stages
<1>9. OwnTypes'
  <2>1. pc' \in [Requests -> Stages] /\ DOMAIN req' = Requests
    BY <1>1, <1>2, <1>8 DEF OwnTypes
  <2>2. ASSUME NEW q \in Requests, pc'[q] # "idle" PROVE req'[q].agent \in Agents /\ req'[q].body \in Bodies
    <3>1. CASE q = r
      BY <1>1, <1>2, <1>4, <3>1 DEF OwnTypes
    <3>2. CASE q # r
      BY <1>1, <1>2, <2>2, <3>2 DEF OwnTypes
    <3> QED
      BY <3>1, <3>2
  <2> QED
    BY <1>1, <1>5, <1>7, <2>1, <2>2 DEF OwnTypes
<1>a. Arrives(r, to, x)
  BY <1>2 DEF Arrives
<1>10. FlightTypes' /\ Entered(a, to)
  BY <1>1, <1>4, <1>8, <1>a, Enters
<1>11. \A b \in Agents : /\ Waiting(b, "structural") \in Nat /\ Waiting(b, "tools") \in Nat
                         /\ Waiting(b, "velocity") \in Nat
  BY <1>1, FlightNumbers
<1>12. /\ Waiting(a, "tools")' = Waiting(a, "tools") /\ Waiting(a, "velocity")' = Waiting(a, "velocity")
       /\ \A b \in Agents \ {a} : SameFlight(b)
  BY <1>4, <1>8, <1>10, <1>11 DEF SameFlight, Stages, Entered
<1>13. \E grow \in {0, 1} : /\ grow = 1 => ~verdict'.block
                            /\ Waiting(a, "structural")' = Waiting(a, "structural") + grow
  <2>1. CASE verdict'.block
    <3>1. Waiting(a, "structural")' = Waiting(a, "structural")
      BY <1>4, <1>6, <1>10, <2>1 DEF Stages, Entered
    <3> QED
      BY <1>11, <3>1
  <2>2. CASE ~verdict'.block
    <3>1. Waiting(a, "structural")' = Waiting(a, "structural") + 1
      BY <1>4, <1>6, <1>10, <2>2 DEF Stages, Entered
    <3> QED
      BY <2>2, <3>1
  <2> QED
    BY <2>1, <2>2
<1>14. PICK grow \in {0, 1} : /\ grow = 1 => ~verdict'.block
                              /\ Waiting(a, "structural")' = Waiting(a, "structural") + grow
  BY <1>13
<1> QED
  BY <1>2, <1>3, <1>9, <1>10, <1>12, <1>14, Begins

-----------------------------------------------------------------------------
(* A request in flight calls its next stage: only its place changes. *)
LEMMA OwnMoves ==
  ASSUME OwnTypes, NEW r \in Requests, NEW to \in Stages, pc[r] # "idle", pc' = [pc EXCEPT ![r] = to],
         now' = now, UNCHANGED <<req, reset, checks, resets, fresh, crossing>>
  PROVE  OwnTypes' /\ \A b \in Agents : SameTurn(b)
<1>1. pc' \in [Requests -> Stages] /\ \A q \in Requests : pc'[q] # "idle" => pc[q] # "idle"
  BY DEF OwnTypes
<1>2. OwnTypes'
  BY <1>1 DEF OwnTypes
<1>3. \A b \in Agents : SameTurn(b)
  BY DEF SameTurn, Begun, Unsketched, Uncalled, ResetAt
<1> QED
  BY <1>2, <1>3

LEMMA Onlooker ==
  ASSUME PipeInv, Typed', NEW b \in Agents, SameTurn(b), SameFlight(b), KeepsNoMore(b), KeepsPasses(b)
  PROVE  LeftInv(b)' /\ FunnelInv(b)'
<1>1. /\ Counts(b) /\ Counts(b)' /\ LeftInv(b) /\ FunnelInv(b)
      /\ crossing \in [Agents -> Nat] /\ crossing' \in [Agents -> Nat]
  BY CountsAreNat, CountsStayNat DEF PipeInv, Typed, OwnTypes
<1> QED
  BY <1>1, Bystander, BystanderPasses

LEMMA StructuralStep ==
  ASSUME PipeInv, NEW r \in Requests, StructuralStage(r)
  PROVE  PipeInv'
<1>1. /\ OwnTypes /\ ExactTypes /\ SketchTypes /\ ToolTypes /\ RateTypes /\ FlightTypes
      /\ crossing \in [Agents -> Nat] /\ crossing' = crossing /\ checks' = checks
      /\ Cardinality(DOMAIN seen) \in Nat /\ Cardinality(DOMAIN seen) <= checks
  BY DEF PipeInv, Typed, OwnTypes, StructuralStage
<1>2. \A b \in Agents : LeftInv(b) /\ FunnelInv(b)
  BY DEF PipeInv
<1>3. /\ S!CheckPayload(req[r].agent, req[r].body.tokens) /\ pc[r] = "structural"
      /\ pc' = [pc EXCEPT ![r] = After(sketchVerdict'.block, "tools")]
      /\ UNCHANGED <<req, reset, checks, resets, fresh, crossing>>
      /\ UNCHANGED exactVars /\ UNCHANGED toolVars /\ UNCHANGED rateVars
  BY DEF StructuralStage, Goto
<1>0. PICK a \in Agents : a = req[r].agent
  BY <1>1, <1>3 DEF OwnTypes
<1>b. PICK body \in Bodies : body = req[r].body
  BY <1>1, <1>3 DEF OwnTypes
<1>t. PICK to : to = After(sketchVerdict'.block, "tools")
  OBVIOUS
<1> DEFINE from == "structural"
<1>4. S!CheckPayload(a, body.tokens) /\ pc[r] = from /\ pc' = [pc EXCEPT ![r] = to]
  <2>1. S!CheckPayload(a, body.tokens)
    BY <1>0, <1>3, <1>b, Zenon
  <2>2. pc[r] = from
    BY <1>3
  <2>3. pc' = [pc EXCEPT ![r] = After(sketchVerdict'.block, "tools")]
    BY <1>3
  <2>4. pc' = [pc EXCEPT ![r] = to]
    BY <1>t, <2>3, SMTT(30)
  <2> QED
    BY <2>1, <2>2, <2>4
<1>5. now' = now
  BY <1>3 DEF S!CheckPayload, S!CheckDegenerate, S!CheckStructure
<1>6. to = IF sketchVerdict'.block THEN "idle" ELSE "tools"
  BY <1>t DEF After
<1>7. from \in Stages /\ from # "idle" /\ pc[r] # "idle"
  BY <1>4 DEF Stages
<1>8. /\ SketchTypes' /\ sketchVerdict'.block \in BOOLEAN
      /\ \A b \in Agents \ {a} : SketchLen(b)' <= SketchLen(b) /\ TurnLen(b)' <= TurnLen(b) /\ Refusals(b)' <= Refusals(b)
      /\ SketchLen(a)' <= SketchLen(a) + 1 /\ TurnLen(a)' <= TurnLen(a) + 1
      /\ Refusals(a)' <= Refusals(a) + (IF sketchVerdict'.block THEN 1 ELSE 0)
  BY <1>1, <1>3, <1>4, SketchCheck DEF TurnLen
<1>9. to \in Stages /\ to # from
  BY <1>6, <1>8 DEF Stages
<1>h. Hop(r, from, to)
  BY <1>3, <1>4 DEF Hop
<1>10. FlightTypes' /\ Moved(a, from, to)
  BY <1>0, <1>1, <1>7, <1>9, <1>h, Moves
<1>11. OwnTypes' /\ \A b \in Agents : SameTurn(b)
  BY <1>1, <1>3, <1>4, <1>5, <1>7, <1>9, OwnMoves
<1>12. /\ ExactTypes' /\ Cardinality(DOMAIN seen)' = Cardinality(DOMAIN seen)
       /\ \A b \in Agents : /\ SeenLen(b)' = SeenLen(b)
                            /\ Passes(b)' = Passes(b) /\ (Remembers(b) => Remembers(b)')
  BY <1>1, <1>3, ExactSame
<1>13. ToolTypes' /\ \A b \in Agents : NameLen(b)' = NameLen(b)
  BY <1>1, <1>3, ToolSame
<1>14. /\ RateTypes'
       /\ \A b \in Agents : EventLen(b)' = EventLen(b) /\ ShortLen(b)' = ShortLen(b) /\ ObsLen(b)' = ObsLen(b)
  BY <1>1, <1>3, RateSame
<1>15. Typed' /\ \A b \in Agents : Counts(b) /\ Counts(b)'
  <2>1. Typed'
    BY <1>8, <1>10, <1>11, <1>12, <1>13, <1>14 DEF Typed
  <2> QED
    BY <1>1, <2>1, CountsAreNat, CountsStayNat DEF Typed
<1>16. \A b \in Agents : KeepsPasses(b)
  BY <1>3, <1>5, <1>12 DEF KeepsPasses, Young
<1>17. ASSUME NEW b \in Agents \ {a} PROVE LeftInv(b)' /\ FunnelInv(b)'
  <2>1. SameFlight(b)
    BY <1>0, <1>10 DEF SameFlight, Stages, Moved
  <2>2. KeepsNoMore(b)
    BY <1>8, <1>12, <1>13, <1>14, <1>15 DEF KeepsNoMore, Counts
  <2> QED
    BY <1>11, <1>15, <1>16, <2>1, <2>2, Onlooker
<1>18. /\ Counts(a) /\ Counts(a)' /\ LeftInv(a) /\ FunnelInv(a) /\ SameTurn(a)
       /\ crossing[a] \in Nat /\ crossing'[a] = crossing[a] /\ crossing' \in [Agents -> Nat]
  BY <1>1, <1>2, <1>11, <1>15
<1>19. /\ Waiting(a, "structural")' = Waiting(a, "structural") - 1
       /\ Waiting(a, "velocity")' = Waiting(a, "velocity")
       /\ Waiting(a, "tools")' = IF sketchVerdict'.block THEN Waiting(a, "tools") ELSE Waiting(a, "tools") + 1
  BY <1>0, <1>6, <1>10 DEF Stages, Moved
<1>20. /\ Flying(a) \in Nat /\ Flying(a)' \in Nat /\ Flying(a)' <= Flying(a)
       /\ Coming(a) \in Nat /\ Coming(a)' \in Nat /\ Coming(a)' <= Coming(a)
       /\ sketchVerdict'.block => Flying(a)' = Flying(a) - 1
  <2>1. CASE sketchVerdict'.block
    BY <1>18, <1>19, <2>1 DEF Counts, Flying, Coming
  <2>2. CASE ~sketchVerdict'.block
    BY <1>18, <1>19, <2>2 DEF Counts, Flying, Coming
  <2> QED
    BY <2>1, <2>2
<1>21. LeftInv(a)'
  <2>1. LeftExact(a)'
    BY <1>12, <1>18, <1>20 DEF LeftInv, LeftExact, SameTurn, Counts
  <2>2. LeftSketches(a)'
    BY <1>8, <1>18, <1>19 DEF LeftInv, LeftSketches, SameTurn, Counts
  <2>3. LeftRings(a)'
    BY <1>14, <1>18, <1>20 DEF LeftInv, LeftRings, SameTurn, Counts
  <2>4. LeftNames(a)'
    <3>1. crossing[a] - Coming(a) <= crossing'[a] - Coming(a)' /\ NameLen(a)' <= NameLen(a)
      BY <1>13, <1>18, <1>20 DEF Counts
    <3>2. NamesFit(a) => NamesFit(a)'
      BY <1>1, <1>18, <3>1, NamesStillFit
    <3> QED
      BY <1>18, <3>2 DEF LeftInv, LeftNames, SameTurn
  <2> QED
    BY <2>1, <2>2, <2>3, <2>4 DEF LeftInv
<1>22. FunnelInv(a)'
  <2> SUFFICES ASSUME Young(a)' PROVE FunnelInv(a)'
    BY DEF FunnelInv
  <2>1. Young(a) /\ Passes(a)' = Passes(a) /\ (Remembers(a) => Remembers(a)')
    BY <1>16 DEF KeepsPasses
  <2>2. /\ Remembers(a) /\ IsFiniteSet(Passes(a))
        /\ ObsLen(a) + Refusals(a) + Flying(a) <= Cardinality(Passes(a))
        /\ TurnLen(a) + Waiting(a, "structural") <= Cardinality(Passes(a))
    BY <1>18, <2>1 DEF FunnelInv
  <2>3. Cardinality(Passes(a)) \in Nat
    BY <2>2, FS_CardinalityType
  <2>4. ObsLen(a)' = ObsLen(a)
    BY <1>14
  <2>5. Refusals(a)' + Flying(a)' <= Refusals(a) + Flying(a)
    <3>1. CASE sketchVerdict'.block
      BY <1>8, <1>18, <1>20, <3>1 DEF Counts
    <3>2. CASE ~sketchVerdict'.block
      BY <1>8, <1>18, <1>20, <3>2 DEF Counts
    <3> QED
      BY <3>1, <3>2
  <2>6. (ObsLen(a) + Refusals(a) + Flying(a))' <= Cardinality(Passes(a))
    BY <1>18, <1>20, <2>2, <2>3, <2>4, <2>5 DEF Counts
  <2>7. (TurnLen(a) + Waiting(a, "structural"))' <= Cardinality(Passes(a))
    BY <1>8, <1>18, <1>19, <2>2, <2>3 DEF Counts
  <2> QED
    BY <2>1, <2>2, <2>6, <2>7 DEF FunnelInv
<1>23. \A b \in Agents : LeftInv(b)' /\ FunnelInv(b)'
  BY <1>17, <1>21, <1>22
<1> QED
  BY <1>1, <1>12, <1>15, <1>23 DEF PipeInv

(* The funnel is at most as full as it was. *)
Drains(a) ==
  /\ ObsLen(a)' + Refusals(a)' + Flying(a)' <= ObsLen(a) + Refusals(a) + Flying(a)
  /\ TurnLen(a)' + Waiting(a, "structural")' <= TurnLen(a) + Waiting(a, "structural")

LEMMA FunnelDrains ==
  ASSUME NEW a \in Agents, Counts(a), Counts(a)', FunnelInv(a), KeepsPasses(a), Drains(a)
  PROVE  FunnelInv(a)'
<1> SUFFICES ASSUME Young(a)' PROVE FunnelInv(a)'
  BY DEF FunnelInv
<1>1. Young(a) /\ Passes(a)' = Passes(a) /\ (Remembers(a) => Remembers(a)')
  BY DEF KeepsPasses
<1>2. /\ Remembers(a) /\ IsFiniteSet(Passes(a))
      /\ ObsLen(a) + Refusals(a) + Flying(a) <= Cardinality(Passes(a))
      /\ TurnLen(a) + Waiting(a, "structural") <= Cardinality(Passes(a))
  BY <1>1 DEF FunnelInv
<1>3. Cardinality(Passes(a)) \in Nat
  BY <1>2, FS_CardinalityType
<1>4. Flying(a) \in Nat /\ Flying(a)' \in Nat
  BY DEF Flying, Counts
<1>5. (ObsLen(a) + Refusals(a) + Flying(a))' <= Cardinality(Passes(a))
  BY <1>2, <1>3, <1>4 DEF Drains, Counts
<1>6. (TurnLen(a) + Waiting(a, "structural"))' <= Cardinality(Passes(a))
  BY <1>2, <1>3 DEF Drains, Counts
<1> QED
  BY <1>1, <1>2, <1>5, <1>6 DEF FunnelInv

(* A check at the tool stage takes the room its request stood for. *)
LEMMA NamesOfOne ==
  ASSUME NEW a \in Agents, Counts(a), Counts(a)', crossing \in [Agents -> Nat], crossing' \in [Agents -> Nat],
         NamesFit(a), NEW m \in Calls, NameLen(a)' <= NameLen(a) + m, crossing'[a] = crossing[a],
         Coming(a)' = Coming(a) - 1
  PROVE  NamesFit(a)'
<1> DEFINE y == crossing[a] - Coming(a)
           z == (crossing[a] - Coming(a))'
<1>0. /\ Waiting(a, "structural") \in Nat /\ Waiting(a, "tools") \in Nat
      /\ NameLen(a) \in Nat /\ NameLen(a)' \in Nat
  BY DEF Counts
<1>a. Coming(a) \in Nat
  BY <1>0 DEF Coming
<1>1. y \in Int /\ z = y + 1
  BY <1>a
<1>2. \A n : Greatest(n) => NameLen(a) <= y * n
  BY DEF NamesFit
<1> HIDE DEF y, z
<1>3. ASSUME NEW n, Greatest(n) PROVE NameLen(a)' <= z * n
  <2>1. n \in Nat /\ m \in Nat /\ m <= n
    BY <1>3, CallsArePos, CallsAreNat DEF Greatest, Calls, CallsOf
  <2>2. NameLen(a) <= y * n
    BY <1>2, <1>3
  <2>3. NameLen(a)' <= (y + 1) * n
    BY <1>0, <1>1, <2>1, <2>2, OneMoreTime
  <2> QED
    BY <1>1, <2>3
<1>4. \A n : Greatest(n)' <=> Greatest(n)
  BY DEF Greatest, Calls
<1> QED
  BY <1>3, <1>4 DEF NamesFit, z

LEMMA ToolStep ==
  ASSUME PipeInv, NEW r \in Requests, ToolStage(r)
  PROVE  PipeInv'
<1>1. /\ OwnTypes /\ ExactTypes /\ SketchTypes /\ ToolTypes /\ RateTypes /\ FlightTypes
      /\ crossing \in [Agents -> Nat] /\ crossing' = crossing /\ checks' = checks
      /\ Cardinality(DOMAIN seen) \in Nat /\ Cardinality(DOMAIN seen) <= checks
  BY DEF PipeInv, Typed, OwnTypes, ToolStage
<1>2. \A b \in Agents : LeftInv(b) /\ FunnelInv(b)
  BY DEF PipeInv
<1>3. /\ T!CheckPayload(req[r].agent, req[r].body.tools) /\ pc[r] = "tools"
      /\ pc' = [pc EXCEPT ![r] = After(toolVerdict'.block, "velocity")]
      /\ UNCHANGED <<req, reset, checks, resets, fresh, crossing>>
      /\ UNCHANGED exactVars /\ UNCHANGED sketchVars /\ UNCHANGED rateVars
  BY DEF ToolStage, Goto
<1>0. PICK a \in Agents : a = req[r].agent
  BY <1>1, <1>3 DEF OwnTypes
<1>b. PICK body \in Bodies : body = req[r].body
  BY <1>1, <1>3 DEF OwnTypes
<1>t. PICK to : to = After(toolVerdict'.block, "velocity")
  OBVIOUS
<1> DEFINE from == "tools"
<1>4. T!CheckPayload(a, body.tools) /\ pc[r] = from /\ pc' = [pc EXCEPT ![r] = to]
  <2>1. T!CheckPayload(a, body.tools)
    BY <1>0, <1>3, <1>b, Zenon
  <2>2. pc[r] = from
    BY <1>3
  <2>3. pc' = [pc EXCEPT ![r] = After(toolVerdict'.block, "velocity")]
    BY <1>3
  <2>4. pc' = [pc EXCEPT ![r] = to]
    BY <1>t, <2>3, SMTT(30)
  <2> QED
    BY <2>1, <2>2, <2>4
<1>5. now' = now
  BY <1>3 DEF T!CheckPayload, T!CheckWithoutTools, T!CheckWithTools
<1>6. to = IF toolVerdict'.block THEN "idle" ELSE "velocity"
  BY <1>t DEF After
<1>7. from \in Stages /\ from # "idle" /\ pc[r] # "idle"
  BY <1>4 DEF Stages
<1>8. /\ ToolTypes' /\ toolVerdict'.block \in BOOLEAN
      /\ \A b \in Agents \ {a} : NameLen(b)' <= NameLen(b)
      /\ NameLen(a)' <= NameLen(a) + CallsOf(body)
  BY <1>1, <1>3, <1>4, ToolCheck
<1>9. to \in Stages /\ to # from
  BY <1>6, <1>8 DEF Stages
<1>h. Hop(r, from, to)
  BY <1>3, <1>4 DEF Hop
<1>10. FlightTypes' /\ Moved(a, from, to)
  BY <1>0, <1>1, <1>7, <1>9, <1>h, Moves
<1>11. OwnTypes' /\ \A b \in Agents : SameTurn(b)
  BY <1>1, <1>3, <1>4, <1>5, <1>7, <1>9, OwnMoves
<1>12. /\ ExactTypes' /\ Cardinality(DOMAIN seen)' = Cardinality(DOMAIN seen)
       /\ \A b \in Agents : /\ SeenLen(b)' = SeenLen(b)
                            /\ Passes(b)' = Passes(b) /\ (Remembers(b) => Remembers(b)')
  BY <1>1, <1>3, ExactSame
<1>13. /\ SketchTypes'
       /\ \A b \in Agents : SketchLen(b)' = SketchLen(b) /\ TurnLen(b)' = TurnLen(b) /\ Refusals(b)' = Refusals(b)
  BY <1>1, <1>3, SketchSame
<1>14. /\ RateTypes'
       /\ \A b \in Agents : EventLen(b)' = EventLen(b) /\ ShortLen(b)' = ShortLen(b) /\ ObsLen(b)' = ObsLen(b)
  BY <1>1, <1>3, RateSame
<1>15. Typed' /\ \A b \in Agents : Counts(b) /\ Counts(b)'
  <2>1. Typed'
    BY <1>8, <1>10, <1>11, <1>12, <1>13, <1>14 DEF Typed
  <2> QED
    BY <1>1, <2>1, CountsAreNat, CountsStayNat DEF Typed
<1>16. \A b \in Agents : KeepsPasses(b)
  BY <1>3, <1>5, <1>12 DEF KeepsPasses, Young
<1>17. ASSUME NEW b \in Agents \ {a} PROVE LeftInv(b)' /\ FunnelInv(b)'
  <2>1. SameFlight(b)
    BY <1>0, <1>10 DEF SameFlight, Stages, Moved
  <2>2. KeepsNoMore(b)
    BY <1>8, <1>12, <1>13, <1>14, <1>15 DEF KeepsNoMore, Counts
  <2> QED
    BY <1>11, <1>15, <1>16, <2>1, <2>2, Onlooker
<1>18. /\ Counts(a) /\ Counts(a)' /\ LeftInv(a) /\ FunnelInv(a) /\ SameTurn(a)
       /\ crossing[a] \in Nat /\ crossing'[a] = crossing[a] /\ crossing' \in [Agents -> Nat]
  BY <1>1, <1>2, <1>11, <1>15
<1>19. /\ Waiting(a, "structural")' = Waiting(a, "structural")
       /\ Waiting(a, "tools")' = Waiting(a, "tools") - 1
       /\ Waiting(a, "velocity")' = IF toolVerdict'.block THEN Waiting(a, "velocity") ELSE Waiting(a, "velocity") + 1
  BY <1>0, <1>6, <1>10 DEF Stages, Moved
<1>20. /\ Flying(a) \in Nat /\ Flying(a)' \in Nat /\ Flying(a)' <= Flying(a)
       /\ Coming(a) \in Nat /\ Coming(a)' = Coming(a) - 1
  <2>1. CASE toolVerdict'.block
    BY <1>18, <1>19, <2>1 DEF Counts, Flying, Coming
  <2>2. CASE ~toolVerdict'.block
    BY <1>18, <1>19, <2>2 DEF Counts, Flying, Coming
  <2> QED
    BY <2>1, <2>2
<1>21. LeftInv(a)'
  <2>1. LeftExact(a)'
    BY <1>12, <1>18, <1>20 DEF LeftInv, LeftExact, SameTurn, Counts
  <2>2. LeftSketches(a)'
    BY <1>13, <1>18, <1>19 DEF LeftInv, LeftSketches, SameTurn, Counts
  <2>3. LeftRings(a)'
    BY <1>14, <1>18, <1>20 DEF LeftInv, LeftRings, SameTurn, Counts
  <2>4. LeftNames(a)'
    <3>1. CallsOf(body) \in Calls
      BY CallsAreNat
    <3>2. NamesFit(a) => NamesFit(a)'
      BY <1>1, <1>8, <1>18, <1>20, <3>1, NamesOfOne
    <3> QED
      BY <1>18, <3>2 DEF LeftInv, LeftNames, SameTurn
  <2> QED
    BY <2>1, <2>2, <2>3, <2>4 DEF LeftInv
<1>22. FunnelInv(a)'
  <2>1. Drains(a)
    BY <1>13, <1>14, <1>18, <1>19, <1>20 DEF Drains, Counts
  <2> QED
    BY <1>16, <1>18, <2>1, FunnelDrains
<1>23. \A b \in Agents : LeftInv(b)' /\ FunnelInv(b)'
  BY <1>17, <1>21, <1>22
<1> QED
  BY <1>1, <1>12, <1>15, <1>23 DEF PipeInv

LEMMA VelocityStep ==
  ASSUME PipeInv, NEW r \in Requests, VelocityStage(r)
  PROVE  PipeInv'
<1>1. /\ OwnTypes /\ ExactTypes /\ SketchTypes /\ ToolTypes /\ RateTypes /\ FlightTypes
      /\ crossing \in [Agents -> Nat] /\ crossing' = crossing /\ checks' = checks
      /\ Cardinality(DOMAIN seen) \in Nat /\ Cardinality(DOMAIN seen) <= checks
  BY DEF PipeInv, Typed, OwnTypes, VelocityStage
<1>2. \A b \in Agents : LeftInv(b) /\ FunnelInv(b)
  BY DEF PipeInv
<1>3. /\ V!CheckVelocity(req[r].agent, EstimateTokens(req[r].body)) /\ pc[r] = "velocity"
      /\ pc' = [pc EXCEPT ![r] = "idle"]
      /\ UNCHANGED <<req, reset, checks, resets, fresh, crossing>>
      /\ UNCHANGED exactVars /\ UNCHANGED sketchVars /\ UNCHANGED toolVars
  BY DEF VelocityStage, Goto
<1>0. PICK a \in Agents : a = req[r].agent
  BY <1>1, <1>3 DEF OwnTypes
<1>b. PICK body \in Bodies : body = req[r].body
  BY <1>1, <1>3 DEF OwnTypes
<1>n. PICK n \in Nat : n = EstimateTokens(body)
  BY TokensAreNat
<1> DEFINE from == "velocity"
           to   == "idle"
<1>4. V!CheckVelocity(a, n) /\ pc[r] = from /\ pc' = [pc EXCEPT ![r] = to] /\ now \in Nat
  BY <1>0, <1>1, <1>3, <1>b, <1>n DEF OwnTypes
<1>5. now' = now
  BY <1>4 DEF V!CheckVelocity
<1>7. from \in Stages /\ from # "idle" /\ pc[r] # "idle"
  BY <1>4 DEF Stages
<1>8. /\ RateTypes'
      /\ \A b \in Agents \ {a} : EventLen(b)' <= EventLen(b) /\ ShortLen(b)' <= ShortLen(b) /\ ObsLen(b)' <= ObsLen(b)
      /\ EventLen(a)' <= EventLen(a) + 1 /\ ShortLen(a)' <= ShortLen(a) + 1 /\ ObsLen(a)' <= ObsLen(a) + 1
  BY <1>1, <1>4, RateCheck DEF ObsLen
<1>9. to \in Stages /\ to # from
  BY DEF Stages
<1>h. Hop(r, from, to)
  BY <1>3, <1>4 DEF Hop
<1>10. FlightTypes' /\ Moved(a, from, to)
  BY <1>0, <1>1, <1>7, <1>9, <1>h, Moves
<1>11. OwnTypes' /\ \A b \in Agents : SameTurn(b)
  BY <1>1, <1>3, <1>4, <1>5, <1>7, <1>9, OwnMoves
<1>12. /\ ExactTypes' /\ Cardinality(DOMAIN seen)' = Cardinality(DOMAIN seen)
       /\ \A b \in Agents : /\ SeenLen(b)' = SeenLen(b)
                            /\ Passes(b)' = Passes(b) /\ (Remembers(b) => Remembers(b)')
  BY <1>1, <1>3, ExactSame
<1>13. ToolTypes' /\ \A b \in Agents : NameLen(b)' = NameLen(b)
  BY <1>1, <1>3, ToolSame
<1>14. /\ SketchTypes'
       /\ \A b \in Agents : SketchLen(b)' = SketchLen(b) /\ TurnLen(b)' = TurnLen(b) /\ Refusals(b)' = Refusals(b)
  BY <1>1, <1>3, SketchSame
<1>15. Typed' /\ \A b \in Agents : Counts(b) /\ Counts(b)'
  <2>1. Typed'
    BY <1>8, <1>10, <1>11, <1>12, <1>13, <1>14 DEF Typed
  <2> QED
    BY <1>1, <2>1, CountsAreNat, CountsStayNat DEF Typed
<1>16. \A b \in Agents : KeepsPasses(b)
  BY <1>3, <1>5, <1>12 DEF KeepsPasses, Young
<1>17. ASSUME NEW b \in Agents \ {a} PROVE LeftInv(b)' /\ FunnelInv(b)'
  <2>1. SameFlight(b)
    BY <1>0, <1>10 DEF SameFlight, Stages, Moved
  <2>2. KeepsNoMore(b)
    BY <1>8, <1>12, <1>13, <1>14, <1>15 DEF KeepsNoMore, Counts
  <2> QED
    BY <1>11, <1>15, <1>16, <2>1, <2>2, Onlooker
<1>18. /\ Counts(a) /\ Counts(a)' /\ LeftInv(a) /\ FunnelInv(a) /\ SameTurn(a)
       /\ crossing[a] \in Nat /\ crossing'[a] = crossing[a] /\ crossing' \in [Agents -> Nat]
  BY <1>1, <1>2, <1>11, <1>15
<1>19. /\ Waiting(a, "structural")' = Waiting(a, "structural")
       /\ Waiting(a, "tools")' = Waiting(a, "tools")
       /\ Waiting(a, "velocity")' = Waiting(a, "velocity") - 1
  BY <1>0, <1>10 DEF Stages, Moved
<1>20. /\ Flying(a) \in Nat /\ Flying(a)' \in Nat /\ Flying(a)' = Flying(a) - 1
       /\ Coming(a) \in Nat /\ Coming(a)' = Coming(a)
  BY <1>18, <1>19 DEF Counts, Flying, Coming
<1>21. LeftInv(a)'
  <2>1. LeftExact(a)'
    BY <1>12, <1>18, <1>20 DEF LeftInv, LeftExact, SameTurn, Counts
  <2>2. LeftSketches(a)'
    BY <1>14, <1>18, <1>19 DEF LeftInv, LeftSketches, SameTurn, Counts
  <2>3. LeftRings(a)'
    BY <1>8, <1>18, <1>20 DEF LeftInv, LeftRings, SameTurn, Counts
  <2>4. LeftNames(a)'
    <3>1. crossing[a] - Coming(a) <= crossing'[a] - Coming(a)' /\ NameLen(a)' <= NameLen(a)
      BY <1>13, <1>18, <1>20 DEF Counts
    <3>2. NamesFit(a) => NamesFit(a)'
      BY <1>1, <1>18, <3>1, NamesStillFit
    <3> QED
      BY <1>18, <3>2 DEF LeftInv, LeftNames, SameTurn
  <2> QED
    BY <2>1, <2>2, <2>3, <2>4 DEF LeftInv
<1>22. FunnelInv(a)'
  <2>1. Drains(a)
    BY <1>8, <1>14, <1>18, <1>19, <1>20 DEF Drains, Counts
  <2> QED
    BY <1>16, <1>18, <2>1, FunnelDrains
<1>23. \A b \in Agents : LeftInv(b)' /\ FunnelInv(b)'
  BY <1>17, <1>21, <1>22
<1> QED
  BY <1>1, <1>12, <1>15, <1>23 DEF PipeInv

-----------------------------------------------------------------------------
(* A Reset starts: every request in flight now may still leave something. *)
LEMMA ResetExactStep ==
  ASSUME PipeInv, NEW a \in Agents, ResetExact(a)
  PROVE  PipeInv'
<1>1. /\ OwnTypes /\ ExactTypes /\ SketchTypes /\ ToolTypes /\ RateTypes /\ FlightTypes
      /\ crossing \in [Agents -> Nat] /\ fresh \in [Agents -> BOOLEAN] /\ resets \in [Agents -> Nat]
      /\ Cardinality(DOMAIN seen) \in Nat /\ Cardinality(DOMAIN seen) <= checks /\ checks \in Nat
  BY DEF PipeInv, Typed, OwnTypes
<1>2. /\ reset.stage = "idle" /\ E!Reset(a) /\ reset' = [agent |-> a, stage |-> "structural"]
      /\ resets' = [resets EXCEPT ![a] = resets[a] + 1]
      /\ fresh' = [fresh EXCEPT ![a] = FALSE]
      /\ crossing' = [crossing EXCEPT ![a] = Cardinality(InFlight(a))]
      /\ UNCHANGED sketchVars /\ UNCHANGED toolVars /\ UNCHANGED rateVars
      /\ UNCHANGED <<pc, req, checks>>
  BY DEF ResetExact
<1>3. /\ ExactTypes' /\ now' = now /\ Cardinality(DOMAIN seen)' <= Cardinality(DOMAIN seen)
      /\ SeenLen(a)' = 0
      /\ \A b \in Agents \ {a} : /\ SeenLen(b)' <= SeenLen(b)
                                 /\ Passes(b)' = Passes(b) /\ (Remembers(b) => Remembers(b)')
  BY <1>1, <1>2, ExactReset DEF SeenLen
<1>4. /\ SketchTypes'
      /\ \A b \in Agents : SketchLen(b)' = SketchLen(b) /\ TurnLen(b)' = TurnLen(b) /\ Refusals(b)' = Refusals(b)
  BY <1>1, <1>2, SketchSame
<1>5. ToolTypes' /\ \A b \in Agents : NameLen(b)' = NameLen(b)
  BY <1>1, <1>2, ToolSame
<1>6. /\ RateTypes'
      /\ \A b \in Agents : EventLen(b)' = EventLen(b) /\ ShortLen(b)' = ShortLen(b) /\ ObsLen(b)' = ObsLen(b)
  BY <1>1, <1>2, RateSame
<1>7. FlightTypes' /\ \A b \in Agents : SameFlight(b)
  BY <1>1, <1>2, FlightSame DEF SameFlight, Stages
<1>8. \A b \in Agents : Counts(b)
  BY <1>1, CountsAreNat DEF Typed
<1>9. Cardinality(InFlight(a)) = Flying(a) /\ Flying(a) \in Nat
  BY <1>1, <1>8, FlightIsSum DEF Flying, Counts
<1>10. /\ crossing' \in [Agents -> Nat] /\ fresh' \in [Agents -> BOOLEAN] /\ resets' \in [Agents -> Nat]
       /\ crossing'[a] = Flying(a) /\ ~fresh'[a] /\ resets'[a] # 0
       /\ \A b \in Agents \ {a} : crossing'[b] = crossing[b] /\ fresh'[b] = fresh[b] /\ resets'[b] = resets[b]
  BY <1>1, <1>2, <1>9
<1>11. OwnTypes'
  <2>1. reset' \in [agent : Agents \cup {NoRequest.agent}, stage : Stages] /\ reset'.agent \in Agents
    BY <1>2 DEF Stages
  <2>2. NoRequest' = NoRequest
    BY DEF NoRequest
  <2> QED
    BY <1>1, <1>2, <1>3, <1>10, <2>1, <2>2 DEF OwnTypes
<1>12. Typed' /\ \A b \in Agents : Counts(b)'
  <2>1. Typed'
    BY <1>3, <1>4, <1>5, <1>6, <1>7, <1>11 DEF Typed
  <2> QED
    BY <2>1, CountsStayNat
<1>13. Cardinality(DOMAIN seen)' \in Nat /\ Cardinality(DOMAIN seen)' <= checks'
  <2>1. Cardinality(DOMAIN seen') \in Nat
    BY <1>3, FS_CardinalityType DEF ExactTypes
  <2> QED
    BY <1>1, <1>2, <1>3, <2>1
<1>14. ASSUME NEW b \in Agents \ {a} PROVE LeftInv(b)' /\ FunnelInv(b)'
  <2>1. SameTurn(b)
    BY <1>2, <1>10 DEF SameTurn, Begun, Unsketched, Uncalled, ResetAt
  <2>2. KeepsNoMore(b)
    BY <1>3, <1>4, <1>5, <1>6, <1>8, <1>12 DEF KeepsNoMore, Counts
  <2>3. KeepsPasses(b)
    BY <1>2, <1>3, <1>10 DEF KeepsPasses, Young
  <2> QED
    BY <1>7, <1>12, <2>1, <2>2, <2>3, Onlooker
<1>15. LeftInv(a)'
  <2>1. Flying(a)' = Flying(a)
    BY <1>7 DEF SameFlight, Flying
  <2>2. LeftExact(a)'
    BY <1>3, <1>9, <1>10, <2>1 DEF LeftExact
  <2>3. ~Unsketched(a)' /\ ~Uncalled(a)'
    BY <1>2, <1>10 DEF Unsketched, Uncalled, ResetAt
  <2> QED
    BY <1>10, <2>2, <2>3 DEF LeftInv, LeftSketches, LeftNames, LeftRings
<1>16. FunnelInv(a)'
  BY <1>10 DEF FunnelInv, Young
<1> QED
  BY <1>12, <1>13, <1>14, <1>15, <1>16 DEF PipeInv

(* A Reset goes on to its next stage. *)
LEMMA ResetMoves ==
  ASSUME OwnTypes, NEW from \in Stages, NEW to \in Stages, from # "idle", reset.stage = from,
         reset' = [reset EXCEPT !.stage = to], UNCHANGED <<now, pc, req, checks, resets>>,
         fresh' \in [Agents -> BOOLEAN], crossing' = crossing, NEW a, a = reset.agent,
         \A b \in Agents \ {a} : fresh'[b] = fresh[b]
  PROVE  OwnTypes' /\ reset'.agent = a /\ reset'.stage = to /\ \A b \in Agents \ {a} : SameTurn(b)
<1>1. reset \in [agent : Agents \cup {NoRequest.agent}, stage : Stages] /\ a \in Agents
  BY DEF OwnTypes
<1>2. reset' \in [agent : Agents \cup {NoRequest.agent}, stage : Stages] /\ reset'.agent = a /\ reset'.stage = to
  BY <1>1
<1>3. NoRequest' = NoRequest
  BY DEF NoRequest
<1>4. OwnTypes'
  BY <1>1, <1>2, <1>3 DEF OwnTypes
<1>5. \A b \in Agents \ {a} : SameTurn(b)
  BY <1>2 DEF SameTurn, Begun, Unsketched, Uncalled, ResetAt
<1> QED
  BY <1>2, <1>4, <1>5

LEMMA ResetStructuralStep ==
  ASSUME PipeInv, ResetStructural
  PROVE  PipeInv'
<1>1. /\ OwnTypes /\ ExactTypes /\ SketchTypes /\ ToolTypes /\ RateTypes /\ FlightTypes
      /\ crossing \in [Agents -> Nat] /\ fresh \in [Agents -> BOOLEAN]
      /\ Cardinality(DOMAIN seen) \in Nat /\ Cardinality(DOMAIN seen) <= checks
      /\ \A b \in Agents : LeftInv(b) /\ FunnelInv(b)
  BY DEF PipeInv, Typed, OwnTypes
<1> DEFINE from == "structural"
           to   == "tools"
<1>2. /\ reset.stage = from /\ S!Reset(reset.agent) /\ reset' = [reset EXCEPT !.stage = to]
      /\ fresh' = fresh
      /\ UNCHANGED exactVars /\ UNCHANGED toolVars /\ UNCHANGED rateVars
      /\ UNCHANGED <<pc, req, checks, resets, crossing>>
  BY DEF ResetStructural
<1>3. PICK a \in Agents : a = reset.agent
  BY <1>1, <1>2 DEF OwnTypes
<1>4. now' = now
  BY <1>2 DEF S!Reset
<1>5. from \in Stages /\ to \in Stages /\ from # "idle"
  BY DEF Stages
<1>6. /\ fresh' \in [Agents -> BOOLEAN] /\ \A b \in Agents \ {a} : fresh'[b] = fresh[b]
      /\ fresh'[a] = fresh[a] /\ crossing' = crossing /\ crossing[a] \in Nat
  BY <1>1, <1>2, <1>3
<1>7. OwnTypes' /\ reset'.agent = a /\ reset'.stage = to /\ \A b \in Agents \ {a} : SameTurn(b)
  <2>1. /\ reset.stage = from /\ reset' = [reset EXCEPT !.stage = to]
        /\ UNCHANGED <<now, pc, req, checks, resets>>
    BY <1>2, <1>4
  <2> HIDE DEF from, to
  <2> QED
    BY <1>1, <1>3, <1>5, <1>6, <2>1, ResetMoves
<1>8. /\ ExactTypes' /\ Cardinality(DOMAIN seen)' = Cardinality(DOMAIN seen)
      /\ \A b \in Agents : /\ SeenLen(b)' = SeenLen(b)
                           /\ Passes(b)' = Passes(b) /\ (Remembers(b) => Remembers(b)')
  BY <1>1, <1>2, ExactSame
<1>9. /\ SketchTypes' /\ SketchLen(a)' = 0 /\ TurnLen(a)' = 0 /\ Refusals(a)' = 0
      /\ \A b \in Agents \ {a} : SketchLen(b)' = SketchLen(b) /\ TurnLen(b)' = TurnLen(b) /\ Refusals(b)' = Refusals(b)
  BY <1>1, <1>2, <1>3, SketchReset DEF TurnLen
<1>10. ToolTypes' /\ \A b \in Agents : NameLen(b)' = NameLen(b)
  BY <1>1, <1>2, ToolSame
<1>11. /\ RateTypes'
       /\ \A b \in Agents : EventLen(b)' = EventLen(b) /\ ShortLen(b)' = ShortLen(b) /\ ObsLen(b)' = ObsLen(b)
  BY <1>1, <1>2, RateSame
<1>12. FlightTypes' /\ \A b \in Agents : SameFlight(b)
  BY <1>1, <1>2, FlightSame DEF SameFlight, Stages
<1>13. Typed' /\ \A b \in Agents : Counts(b) /\ Counts(b)'
  <2>1. Typed'
    BY <1>7, <1>8, <1>9, <1>10, <1>11, <1>12 DEF Typed
  <2> QED
    BY <1>1, <2>1, CountsAreNat, CountsStayNat DEF Typed
<1>14. \A b \in Agents : KeepsPasses(b)
  BY <1>2, <1>4, <1>8 DEF KeepsPasses, Young
<1>15. ASSUME NEW b \in Agents \ {a} PROVE LeftInv(b)' /\ FunnelInv(b)'
  <2>1. KeepsNoMore(b)
    BY <1>8, <1>9, <1>10, <1>11, <1>13 DEF KeepsNoMore, Counts
  <2> QED
    BY <1>7, <1>12, <1>13, <1>14, <2>1, Onlooker
<1>16. /\ Counts(a) /\ Counts(a)' /\ LeftInv(a) /\ FunnelInv(a) /\ SameFlight(a)
       /\ Flying(a) \in Nat /\ Flying(a)' = Flying(a) /\ Coming(a) \in Nat /\ Coming(a)' = Coming(a)
       /\ Waiting(a, "structural") <= Flying(a) /\ Coming(a) <= Flying(a)
  <2>1. Counts(a) /\ Counts(a)' /\ LeftInv(a) /\ FunnelInv(a) /\ SameFlight(a)
    BY <1>1, <1>12, <1>13
  <2> QED
    BY <2>1 DEF Flying, Coming, Counts, SameFlight
<1>17. Begun(a) /\ (Uncalled(a)' <=> Uncalled(a))
  BY <1>2, <1>3, <1>7 DEF Begun, Unsketched, Uncalled, ResetAt
<1>18. Flying(a) <= crossing[a] /\ SeenLen(a) <= crossing[a]
  BY <1>16, <1>17 DEF LeftInv, LeftExact
<1>19. LeftInv(a)'
  <2>1. LeftExact(a)'
    BY <1>6, <1>8, <1>16, <1>18 DEF LeftExact, Counts
  <2>2. LeftSketches(a)'
    BY <1>6, <1>9, <1>16, <1>18 DEF LeftSketches, SameFlight, Counts
  <2>3. LeftNames(a)'
    <3>1. crossing[a] - Coming(a) <= crossing'[a] - Coming(a)' /\ NameLen(a)' <= NameLen(a)
      BY <1>6, <1>10, <1>16 DEF Counts
    <3>2. NamesFit(a) => NamesFit(a)'
      BY <1>1, <1>6, <1>16, <3>1, NamesStillFit
    <3> QED
      BY <1>16, <1>17, <3>2 DEF LeftInv, LeftNames
  <2>4. LeftRings(a)'
    BY <1>6, <1>11, <1>16 DEF LeftInv, LeftRings, Counts
  <2> QED
    BY <2>1, <2>2, <2>3, <2>4 DEF LeftInv
<1>20. FunnelInv(a)'
  <2>1. Drains(a)
    BY <1>8, <1>9, <1>10, <1>11, <1>16 DEF Drains, Counts, SameFlight
  <2> QED
    BY <1>14, <1>16, <2>1, FunnelDrains
<1>21. \A b \in Agents : LeftInv(b)' /\ FunnelInv(b)'
  BY <1>15, <1>19, <1>20
<1> QED
  BY <1>1, <1>2, <1>8, <1>13, <1>21 DEF PipeInv

LEMMA ResetToolsStep ==
  ASSUME PipeInv, ResetTools
  PROVE  PipeInv'
<1>1. /\ OwnTypes /\ ExactTypes /\ SketchTypes /\ ToolTypes /\ RateTypes /\ FlightTypes
      /\ crossing \in [Agents -> Nat] /\ fresh \in [Agents -> BOOLEAN]
      /\ Cardinality(DOMAIN seen) \in Nat /\ Cardinality(DOMAIN seen) <= checks
      /\ \A b \in Agents : LeftInv(b) /\ FunnelInv(b)
  BY DEF PipeInv, Typed, OwnTypes
<1> DEFINE from == "tools"
           to   == "velocity"
<1>2. /\ reset.stage = from /\ T!Reset(reset.agent) /\ reset' = [reset EXCEPT !.stage = to]
      /\ fresh' = fresh
      /\ UNCHANGED exactVars /\ UNCHANGED sketchVars /\ UNCHANGED rateVars
      /\ UNCHANGED <<pc, req, checks, resets, crossing>>
  BY DEF ResetTools
<1>3. PICK a \in Agents : a = reset.agent
  BY <1>1, <1>2 DEF OwnTypes
<1>4. now' = now
  BY <1>2 DEF T!Reset
<1>5. from \in Stages /\ to \in Stages /\ from # "idle"
  BY DEF Stages
<1>6. /\ fresh' \in [Agents -> BOOLEAN] /\ \A b \in Agents \ {a} : fresh'[b] = fresh[b]
      /\ fresh'[a] = fresh[a] /\ crossing' = crossing /\ crossing[a] \in Nat
  BY <1>1, <1>2, <1>3
<1>7. OwnTypes' /\ reset'.agent = a /\ reset'.stage = to /\ \A b \in Agents \ {a} : SameTurn(b)
  <2>1. /\ reset.stage = from /\ reset' = [reset EXCEPT !.stage = to]
        /\ UNCHANGED <<now, pc, req, checks, resets>>
    BY <1>2, <1>4
  <2> HIDE DEF from, to
  <2> QED
    BY <1>1, <1>3, <1>5, <1>6, <2>1, ResetMoves
<1>8. /\ ExactTypes' /\ Cardinality(DOMAIN seen)' = Cardinality(DOMAIN seen)
      /\ \A b \in Agents : /\ SeenLen(b)' = SeenLen(b)
                           /\ Passes(b)' = Passes(b) /\ (Remembers(b) => Remembers(b)')
  BY <1>1, <1>2, ExactSame
<1>9. /\ SketchTypes'
      /\ \A b \in Agents : SketchLen(b)' = SketchLen(b) /\ TurnLen(b)' = TurnLen(b) /\ Refusals(b)' = Refusals(b)
  BY <1>1, <1>2, SketchSame
<1>10. ToolTypes' /\ NameLen(a)' = 0 /\ \A b \in Agents \ {a} : NameLen(b)' = NameLen(b)
  BY <1>1, <1>2, <1>3, ToolReset
<1>11. /\ RateTypes'
       /\ \A b \in Agents : EventLen(b)' = EventLen(b) /\ ShortLen(b)' = ShortLen(b) /\ ObsLen(b)' = ObsLen(b)
  BY <1>1, <1>2, RateSame
<1>12. FlightTypes' /\ \A b \in Agents : SameFlight(b)
  BY <1>1, <1>2, FlightSame DEF SameFlight, Stages
<1>13. Typed' /\ \A b \in Agents : Counts(b) /\ Counts(b)'
  <2>1. Typed'
    BY <1>7, <1>8, <1>9, <1>10, <1>11, <1>12 DEF Typed
  <2> QED
    BY <1>1, <2>1, CountsAreNat, CountsStayNat DEF Typed
<1>14. \A b \in Agents : KeepsPasses(b)
  BY <1>2, <1>4, <1>8 DEF KeepsPasses, Young
<1>15. ASSUME NEW b \in Agents \ {a} PROVE LeftInv(b)' /\ FunnelInv(b)'
  <2>1. KeepsNoMore(b)
    BY <1>8, <1>9, <1>10, <1>11, <1>13 DEF KeepsNoMore, Counts
  <2> QED
    BY <1>7, <1>12, <1>13, <1>14, <2>1, Onlooker
<1>16. /\ Counts(a) /\ Counts(a)' /\ LeftInv(a) /\ FunnelInv(a) /\ SameFlight(a)
       /\ Flying(a) \in Nat /\ Flying(a)' = Flying(a) /\ Coming(a) \in Nat /\ Coming(a)' = Coming(a)
       /\ Waiting(a, "structural") <= Flying(a) /\ Coming(a) <= Flying(a)
  <2>1. Counts(a) /\ Counts(a)' /\ LeftInv(a) /\ FunnelInv(a) /\ SameFlight(a)
    BY <1>1, <1>12, <1>13
  <2> QED
    BY <2>1 DEF Flying, Coming, Counts, SameFlight
<1>17. Begun(a) /\ Unsketched(a)
  BY <1>2, <1>3, <1>7 DEF Begun, Unsketched, Uncalled, ResetAt
<1>18. Flying(a) <= crossing[a] /\ SeenLen(a) <= crossing[a]
  BY <1>16, <1>17 DEF LeftInv, LeftExact
<1>19. LeftInv(a)'
  <2>1. LeftExact(a)'
    BY <1>6, <1>8, <1>16, <1>18 DEF LeftExact, Counts
  <2>2. LeftSketches(a)'
    BY <1>6, <1>9, <1>16, <1>17 DEF LeftInv, LeftSketches, SameFlight, Counts
  <2>3. LeftNames(a)'
    <3>1. ASSUME NEW n, Greatest(n) PROVE NameLen(a)' <= (crossing'[a] - Coming(a)') * n
      <4> DEFINE y == crossing'[a] - Coming(a)'
      <4>1. y \in Nat
        BY <1>6, <1>16, <1>18
      <4>2. n \in Nat
        BY <3>1, CallsArePos
      <4> HIDE DEF y
      <4>3. 0 <= y * n
        BY <4>1, <4>2, NoTimes
      <4> QED
        BY <1>10, <4>3 DEF y
    <3>2. \A n : Greatest(n)' <=> Greatest(n)
      BY DEF Greatest, Calls
    <3> QED
      BY <3>1, <3>2 DEF LeftNames, NamesFit
  <2>4. LeftRings(a)'
    BY <1>6, <1>11, <1>16 DEF LeftInv, LeftRings, Counts
  <2> QED
    BY <2>1, <2>2, <2>3, <2>4 DEF LeftInv
<1>20. FunnelInv(a)'
  <2>1. Drains(a)
    BY <1>8, <1>9, <1>10, <1>11, <1>16 DEF Drains, Counts, SameFlight
  <2> QED
    BY <1>14, <1>16, <2>1, FunnelDrains
<1>21. \A b \in Agents : LeftInv(b)' /\ FunnelInv(b)'
  BY <1>15, <1>19, <1>20
<1> QED
  BY <1>1, <1>2, <1>8, <1>13, <1>21 DEF PipeInv

LEMMA ResetVelocityStep ==
  ASSUME PipeInv, ResetVelocity
  PROVE  PipeInv'
<1>1. /\ OwnTypes /\ ExactTypes /\ SketchTypes /\ ToolTypes /\ RateTypes /\ FlightTypes
      /\ crossing \in [Agents -> Nat] /\ fresh \in [Agents -> BOOLEAN]
      /\ Cardinality(DOMAIN seen) \in Nat /\ Cardinality(DOMAIN seen) <= checks
      /\ \A b \in Agents : LeftInv(b) /\ FunnelInv(b)
  BY DEF PipeInv, Typed, OwnTypes
<1> DEFINE from == "velocity"
           to   == "idle"
<1>2. /\ reset.stage = from /\ V!Reset(reset.agent) /\ reset' = [reset EXCEPT !.stage = to]
      /\ fresh' = [fresh EXCEPT ![reset.agent] = TRUE]
      /\ UNCHANGED exactVars /\ UNCHANGED sketchVars /\ UNCHANGED toolVars
      /\ UNCHANGED <<pc, req, checks, resets, crossing>>
  BY DEF ResetVelocity
<1>3. PICK a \in Agents : a = reset.agent
  BY <1>1, <1>2 DEF OwnTypes
<1>4. now' = now
  BY <1>2 DEF V!Reset
<1>5. from \in Stages /\ to \in Stages /\ from # "idle"
  BY DEF Stages
<1>6. /\ fresh' \in [Agents -> BOOLEAN] /\ \A b \in Agents \ {a} : fresh'[b] = fresh[b]
      /\ fresh'[a] /\ crossing' = crossing /\ crossing[a] \in Nat
  BY <1>1, <1>2, <1>3
<1>7. OwnTypes' /\ reset'.agent = a /\ reset'.stage = to /\ \A b \in Agents \ {a} : SameTurn(b)
  <2>1. /\ reset.stage = from /\ reset' = [reset EXCEPT !.stage = to]
        /\ UNCHANGED <<now, pc, req, checks, resets>>
    BY <1>2, <1>4
  <2> HIDE DEF from, to
  <2> QED
    BY <1>1, <1>3, <1>5, <1>6, <2>1, ResetMoves
<1>8. /\ ExactTypes' /\ Cardinality(DOMAIN seen)' = Cardinality(DOMAIN seen)
      /\ \A b \in Agents : /\ SeenLen(b)' = SeenLen(b)
                           /\ Passes(b)' = Passes(b) /\ (Remembers(b) => Remembers(b)')
  BY <1>1, <1>2, ExactSame
<1>9. /\ SketchTypes'
      /\ \A b \in Agents : SketchLen(b)' = SketchLen(b) /\ TurnLen(b)' = TurnLen(b) /\ Refusals(b)' = Refusals(b)
  BY <1>1, <1>2, SketchSame
<1>10. ToolTypes' /\ \A b \in Agents : NameLen(b)' = NameLen(b)
  BY <1>1, <1>2, ToolSame
<1>11. /\ RateTypes' /\ EventLen(a)' = 0 /\ ShortLen(a)' = 0 /\ ObsLen(a)' = 0
       /\ \A b \in Agents \ {a} : EventLen(b)' = EventLen(b) /\ ShortLen(b)' = ShortLen(b) /\ ObsLen(b)' = ObsLen(b)
  BY <1>1, <1>2, <1>3, RateReset DEF ObsLen
<1>12. FlightTypes' /\ \A b \in Agents : SameFlight(b)
  BY <1>1, <1>2, FlightSame DEF SameFlight, Stages
<1>13. Typed' /\ \A b \in Agents : Counts(b) /\ Counts(b)'
  <2>1. Typed'
    BY <1>7, <1>8, <1>9, <1>10, <1>11, <1>12 DEF Typed
  <2> QED
    BY <1>1, <2>1, CountsAreNat, CountsStayNat DEF Typed
<1>14. \A b \in Agents : KeepsPasses(b)
  BY <1>2, <1>4, <1>8 DEF KeepsPasses, Young
<1>15. ASSUME NEW b \in Agents \ {a} PROVE LeftInv(b)' /\ FunnelInv(b)'
  <2>1. KeepsNoMore(b)
    BY <1>8, <1>9, <1>10, <1>11, <1>13 DEF KeepsNoMore, Counts
  <2> QED
    BY <1>7, <1>12, <1>13, <1>14, <2>1, Onlooker
<1>16. /\ Counts(a) /\ Counts(a)' /\ LeftInv(a) /\ FunnelInv(a) /\ SameFlight(a)
       /\ Flying(a) \in Nat /\ Flying(a)' = Flying(a) /\ Coming(a) \in Nat /\ Coming(a)' = Coming(a)
       /\ Waiting(a, "structural") <= Flying(a) /\ Coming(a) <= Flying(a)
  <2>1. Counts(a) /\ Counts(a)' /\ LeftInv(a) /\ FunnelInv(a) /\ SameFlight(a)
    BY <1>1, <1>12, <1>13
  <2> QED
    BY <2>1 DEF Flying, Coming, Counts, SameFlight
<1>17. Begun(a) /\ Unsketched(a) /\ Uncalled(a)
  BY <1>2, <1>3, <1>7 DEF Begun, Unsketched, Uncalled, ResetAt
<1>18. Flying(a) <= crossing[a] /\ SeenLen(a) <= crossing[a]
  BY <1>16, <1>17 DEF LeftInv, LeftExact
<1>19. LeftInv(a)'
  <2>1. LeftExact(a)'
    BY <1>6, <1>8, <1>16, <1>18 DEF LeftExact, Counts
  <2>2. LeftSketches(a)'
    BY <1>6, <1>9, <1>16, <1>17 DEF LeftInv, LeftSketches, SameFlight, Counts
  <2>3. LeftNames(a)'
    <3>1. crossing[a] - Coming(a) <= crossing'[a] - Coming(a)' /\ NameLen(a)' <= NameLen(a)
      BY <1>6, <1>10, <1>16 DEF Counts
    <3>2. NamesFit(a) => NamesFit(a)'
      BY <1>1, <1>6, <1>16, <3>1, NamesStillFit
    <3> QED
      BY <1>16, <1>17, <3>2 DEF LeftInv, LeftNames
  <2>4. LeftRings(a)'
    BY <1>6, <1>11, <1>16, <1>18 DEF LeftRings
  <2> QED
    BY <2>1, <2>2, <2>3, <2>4 DEF LeftInv
<1>20. FunnelInv(a)'
  <2>1. Drains(a)
    BY <1>8, <1>9, <1>10, <1>11, <1>16 DEF Drains, Counts, SameFlight
  <2> QED
    BY <1>14, <1>16, <2>1, FunnelDrains
<1>21. \A b \in Agents : LeftInv(b)' /\ FunnelInv(b)'
  BY <1>15, <1>19, <1>20
<1> QED
  BY <1>1, <1>2, <1>8, <1>13, <1>21 DEF PipeInv

-----------------------------------------------------------------------------
(* Time passes, or nothing happens. *)
LEMMA Nothing ==
  ASSUME PipeInv, UNCHANGED sketchVars, UNCHANGED toolVars, UNCHANGED rateVars, UNCHANGED ownVars,
         seen' = seen, ExactTypes', now' \in Nat, now <= now', now' < HashTTL => passed' = passed
  PROVE  PipeInv'
<1>1. /\ OwnTypes /\ ExactTypes /\ SketchTypes /\ ToolTypes /\ RateTypes /\ FlightTypes /\ now \in Nat
      /\ Cardinality(DOMAIN seen) \in Nat /\ Cardinality(DOMAIN seen) <= checks
  BY DEF PipeInv, Typed, OwnTypes
<1>0. HashTTL \in Nat
  BY PipelineAssumption
<1>2. UNCHANGED <<pc, req, reset, checks, resets, fresh, crossing>>
  BY DEF ownVars
<1>3. /\ SketchTypes'
      /\ \A b \in Agents : SketchLen(b)' = SketchLen(b) /\ TurnLen(b)' = TurnLen(b) /\ Refusals(b)' = Refusals(b)
  BY <1>1, SketchSame
<1>4. ToolTypes' /\ \A b \in Agents : NameLen(b)' = NameLen(b)
  BY <1>1, ToolSame
<1>5. /\ RateTypes'
      /\ \A b \in Agents : EventLen(b)' = EventLen(b) /\ ShortLen(b)' = ShortLen(b) /\ ObsLen(b)' = ObsLen(b)
  BY <1>1, RateSame
<1>6. FlightTypes' /\ \A b \in Agents : SameFlight(b)
  BY <1>1, <1>2, FlightSame DEF SameFlight, Stages
<1>7. \A b \in Agents : SeenLen(b)' = SeenLen(b)
  BY DEF SeenLen, Sightings
<1>8. OwnTypes'
  <2>1. NoRequest' = NoRequest
    BY DEF NoRequest
  <2> QED
    BY <1>1, <1>2, <2>1 DEF OwnTypes
<1>9. Typed' /\ \A b \in Agents : Counts(b) /\ Counts(b)'
  <2>1. Typed'
    BY <1>3, <1>4, <1>5, <1>6, <1>8 DEF Typed
  <2> QED
    BY <1>1, <2>1, CountsAreNat, CountsStayNat DEF Typed
<1>10. ASSUME NEW b \in Agents PROVE LeftInv(b)' /\ FunnelInv(b)'
  <2>1. SameTurn(b)
    BY <1>2 DEF SameTurn, Begun, Unsketched, Uncalled, ResetAt
  <2>2. KeepsNoMore(b)
    BY <1>3, <1>4, <1>5, <1>7, <1>9 DEF KeepsNoMore, Counts
  <2>3. KeepsPasses(b)
    <3> SUFFICES ASSUME Young(b)' PROVE Young(b) /\ Passes(b)' = Passes(b) /\ (Remembers(b) => Remembers(b)')
      BY DEF KeepsPasses
    <3>1. now' < HashTTL /\ now < HashTTL /\ resets[b] = 0 /\ checks <= MaxEntries
      BY <1>0, <1>1, <1>2 DEF Young
    <3>2. passed' = passed
      BY <3>1
    <3>3. Passes(b)' = Passes(b) /\ (Remembers(b) => Remembers(b)')
      BY <3>2 DEF Passes, PassesIn, KeysOf, Remembers
    <3> QED
      BY <3>1, <3>3 DEF Young
  <2> QED
    BY <1>6, <1>9, <2>1, <2>2, <2>3, Onlooker
<1> QED
  BY <1>1, <1>2, <1>9, <1>10 DEF PipeInv

LEMMA TickStep ==
  ASSUME PipeInv, Tick
  PROVE  PipeInv'
<1>1. ExactTypes /\ now \in Nat
  BY DEF PipeInv, Typed, OwnTypes
<1>2. /\ E!Tick /\ UNCHANGED sketchVars /\ UNCHANGED toolVars /\ UNCHANGED rateVars /\ UNCHANGED ownVars
  BY DEF Tick, S!Tick, T!Tick, V!Tick, sketchVars, toolVars, rateVars
<1>3. ExactTypes' /\ now' = now + 1 /\ seen' = seen /\ (now' < HashTTL => passed' = passed)
  BY <1>1, <1>2, ExactTick
<1>4. now' \in Nat /\ now <= now'
  BY <1>1, <1>3
<1> QED
  BY <1>2, <1>3, <1>4, Nothing

LEMMA StutterStep ==
  ASSUME PipeInv, UNCHANGED vars
  PROVE  PipeInv'
<1>1. ExactTypes /\ now \in Nat
  BY DEF PipeInv, Typed, OwnTypes
<1>2. /\ UNCHANGED exactVars /\ UNCHANGED sketchVars /\ UNCHANGED toolVars /\ UNCHANGED rateVars
      /\ UNCHANGED ownVars /\ now' = now
  BY DEF vars
<1>3. ExactTypes' /\ seen' = seen /\ passed' = passed
  <2>1. ExactTypes'
    BY <1>1, <1>2, ExactSame
  <2> QED
    BY <1>2, <2>1 DEF exactVars
<1>4. now' \in Nat /\ now <= now'
  BY <1>1, <1>2
<1> QED
  BY <1>2, <1>3, <1>4, Nothing

LEMMA PipeStart == Init => PipeInv
<1> SUFFICES ASSUME Init PROVE PipeInv
  OBVIOUS
<1>1. /\ now = 0 /\ seen = [k \in {} |-> E!NewEntry(0)] /\ passed = [k \in Agents \X Fps |-> {}]
      /\ sketches = [a \in {} |-> S!FreshState] /\ recent = [a \in Agents |-> <<>>]
      /\ tools = [a \in {} |-> T!FreshState]
      /\ rates = [a \in {} |-> V!FreshState] /\ obs = [a \in Agents |-> <<>>]
  BY DEF Init, E!Init, S!Init, T!Init, V!Init, E!Keys
<1>2. /\ pc = [r \in Requests |-> "idle"] /\ req = [r \in Requests |-> NoRequest]
      /\ reset = Idle(NoRequest.agent) /\ checks = 0 /\ resets = [a \in Agents |-> 0]
      /\ fresh = [a \in Agents |-> TRUE] /\ crossing = [a \in Agents |-> 0]
  BY DEF Init
<1>3. /\ DOMAIN seen = {} /\ DOMAIN sketches = {} /\ DOMAIN tools = {} /\ DOMAIN rates = {}
  BY <1>1
<1>4. \A a \in Agents, s \in {"structural", "tools", "velocity"} : At(a, s) = {}
  BY <1>2 DEF At
<1>5. IsFiniteSet({}) /\ Cardinality({}) = 0
  BY FS_EmptySet
<1>6. OwnTypes
  BY <1>1, <1>2 DEF OwnTypes, Stages, Idle
<1>7. \A a \in Agents : Sightings(a) = {} /\ Passes(a) = {} /\ Remembers(a)
  <2>1. \A a \in Agents : Sightings(a) = {}
    BY <1>3 DEF Sightings
  <2>2. \A a \in Agents : \A k \in KeysOf(a) : passed[k] = {}
    BY <1>1, KeysAreApart
  <2>3. \A a \in Agents : Passes(a) = {}
    BY <2>2 DEF Passes, PassesIn
  <2> QED
    BY <1>3, <2>1, <2>2, <2>3 DEF Remembers
<1>8. ExactTypes
  BY <1>1, <1>3, <1>5, <1>7 DEF ExactTypes
<1>9. SketchTypes /\ ToolTypes /\ RateTypes
  BY <1>1, <1>3 DEF SketchTypes, ToolTypes, RateTypes
<1>10. FlightTypes
  BY <1>4, <1>5 DEF FlightTypes
<1>11. ASSUME NEW a \in Agents PROVE LeftInv(a) /\ FunnelInv(a)
  <2>1. /\ SeenLen(a) = 0 /\ SketchLen(a) = 0 /\ NameLen(a) = 0 /\ EventLen(a) = 0 /\ ShortLen(a) = 0
    BY <1>3, <1>5, <1>7 DEF SeenLen, SketchLen, NameLen, EventLen, ShortLen
  <2>2. Waiting(a, "structural") = 0 /\ Waiting(a, "tools") = 0 /\ Waiting(a, "velocity") = 0
    BY <1>4, <1>5 DEF Waiting
  <2>3. Flying(a) = 0 /\ Coming(a) = 0
    BY <2>2 DEF Flying, Coming
  <2>4. ObsLen(a) = 0 /\ TurnLen(a) = 0
    BY <1>1 DEF ObsLen, TurnLen
  <2>5. Refusals(a) = 0
    <3>1. recent[a] = <<>>
      BY <1>1
    <3>2. Refused(recent[a]) = {}
      BY <3>1 DEF Refused
    <3> QED
      BY <1>5, <3>2 DEF Refusals
  <2>6. crossing[a] = 0
    BY <1>2
  <2>7. NamesFit(a)
    <3>1. \A n : Greatest(n) => n \in Nat
      BY CallsArePos
    <3>2. \A n \in Nat : (0 - 0) * n = 0
      BY SMTT(30)
    <3> QED
      BY <2>1, <2>3, <2>6, <3>1, <3>2 DEF NamesFit
  <2>8. LeftInv(a)
    BY <2>1, <2>2, <2>3, <2>6, <2>7 DEF LeftInv, LeftExact, LeftSketches, LeftNames, LeftRings
  <2>9. FunnelInv(a)
    BY <1>5, <1>7, <2>2, <2>3, <2>4, <2>5 DEF FunnelInv
  <2> QED
    BY <2>8, <2>9
<1>12. Cardinality(DOMAIN seen) \in Nat /\ Cardinality(DOMAIN seen) <= checks
  BY <1>2, <1>3, <1>5
<1> QED
  BY <1>6, <1>8, <1>9, <1>10, <1>11, <1>12 DEF PipeInv, Typed

LEMMA PipeSteps == PipeInv /\ [Next]_vars => PipeInv'
<1> SUFFICES ASSUME PipeInv, [Next]_vars PROVE PipeInv'
  OBVIOUS
<1>1. CASE \E a \in Agents, fp \in Fps : Check(a, fp)
  BY <1>1, CheckStep
<1>2. CASE \E r \in Requests, a \in Agents, body \in Bodies : ExactStage(r, a, body)
  BY <1>2, ExactStep
<1>3. CASE \E r \in Requests : StructuralStage(r) \/ ToolStage(r) \/ VelocityStage(r)
  BY <1>3, StructuralStep, ToolStep, VelocityStep
<1>4. CASE \E a \in Agents : ResetExact(a)
  BY <1>4, ResetExactStep
<1>5. CASE ResetStructural \/ ResetTools \/ ResetVelocity
  BY <1>5, ResetStructuralStep, ResetToolsStep, ResetVelocityStep
<1>6. CASE Tick
  BY <1>6, TickStep
<1>7. CASE UNCHANGED vars
  BY <1>7, StutterStep
<1> QED
  BY <1>1, <1>2, <1>3, <1>4, <1>5, <1>6, <1>7 DEF Next

LEMMA PipeHolds == Spec => []PipeInv
BY PipeStart, PipeSteps, PTL DEF Spec

-----------------------------------------------------------------------------
(* A Reset leaves of an agent at most one observation of every stage for    *)
(* each request that was in flight while it ran (Pipeline.Reset fans out    *)
(* without a lock of its own).                                              *)
THEOREM ResetLeavesInFlight == Spec => []LeftoverIsInFlight
<1>1. PipeInv => LeftoverIsInFlight
  <2> SUFFICES ASSUME PipeInv, NEW a \in Agents, fresh[a]
               PROVE  /\ Cardinality(Sightings(a)) <= crossing[a]
                      /\ a \in DOMAIN sketches => Len(sketches[a].sigs) <= crossing[a]
                      /\ a \in DOMAIN tools =>
                           \A n \in Calls : (\A m \in Calls : m <= n) => Len(tools[a].seq) <= crossing[a] * n
                      /\ a \in DOMAIN rates => /\ Len(rates[a].events) <= crossing[a]
                                               /\ Len(rates[a].short) <= crossing[a]
    BY DEF LeftoverIsInFlight
  <2>1. Counts(a) /\ LeftInv(a) /\ crossing[a] \in Nat
    BY CountsAreNat DEF PipeInv, Typed, OwnTypes
  <2>2. Begun(a) /\ Unsketched(a) /\ Uncalled(a)
    BY DEF Begun, Unsketched, Uncalled
  <2>3. Flying(a) \in Nat /\ Coming(a) \in Nat
    BY <2>1 DEF Flying, Coming, Counts
  <2>4. /\ SeenLen(a) <= crossing[a] /\ SketchLen(a) + Waiting(a, "structural") <= crossing[a]
        /\ EventLen(a) + Flying(a) <= crossing[a] /\ ShortLen(a) + Flying(a) <= crossing[a] /\ NamesFit(a)
    BY <2>1, <2>2 DEF LeftInv, LeftExact, LeftSketches, LeftNames, LeftRings
  <2>5. SketchLen(a) <= crossing[a] /\ EventLen(a) <= crossing[a] /\ ShortLen(a) <= crossing[a]
    BY <2>1, <2>3, <2>4 DEF Counts
  <2>6. ASSUME NEW n \in Calls, \A m \in Calls : m <= n PROVE NameLen(a) <= crossing[a] * n
    <3> DEFINE y == crossing[a] - Coming(a)
               z == crossing[a]
    <3>1. Greatest(n)
      BY <2>6 DEF Greatest
    <3>2. n \in Nat /\ NameLen(a) \in Nat
      BY <2>1, <3>1, CallsArePos DEF Counts
    <3>3. y \in Int /\ z \in Int /\ y <= z
      BY <2>1, <2>3
    <3>4. NameLen(a) <= y * n
      BY <2>4, <3>1 DEF NamesFit
    <3> HIDE DEF y, z
    <3>5. NameLen(a) <= z * n
      BY <3>2, <3>3, <3>4, MoreTimes
    <3> QED
      BY <3>5 DEF z
  <2>7. a \in DOMAIN sketches => Len(sketches[a].sigs) <= crossing[a]
    BY <2>5 DEF SketchLen
  <2>8. a \in DOMAIN tools =>
          \A n \in Calls : (\A m \in Calls : m <= n) => Len(tools[a].seq) <= crossing[a] * n
    BY <2>6 DEF NameLen
  <2>9. a \in DOMAIN rates => Len(rates[a].events) <= crossing[a] /\ Len(rates[a].short) <= crossing[a]
    BY <2>5 DEF EventLen, ShortLen
  <2> QED
    BY <2>4, <2>7, <2>8, <2>9 DEF SeenLen
<1> QED
  BY <1>1, PipeHolds, PTL

(* No stage charges an agent for a request that an earlier one has refused, *)
(* however the requests overtake each other between the stages.             *)
THEOREM FunnelIsNarrow == Spec => []FunnelNarrows
<1>1. PipeInv => FunnelNarrows
  <2> SUFFICES ASSUME PipeInv, NEW a \in Agents, resets[a] = 0, now < HashTTL, checks <= MaxEntries
               PROVE  LET refused == {i \in DOMAIN recent[a] : ~recent[a][i].pass}
                          exact   == UNION {{<<k, p>> : p \in passed[k]} : k \in {a} \X Fps}
                      IN  /\ Len(obs[a]) + Cardinality(refused) + Cardinality(InFlight(a)) <= Cardinality(exact)
                          /\ Len(recent[a]) + Cardinality({r \in InFlight(a) : pc[r] = "structural"})
                               <= Cardinality(exact)
    BY DEF FunnelNarrows
  <2>1. /\ ObsLen(a) + Refusals(a) + Flying(a) <= Cardinality(Passes(a))
        /\ TurnLen(a) + Waiting(a, "structural") <= Cardinality(Passes(a))
    BY DEF PipeInv, FunnelInv, Young
  <2>2. Cardinality(InFlight(a)) = Flying(a)
    BY FlightIsSum DEF PipeInv, Typed
  <2>3. {r \in InFlight(a) : pc[r] = "structural"} = At(a, "structural")
    BY DEF InFlight, At
  <2>4. Refused(recent[a]) = {i \in DOMAIN recent[a] : ~recent[a][i].pass}
    BY DEF Refused
  <2>5. Passes(a) = UNION {{<<k, p>> : p \in passed[k]} : k \in {a} \X Fps}
    BY DEF Passes, PassesIn, KeysOf
  <2> QED
    BY <2>1, <2>2, <2>3, <2>4, <2>5 DEF Refusals, ObsLen, TurnLen, Waiting
<1> QED
  BY <1>1, PipeHolds, PTL
=============================================================================
