-------------------------- MODULE DetectorsProofs ---------------------------
(***************************************************************************)
(* Proofs about the parts of Detectors, for every value of their constants *)
(* that PartsAssumption allows.                                            *)
(*                                                                         *)
(* Structural (S).  SketchInv ties the window of sketches to the history:  *)
(* it is the sketches of the last Window requests, and the quota holds for *)
(* the last Window + 1.  Bodies of one turn have one sketch, so those in   *)
(* the span are at most the matches that CheckPayload counts.              *)
(*                                                                         *)
(* Velocity (V).  RateInv: the incident flag of an agent is the time of    *)
(* its last report, or it was cleared, a ShortWindow or more after it.     *)
(* TokenInv: the rings are tails of what was observed (Known), and their   *)
(* sums, functions by recursion on the length, split where a ring is cut.  *)
(*                                                                         *)
(* Tools (T).  ToolInv: the names kept are the end of the history, and a   *)
(* confirmed period repeats since two periods before it was confirmed.     *)
(*                                                                         *)
(* Gauge (W).  GaugeInv: a bucket that the ring still reaches holds what   *)
(* was recorded for its second, and no caller is later than the ring.      *)
(*                                                                         *)
(* Metrics (M).  MeterInv: requests counted and samples not yet counted    *)
(* differ by the requests in between (WorkInv), the ring is the end of the *)
(* triggers (RingInv), and what a poll has loaded is not ahead of what it  *)
(* has still to load (PollInv).                                            *)
(***************************************************************************)
EXTENDS Detectors, FiniteSetTheorems, WellFoundedInduction, TLAPS

-----------------------------------------------------------------------------
(* The instance of FiniteSets inside the structural detector is this one.   *)
LEMMA OneCardinality == \A s : S!Cardinality(s) = Cardinality(s)
BY DEF S!Cardinality, Cardinality, S!IsFiniteSet, IsFiniteSet

-----------------------------------------------------------------------------
(* The structural detector.  SameTurn is an equivalence as far as needed,   *)
(* and bodies of the same turn have the same sketch.                        *)
Sig(body) == S!Sketch(S!NormalizePayload(body))

LEMMA TurnIsSymmetric ==
  ASSUME NEW b, NEW c, S!SameTurn(b, c)
  PROVE  S!SameTurn(c, b)
BY DEF S!SameTurn, S!Static

LEMMA TurnIsTransitive ==
  ASSUME NEW b, NEW c, NEW d, S!SameTurn(b, c), S!SameTurn(c, d)
  PROVE  S!SameTurn(b, d)
BY DEF S!SameTurn, S!Static

LEMMA TurnHasOneSketch ==
  ASSUME NEW b, NEW c, S!SameTurn(b, c)
  PROVE  Sig(b) = Sig(c)
<1>1. Len(S!Solid(b)) = Len(S!Solid(c))
  BY DEF S!SameTurn
<1>2. ASSUME NEW i \in 1..Len(S!Solid(b))
      PROVE  S!Placeholder(S!Solid(b)[i]) = S!Placeholder(S!Solid(c)[i])
  <2> DEFINE x == S!Solid(b)[i]
             y == S!Solid(c)[i]
  <2>1. x.kind = y.kind /\ (S!Static(x) => x.value = y.value)
    BY DEF S!SameTurn
  <2> HIDE DEF x, y
  <2>2. S!Placeholder(x) = S!Placeholder(y)
    BY <2>1 DEF S!Placeholder, S!Static
  <2> QED
    BY <2>2 DEF x, y
<1>3. S!NormalizePayload(b) = S!NormalizePayload(c)
  BY <1>1, <1>2 DEF S!NormalizePayload
<1> QED
  BY <1>3 DEF Sig

(* The last Window + 1 requests of a history of n, and those among them     *)
(* that passed and are of the same turn as body b.                          *)
Span(n) == IF n > SketchWindow THEN (n - SketchWindow)..n ELSE 1..n

Turns(h, b) == {j \in Span(Len(h)) : h[j].pass /\ S!SameTurn(b, h[j].body)}

Quota(h) == \A i \in Span(Len(h)) : Cardinality(Turns(h, h[i].body)) <= SketchLimit

Turn == [body : SketchBodies, pass : BOOLEAN]

(* The requests of history h, of the Window before the next one, with the   *)
(* sketch of b.                                                             *)
Alike(h, b) ==
  {j \in 1..Len(h) : j > Len(h) - SketchWindow /\ Sig(h[j].body) = Sig(b)}

(* The quota is kept by a request that is let through only if fewer than    *)
(* Limit of the Window before it look the same.                             *)
LEMMA QuotaIsKept ==
  ASSUME NEW h \in Seq(Turn), Quota(h), NEW x \in Turn,
         x.pass => Cardinality(Alike(h, x.body)) < SketchLimit
  PROVE  Quota(Append(h, x))
<1>0. SketchWindow \in Nat \ {0} /\ SketchLimit \in Nat \ {0}
  BY PartsAssumption DEF S!StructuralConstants
<1> DEFINE n == Len(h)
           g == Append(h, x)
<1>1. /\ n \in Nat /\ Len(g) = n + 1 /\ g[n + 1] = x
      /\ \A j \in 1..n : g[j] = h[j] /\ h[j] \in Turn
  OBVIOUS
<1> HIDE DEF n, g
<1>2. /\ \A j \in Span(n + 1) : j \in Int /\ (j = n + 1 \/ j \in Span(n))
      /\ \A j \in Span(n + 1) \ {n + 1} : j \in 1..n /\ j > n - SketchWindow
  BY <1>0, <1>1 DEF Span
<1>3. IsFiniteSet(Span(n)) /\ IsFiniteSet(Span(n + 1)) /\ IsFiniteSet(1..n)
  <2>1. n - SketchWindow \in Int /\ (n + 1) - SketchWindow \in Int /\ n + 1 \in Int /\ n \in Int
    BY <1>0, <1>1
  <2>2. IsFiniteSet(1..n) /\ IsFiniteSet(1..(n + 1))
    BY <2>1, FS_Interval
  <2>3. Span(n) \subseteq 1..n /\ Span(n + 1) \subseteq 1..(n + 1)
    BY <1>0, <1>1 DEF Span
  <2> QED
    BY <2>2, <2>3, FS_Subset
<1> SUFFICES ASSUME NEW i \in Span(n + 1)
             PROVE  Cardinality(Turns(g, g[i].body)) <= SketchLimit
  BY <1>1 DEF Quota, g
<1> DEFINE b == g[i].body
           A == Turns(g, b)
<1>4. A \subseteq Span(n + 1) /\ IsFiniteSet(A)
  BY <1>1, <1>3, FS_Subset DEF Turns
<1>5. \A j \in A : S!SameTurn(b, g[j].body) /\ g[j].pass
  BY DEF Turns
<1>6. CASE n + 1 \in A
  <2>1. x.pass /\ S!SameTurn(b, x.body)
    BY <1>1, <1>5, <1>6
  <2>2. A \ {n + 1} \subseteq Alike(h, x.body)
    <3> SUFFICES ASSUME NEW j \in A, j # n + 1 PROVE j \in Alike(h, x.body)
      OBVIOUS
    <3>1. j \in 1..n /\ j > n - SketchWindow /\ g[j] = h[j]
      BY <1>1, <1>2, <1>4
    <3>2. Sig(b) = Sig(h[j].body) /\ Sig(b) = Sig(x.body)
      BY <1>5, <2>1, <3>1, TurnHasOneSketch
    <3> QED
      BY <3>1, <3>2 DEF Alike, n
  <2>3. IsFiniteSet(Alike(h, x.body))
    BY <1>3, FS_Subset DEF Alike, n
  <2>4. Cardinality(A \ {n + 1}) = Cardinality(A) - 1 /\ Cardinality(A) \in Nat
    BY <1>4, <1>6, FS_RemoveElement, FS_CardinalityType
  <2>5. Cardinality(A \ {n + 1}) <= Cardinality(Alike(h, x.body))
        /\ Cardinality(Alike(h, x.body)) \in Nat
    BY <2>2, <2>3, FS_Subset, FS_CardinalityType
  <2> HIDE DEF A
  <2>6. Cardinality(A) <= SketchLimit
    BY <1>0, <2>1, <2>4, <2>5
  <2> QED
    BY <2>6 DEF A
<1>7. CASE n + 1 \notin A
  <2>1. CASE A = {}
    BY <1>0, <2>1, FS_EmptySet
  <2>2. ASSUME NEW j \in A PROVE Cardinality(A) <= SketchLimit
    <3>0. \A m \in A : m \in Span(n) /\ m \in 1..n /\ g[m] = h[m]
      BY <1>1, <1>2, <1>4, <1>7
    <3>1. A \subseteq Turns(h, h[j].body)
      <4> SUFFICES ASSUME NEW m \in A PROVE m \in Turns(h, h[j].body)
        OBVIOUS
      <4>1. S!SameTurn(b, h[j].body) /\ S!SameTurn(b, h[m].body) /\ h[m].pass
        BY <1>5, <3>0
      <4>2. S!SameTurn(h[j].body, h[m].body)
        BY <4>1, TurnIsSymmetric, TurnIsTransitive
      <4> QED
        BY <3>0, <4>1, <4>2 DEF Turns, n
    <3>2. IsFiniteSet(Turns(h, h[j].body))
      BY <1>3, FS_Subset DEF Turns, n
    <3>3. Cardinality(Turns(h, h[j].body)) <= SketchLimit
      BY <3>0 DEF Quota, n
    <3>4. Cardinality(A) <= Cardinality(Turns(h, h[j].body)) /\ Cardinality(A) \in Nat
          /\ Cardinality(Turns(h, h[j].body)) \in Nat
      BY <1>4, <3>1, <3>2, FS_Subset, FS_CardinalityType
    <3> QED
      BY <1>0, <3>3, <3>4
  <2> QED
    BY <2>1, <2>2
<1> QED
  BY <1>6, <1>7

(* The window of sketches is the tail of the history. *)
Sketched(sigs, h) ==
  /\ Len(sigs) = IF Len(h) < SketchWindow THEN Len(h) ELSE SketchWindow
  /\ \A i \in 1..Len(sigs) : sigs[i] = Sig(h[Len(h) - Len(sigs) + i].body)

Sigs == {Sig(b) : b \in SketchBodies}

LEMMA WindowCounts ==
  ASSUME NEW h \in Seq(Turn), NEW sigs \in Seq(Sigs), Sketched(sigs, h), NEW b
  PROVE  /\ Cardinality(Alike(h, b)) <= Cardinality(S!Matches(sigs, Sig(b)))
         /\ Cardinality(Alike(h, b)) \in Nat /\ Cardinality(S!Matches(sigs, Sig(b))) \in Nat
<1>0. SketchWindow \in Nat \ {0}
  BY PartsAssumption DEF S!StructuralConstants
<1> DEFINE n == Len(h)
           m == Len(sigs)
           A == Alike(h, b)
           C == S!Matches(sigs, Sig(b))
           f == [j \in A |-> j - (n - m)]
<1>1. n \in Nat /\ m \in Nat /\ m = (IF n < SketchWindow THEN n ELSE SketchWindow)
  BY DEF Sketched
<1> HIDE DEF n, m
<1>2. IsFiniteSet(1..n) /\ IsFiniteSet(1..m)
  BY <1>1, FS_Interval
<1>3. IsFiniteSet(C) /\ IsFiniteSet(A)
  BY <1>2, FS_Subset DEF S!Matches, Alike, n, m
<1>4. \A j \in A : j \in 1..n /\ j > n - SketchWindow /\ Sig(h[j].body) = Sig(b)
  BY DEF Alike, n
<1> HIDE DEF A
<1>5. ASSUME NEW j \in A PROVE j - (n - m) \in C
  <2>1. j - (n - m) \in 1..m /\ n - m + (j - (n - m)) = j
    BY <1>0, <1>1, <1>4
  <2>2. sigs[j - (n - m)] = Sig(h[j].body)
    BY <2>1 DEF Sketched, n, m
  <2> QED
    BY <1>4, <2>1, <2>2 DEF S!Matches, S!Similar, m
<1> HIDE DEF C
<1>6. f \in Injection(A, C)
  <2>1. f \in [A -> C]
    BY <1>5
  <2>2. ASSUME NEW i \in A, NEW j \in A, f[i] = f[j] PROVE i = j
    <3>1. i \in Int /\ j \in Int /\ i - (n - m) = j - (n - m) /\ n - m \in Int
      BY <1>1, <1>4, <2>2
    <3> QED
      BY <3>1
  <2> QED
    BY <2>1, <2>2 DEF Injection, IsInjective
<1> HIDE DEF f
<1>7. Cardinality(A) <= Cardinality(C) /\ Cardinality(A) \in Nat /\ Cardinality(C) \in Nat
  BY <1>3, <1>6, FS_Injection, FS_CardinalityType
<1> QED
  BY <1>7 DEF A, C

LEMMA WindowMoves ==
  ASSUME NEW h \in Seq(Turn), NEW sigs \in Seq(Sigs), Sketched(sigs, h), NEW x \in Turn
  PROVE  /\ S!AppendWindow(sigs, Sig(x.body)) \in Seq(Sigs)
         /\ Sketched(S!AppendWindow(sigs, Sig(x.body)), Append(h, x))
<1>0. SketchWindow \in Nat \ {0}
  BY PartsAssumption DEF S!StructuralConstants
<1> DEFINE n == Len(h)
           m == Len(sigs)
           g == Append(h, x)
           s == Sig(x.body)
           all == Append(sigs, s)
<1>1. n \in Nat /\ m \in Nat /\ m = (IF n < SketchWindow THEN n ELSE SketchWindow)
  BY DEF Sketched
<1>2. /\ Len(g) = n + 1 /\ g[n + 1] = x /\ \A j \in 1..n : g[j] = h[j]
      /\ g \in Seq(Turn)
  OBVIOUS
<1>3. s \in Sigs
  BY DEF Sigs, Turn
<1> HIDE DEF s
<1>4. /\ all \in Seq(Sigs) /\ Len(all) = m + 1 /\ all[m + 1] = s
      /\ \A j \in 1..m : all[j] = sigs[j]
  BY <1>3
<1>5. \A i \in 1..m : sigs[i] = Sig(h[n - m + i].body) /\ n - m + i \in 1..n
  BY <1>1 DEF Sketched
<1> HIDE DEF n, m, g, all
<1>6. \A i \in 1..(m + 1) : all[i] = Sig(g[n - m + i].body)
  <2> SUFFICES ASSUME NEW i \in 1..(m + 1) PROVE all[i] = Sig(g[n - m + i].body)
    OBVIOUS
  <2>1. CASE i = m + 1
    <3>1. n - m + i = n + 1
      BY <1>1, <2>1
    <3> QED
      BY <1>2, <1>4, <2>1, <3>1 DEF s
  <2>2. CASE i \in 1..m
    BY <1>2, <1>4, <1>5, <2>2
  <2> QED
    BY <1>1, <2>1, <2>2
<1>7. CASE m + 1 <= SketchWindow
  <2>1. S!AppendWindow(sigs, s) = all
    BY <1>4, <1>7 DEF S!AppendWindow, all
  <2>2. (n + 1) - (m + 1) = n - m /\ m + 1 = IF n + 1 < SketchWindow THEN n + 1 ELSE SketchWindow
    BY <1>0, <1>1, <1>7
  <2> QED
    BY <1>2, <1>4, <1>6, <2>1, <2>2 DEF Sketched, g, s
<1>8. CASE ~(m + 1 <= SketchWindow)
  <2>0. m = SketchWindow
    BY <1>0, <1>1, <1>8
  <2> DEFINE w == SubSeq(all, 2, m + 1)
  <2>1. S!AppendWindow(sigs, s) = w
    <3>1. (m + 1) - SketchWindow + 1 = 2
      BY <1>1, <2>0
    <3> QED
      BY <1>4, <1>8, <3>1 DEF S!AppendWindow, all
  <2>2. Len(w) = m /\ \A i \in 1..m : w[i] = all[i + 1]
    BY <1>1, <1>4
  <2>3. w \in Seq(Sigs)
    BY <1>1, <1>4
  <2> HIDE DEF w
  <2>4. ASSUME NEW i \in 1..m PROVE w[i] = Sig(g[(n + 1) - m + i].body)
    <3>1. i + 1 \in 1..(m + 1) /\ n - m + (i + 1) = (n + 1) - m + i
      BY <1>1
    <3> QED
      BY <1>6, <2>2, <3>1
  <2>5. m = IF n + 1 < SketchWindow THEN n + 1 ELSE SketchWindow
    BY <1>0, <1>1, <2>0
  <2> QED
    BY <1>2, <2>1, <2>2, <2>3, <2>4, <2>5 DEF Sketched, g, s
<1> QED
  BY <1>7, <1>8

(* What the detector knows of an agent, against what the agent did. *)
Tracked(st, h) ==
  /\ st.sigs \in Seq(Sigs) /\ Sketched(st.sigs, h) /\ Quota(h)
  /\ st.blockedAt \in Int
  /\ st.blockedAt = S!ZeroTime <=> \A i \in 1..Len(h) : h[i].pass

SketchInv ==
  /\ clock \in Nat
  /\ recent \in [Others -> Seq(Turn)]
  /\ DOMAIN sketches \subseteq Others
  /\ \A a \in DOMAIN sketches : Tracked(sketches[a], recent[a])
  /\ S!FirstBlockIsFirst

LEMMA NothingIsTracked == Tracked(S!FreshState, <<>>)
<1>1. SketchWindow \in Nat \ {0}
  BY PartsAssumption DEF S!StructuralConstants
<1>2. S!FreshState.sigs = <<>> /\ S!FreshState.blockedAt = S!ZeroTime /\ S!ZeroTime \in Int
  BY DEF S!FreshState, S!ZeroTime
<1>3. Sketched(<<>>, <<>>) /\ Quota(<<>>)
  BY <1>1 DEF Sketched, Quota, Span
<1> QED
  BY <1>2, <1>3 DEF Tracked

(* One check moves the history and the state of its agent together. *)
LEMMA CheckTracks ==
  ASSUME NEW h \in Seq(Turn), NEW st, Tracked(st, h), NEW body \in SketchBodies, clock \in Nat,
         NEW block \in BOOLEAN, NEW first \in BOOLEAN, NEW new,
         block <=> Cardinality(S!Matches(st.sigs, Sig(body))) >= SketchLimit,
         first <=> block /\ st.blockedAt = S!ZeroTime,
         new.sigs = S!AppendWindow(st.sigs, Sig(body)),
         new.blockedAt = IF first THEN clock ELSE st.blockedAt
  PROVE  /\ Append(h, [body |-> body, pass |-> ~block]) \in Seq(Turn)
         /\ Tracked(new, Append(h, [body |-> body, pass |-> ~block]))
         /\ first <=> block /\ \A i \in 1..Len(h) : h[i].pass
<1> DEFINE x == [body |-> body, pass |-> ~block]
           g == Append(h, x)
<1>0. SketchLimit \in Nat \ {0} /\ S!ZeroTime = -1
  BY PartsAssumption DEF S!StructuralConstants, S!ZeroTime
<1>1. x \in Turn /\ x.body = body /\ x.pass = ~block
  BY DEF Turn
<1> HIDE DEF x
<1>2. /\ g \in Seq(Turn) /\ Len(g) = Len(h) + 1 /\ g[Len(h) + 1] = x /\ Len(h) \in Nat
      /\ \A i \in 1..Len(h) : g[i] = h[i]
  BY <1>1
<1>3. first <=> block /\ \A i \in 1..Len(h) : h[i].pass
  BY DEF Tracked
<1>4. new.sigs \in Seq(Sigs) /\ Sketched(new.sigs, g)
  BY <1>1, WindowMoves DEF Tracked
<1>5. Quota(g)
  <2>1. x.pass => Cardinality(Alike(h, body)) < SketchLimit
    <3> SUFFICES ASSUME x.pass PROVE Cardinality(Alike(h, body)) < SketchLimit
      OBVIOUS
    <3>1. ~(Cardinality(S!Matches(st.sigs, Sig(body))) >= SketchLimit)
      BY <1>1
    <3> QED
      BY <1>0, <3>1, WindowCounts DEF Tracked
  <2> QED
    BY <1>1, <2>1, QuotaIsKept DEF Tracked
<1>6. new.blockedAt \in Int
  BY DEF Tracked
<1>7. new.blockedAt = S!ZeroTime <=> \A i \in 1..Len(g) : g[i].pass
  <2> HIDE DEF g
  <2>1. (\A i \in 1..Len(g) : g[i].pass) <=> (\A i \in 1..Len(h) : h[i].pass) /\ ~block
    <3>1. \A i : i \in 1..Len(g) <=> i \in 1..Len(h) \/ i = Len(h) + 1
      BY <1>2
    <3>2. g[Len(h) + 1].pass <=> ~block
      BY <1>1, <1>2
    <3> QED
      BY <1>2, <3>1, <3>2, Zenon
  <2>2. clock # S!ZeroTime
    BY <1>0
  <2>3. CASE first
    BY <1>3, <2>1, <2>2, <2>3
  <2>4. CASE ~first
    BY <1>3, <2>1, <2>4 DEF Tracked
  <2> QED
    BY <2>3, <2>4
<1> QED
  BY <1>2, <1>3, <1>4, <1>5, <1>6, <1>7 DEF Tracked, x

LEMMA StepSketch == SketchInv /\ [S!Next]_(S!vars) => SketchInv'
<1> SUFFICES ASSUME SketchInv, [S!Next]_(S!vars) PROVE SketchInv'
  OBVIOUS
<1> USE DEF SketchInv
<1>1. CASE UNCHANGED S!vars
  BY <1>1 DEF S!vars, S!FirstBlockIsFirst
<1>2. CASE S!Tick
  BY <1>2 DEF S!Tick, S!FirstBlockIsFirst
<1>3. ASSUME NEW a \in Others, S!Reset(a) PROVE SketchInv'
  <2>1. /\ sketches' = [b \in DOMAIN sketches \ {a} |-> sketches[b]]
        /\ recent' = [recent EXCEPT ![a] = <<>>] /\ UNCHANGED <<clock, sketchVerdict>>
    BY <1>3 DEF S!Reset
  <2>2. recent' \in [Others -> Seq(Turn)] /\ DOMAIN sketches' \subseteq Others
    BY <2>1
  <2>3. \A b \in DOMAIN sketches' : sketches'[b] = sketches[b] /\ recent'[b] = recent[b]
                                    /\ b \in DOMAIN sketches
    BY <2>1
  <2> QED
    BY <2>1, <2>2, <2>3 DEF S!FirstBlockIsFirst
<1>4. ASSUME NEW a \in Others, NEW body \in SketchBodies, S!CheckDegenerate(a, body)
      PROVE  SketchInv'
  BY <1>4 DEF S!CheckDegenerate, S!FirstBlockIsFirst
<1>5. ASSUME NEW a \in Others, NEW body \in SketchBodies, S!CheckStructure(a, body)
      PROVE  SketchInv'
  <2> DEFINE h == IF S!Open(a) THEN recent[a] ELSE <<>>
             st == S!WindowOf(a)
             block == S!Cardinality(S!Matches(st.sigs, Sig(body))) >= SketchLimit
             first == block /\ st.blockedAt = S!ZeroTime
             new == [sigs |-> S!AppendWindow(st.sigs, Sig(body)), expires |-> st.expires,
                     blockedAt |-> IF first THEN clock ELSE st.blockedAt]
             x == [body |-> body, pass |-> ~block]
  <2>0. S!Sketch(S!NormalizePayload(body)) = Sig(body)
    BY DEF Sig
  <2>1. PICK gone :
          /\ sketches' = [b \in (DOMAIN sketches \ gone) \cup {a} |->
                            IF b # a THEN sketches[b] ELSE new]
          /\ recent' = [b \in Others |-> IF b = a THEN Append(h, x)
                                         ELSE IF b \in gone THEN <<>> ELSE recent[b]]
    BY <1>5, Zenon DEF S!CheckStructure, Sig
  <2>2. /\ sketchVerdict' = [agent |-> a, block |-> block, first |-> first,
                             retryAfter |-> IF block THEN S!CeilSeconds(st.expires - clock) ELSE 0]
        /\ clock' = clock
    BY <1>5, Zenon DEF S!CheckStructure, Sig
  <2>2a. /\ sketchVerdict'.agent = a /\ sketchVerdict'.block = block
         /\ sketchVerdict'.first = first
    BY <2>2
  <2>3. h \in Seq(Turn) /\ Tracked(st, h)
    <3>1. CASE S!Open(a)
      BY <3>1 DEF S!Open, S!WindowOf
    <3>2. CASE ~S!Open(a)
      BY <3>2, NothingIsTracked DEF S!WindowOf
    <3> QED
      BY <3>1, <3>2
  <2>4. /\ new.sigs = S!AppendWindow(st.sigs, Sig(body))
        /\ new.blockedAt = IF first THEN clock ELSE st.blockedAt
    OBVIOUS
  <2>5. block \in BOOLEAN /\ first \in BOOLEAN
    OBVIOUS
  <2> HIDE DEF new, h, st
  <2>6. /\ Append(h, x) \in Seq(Turn) /\ Tracked(new, Append(h, x))
        /\ first <=> block /\ \A i \in 1..Len(h) : h[i].pass
    <3> HIDE DEF block, first
    <3>1. block <=> Cardinality(S!Matches(st.sigs, Sig(body))) >= SketchLimit
      BY OneCardinality DEF block
    <3>2. first <=> block /\ st.blockedAt = S!ZeroTime
      BY DEF first
    <3> QED
      BY <2>3, <2>4, <2>5, <3>1, <3>2, CheckTracks
  <2> HIDE DEF block, first
  <2>7. /\ Len(Append(h, x)) = Len(h) + 1 /\ Len(h) \in Nat
        /\ \A i \in 1..Len(h) : Append(h, x)[i] = h[i]
    BY <2>3
  <2> DEFINE g == Append(h, x)
  <2> HIDE DEF g
  <2>8. /\ recent' \in [Others -> Seq(Turn)] /\ DOMAIN sketches' \subseteq Others
        /\ sketches'[a] = new /\ recent'[a] = g
        /\ \A b \in DOMAIN sketches' \ {a} : /\ b \in DOMAIN sketches
                                             /\ sketches'[b] = sketches[b] /\ recent'[b] = recent[b]
    BY <2>1, <2>6 DEF g
  <2>9. \A b \in DOMAIN sketches' : Tracked(sketches'[b], recent'[b])
    BY <2>6, <2>8 DEF g
  <2>10. S!FirstBlockIsFirst'
    <3> SUFFICES ASSUME NEW b \in DOMAIN sketches', sketchVerdict'.agent = b, sketchVerdict'.block
                 PROVE  sketchVerdict'.first <=> \A i \in 1..(Len(recent'[b]) - 1) : recent'[b][i].pass
      BY DEF S!FirstBlockIsFirst
    <3>1. b = a /\ block /\ (sketchVerdict'.first <=> first)
      BY <2>2
    <3>2. Len(g) - 1 = Len(h)
      BY <2>7 DEF g
    <3>3. recent'[b] = g /\ \A i \in 1..Len(h) : g[i] = h[i]
      BY <2>7, <2>8, <3>1 DEF g
    <3>4. first <=> \A i \in 1..Len(h) : h[i].pass
      BY <2>6, <3>1
    <3>5. (\A i \in 1..Len(h) : h[i].pass) <=> \A i \in 1..Len(h) : g[i].pass
      BY <3>3
    <3>6. sketchVerdict'.first <=> \A i \in 1..(Len(g) - 1) : g[i].pass
      BY <3>1, <3>2, <3>4, <3>5
    <3> QED
      BY <3>3, <3>6
  <2> QED
    BY <2>2, <2>8, <2>9, <2>10
<1> QED
  BY <1>1, <1>2, <1>3, <1>4, <1>5 DEF S!Next, S!CheckPayload

LEMMA InitSketch == S!Init => SketchInv
BY DEF S!Init, SketchInv, S!FirstBlockIsFirst, Turn

LEMMA LoopQuotaFollows == SketchInv => LoopQuota
<1> SUFFICES ASSUME SketchInv, NEW a \in DOMAIN sketches PROVE
       LET n    == Len(recent[a])
           span == IF n > SketchWindow THEN (n - SketchWindow)..n ELSE 1..n
       IN  \A i \in span :
             S!Cardinality({j \in span : recent[a][j].pass
                              /\ S!SameTurn(recent[a][i].body, recent[a][j].body)}) <= SketchLimit
  BY DEF LoopQuota, S!LoopQuota
<1>1. Quota(recent[a])
  BY DEF SketchInv, Tracked
<1> QED
  BY <1>1, OneCardinality DEF Quota, Turns, Span

(* For any window, limit, TTL and memory, any bodies and any notion of      *)
(* similarity: a loop that only changes dynamic fields and white space      *)
(* passes at most Limit times in any Window + 1 consecutive requests of a   *)
(* window, whatever is mixed in between.                                    *)
THEOREM LoopsAreStopped == S!Spec => []LoopQuota
BY LoopQuotaFollows, InitSketch, StepSketch, PTL DEF S!Spec

-----------------------------------------------------------------------------
(* The velocity detector.  An incident that is not flagged any more was     *)
(* reported at least a ShortWindow ago.                                     *)
Flagged(at, reported) ==
  /\ at \in {V!ZeroTime, reported}
  /\ at = V!ZeroTime /\ reported # V!ZeroTime => clock - reported >= ShortWindow

RateInv ==
  /\ clock \in Nat
  /\ DOMAIN rates \subseteq Others
  /\ alert \in [Others -> Int]
  /\ \A a \in Others : alert[a] # V!ZeroTime => a \in DOMAIN rates /\ alert[a] \in 0..clock
  /\ \A a \in DOMAIN rates : Flagged(rates[a].blockedAt, alert[a])

LEMMA AppendKeepsFlag ==
  ASSUME NEW st, NEW n, NEW flag
  PROVE  /\ V!Appended(st, n).blockedAt = st.blockedAt
         /\ [V!Appended(st, n) EXCEPT !.blockedAt = flag].blockedAt = flag
BY DEF V!Appended

(* What a check does to the flags and to the reports. *)
LEMMA CheckFlags ==
  ASSUME RateInv, NEW a \in Others, NEW n \in TokenCounts, V!CheckVelocity(a, n)
  PROVE  /\ RateInv'
         /\ \A b \in Others : alert[b] # V!ZeroTime /\ alert'[b] \notin {alert[b], V!ZeroTime}
                               => alert'[b] - alert[b] >= ShortWindow
<1> USE DEF RateInv
<1>0. ShortWindow \in Nat \ {0} /\ V!ZeroTime = -1
  BY PartsAssumption DEF V!VelocityConstants, V!ZeroTime
<1> DEFINE old   == IF a \in DOMAIN rates THEN rates[a] ELSE V!FreshState
           st    == V!Appended(old, n)
           block == V!Burst(st) \/ V!Spike(st)
           first == block /\ st.blockedAt = V!ZeroTime
           flag  == IF first THEN clock
                    ELSE IF ~block /\ st.blockedAt # V!ZeroTime /\ V!Subsided(st)
                         THEN V!ZeroTime
                         ELSE st.blockedAt
<1>1. PICK gone \in (IF a \in DOMAIN rates THEN {{}} ELSE V!Evictions) :
        /\ rates' = [b \in (DOMAIN rates \ gone) \cup {a} |->
                       IF b = a THEN [st EXCEPT !.blockedAt = flag] ELSE rates[b]]
        /\ alert' = [b \in Others |-> IF b = a /\ first THEN clock
                                      ELSE IF b \in gone THEN V!ZeroTime ELSE alert[b]]
  BY Zenon DEF V!CheckVelocity
<1>2. clock' = clock
  BY DEF V!CheckVelocity
<1>3. a \notin gone
  BY <1>1 DEF V!Evictions
<1>4. st.blockedAt = old.blockedAt /\ [st EXCEPT !.blockedAt = flag].blockedAt = flag
  BY AppendKeepsFlag
<1>5. Flagged(old.blockedAt, alert[a])
  BY DEF V!FreshState, Flagged
<1>6. V!Subsided(st) <=> clock - old.blockedAt >= ShortWindow
  BY <1>4 DEF V!Subsided
<1> HIDE DEF old, st
<1>7. /\ DOMAIN rates' = (DOMAIN rates \ gone) \cup {a}
      /\ rates'[a].blockedAt = flag
      /\ \A b \in DOMAIN rates' \ {a} : rates'[b] = rates[b]
      /\ alert'[a] = IF first THEN clock ELSE alert[a]
      /\ \A b \in Others \ {a} : alert'[b] = IF b \in gone THEN V!ZeroTime ELSE alert[b]
  BY <1>1, <1>3, <1>4
<1>8. Flagged(flag, alert'[a])
  <2> HIDE DEF block
  <2>1. CASE first
    BY <1>0, <1>7, <2>1 DEF Flagged
  <2>2. CASE ~first
    BY <1>0, <1>4, <1>5, <1>6, <1>7, <2>2 DEF Flagged
  <2> QED
    BY <2>1, <2>2
<1>9. first /\ alert[a] # V!ZeroTime => clock - alert[a] >= ShortWindow
  BY <1>4, <1>5 DEF Flagged
<1> HIDE DEF first, flag
<1>10. alert' \in [Others -> Int] /\ DOMAIN rates' \subseteq Others
  BY <1>0, <1>1, <1>7
<1>11. \A b \in Others : alert'[b] # V!ZeroTime => b \in DOMAIN rates' /\ alert'[b] \in 0..clock
  BY <1>0, <1>7
<1>12. \A b \in DOMAIN rates' : Flagged(rates'[b].blockedAt, alert'[b])
  BY <1>7, <1>8
<1>13. RateInv'
  BY <1>2, <1>10, <1>11, <1>12 DEF Flagged
<1>14. ASSUME NEW b \in Others, alert[b] # V!ZeroTime, alert'[b] \notin {alert[b], V!ZeroTime}
       PROVE  alert'[b] - alert[b] >= ShortWindow
  BY <1>7, <1>9, <1>14
<1> QED
  BY <1>13, <1>14

(* The conclusion of IncidentsAreSpaced for one step. *)
Spaced ==
  \A a \in Others :
    (/\ alert[a] # V!ZeroTime
     /\ alert'[a] \notin {alert[a], V!ZeroTime})
      => alert'[a] - alert[a] >= ShortWindow

LEMMA StepRate == RateInv /\ [V!Next]_(V!vars) => RateInv' /\ Spaced
<1> SUFFICES ASSUME RateInv, [V!Next]_(V!vars) PROVE RateInv' /\ Spaced
  OBVIOUS
<1>0. V!ZeroTime = -1 /\ ShortWindow \in Nat
  BY PartsAssumption DEF V!ZeroTime, V!VelocityConstants
<1>1. CASE UNCHANGED V!vars
  BY <1>1 DEF V!vars, RateInv, Flagged, Spaced
<1>2. CASE V!Tick
  <2>1. clock' = clock + 1 /\ UNCHANGED <<rates, alert>>
    BY <1>2 DEF V!Tick
  <2>2. \A a \in DOMAIN rates : Flagged(rates[a].blockedAt, alert[a])'
    BY <1>0, <2>1 DEF RateInv, Flagged
  <2> QED
    BY <2>1, <2>2 DEF RateInv, Spaced
<1>3. ASSUME NEW a \in Others, V!Reset(a) PROVE RateInv' /\ Spaced
  <2>1. /\ rates' = [b \in DOMAIN rates \ {a} |-> rates[b]]
        /\ alert' = [alert EXCEPT ![a] = V!ZeroTime] /\ clock' = clock
    BY <1>3 DEF V!Reset
  <2>2. alert' \in [Others -> Int]
    BY <1>0, <2>1 DEF RateInv
  <2> QED
    BY <1>0, <2>1, <2>2 DEF RateInv, Flagged, Spaced
<1>4. ASSUME NEW a \in Others, NEW n \in TokenCounts, V!CheckVelocity(a, n)
      PROVE  RateInv' /\ Spaced
  BY <1>4, CheckFlags DEF Spaced
<1> QED
  BY <1>1, <1>2, <1>3, <1>4 DEF V!Next

LEMMA InitRate == V!Init => RateInv
BY DEF V!Init, RateInv, V!ZeroTime

(* For any windows, caps and memory: the structural detector reports the    *)
(* first block of a window and no other, and the velocity detector does not *)
(* report an agent twice within a ShortWindow.                              *)
THEOREM IncidentsAreReportedOnce == S!Spec /\ V!Spec => AlertsAreRare
<1>1. SketchInv => S!FirstBlockIsFirst
  BY DEF SketchInv
<1>2. S!Spec => []S!FirstBlockIsFirst
  BY <1>1, InitSketch, StepSketch, PTL DEF S!Spec
<1>3. V!Spec => [][Spaced]_(V!vars)
  BY InitRate, StepRate, PTL DEF V!Spec
<1> QED
  BY <1>2, <1>3, PTL DEF AlertsAreRare, V!IncidentsAreSpaced, Spaced

-----------------------------------------------------------------------------
(* The tool-cycle detector.  The least-number principle. *)
LEMMA LeastNumber ==
  ASSUME NEW X, X \subseteq Nat, X # {}
  PROVE  \E m \in X : \A n \in X : m <= n
<1>1. PICK m \in X : \A n \in X : ~(<<n, m>> \in OpToRel(<, Nat))
  BY NatLessThanWellFounded, WFMin, Zenon
<1>2. \A n \in X : ~(n < m)
  BY <1>1 DEF OpToRel
<1>3. \A n \in X : n \in Nat /\ m \in Nat
  OBVIOUS
<1> QED
  BY <1>2, <1>3

LEMMA DetectedRepeats ==
  ASSUME NEW s
  PROVE  \/ T!DetectCycle(s) = 0
         \/ T!DetectCycle(s) \in 2..MaxPeriod /\ T!Repeats(s, T!DetectCycle(s))
<1> DEFINE ps == {p \in 2..MaxPeriod : T!Repeats(s, p)}
<1>1. ps \subseteq Nat
  BY PartsAssumption DEF T!ToolConstants
<1>2. CASE ps = {}
  BY <1>2 DEF T!DetectCycle
<1>3. CASE ps # {}
  <2>1. \E m \in ps : \A n \in ps : m <= n
    BY <1>1, <1>3, LeastNumber
  <2>2. T!DetectCycle(s) = CHOOSE p \in ps : \A q \in ps : p <= q
    BY <1>3 DEF T!DetectCycle
  <2>3. T!DetectCycle(s) \in ps
    BY <2>1, <2>2
  <2> QED
    BY <2>3
<1> QED
  BY <1>2, <1>3

(* The names requests carry. *)
Names == STRING

LEMMA ExtractedAreNames ==
  ASSUME NEW body \in ToolBodies PROVE T!ExtractToolNames(body) \in Seq(Names)
<1>1. /\ body.calls \in Seq(STRING) /\ body.functions \in Seq(STRING)
      /\ body.tools \in Seq(STRING)
  BY PartsAssumption DEF T!ToolConstants
<1>2. body.calls \o body.functions \in Seq(STRING)
  BY <1>1
<1>3. (body.calls \o body.functions) \o body.tools \in Seq(STRING)
  BY <1>1, <1>2
<1>4. CASE body.parses
  BY <1>3, <1>4 DEF T!ExtractToolNames, Names
<1>5. CASE ~body.parses
  <2>1. T!ExtractToolNames(body) = <<>>
    BY <1>5 DEF T!ExtractToolNames
  <2> QED
    BY <2>1
<1> QED
  BY <1>4, <1>5

(* The last n entries of h are one repetition of period p. *)
Repetition(h, n, p) ==
  n <= Len(h) /\ \A i \in (Len(h) - n + 1)..(Len(h) - p) : h[i] = h[i + p]

(* s is the end of h, as long as MaxSeq allows. *)
EndOf(s, h) ==
  /\ Len(s) = IF Len(h) < MaxSeq THEN Len(h) ELSE MaxSeq
  /\ \A i \in 1..Len(s) : s[i] = h[Len(h) - Len(s) + i]

Named(st, h, n) ==
  /\ st.seq \in Seq(Names) /\ EndOf(st.seq, h)
  /\ st.period \in Nat /\ st.confirms \in Nat
  /\ st.period # 0 => st.period >= 2 /\ st.confirms > 0 /\ Repetition(h, 2 * st.period + n, st.period)
  /\ st.period = 0 => st.confirms = 0

ToolInv ==
  /\ DOMAIN tools \subseteq {Solo}
  /\ hist \in [{Solo} -> Seq(Names)] /\ pushed \in [{Solo} -> Nat]
  /\ Solo \in DOMAIN tools => Named(tools[Solo], hist[Solo], pushed[Solo])

LEMMA Concatenation ==
  ASSUME NEW U, NEW s \in Seq(U), NEW t \in Seq(U)
  PROVE  /\ s \o t \in Seq(U) /\ Len(s \o t) = Len(s) + Len(t)
         /\ Len(s) \in Nat /\ Len(t) \in Nat
         /\ \A i \in 1..Len(s) : (s \o t)[i] = s[i]
         /\ \A i \in (Len(s) + 1)..(Len(s) + Len(t)) : (s \o t)[i] = t[i - Len(s)]
OBVIOUS

LEMMA Slice ==
  ASSUME NEW U, NEW s \in Seq(U), NEW a \in Int, NEW b \in Int, 1 <= a, a <= b + 1, b <= Len(s)
  PROVE  /\ SubSeq(s, a, b) \in Seq(U) /\ Len(SubSeq(s, a, b)) = b - a + 1
         /\ \A i \in 1..(b - a + 1) : SubSeq(s, a, b)[i] = s[a + i - 1]
<1>1. SubSeq(s, a, b) = [i \in 1..(b - a + 1) |-> s[a + i - 1]]
  OBVIOUS
<1>2. \A i \in 1..(b - a + 1) : s[a + i - 1] \in U
  OBVIOUS
<1>3. b - a + 1 \in Nat
  OBVIOUS
<1> QED
  BY <1>1, <1>2, <1>3

LEMMA PushKeepsEnd ==
  ASSUME NEW s \in Seq(Names), NEW h \in Seq(Names), EndOf(s, h), NEW names \in Seq(Names)
  PROVE  T!Push(s, names) \in Seq(Names) /\ EndOf(T!Push(s, names), h \o names)
<1>0. MaxSeq \in Nat \ {0}
  BY PartsAssumption DEF T!ToolConstants
<1> DEFINE g == h \o names
           all == s \o names
           n == Len(h)
           m == Len(s)
           k == Len(names)
<1>1. /\ n \in Nat /\ m \in Nat /\ k \in Nat
      /\ m = IF n < MaxSeq THEN n ELSE MaxSeq
      /\ \A i \in 1..m : s[i] = h[n - m + i]
  BY DEF EndOf
<1>2. /\ g \in Seq(Names) /\ Len(g) = n + k
      /\ \A i \in 1..n : g[i] = h[i]
      /\ \A i \in (n + 1)..(n + k) : g[i] = names[i - n]
  BY Concatenation
<1>3. /\ all \in Seq(Names) /\ Len(all) = m + k
      /\ \A i \in 1..m : all[i] = s[i]
      /\ \A i \in (m + 1)..(m + k) : all[i] = names[i - m]
  BY Concatenation
<1> HIDE DEF g, all, n, m, k
<1>4. \A i \in 1..(m + k) : all[i] = g[n - m + i]
  <2> SUFFICES ASSUME NEW i \in 1..(m + k) PROVE all[i] = g[n - m + i]
    OBVIOUS
  <2>1. CASE i \in 1..m
    <3>1. n - m + i \in 1..n
      BY <1>0, <1>1, <2>1
    <3> QED
      BY <1>1, <1>2, <1>3, <2>1, <3>1
  <2>2. CASE i \in (m + 1)..(m + k)
    <3>1. n - m + i \in (n + 1)..(n + k) /\ (n - m + i) - n = i - m
      BY <1>0, <1>1, <2>2
    <3> QED
      BY <1>2, <1>3, <2>2, <3>1
  <2> QED
    BY <1>1, <2>1, <2>2
<1>5. CASE m + k <= MaxSeq
  <2>1. T!Push(s, names) = all
    BY <1>3, <1>5 DEF T!Push, all
  <2>2. (n + k) - (m + k) = n - m /\ m + k = IF n + k < MaxSeq THEN n + k ELSE MaxSeq
    BY <1>0, <1>1, <1>5
  <2> QED
    BY <1>2, <1>3, <1>4, <2>1, <2>2 DEF EndOf, g
<1>6. CASE ~(m + k <= MaxSeq)
  <2> DEFINE d == (m + k) - MaxSeq
             w == SubSeq(all, d + 1, m + k)
  <2>1. d \in Nat /\ d + 1 \in 1..(m + k) /\ (m + k) - (d + 1) + 1 = MaxSeq
    BY <1>0, <1>1, <1>6
  <2>2. T!Push(s, names) = w
    BY <1>3, <1>6 DEF T!Push, all
  <2> HIDE DEF d
  <2>3. Len(w) = MaxSeq /\ w \in Seq(Names) /\ \A i \in 1..MaxSeq : w[i] = all[d + i]
    <3>0. d + 1 \in Int /\ m + k \in Int /\ 1 <= d + 1 /\ d + 1 <= (m + k) + 1 /\ m + k <= Len(all)
      <4>1. m \in Nat /\ k \in Nat /\ Len(all) = m + k
        BY <1>1, <1>3
      <4> QED
        BY <2>1, <4>1
    <3>1. Len(w) = (m + k) - (d + 1) + 1 /\ w \in Seq(Names)
      BY <1>3, <3>0, Slice
    <3>2. \A i \in 1..Len(w) : w[i] = all[(d + 1) + i - 1]
      BY <1>3, <3>0, <3>1, Slice
    <3> HIDE DEF w
    <3>3. \A i \in 1..MaxSeq : (d + 1) + i - 1 = d + i
      BY <1>0, <2>1
    <3> QED
      BY <2>1, <3>1, <3>2, <3>3
  <2> HIDE DEF w
  <2>4. ASSUME NEW i \in 1..MaxSeq PROVE w[i] = g[(n + k) - MaxSeq + i]
    <3>0. m \in Nat /\ n \in Nat /\ k \in Nat /\ MaxSeq \in Nat /\ d = (m + k) - MaxSeq /\ d \in Nat
      BY <1>0, <1>1, <2>1 DEF d
    <3>1. d + i \in 1..(m + k) /\ n - m + (d + i) = (n + k) - MaxSeq + i
      BY <3>0
    <3> QED
      BY <1>4, <2>3, <3>1
  <2>5. MaxSeq = IF n + k < MaxSeq THEN n + k ELSE MaxSeq
    BY <1>0, <1>1, <1>6
  <2> QED
    BY <1>2, <2>2, <2>3, <2>4, <2>5 DEF EndOf, g
<1> QED
  BY <1>5, <1>6

(* A repetition found at the end of the window is one of the history. *)
LEMMA RepeatsIsRepetition ==
  ASSUME NEW s \in Seq(Names), NEW h \in Seq(Names), EndOf(s, h), NEW p \in Nat, T!Repeats(s, p)
  PROVE  Repetition(h, 2 * p, p)
<1>0. MaxSeq \in Nat \ {0}
  BY PartsAssumption DEF T!ToolConstants
<1> DEFINE n == Len(h)
           m == Len(s)
<1>1. /\ n \in Nat /\ m \in Nat /\ m = (IF n < MaxSeq THEN n ELSE MaxSeq) /\ 2 * p <= m
      /\ \A i \in 1..m : s[i] = h[n - m + i]
  BY DEF EndOf, T!Repeats
<1>2. SubSeq(s, m - 2 * p + 1, m - p) = SubSeq(s, m - p + 1, m)
  BY DEF T!Repeats
<1>a. n \in Nat /\ m \in Nat /\ p \in Nat /\ m <= n /\ 2 * p <= m /\ Len(s) = m
  BY <1>0, <1>1
<1> HIDE DEF n, m
<1>3. ASSUME NEW i \in (m - 2 * p + 1)..(m - p) PROVE s[i] = s[i + p]
  <2> DEFINE j == i - (m - 2 * p)
             a == m - 2 * p + 1
             b == m - p
  <2>1. j \in 1..p /\ a + j - 1 = i /\ (b + 1) + j - 1 = i + p
    BY <1>a
  <2>2. /\ a \in Int /\ b \in Int /\ 1 <= a /\ a <= b + 1 /\ b <= Len(s) /\ b - a + 1 = p
        /\ b + 1 \in Int /\ m \in Int /\ 1 <= b + 1 /\ b + 1 <= m + 1 /\ m <= Len(s)
        /\ m - (b + 1) + 1 = p
    BY <1>a
  <2>5. SubSeq(s, a, b) = SubSeq(s, b + 1, m)
    BY <1>2
  <2> HIDE DEF j, a, b
  <2>3. SubSeq(s, a, b)[j] = s[a + j - 1]
    BY <2>1, <2>2, Slice
  <2>4. SubSeq(s, b + 1, m)[j] = s[(b + 1) + j - 1]
    BY <2>1, <2>2, Slice
  <2> QED
    BY <2>1, <2>3, <2>4, <2>5
<1>4. ASSUME NEW i \in (n - 2 * p + 1)..(n - p) PROVE h[i] = h[i + p]
  <2> DEFINE j == i - (n - m)
  <2>1. /\ j \in (m - 2 * p + 1)..(m - p) /\ j \in 1..m /\ j + p \in 1..m
        /\ n - m + j = i /\ n - m + (j + p) = i + p
    BY <1>a
  <2> HIDE DEF j
  <2> QED
    BY <1>1, <1>3, <2>1
<1>5. 2 * p <= n
  BY <1>a
<1> QED
  BY <1>4, <1>5 DEF Repetition, n

(* A repetition goes on while every request adds at most a period.          *)
LEMMA RepetitionGoesOn ==
  ASSUME NEW h \in Seq(Names), NEW names \in Seq(Names), NEW p \in Nat, NEW n \in Nat,
         Len(names) <= p, Repetition(h, 2 * p + n, p), Repetition(h \o names, 2 * p, p)
  PROVE  Repetition(h \o names, 2 * p + (n + Len(names)), p)
<1> DEFINE g == h \o names
           l == Len(h)
           k == Len(names)
<1>1. /\ l \in Nat /\ k \in Nat /\ Len(g) = l + k /\ \A i \in 1..l : g[i] = h[i]
  BY Concatenation
<1>2. /\ 2 * p + n <= l /\ k <= p
      /\ \A i \in (l - (2 * p + n) + 1)..(l - p) : h[i] = h[i + p]
  BY DEF Repetition
<1>3. \A i \in ((l + k) - 2 * p + 1)..((l + k) - p) : g[i] = g[i + p]
  BY <1>1 DEF Repetition
<1> HIDE DEF g, l, k
<1>4. ASSUME NEW i \in ((l + k) - (2 * p + (n + k)) + 1)..((l + k) - p) PROVE g[i] = g[i + p]
  <2>1. CASE i <= l - p
    <3>1. i \in (l - (2 * p + n) + 1)..(l - p) /\ i \in 1..l /\ i + p \in 1..l
      BY <1>1, <1>2, <2>1
    <3> QED
      BY <1>1, <1>2, <3>1
  <2>2. CASE ~(i <= l - p)
    <3>1. i \in ((l + k) - 2 * p + 1)..((l + k) - p)
      BY <1>1, <1>2, <2>2
    <3> QED
      BY <1>3, <3>1
  <2> QED
    BY <2>1, <2>2
<1>5. 2 * p + (n + k) <= l + k
  BY <1>1, <1>2
<1> QED
  BY <1>1, <1>4, <1>5 DEF Repetition, g, k

LEMMA NothingIsNamed == Named(T!FreshState, <<>>, 0)
<1>1. MaxSeq \in Nat \ {0}
  BY PartsAssumption DEF T!ToolConstants
<1>2. T!FreshState.seq = <<>> /\ T!FreshState.period = 0 /\ T!FreshState.confirms = 0
  BY DEF T!FreshState
<1>3. EndOf(<<>>, <<>>)
  BY <1>1 DEF EndOf
<1> QED
  BY <1>2, <1>3 DEF Named

(* One check moves the history and the state together. *)
LEMMA CheckNames ==
  ASSUME NEW h \in Seq(Names), NEW n \in Nat, NEW st, Named(st, h, n),
         NEW names \in Seq(Names), NEW new, NEW p, NEW conf, NEW n1,
         p = T!DetectCycle(new.seq), conf = T!Confirm(st, p),
         new.seq = T!Push(st.seq, names), new.period = p, new.confirms = conf,
         n1 = IF conf <= 1 \/ Len(names) > p THEN 0 ELSE n + Len(names)
  PROVE  n1 \in Nat /\ h \o names \in Seq(Names) /\ Named(new, h \o names, n1)
<1> DEFINE g == h \o names
<1>1. g \in Seq(Names) /\ Len(names) \in Nat
  BY Concatenation
<1>2. new.seq \in Seq(Names) /\ EndOf(new.seq, g)
  BY PushKeepsEnd DEF Named
<1> HIDE DEF g
<1>3. MaxPeriod \in Nat
  BY PartsAssumption DEF T!ToolConstants
<1>4. p = 0 \/ (p \in 2..MaxPeriod /\ T!Repeats(new.seq, p))
  BY DetectedRepeats
<1>5. CASE p = 0
  <2>1. conf = 0 /\ n1 = 0
    BY <1>5 DEF T!Confirm
  <2> QED
    BY <1>1, <1>2, <1>5, <2>1 DEF Named, g
<1>6. CASE p # 0
  <2>1. p \in Nat /\ p >= 2 /\ Repetition(g, 2 * p, p)
    <3>1. p \in Nat /\ p >= 2 /\ T!Repeats(new.seq, p)
      BY <1>3, <1>4, <1>6
    <3> QED
      BY <1>1, <1>2, <3>1, RepeatsIsRepetition
  <2>2. CASE p = st.period
    <3>1. st.confirms \in Nat /\ st.confirms > 0 /\ Repetition(h, 2 * p + n, p)
      BY <1>6, <2>2 DEF Named
    <3>0. conf = st.confirms + 1
      BY <1>6, <2>2 DEF T!Confirm
    <3>2. conf = st.confirms + 1 /\ n1 = IF Len(names) > p THEN 0 ELSE n + Len(names)
      BY <3>0, <3>1
    <3>3. Repetition(g, 2 * p + n1, p)
      <4>1. CASE Len(names) > p
        <5>1. 2 * p + n1 = 2 * p
          BY <2>1, <3>2, <4>1
        <5> QED
          BY <2>1, <5>1
      <4>2. CASE ~(Len(names) > p)
        <5>1. Len(names) <= p /\ n1 = n + Len(names)
          BY <1>1, <2>1, <3>2, <4>2
        <5> QED
          BY <2>1, <3>1, <5>1, RepetitionGoesOn DEF g
      <4> QED
        BY <4>1, <4>2
    <3>4. conf \in Nat /\ conf > 0 /\ n1 \in Nat
      BY <1>1, <3>1, <3>2
    <3> QED
      BY <1>1, <1>2, <1>6, <2>1, <3>3, <3>4 DEF Named, g
  <2>3. CASE p # st.period
    <3>1. conf = 1 /\ n1 = 0
      BY <1>6, <2>3 DEF T!Confirm
    <3>2. 2 * p + n1 = 2 * p
      BY <2>1, <3>1
    <3> QED
      BY <1>1, <1>2, <1>6, <2>1, <3>1, <3>2 DEF Named, g
  <2> QED
    BY <2>2, <2>3
<1> QED
  BY <1>5, <1>6

LEMMA StepTools == ToolInv /\ [T!Next]_(T!vars) => ToolInv'
<1> SUFFICES ASSUME ToolInv, [T!Next]_(T!vars) PROVE ToolInv'
  OBVIOUS
<1>1. CASE UNCHANGED T!vars
  BY <1>1 DEF T!vars, ToolInv
<1>2. CASE T!Tick
  BY <1>2 DEF T!Tick, ToolInv
<1>3. CASE T!Reset(Solo)
  <2>1. /\ DOMAIN tools' = DOMAIN tools \ {Solo}
        /\ hist' = [hist EXCEPT ![Solo] = <<>>] /\ pushed' = [pushed EXCEPT ![Solo] = 0]
    BY <1>3 DEF T!Reset
  <2> QED
    BY <2>1 DEF ToolInv
<1>4. ASSUME NEW body \in ToolBodies, T!CheckWithoutTools(Solo, body) PROVE ToolInv'
  BY <1>4 DEF T!CheckWithoutTools, ToolInv
<1>5. ASSUME NEW body \in ToolBodies, T!CheckWithTools(Solo, body) PROVE ToolInv'
  <2> DEFINE names == T!ExtractToolNames(body)
             old   == T!WindowOf(Solo)
             seq   == T!Push(old.seq, names)
             p     == T!DetectCycle(seq)
             conf  == T!Confirm(old, p)
             block == conf >= CycleLimit
             first == block /\ old.blockedAt = T!ZeroTime
             new   == [seq |-> seq, period |-> p, confirms |-> conf, expires |-> old.expires,
                       blockedAt |-> IF first THEN clock ELSE old.blockedAt]
             h     == IF T!Open(Solo) THEN hist[Solo] ELSE <<>>
             n     == IF T!Open(Solo) THEN pushed[Solo] ELSE 0
  <2>1. PICK gone :
          /\ tools' = [b \in (DOMAIN tools \ gone) \cup {Solo} |-> IF b # Solo THEN tools[b] ELSE new]
          /\ hist' = [b \in {Solo} |-> IF b = Solo THEN h \o names
                                       ELSE IF b \in gone THEN <<>> ELSE hist[b]]
    BY <1>5, Zenon DEF T!CheckWithTools
  <2>2. pushed' = [pushed EXCEPT ![Solo] =
                     IF conf <= 1 \/ Len(names) > p THEN 0 ELSE pushed[Solo] + Len(names)]
    BY <1>5 DEF T!CheckWithTools
  <2>3. h \in Seq(Names) /\ n \in Nat /\ Named(old, h, n)
    <3>1. CASE T!Open(Solo)
      BY <3>1 DEF T!Open, T!WindowOf, ToolInv
    <3>2. CASE ~T!Open(Solo)
      BY <3>2, NothingIsNamed DEF T!WindowOf
    <3> QED
      BY <3>1, <3>2
  <2>4. names \in Seq(Names)
    BY ExtractedAreNames
  <2>5. new.seq = seq /\ new.period = p /\ new.confirms = conf
    OBVIOUS
  <2>6. (IF conf <= 1 \/ Len(names) > p THEN 0 ELSE pushed[Solo] + Len(names))
          = (IF conf <= 1 \/ Len(names) > p THEN 0 ELSE n + Len(names))
    <3>1. CASE T!Open(Solo)
      BY <3>1
    <3>2. CASE ~T!Open(Solo)
      <4>1. old.period = 0
        BY <3>2 DEF T!WindowOf, T!FreshState
      <4> HIDE DEF old, p
      <4>2. conf \in {0, 1}
        BY <4>1 DEF T!Confirm
      <4> HIDE DEF conf
      <4> QED
        BY <4>2
    <3> QED
      BY <3>1, <3>2
  <2> HIDE DEF names, old, h, n, new, conf
  <2> DEFINE n1 == IF conf <= 1 \/ Len(names) > p THEN 0 ELSE n + Len(names)
  <2>7. n1 \in Nat /\ h \o names \in Seq(Names) /\ Named(new, h \o names, n1)
    <3>1. p = T!DetectCycle(new.seq) /\ conf = T!Confirm(old, p) /\ new.seq = T!Push(old.seq, names)
      BY <2>5 DEF conf
    <3> HIDE DEF p, seq
    <3>2. new.period = p /\ new.confirms = conf
      BY <2>5
    <3> QED
      BY <2>3, <2>4, <3>1, <3>2, CheckNames
  <2> HIDE DEF n1
  <2>8. /\ DOMAIN tools' \subseteq {Solo} /\ tools'[Solo] = new
        /\ hist' \in [{Solo} -> Seq(Names)] /\ hist'[Solo] = h \o names
    BY <2>1, <2>7 DEF ToolInv
  <2>9. pushed' = [pushed EXCEPT ![Solo] = n1]
    BY <2>2, <2>6 DEF n1
  <2>10. pushed' \in [{Solo} -> Nat] /\ pushed'[Solo] = n1
    BY <2>7, <2>9 DEF ToolInv
  <2> QED
    BY <2>7, <2>8, <2>10 DEF ToolInv
<1> QED
  BY <1>1, <1>2, <1>3, <1>4, <1>5 DEF T!Next, T!CheckPayload

LEMMA InitTools == T!Init => ToolInv
BY DEF T!Init, ToolInv

(* For any memory, periods and limits and any number of names in a request: *)
(* what was confirmed to be a cycle, however often the history was cut, has *)
(* been one unbroken repetition since two periods before the first          *)
(* confirmation, or before the last request with more than a period of      *)
(* names.  The detector never blocks by a coincidence.                      *)
THEOREM ConfirmationsAreCycles == T!Spec => []T!ConfirmedIsPeriodic
<1>1. ToolInv => T!ConfirmedIsPeriodic
  <2> SUFFICES ASSUME ToolInv, NEW a \in DOMAIN tools, tools[a].confirms > 0
               PROVE  LET n == 2 * tools[a].period + pushed[a]
                      IN  /\ n <= Len(hist[a])
                          /\ T!Periodic(SubSeq(hist[a], Len(hist[a]) - n + 1, Len(hist[a])), tools[a].period)
    BY DEF T!ConfirmedIsPeriodic
  <2> DEFINE h == hist[a]
             p == tools[a].period
             n == 2 * p + pushed[a]
             l == Len(h)
             s == SubSeq(h, l - n + 1, l)
  <2>1. /\ h \in Seq(Names) /\ p \in Nat /\ pushed[a] \in Nat /\ Repetition(h, n, p)
    <3>1. a = Solo /\ Named(tools[a], hist[a], pushed[a]) /\ hist[a] \in Seq(Names) /\ pushed[a] \in Nat
      BY DEF ToolInv
    <3>2. tools[a].period \in Nat /\ tools[a].period # 0
      BY <3>1 DEF Named
    <3> QED
      BY <3>1, <3>2 DEF Named
  <2>2. n \in Nat /\ l \in Nat /\ n <= l /\ p <= n
    <3>1. n \in Nat /\ p <= n
      BY <2>1
    <3> QED
      BY <2>1, <3>1 DEF Repetition
  <2>3. \A i \in (l - n + 1)..(l - p) : h[i] = h[i + p]
    BY <2>1 DEF Repetition
  <2> HIDE DEF n, l, h, p
  <2>4. /\ l - n + 1 \in Int /\ l \in Int /\ 1 <= l - n + 1 /\ l - n + 1 <= l + 1
        /\ l - (l - n + 1) + 1 = n /\ l <= Len(h)
    BY <2>2 DEF l
  <2>5. Len(s) = n /\ \A i \in 1..n : s[i] = h[(l - n + 1) + i - 1]
    BY <2>1, <2>4, Slice
  <2> HIDE DEF s
  <2>6. ASSUME NEW i \in 1..(n - p) PROVE s[i] = s[i + p]
    <3>1. /\ i \in 1..n /\ i + p \in 1..n /\ (l - n + 1) + i - 1 \in (l - n + 1)..(l - p)
          /\ (l - n + 1) + (i + p) - 1 = ((l - n + 1) + i - 1) + p
      BY <2>1, <2>2
    <3> QED
      BY <2>3, <2>5, <3>1
  <2> QED
    BY <2>2, <2>5, <2>6 DEF T!Periodic, s, n, l, h, p
<1>2. ToolInv /\ [T!Next]_(T!vars) => ToolInv'
  BY StepTools
<1> QED
  BY <1>1, <1>2, InitTools, PTL DEF T!Spec

-----------------------------------------------------------------------------
(* The metrics.  A sum of natural numbers over the requests, written as the *)
(* number of its units, so that no recursion is needed.                     *)
Units(f) == {p \in Others \X Nat : p[2] \in 1..f[p[1]]}

SumOf(f) == Cardinality(Units(f))

LEMMA UnitsOfOne ==
  ASSUME NEW r, NEW n \in Nat
  PROVE  IsFiniteSet({r} \X (1..n)) /\ Cardinality({r} \X (1..n)) = n
<1> DEFINE f == [i \in 1..n |-> <<r, i>>]
<1>1. f \in Bijection(1..n, {r} \X (1..n))
  <2>1. f \in [1..n -> {r} \X (1..n)] /\ \A i \in 1..n : f[i] = <<r, i>>
    OBVIOUS
  <2> HIDE DEF f
  <2>2. \A i, j \in 1..n : f[i] = f[j] => i = j
    BY <2>1
  <2>3. \A p \in {r} \X (1..n) : \E i \in 1..n : f[i] = p
    BY <2>1
  <2> QED
    BY <2>1, <2>2, <2>3 DEF Bijection, Injection, Surjection, IsInjective
<1>2. ExistsBijection(1..n, {r} \X (1..n))
  BY <1>1 DEF ExistsBijection
<1>3. IsFiniteSet(1..n) /\ Cardinality(1..n) = n
  BY FS_Interval
<1> QED
  BY <1>2, <1>3, FS_Bijection

(* One term of a sum changes. *)
LEMMA SumMoves ==
  ASSUME NEW f \in [Others -> Nat], NEW g \in [Others -> Nat], NEW r \in Others,
         \A q \in Others \ {r} : g[q] = f[q], IsFiniteSet(Units(f))
  PROVE  /\ IsFiniteSet(Units(g)) /\ SumOf(f) \in Nat /\ SumOf(g) \in Nat
         /\ SumOf(g) = SumOf(f) + g[r] - f[r]
<1> DEFINE Rest == {p \in Units(f) : p[1] # r}
           Old  == {r} \X (1..f[r])
           New  == {r} \X (1..g[r])
<1>1. Units(f) = Rest \cup Old /\ Rest \cap Old = {}
  BY DEF Units
<1>2. Units(g) = Rest \cup New /\ Rest \cap New = {}
  BY DEF Units
<1>3. f[r] \in Nat /\ g[r] \in Nat
  OBVIOUS
<1>4. /\ IsFiniteSet(Old) /\ Cardinality(Old) = f[r]
      /\ IsFiniteSet(New) /\ Cardinality(New) = g[r]
  BY <1>3, UnitsOfOne
<1>5. IsFiniteSet(Rest)
  BY FS_Subset
<1> HIDE DEF Rest, Old, New
<1>6. /\ Cardinality(Units(f)) = Cardinality(Rest) + Cardinality(Old) - Cardinality({})
      /\ Cardinality(Units(g)) = Cardinality(Rest) + Cardinality(New) - Cardinality({})
      /\ IsFiniteSet(Units(g))
  <2>1. /\ Cardinality(Rest \cup Old) = Cardinality(Rest) + Cardinality(Old) - Cardinality(Rest \cap Old)
        /\ Cardinality(Rest \cup New) = Cardinality(Rest) + Cardinality(New) - Cardinality(Rest \cap New)
        /\ IsFiniteSet(Rest \cup New)
    BY <1>4, <1>5, FS_Union
  <2> QED
    BY <1>1, <1>2, <2>1
<1>7. Cardinality({}) = 0 /\ Cardinality(Rest) \in Nat
  BY <1>5, FS_EmptySet, FS_CardinalityType
<1> QED
  BY <1>3, <1>4, <1>6, <1>7 DEF SumOf

(* What a request has still to do, from any point of its way. *)
Step(name, n) == [name |-> name, n |-> n]

ToFinish     == <<Step("active", -1)>>
ToCount      == <<Step("latencyN", 1), Step("active", -1)>>
ToSum(v)     == <<Step("latencyNs", v), Step("latencyN", 1), Step("active", -1)>>
ToForward(v) == <<Step("requests", 1), Step("latencyNs", v), Step("latencyN", 1), Step("active", -1)>>
ToRecord(v)  == <<Step("triggers", v), Step("active", -1)>>
ToSave(v)    == <<Step("savedCost", v), Step("triggers", v), Step("active", -1)>>
ToBlock(v)   == <<Step("loopBlocks", 1), Step("savedCost", v), Step("triggers", v), Step("active", -1)>>

Plans(v) == {<<>>, ToFinish, ToCount, ToSum(v), ToForward(v), ToRecord(v), ToSave(v), ToBlock(v)}

LEMMA PairAndOne ==
  ASSUME NEW a, NEW b, NEW c
  PROVE  <<a, b>> \o <<c>> = <<a, b, c>>
<1> DEFINE s == <<a, b>> \o <<c>>
           U == {a, b, c}
<1>1. <<a, b>> \in Seq(U) /\ <<c>> \in Seq(U) /\ Len(<<a, b>>) = 2 /\ Len(<<c>>) = 1
  OBVIOUS
<1>2. s \in Seq(U) /\ Len(s) = 3 /\ (\A i \in 1..2 : s[i] = <<a, b>>[i]) /\ s[3] = c
  BY <1>1
<1>3. s[1] = a /\ s[2] = b
  BY <1>2
<1> HIDE DEF s
<1>4. s = <<a, b, c>>
  BY <1>2, <1>3
<1> QED
  BY <1>4 DEF s

LEMMA TripleAndOne ==
  ASSUME NEW a, NEW b, NEW c, NEW d
  PROVE  <<a, b, c>> \o <<d>> = <<a, b, c, d>>
<1> DEFINE s == <<a, b, c>> \o <<d>>
           U == {a, b, c, d}
<1>1. <<a, b, c>> \in Seq(U) /\ <<d>> \in Seq(U) /\ Len(<<a, b, c>>) = 3 /\ Len(<<d>>) = 1
  OBVIOUS
<1>2. s \in Seq(U) /\ Len(s) = 4 /\ (\A i \in 1..3 : s[i] = <<a, b, c>>[i]) /\ s[4] = d
  BY <1>1
<1>3. s[1] = a /\ s[2] = b /\ s[3] = c
  BY <1>2
<1> HIDE DEF s
<1>4. s = <<a, b, c, d>>
  BY <1>2, <1>3
<1> QED
  BY <1>4 DEF s

LEMMA MarksArePlans ==
  ASSUME NEW v \in Nat
  PROVE  /\ M!Marks("forwarded", v) = ToForward(v)
         /\ M!Marks("blocked", v) = ToBlock(v)
         /\ M!Marks("neither", v) = ToFinish
<1>0. /\ M!MarkForwarded(v) = <<Step("requests", 1), Step("latencyNs", v), Step("latencyN", 1)>>
      /\ M!MarkLoopBlocked(v) = <<Step("loopBlocks", 1), Step("savedCost", v)>>
      /\ M!RecordTrigger(v) = <<Step("triggers", v)>>
      /\ M!MarkDone = <<Step("active", -1)>>
  BY DEF M!MarkForwarded, M!MarkLoopBlocked, M!RecordTrigger, M!MarkDone, M!Add, Step
<1>2. M!Marks("forwarded", v) = ToForward(v)
  <2>1. <<Step("requests", 1), Step("latencyNs", v), Step("latencyN", 1)>> \o <<Step("active", -1)>>
          = ToForward(v)
    BY TripleAndOne, Zenon DEF ToForward
  <2>2. M!Marks("forwarded", v) = M!MarkForwarded(v) \o M!MarkDone
    BY DEF M!Marks
  <2> QED
    BY <1>0, <2>1, <2>2, Zenon
<1>3. M!Marks("blocked", v) = ToBlock(v)
  <2>1. <<Step("loopBlocks", 1), Step("savedCost", v)>> \o <<Step("triggers", v)>>
          = <<Step("loopBlocks", 1), Step("savedCost", v), Step("triggers", v)>>
    BY PairAndOne, Zenon
  <2>2. <<Step("loopBlocks", 1), Step("savedCost", v), Step("triggers", v)>> \o <<Step("active", -1)>>
          = ToBlock(v)
    BY TripleAndOne, Zenon DEF ToBlock
  <2>3. M!Marks("blocked", v) = (M!MarkLoopBlocked(v) \o M!RecordTrigger(v)) \o M!MarkDone
    BY DEF M!Marks
  <2> QED
    BY <1>0, <2>1, <2>2, <2>3, Zenon
<1>4. M!Marks("neither", v) = ToFinish
  BY DEF M!Marks, M!MarkDone, M!Add, Step, ToFinish
<1> QED
  BY <1>2, <1>3, <1>4

(* The request is in the number of requests and not yet in that of the      *)
(* samples; its latency is in their sum and it is not yet in their number.  *)
Waiting(t) == t # <<>> /\ Head(t).name \in {"latencyNs", "latencyN"}

Summed(t) == t # <<>> /\ Head(t).name = "latencyN"

LEMMA PlanSteps ==
  ASSUME NEW v \in Nat
  PROVE  /\ Head(ToForward(v)) = Step("requests", 1) /\ Tail(ToForward(v)) = ToSum(v)
         /\ Head(ToSum(v)) = Step("latencyNs", v) /\ Tail(ToSum(v)) = ToCount
         /\ Head(ToCount) = Step("latencyN", 1) /\ Tail(ToCount) = ToFinish
         /\ Head(ToFinish) = Step("active", -1) /\ Tail(ToFinish) = <<>>
         /\ Head(ToBlock(v)) = Step("loopBlocks", 1) /\ Tail(ToBlock(v)) = ToSave(v)
         /\ Head(ToSave(v)) = Step("savedCost", v) /\ Tail(ToSave(v)) = ToRecord(v)
         /\ Head(ToRecord(v)) = Step("triggers", v) /\ Tail(ToRecord(v)) = ToFinish
BY DEF ToForward, ToSum, ToCount, ToFinish, ToBlock, ToSave, ToRecord

LEMMA PlanKinds ==
  ASSUME NEW v \in Nat
  PROVE  /\ ~Waiting(<<>>) /\ ~Waiting(ToFinish) /\ Waiting(ToCount) /\ Waiting(ToSum(v))
         /\ ~Waiting(ToForward(v)) /\ ~Waiting(ToRecord(v)) /\ ~Waiting(ToSave(v))
         /\ ~Waiting(ToBlock(v))
         /\ ~Summed(<<>>) /\ ~Summed(ToFinish) /\ Summed(ToCount) /\ ~Summed(ToSum(v))
         /\ ~Summed(ToForward(v)) /\ ~Summed(ToRecord(v)) /\ ~Summed(ToSave(v))
         /\ ~Summed(ToBlock(v))
<1>1. /\ ToFinish # <<>> /\ ToCount # <<>> /\ ToSum(v) # <<>> /\ ToForward(v) # <<>>
      /\ ToRecord(v) # <<>> /\ ToSave(v) # <<>> /\ ToBlock(v) # <<>>
  BY DEF ToForward, ToSum, ToCount, ToFinish, ToBlock, ToSave, ToRecord
<1> QED
  BY <1>1, PlanSteps DEF Waiting, Summed, Step

LEMMA PlanLengths ==
  ASSUME NEW v \in Nat
  PROVE  /\ Len(ToFinish) = 1 /\ Len(ToCount) = 2 /\ Len(ToSum(v)) = 3 /\ Len(ToForward(v)) = 4
         /\ Len(ToRecord(v)) = 2 /\ Len(ToSave(v)) = 3 /\ Len(ToBlock(v)) = 4
BY DEF ToForward, ToSum, ToCount, ToFinish, ToBlock, ToSave, ToRecord

(* The terms of the two sums. *)
Backlog == [r \in Others |-> IF Waiting(todo[r]) THEN 1 ELSE 0]

Owed == [r \in Others |-> IF Summed(todo[r]) THEN value[r] ELSE 0]

(* The work done so far: a request is counted before its sample, and its    *)
(* latency is summed before its sample is counted.                          *)
WorkInv ==
  /\ counter \in [M!Counters -> Int]
  /\ value \in [Others -> Nat]
  /\ DOMAIN todo = Others /\ \A r \in Others : todo[r] \in Plans(value[r])
  /\ counter["latencyN"] \in Nat /\ settled \in Nat
  /\ IsFiniteSet(Units(Backlog))
  /\ counter["requests"] = counter["latencyN"] + SumOf(Backlog)
  /\ IsFiniteSet(Units(Owed))
  /\ counter["latencyNs"] = settled + SumOf(Owed)

LEMMA TermTypes ==
  ASSUME value \in [Others -> Nat]
  PROVE  Backlog \in [Others -> Nat] /\ Owed \in [Others -> Nat]
BY DEF Backlog, Owed

(* Both sums after a step of request r. *)
LEMMA TermsMove ==
  ASSUME WorkInv, NEW r \in Others, value' \in [Others -> Nat],
         \A q \in Others \ {r} : todo'[q] = todo[q] /\ value'[q] = value[q]
  PROVE  /\ IsFiniteSet(Units(Backlog)') /\ IsFiniteSet(Units(Owed)')
         /\ SumOf(Backlog) \in Nat /\ SumOf(Owed) \in Nat
         /\ SumOf(Backlog)' \in Nat /\ SumOf(Owed)' \in Nat
         /\ SumOf(Backlog)' = SumOf(Backlog) + (IF Waiting(todo'[r]) THEN 1 ELSE 0)
                                - (IF Waiting(todo[r]) THEN 1 ELSE 0)
         /\ SumOf(Owed)' = SumOf(Owed) + (IF Summed(todo'[r]) THEN value'[r] ELSE 0)
                             - (IF Summed(todo[r]) THEN value[r] ELSE 0)
<1> DEFINE b0 == Backlog
           b1 == [q \in Others |-> IF Waiting(todo'[q]) THEN 1 ELSE 0]
           o0 == Owed
           o1 == [q \in Others |-> IF Summed(todo'[q]) THEN value'[q] ELSE 0]
<1>1. /\ SumOf(Backlog)' = SumOf(b1) /\ Units(Backlog)' = Units(b1)
      /\ SumOf(Owed)' = SumOf(o1) /\ Units(Owed)' = Units(o1)
  BY DEF SumOf, Units, Backlog, Owed, Waiting, Summed
<1>2. b0 \in [Others -> Nat] /\ o0 \in [Others -> Nat]
  BY TermTypes DEF WorkInv
<1>3. b1 \in [Others -> Nat] /\ o1 \in [Others -> Nat]
  OBVIOUS
<1>4. \A q \in Others \ {r} : b1[q] = b0[q] /\ o1[q] = o0[q]
  BY DEF Backlog, Owed
<1>5. /\ b1[r] = (IF Waiting(todo'[r]) THEN 1 ELSE 0)
      /\ b0[r] = (IF Waiting(todo[r]) THEN 1 ELSE 0)
      /\ o1[r] = (IF Summed(todo'[r]) THEN value'[r] ELSE 0)
      /\ o0[r] = (IF Summed(todo[r]) THEN value[r] ELSE 0)
  BY DEF Backlog, Owed
<1> HIDE DEF b0, b1, o0, o1
<1>6. IsFiniteSet(Units(b0)) /\ IsFiniteSet(Units(o0))
  BY DEF WorkInv, b0, o0
<1>7. /\ IsFiniteSet(Units(b1)) /\ SumOf(b0) \in Nat /\ SumOf(b1) \in Nat
      /\ SumOf(b1) = SumOf(b0) + b1[r] - b0[r]
  BY <1>2, <1>3, <1>4, <1>6, SumMoves
<1>8. /\ IsFiniteSet(Units(o1)) /\ SumOf(o0) \in Nat /\ SumOf(o1) \in Nat
      /\ SumOf(o1) = SumOf(o0) + o1[r] - o0[r]
  BY <1>2, <1>3, <1>4, <1>6, SumMoves
<1>9. SumOf(Backlog) = SumOf(b0) /\ SumOf(Owed) = SumOf(o0)
  BY DEF b0, o0
<1> QED
  BY <1>1, <1>5, <1>7, <1>8, <1>9

LEMMA ServeWorks ==
  ASSUME WorkInv, NEW r \in Others, NEW outcome \in {"forwarded", "blocked", "neither"},
         NEW n \in Nat, M!Serve(r, outcome, n)
  PROVE  WorkInv' /\ counter'["latencyN"] = counter["latencyN"] /\ settled' = settled
<1>1. /\ todo[r] = <<>> /\ counter' = [counter EXCEPT !["active"] = counter["active"] + 1]
      /\ todo' = [todo EXCEPT ![r] = M!Marks(outcome, n)]
      /\ value' = [value EXCEPT ![r] = n] /\ settled' = settled
  BY DEF M!Serve
<1>2. /\ value' \in [Others -> Nat] /\ value'[r] = n
      /\ \A q \in Others \ {r} : todo'[q] = todo[q] /\ value'[q] = value[q]
      /\ DOMAIN todo' = Others /\ todo'[r] = M!Marks(outcome, n)
  BY <1>1 DEF WorkInv
<1>3. todo'[r] \in {ToForward(n), ToBlock(n), ToFinish}
  BY <1>2, MarksArePlans
<1>4. ~Waiting(todo[r]) /\ ~Waiting(todo'[r]) /\ ~Summed(todo[r]) /\ ~Summed(todo'[r])
  BY <1>1, <1>3, PlanKinds
<1>5. /\ counter' \in [M!Counters -> Int]
      /\ counter'["latencyN"] = counter["latencyN"] /\ counter'["requests"] = counter["requests"]
      /\ counter'["latencyNs"] = counter["latencyNs"]
  BY <1>1 DEF WorkInv, M!Counters
<1>6. /\ IsFiniteSet(Units(Backlog)') /\ IsFiniteSet(Units(Owed)')
      /\ SumOf(Backlog)' = SumOf(Backlog) /\ SumOf(Owed)' = SumOf(Owed)
  BY <1>2, <1>4, TermsMove
<1>7. \A q \in Others : todo'[q] \in Plans(value'[q])
  BY <1>2, <1>3 DEF WorkInv, Plans
<1> QED
  BY <1>1, <1>2, <1>5, <1>6, <1>7 DEF WorkInv

LEMMA MarkWorks ==
  ASSUME WorkInv, NEW r \in Others, M!Mark(r)
  PROVE  WorkInv' /\ counter'["latencyN"] >= counter["latencyN"] /\ settled' >= settled
<1> DEFINE v == value[r]
           step == Head(todo[r])
<1>0. v \in Nat /\ todo[r] \in Plans(v) /\ todo[r] # <<>>
  BY DEF WorkInv, M!Mark
<1>1. /\ step.name # "triggers" => counter' = [counter EXCEPT ![step.name] = counter[step.name] + step.n]
      /\ step.name = "triggers" => counter' = counter
      /\ settled' = IF step.name = "latencyN" THEN settled + v ELSE settled
      /\ todo' = [todo EXCEPT ![r] = Tail(todo[r])]
      /\ value' = [value EXCEPT ![r] = IF Len(todo[r]) = 1 THEN 0 ELSE v]
  BY DEF M!Mark
<1> HIDE DEF step
<1>2. /\ value' \in [Others -> Nat] /\ value'[r] = (IF Len(todo[r]) = 1 THEN 0 ELSE v)
      /\ \A q \in Others \ {r} : todo'[q] = todo[q] /\ value'[q] = value[q]
      /\ DOMAIN todo' = Others /\ todo'[r] = Tail(todo[r])
  BY <1>0, <1>1 DEF WorkInv
<1>3. /\ IsFiniteSet(Units(Backlog)') /\ IsFiniteSet(Units(Owed)')
      /\ SumOf(Backlog) \in Nat /\ SumOf(Owed) \in Nat
      /\ SumOf(Backlog)' \in Nat /\ SumOf(Owed)' \in Nat
      /\ SumOf(Backlog)' = SumOf(Backlog) + (IF Waiting(todo'[r]) THEN 1 ELSE 0)
                             - (IF Waiting(todo[r]) THEN 1 ELSE 0)
      /\ SumOf(Owed)' = SumOf(Owed) + (IF Summed(todo'[r]) THEN value'[r] ELSE 0)
                          - (IF Summed(todo[r]) THEN v ELSE 0)
  BY <1>2, TermsMove
<1> DEFINE Result ==
      /\ todo'[r] \in Plans(value'[r])
      /\ counter' \in [M!Counters -> Int]
      /\ counter'["latencyN"] \in Nat /\ settled' \in Nat
      /\ counter'["requests"] = counter'["latencyN"] + SumOf(Backlog)'
      /\ counter'["latencyNs"] = settled' + SumOf(Owed)'
      /\ counter'["latencyN"] >= counter["latencyN"] /\ settled' >= settled
<1>4. /\ counter \in [M!Counters -> Int] /\ counter["latencyN"] \in Nat /\ settled \in Nat
      /\ counter["requests"] = counter["latencyN"] + SumOf(Backlog)
      /\ counter["latencyNs"] = settled + SumOf(Owed)
  BY DEF WorkInv
<1>p. /\ Head(ToForward(v)) = Step("requests", 1) /\ Tail(ToForward(v)) = ToSum(v)
      /\ Head(ToSum(v)) = Step("latencyNs", v) /\ Tail(ToSum(v)) = ToCount
      /\ Head(ToCount) = Step("latencyN", 1) /\ Tail(ToCount) = ToFinish
      /\ Head(ToFinish) = Step("active", -1) /\ Tail(ToFinish) = <<>>
      /\ Head(ToBlock(v)) = Step("loopBlocks", 1) /\ Tail(ToBlock(v)) = ToSave(v)
      /\ Head(ToSave(v)) = Step("savedCost", v) /\ Tail(ToSave(v)) = ToRecord(v)
      /\ Head(ToRecord(v)) = Step("triggers", v) /\ Tail(ToRecord(v)) = ToFinish
  BY <1>0, PlanSteps
<1>l. /\ Len(ToFinish) = 1 /\ Len(ToCount) = 2 /\ Len(ToSum(v)) = 3 /\ Len(ToForward(v)) = 4
      /\ Len(ToRecord(v)) = 2 /\ Len(ToSave(v)) = 3 /\ Len(ToBlock(v)) = 4
  BY <1>0, PlanLengths
<1> HIDE DEF v
<1>5. ASSUME todo[r] = ToForward(v) PROVE Result
  <2>1. step = Step("requests", 1) /\ todo'[r] = ToSum(v) /\ value'[r] = v
    BY <1>0, <1>2, <1>5, <1>p, <1>l DEF step
  <2>2. counter' = [counter EXCEPT !["requests"] = counter["requests"] + 1] /\ settled' = settled
    BY <1>1, <2>1 DEF Step
  <2>3. ~Waiting(todo[r]) /\ Waiting(todo'[r]) /\ ~Summed(todo[r]) /\ ~Summed(todo'[r])
    BY <1>0, <1>5, <2>1, PlanKinds
  <2>4. todo'[r] \in Plans(value'[r])
    BY <2>1 DEF Plans
  <2> QED
    BY <1>3, <1>4, <2>2, <2>3, <2>4 DEF M!Counters
<1>6. ASSUME todo[r] = ToSum(v) PROVE Result
  <2>1. step = Step("latencyNs", v) /\ todo'[r] = ToCount /\ value'[r] = v
    BY <1>0, <1>2, <1>6, <1>p, <1>l DEF step
  <2>2. counter' = [counter EXCEPT !["latencyNs"] = counter["latencyNs"] + v] /\ settled' = settled
    BY <1>1, <2>1 DEF Step
  <2>3. Waiting(todo[r]) /\ Waiting(todo'[r]) /\ ~Summed(todo[r]) /\ Summed(todo'[r])
    BY <1>0, <1>6, <2>1, PlanKinds
  <2>4. todo'[r] \in Plans(value'[r])
    BY <2>1 DEF Plans
  <2> QED
    BY <1>0, <1>3, <1>4, <2>1, <2>2, <2>3, <2>4 DEF M!Counters
<1>7. ASSUME todo[r] = ToCount PROVE Result
  <2>1. step = Step("latencyN", 1) /\ todo'[r] = ToFinish /\ value'[r] = v
    BY <1>0, <1>2, <1>7, <1>p, <1>l DEF step
  <2>2. counter' = [counter EXCEPT !["latencyN"] = counter["latencyN"] + 1] /\ settled' = settled + v
    BY <1>1, <2>1 DEF Step
  <2>3. Waiting(todo[r]) /\ ~Waiting(todo'[r]) /\ Summed(todo[r]) /\ ~Summed(todo'[r])
    BY <1>0, <1>7, <2>1, PlanKinds
  <2>4. todo'[r] \in Plans(value'[r])
    BY <2>1 DEF Plans
  <2>5. /\ counter' \in [M!Counters -> Int]
        /\ counter'["latencyN"] = counter["latencyN"] + 1 /\ counter'["requests"] = counter["requests"]
        /\ counter'["latencyNs"] = counter["latencyNs"]
    BY <1>4, <2>2 DEF M!Counters
  <2>6. SumOf(Backlog)' = SumOf(Backlog) - 1 /\ SumOf(Owed)' = SumOf(Owed) - v
    BY <1>0, <1>3, <2>3
  <2>7. counter'["requests"] = counter'["latencyN"] + SumOf(Backlog)'
    BY <1>3, <1>4, <2>5, <2>6
  <2>8. counter'["latencyNs"] = settled' + SumOf(Owed)'
    BY <1>0, <1>3, <1>4, <2>2, <2>5, <2>6
  <2>9. counter'["latencyN"] \in Nat /\ settled' \in Nat
        /\ counter'["latencyN"] >= counter["latencyN"] /\ settled' >= settled
    BY <1>0, <1>4, <2>2, <2>5
  <2> QED
    BY <2>4, <2>5, <2>7, <2>8, <2>9
<1>8. ASSUME todo[r] \in {ToFinish, ToBlock(v), ToSave(v), ToRecord(v)} PROVE Result
  <2>1. /\ step \in {Step("active", -1), Step("loopBlocks", 1), Step("savedCost", v), Step("triggers", v)}
        /\ todo'[r] \in {<<>>, ToSave(v), ToRecord(v), ToFinish}
    BY <1>0, <1>2, <1>8, <1>p DEF step
  <2>2. todo'[r] \in Plans(value'[r])
    <3>1. CASE todo[r] = ToFinish
      BY <1>2, <3>1, <1>p DEF Plans
    <3>2. CASE todo[r] # ToFinish
      <4>0. Len(todo[r]) \in {2, 3, 4}
        BY <1>8, <3>2, <1>l
      <4>1. Len(todo[r]) # 1
        BY <4>0
      <4>2. value'[r] = v
        BY <1>2, <4>1, Zenon
      <4> QED
        BY <1>8, <1>p, <1>2, <3>2, <4>2 DEF Plans
    <3> QED
      BY <3>1, <3>2
  <2>3. /\ step.name \in {"active", "loopBlocks", "savedCost", "triggers"} /\ step.n \in Int
    BY <1>0, <2>1 DEF Step
  <2>4. /\ counter' \in [M!Counters -> Int] /\ settled' = settled
        /\ counter'["latencyN"] = counter["latencyN"] /\ counter'["requests"] = counter["requests"]
        /\ counter'["latencyNs"] = counter["latencyNs"]
    BY <1>1, <1>4, <2>3 DEF M!Counters
  <2>5. ~Waiting(todo[r]) /\ ~Waiting(todo'[r]) /\ ~Summed(todo[r]) /\ ~Summed(todo'[r])
    BY <1>0, <1>8, <2>1, PlanKinds
  <2> QED
    BY <1>3, <1>4, <2>2, <2>4, <2>5
<1>9. Result
  BY <1>0, <1>5, <1>6, <1>7, <1>8 DEF Plans
<1>10. \A q \in Others : todo'[q] \in Plans(value'[q])
  BY <1>2, <1>9 DEF WorkInv
<1> QED
  BY <1>2, <1>3, <1>9, <1>10 DEF WorkInv

(* The ring holds the newest TriggerCap of the triggers recorded. *)
Newest(s, all) ==
  /\ Len(s) = IF Len(all) < TriggerCap THEN Len(all) ELSE TriggerCap
  /\ \A i \in 1..Len(s) : s[i] = all[Len(all) - Len(s) + i]

RingInv == ring \in Seq(Nat) /\ episodes \in Seq(Nat) /\ Newest(ring, episodes)

LEMMA PushKeepsNewest ==
  ASSUME RingInv, NEW t \in Nat
  PROVE  /\ M!Push(t) \in Seq(Nat) /\ Append(episodes, t) \in Seq(Nat)
         /\ Newest(M!Push(t), Append(episodes, t))
<1>0. TriggerCap \in Nat \ {0}
  BY PartsAssumption DEF M!MetricsConstants
<1> DEFINE k == Len(episodes)
           m == Len(ring)
           e == Append(episodes, t)
           all == Append(ring, t)
<1>1. k \in Nat /\ m \in Nat /\ m = IF k < TriggerCap THEN k ELSE TriggerCap
  BY DEF RingInv, Newest
<1>2. e \in Seq(Nat) /\ Len(e) = k + 1 /\ e[k + 1] = t /\ \A j \in 1..k : e[j] = episodes[j]
  BY DEF RingInv
<1>3. all \in Seq(Nat) /\ Len(all) = m + 1 /\ all[m + 1] = t /\ \A j \in 1..m : all[j] = ring[j]
  BY DEF RingInv
<1>4. \A i \in 1..m : ring[i] = episodes[k - m + i] /\ k - m + i \in 1..k
  BY <1>1 DEF RingInv, Newest
<1> HIDE DEF k, m, e, all
<1>5. \A i \in 1..(m + 1) : all[i] = e[k - m + i]
  <2> SUFFICES ASSUME NEW i \in 1..(m + 1) PROVE all[i] = e[k - m + i]
    OBVIOUS
  <2>1. CASE i = m + 1
    <3>1. k - m + i = k + 1
      BY <1>1, <2>1
    <3> QED
      BY <1>2, <1>3, <2>1, <3>1
  <2>2. CASE i \in 1..m
    BY <1>2, <1>3, <1>4, <2>2
  <2> QED
    BY <1>1, <2>1, <2>2
<1>6. CASE ~(m + 1 > TriggerCap)
  <2>1. M!Push(t) = all
    BY <1>3, <1>6 DEF M!Push, all
  <2>2. (k + 1) - (m + 1) = k - m /\ m + 1 = IF k + 1 < TriggerCap THEN k + 1 ELSE TriggerCap
    BY <1>0, <1>1, <1>6
  <2> QED
    BY <1>2, <1>3, <1>5, <2>1, <2>2 DEF Newest, e
<1>7. CASE m + 1 > TriggerCap
  <2>0. m = TriggerCap
    BY <1>0, <1>1, <1>7
  <2> DEFINE w == SubSeq(all, 2, m + 1)
  <2>1. M!Push(t) = w
    <3>1. (m + 1) - TriggerCap + 1 = 2
      BY <1>1, <2>0
    <3> QED
      BY <1>3, <1>7, <3>1 DEF M!Push, all
  <2>2. Len(w) = m /\ \A i \in 1..m : w[i] = all[i + 1]
    BY <1>1, <1>3
  <2>3. w \in Seq(Nat)
    BY <1>1, <1>3
  <2> HIDE DEF w
  <2>4. ASSUME NEW i \in 1..m PROVE w[i] = e[(k + 1) - m + i]
    <3>1. i + 1 \in 1..(m + 1) /\ k - m + (i + 1) = (k + 1) - m + i
      BY <1>1
    <3> QED
      BY <1>5, <2>2, <3>1
  <2>5. m = IF k + 1 < TriggerCap THEN k + 1 ELSE TriggerCap
    BY <1>0, <1>1, <2>0
  <2> QED
    BY <1>2, <2>1, <2>2, <2>3, <2>4, <2>5 DEF Newest, e
<1> QED
  BY <1>6, <1>7

-----------------------------------------------------------------------------
(* What the poll has loaded, against the counters now.  A counter it has    *)
(* still to load can only have grown by then.                               *)
Has(s, x) == \E i \in 1..Len(s) : s[i] = x

Loadable == {"latencyNs", "active", "requests", "loopBlocks", "savedCost", "triggers", "encode"}

Fields == M!Counters \cup {"settled", "triggers"}

PollInv ==
  /\ loads \in Seq(Loadable)
  /\ DOMAIN snap = Fields
  /\ snap["latencyN"] \in Nat /\ snap["latencyN"] <= counter["latencyN"]
  /\ snap["settled"] \in Nat /\ snap["settled"] <= settled
  /\ ~Has(loads, "requests") => snap["requests"] \in Int /\ snap["requests"] >= snap["latencyN"]
  /\ ~Has(loads, "latencyNs") /\ snap["latencyN"] > 0 =>
       snap["latencyNs"] \in Int /\ snap["latencyNs"] >= snap["settled"] \div snap["latencyN"]

MeterInv == WorkInv /\ RingInv /\ PollInv

LEMMA QuotientGrows ==
  ASSUME NEW a \in Nat, NEW b \in Nat, NEW n \in Nat, n > 0, b <= a
  PROVE  b \div n <= a \div n /\ a \div n \in Int
OBVIOUS

LEMMA HasTail ==
  ASSUME NEW s \in Seq(Loadable), s # <<>>, NEW x
  PROVE  Has(s, x) <=> Head(s) = x \/ Has(Tail(s), x)
<1>1. Len(s) \in Nat \ {0} /\ Head(s) = s[1] /\ Len(Tail(s)) = Len(s) - 1
      /\ \A i \in 1..(Len(s) - 1) : Tail(s)[i] = s[i + 1]
  OBVIOUS
<1>2. ASSUME Has(s, x) PROVE Head(s) = x \/ Has(Tail(s), x)
  <2>1. PICK i \in 1..Len(s) : s[i] = x
    BY <1>2 DEF Has
  <2>2. CASE i = 1
    BY <1>1, <2>1, <2>2
  <2>3. CASE i # 1
    <3>1. i - 1 \in 1..(Len(s) - 1) /\ (i - 1) + 1 = i
      BY <1>1, <2>3
    <3> QED
      BY <1>1, <2>1, <3>1 DEF Has
  <2> QED
    BY <2>2, <2>3
<1>3. ASSUME Head(s) = x PROVE Has(s, x)
  BY <1>1, <1>3 DEF Has
<1>4. ASSUME Has(Tail(s), x) PROVE Has(s, x)
  <2>1. PICK i \in 1..(Len(s) - 1) : Tail(s)[i] = x
    BY <1>1, <1>4 DEF Has
  <2>2. i + 1 \in 1..Len(s)
    BY <1>1
  <2> QED
    BY <1>1, <2>1, <2>2 DEF Has
<1> QED
  BY <1>2, <1>3, <1>4

(* The counters only grow under the poll. *)
LEMMA PollStands ==
  ASSUME PollInv, WorkInv, WorkInv', UNCHANGED <<loads, snap>>,
         counter'["latencyN"] >= counter["latencyN"], settled' >= settled
  PROVE  PollInv'
BY DEF PollInv, WorkInv

LEMMA BeginPolls ==
  ASSUME WorkInv, M!BeginSnapshot PROVE PollInv'
<1> DEFINE first == IF counter["latencyN"] > 0 THEN <<"latencyNs">> ELSE <<>>
           rest == <<"active", "requests", "loopBlocks", "savedCost", "triggers">>
<1>1. loads' = first \o rest /\ UNCHANGED <<counter, settled>>
      /\ snap' = [M!Zero EXCEPT !["latencyN"] = counter["latencyN"], !["settled"] = settled]
  BY DEF M!BeginSnapshot
<1>2. rest \in Seq(Loadable) /\ Len(rest) = 5 /\ rest[2] = "requests"
  BY DEF Loadable
<1>3. /\ first \in Seq(Loadable) /\ Len(first) \in Nat
      /\ counter["latencyN"] > 0 => Len(first) = 1 /\ first[1] = "latencyNs"
  <2>1. CASE counter["latencyN"] > 0
    <3>1. first = <<"latencyNs">>
      BY <2>1
    <3> HIDE DEF first
    <3> QED
      BY <3>1 DEF Loadable
  <2>2. CASE ~(counter["latencyN"] > 0)
    <3>1. first = <<>>
      BY <2>2
    <3> HIDE DEF first
    <3> QED
      BY <2>2, <3>1
  <2> QED
    BY <2>1, <2>2
<1> HIDE DEF first, rest
<1>4. /\ loads' \in Seq(Loadable) /\ Len(loads') = Len(first) + 5
      /\ \A i \in 1..Len(first) : loads'[i] = first[i]
      /\ \A i \in 1..5 : loads'[Len(first) + i] = rest[i]
  <2>0. first \in Seq(Loadable) /\ rest \in Seq(Loadable)
    BY <1>2, <1>3
  <2>1. /\ first \o rest \in Seq(Loadable) /\ Len(first \o rest) = Len(first) + Len(rest)
        /\ \A i \in 1..Len(first) : (first \o rest)[i] = first[i]
        /\ \A i \in 1..Len(rest) : (first \o rest)[Len(first) + i] = rest[i]
    BY <2>0, Concatenation, SMTT(30)
  <2> QED
    BY <1>1, <1>2, <2>1, Zenon
<1>7. Has(loads', "requests")
  <2>1. Len(first) + 2 \in 1..Len(loads') /\ loads'[Len(first) + 2] = "requests"
    BY <1>2, <1>3, <1>4
  <2> QED
    BY <2>1 DEF Has
<1>8. counter["latencyN"] > 0 => Has(loads', "latencyNs")
  <2> SUFFICES ASSUME counter["latencyN"] > 0 PROVE Has(loads', "latencyNs")
    OBVIOUS
  <2>1. 1 \in 1..Len(loads') /\ loads'[1] = "latencyNs"
    BY <1>3, <1>4
  <2> QED
    BY <2>1 DEF Has
<1>9. /\ DOMAIN snap' = Fields /\ snap'["latencyN"] = counter["latencyN"] /\ snap'["settled"] = settled
  BY <1>1 DEF M!Zero, Fields, M!Counters
<1> QED
  <2>1. counter'["latencyN"] \in Nat /\ settled' \in Nat /\ counter["latencyN"] \in Nat
    BY <1>1 DEF WorkInv
  <2>2. Has(loads, "requests")' /\ (counter["latencyN"] > 0 => Has(loads, "latencyNs")')
    BY <1>7, <1>8 DEF Has
  <2> QED
    BY <1>1, <1>4, <1>9, <2>1, <2>2 DEF PollInv

LEMMA LoadPolls ==
  ASSUME MeterInv, M!Load PROVE PollInv'
<1> DEFINE name == Head(loads)
<1>1. /\ loads # <<>> /\ name \in M!Counters /\ loads' = Tail(loads)
      /\ snap' = [snap EXCEPT ![name] = IF name = "latencyNs" THEN counter[name] \div snap["latencyN"]
                                        ELSE counter[name]]
      /\ UNCHANGED <<counter, settled>>
  BY DEF M!Load
<1>2. \A x : Has(loads, x) <=> name = x \/ Has(loads', x)
  BY <1>1, HasTail DEF MeterInv, PollInv
<1>3. loads' \in Seq(Loadable)
  BY <1>1 DEF MeterInv, PollInv
<1> HIDE DEF name
<1>4. name \notin {"latencyN", "settled"}
  <2>1. name \in Loadable
    BY <1>1 DEF MeterInv, PollInv, name
  <2> QED
    BY <2>1 DEF Loadable
<1>5. /\ DOMAIN snap' = Fields
      /\ snap'["latencyN"] = snap["latencyN"] /\ snap'["settled"] = snap["settled"]
      /\ name # "requests" => snap'["requests"] = snap["requests"]
      /\ name = "requests" => snap'["requests"] = counter["requests"]
      /\ name # "latencyNs" => snap'["latencyNs"] = snap["latencyNs"]
      /\ name = "latencyNs" => snap'["latencyNs"] = counter["latencyNs"] \div snap["latencyN"]
  BY <1>1, <1>4 DEF MeterInv, PollInv, Fields, M!Counters
<1>6. /\ counter["requests"] \in Int /\ counter["requests"] >= counter["latencyN"]
      /\ counter["latencyNs"] \in Nat /\ counter["latencyNs"] >= settled
  <2>1. SumOf(Backlog) \in Nat /\ SumOf(Owed) \in Nat
    BY FS_CardinalityType DEF MeterInv, WorkInv, SumOf
  <2> QED
    BY <2>1 DEF MeterInv, WorkInv
<1>7. /\ snap["latencyN"] \in Nat /\ snap["latencyN"] <= counter["latencyN"]
      /\ snap["settled"] \in Nat /\ snap["settled"] <= settled
      /\ counter["latencyN"] \in Nat /\ settled \in Nat
  BY DEF MeterInv, PollInv, WorkInv
<1>8. ASSUME ~Has(loads', "requests")
      PROVE  snap'["requests"] \in Int /\ snap'["requests"] >= snap'["latencyN"]
  <2>1. CASE name = "requests"
    BY <1>5, <1>6, <1>7, <2>1
  <2>2. CASE name # "requests"
    BY <1>2, <1>5, <1>8, <2>2 DEF MeterInv, PollInv
  <2> QED
    BY <2>1, <2>2
<1>9. ASSUME ~Has(loads', "latencyNs"), snap'["latencyN"] > 0
      PROVE  /\ snap'["latencyNs"] \in Int
             /\ snap'["latencyNs"] >= snap'["settled"] \div snap'["latencyN"]
  <2>1. CASE name = "latencyNs"
    <3>1. snap["latencyN"] > 0 /\ snap["settled"] <= counter["latencyNs"]
      BY <1>5, <1>6, <1>7, <1>9
    <3>2. PICK a \in Nat, b \in Nat, n \in Nat :
            a = counter["latencyNs"] /\ b = snap["settled"] /\ n = snap["latencyN"]
      BY <1>6, <1>7
    <3>3. b \div n <= a \div n /\ a \div n \in Int /\ b \div n \in Int
      BY <3>1, <3>2, QuotientGrows
    <3>4. snap'["latencyNs"] = a \div n /\ snap'["settled"] \div snap'["latencyN"] = b \div n
      BY <1>5, <2>1, <3>2
    <3> QED
      BY <3>3, <3>4
  <2>2. CASE name # "latencyNs"
    BY <1>2, <1>5, <1>9, <2>2 DEF MeterInv, PollInv
  <2> QED
    BY <2>1, <2>2
<1> QED
  BY <1>1, <1>3, <1>4, <1>5, <1>7, <1>8, <1>9 DEF PollInv

(* What SnapshotIsOrdered says of one step. *)
Ordered ==
  M!LoadTriggers =>
    /\ snap["requests"] >= snap["latencyN"]
    /\ snap["latencyN"] > 0 => snap["latencyNs"] >= snap["settled"] \div snap["latencyN"]
    /\ LET k == Len(episodes) IN
         /\ Len(snap'["triggers"]) = (IF k < TriggerCap THEN k ELSE TriggerCap)
         /\ \A i \in DOMAIN snap'["triggers"] : snap'["triggers"][i] = episodes[k + 1 - i]

LEMMA LoadTriggersIsOrdered ==
  ASSUME MeterInv, M!LoadTriggers
  PROVE  Ordered /\ PollInv'
<1>1. /\ loads = <<"triggers">> /\ loads' = <<"encode">>
      /\ snap' = [snap EXCEPT !["triggers"] = M!Newest(ring)]
      /\ UNCHANGED <<counter, settled>>
  BY DEF M!LoadTriggers
<1>2. ~Has(loads, "requests") /\ ~Has(loads, "latencyNs")
  BY <1>1 DEF Has
<1>3. /\ DOMAIN snap' = Fields /\ snap'["triggers"] = M!Newest(ring)
      /\ snap'["requests"] = snap["requests"] /\ snap'["latencyN"] = snap["latencyN"]
      /\ snap'["latencyNs"] = snap["latencyNs"] /\ snap'["settled"] = snap["settled"]
  BY <1>1 DEF MeterInv, PollInv, Fields, M!Counters
<1>4. loads' \in Seq(Loadable)
  BY <1>1 DEF Loadable
<1>5. /\ snap["requests"] \in Int /\ snap["requests"] >= snap["latencyN"]
      /\ snap["latencyN"] > 0 =>
           snap["latencyNs"] \in Int /\ snap["latencyNs"] >= snap["settled"] \div snap["latencyN"]
  BY <1>2 DEF MeterInv, PollInv
<1>6. PollInv'
  BY <1>1, <1>3, <1>4, <1>5 DEF MeterInv, PollInv
<1> DEFINE k == Len(episodes)
           m == Len(ring)
           t == snap'["triggers"]
<1>7. /\ k \in Nat /\ m \in Nat /\ m = IF k < TriggerCap THEN k ELSE TriggerCap
      /\ \A i \in 1..m : ring[i] = episodes[k - m + i]
  BY DEF MeterInv, RingInv, Newest
<1>8. t = [i \in 1..m |-> ring[m + 1 - i]]
  BY <1>3 DEF M!Newest
<1>9. Len(t) = m /\ DOMAIN t = 1..m
  BY <1>7, <1>8
<1>10. ASSUME NEW i \in 1..m PROVE t[i] = episodes[k + 1 - i]
  <2>1. m + 1 - i \in 1..m /\ k - m + (m + 1 - i) = k + 1 - i
    BY <1>7
  <2>2. t[i] = ring[m + 1 - i]
    BY <1>8
  <2> QED
    BY <1>7, <2>1, <2>2
<1>11. Ordered
  BY <1>5, <1>7, <1>9, <1>10 DEF Ordered
<1> QED
  BY <1>6, <1>11

LEMMA StepMeter == MeterInv /\ [M!Next]_(M!vars) => MeterInv' /\ Ordered
<1> SUFFICES ASSUME MeterInv, [M!Next]_(M!vars) PROVE MeterInv' /\ Ordered
  OBVIOUS
<1>0. Latencies \subseteq Nat /\ Savings \subseteq Nat
  BY PartsAssumption DEF M!MetricsConstants
<1>1. ASSUME UNCHANGED <<ring, episodes>> PROVE RingInv'
  BY <1>1 DEF MeterInv, RingInv, Newest
<1>2. ASSUME UNCHANGED <<counter, value, todo, settled>> PROVE WorkInv'
  BY <1>2 DEF MeterInv, WorkInv, SumOf, Units, Backlog, Owed, Waiting, Summed, Plans
<1>3. ASSUME NEW r \in Others, NEW outcome \in {"forwarded", "blocked", "neither"}, NEW n \in Nat,
             M!Serve(r, outcome, n)
      PROVE  MeterInv' /\ Ordered
  <2>1. WorkInv' /\ counter'["latencyN"] = counter["latencyN"] /\ settled' = settled
    BY <1>3, ServeWorks DEF MeterInv
  <2>2. UNCHANGED <<ring, loads, snap, episodes>> /\ todo' # todo
    <3>1. todo[r] = <<>> /\ todo' = [todo EXCEPT ![r] = M!Marks(outcome, n)]
      BY <1>3 DEF M!Serve
    <3>2. M!Marks(outcome, n) # <<>>
      BY MarksArePlans, PlanLengths
    <3>3. todo'[r] # todo[r]
      BY <3>1, <3>2 DEF MeterInv, WorkInv
    <3> QED
      BY <1>3, <3>3 DEF M!Serve
  <2>3. RingInv'
    BY <1>1, <2>2
  <2>4. counter["latencyN"] \in Nat /\ settled \in Nat
    BY DEF MeterInv, WorkInv
  <2>5. PollInv'
    BY <2>1, <2>2, <2>4, PollStands DEF MeterInv
  <2>6. ~M!LoadTriggers
    BY <2>2 DEF M!LoadTriggers
  <2> QED
    BY <2>1, <2>3, <2>5, <2>6 DEF MeterInv, Ordered
<1>4. ASSUME NEW r \in Others, M!Mark(r) PROVE MeterInv' /\ Ordered
  <2>1. WorkInv' /\ counter'["latencyN"] >= counter["latencyN"] /\ settled' >= settled
    BY <1>4, MarkWorks DEF MeterInv
  <2>2. PollInv'
    BY <1>4, <2>1, PollStands DEF MeterInv, M!Mark
  <2>3. RingInv'
    <3>1. CASE Head(todo[r]).name # "triggers"
      BY <1>1, <1>4, <3>1 DEF M!Mark
    <3>2. CASE Head(todo[r]).name = "triggers"
      <4> DEFINE n == Head(todo[r]).n
      <4>1. ring' = M!Push(n) /\ episodes' = Append(episodes, n) /\ todo[r] # <<>>
        BY <1>4, <3>2 DEF M!Mark
      <4>2. n \in Nat
        <5>1. value[r] \in Nat /\ todo[r] \in Plans(value[r])
          BY DEF MeterInv, WorkInv
        <5>2. todo[r] = ToRecord(value[r])
          BY <3>2, <4>1, <5>1, PlanSteps DEF Plans, Step
        <5> QED
          BY <5>1, <5>2, PlanSteps DEF Step
      <4> HIDE DEF n
      <4> QED
        BY <4>1, <4>2, PushKeepsNewest DEF MeterInv, RingInv, Newest
    <3> QED
      BY <3>1, <3>2
  <2>4. ~M!LoadTriggers
    <3>1. UNCHANGED loads
      BY <1>4 DEF M!Mark
    <3> QED
      BY <3>1 DEF M!LoadTriggers
  <2> QED
    BY <2>1, <2>2, <2>3, <2>4 DEF MeterInv, Ordered
<1>5. CASE M!BeginSnapshot
  <2>1. WorkInv' /\ RingInv' /\ PollInv'
    BY <1>1, <1>2, <1>5, BeginPolls DEF M!BeginSnapshot, MeterInv
  <2>2. loads = <<>>
    BY <1>5 DEF M!BeginSnapshot
  <2>3. ~M!LoadTriggers
    BY <2>2 DEF M!LoadTriggers
  <2> QED
    BY <2>1, <2>3 DEF MeterInv, Ordered
<1>6. CASE M!Load
  <2>1. WorkInv' /\ RingInv' /\ PollInv'
    BY <1>1, <1>2, <1>6, LoadPolls DEF M!Load
  <2>2. Head(loads) \in M!Counters
    BY <1>6 DEF M!Load
  <2>3. ~M!LoadTriggers
    BY <2>2 DEF M!LoadTriggers, M!Counters
  <2> QED
    BY <2>1, <2>3 DEF MeterInv, Ordered
<1>7. CASE M!LoadTriggers
  BY <1>1, <1>2, <1>7, LoadTriggersIsOrdered DEF M!LoadTriggers, MeterInv
<1>8. CASE M!Encode
  <2>1. loads = <<"encode">> /\ loads' = <<>> /\ snap' = M!Zero /\ UNCHANGED <<counter, settled>>
    BY <1>8 DEF M!Encode
  <2>2. WorkInv' /\ RingInv'
    BY <1>1, <1>2, <1>8 DEF M!Encode
  <2>3. /\ DOMAIN snap' = Fields /\ snap'["requests"] = 0 /\ snap'["latencyN"] = 0
        /\ snap'["settled"] = 0
    BY <2>1 DEF M!Zero, Fields, M!Counters
  <2>4. loads' \in Seq(Loadable) /\ counter'["latencyN"] \in Nat /\ settled' \in Nat
    BY <2>1, <2>2 DEF WorkInv
  <2>5. PollInv'
    BY <2>3, <2>4 DEF PollInv
  <2>6. ~M!LoadTriggers
    BY <2>1 DEF M!LoadTriggers
  <2> QED
    BY <2>2, <2>5, <2>6 DEF MeterInv, Ordered
<1>9. CASE UNCHANGED M!vars
  <2>1. UNCHANGED <<counter, value, todo, settled>> /\ UNCHANGED <<ring, episodes>>
        /\ UNCHANGED <<loads, snap>>
    BY <1>9 DEF M!vars
  <2>2. WorkInv' /\ RingInv'
    BY <1>1, <1>2, <2>1
  <2>3. PollInv'
    BY <2>1 DEF MeterInv, PollInv, Has
  <2>4. ~M!LoadTriggers
    BY <2>1 DEF M!LoadTriggers
  <2> QED
    BY <2>2, <2>3, <2>4 DEF MeterInv, Ordered
<1>10. ASSUME M!Next PROVE MeterInv' /\ Ordered
  <2>1. ASSUME NEW r \in Others, NEW l \in Latencies, M!Serve(r, "forwarded", l)
        PROVE  MeterInv' /\ Ordered
    BY <1>0, <1>3, <2>1
  <2>2. ASSUME NEW r \in Others, NEW s \in Savings, M!Serve(r, "blocked", s)
        PROVE  MeterInv' /\ Ordered
    BY <1>0, <1>3, <2>2
  <2>3. ASSUME NEW r \in Others, M!Serve(r, "neither", 0) PROVE MeterInv' /\ Ordered
    BY <1>3, <2>3
  <2> QED
    BY <1>4, <1>5, <1>6, <1>7, <1>8, <1>10, <2>1, <2>2, <2>3, Zenon DEF M!Next
<1> QED
  BY <1>9, <1>10

LEMMA InitMeter == M!Init => MeterInv
<1> SUFFICES ASSUME M!Init PROVE MeterInv
  OBVIOUS
<1>0. TriggerCap \in Nat \ {0}
  BY PartsAssumption DEF M!MetricsConstants
<1>1. RingInv
  BY <1>0 DEF M!Init, RingInv, Newest
<1>2. /\ counter \in [M!Counters -> Int] /\ counter["latencyN"] = 0 /\ counter["requests"] = 0
      /\ counter["latencyNs"] = 0 /\ value \in [Others -> Nat] /\ settled = 0
      /\ DOMAIN todo = Others /\ \A r \in Others : todo[r] = <<>> /\ todo[r] \in Plans(value[r])
  BY DEF M!Init, M!Counters, Plans
<1>3. \A r \in Others : ~Waiting(todo[r]) /\ ~Summed(todo[r])
  BY <1>2 DEF Waiting, Summed
<1>4. Units(Backlog) = {} /\ Units(Owed) = {}
  BY <1>3 DEF Units, Backlog, Owed
<1>5. WorkInv
  <2>1. IsFiniteSet(Units(Backlog)) /\ IsFiniteSet(Units(Owed)) /\ SumOf(Backlog) = 0 /\ SumOf(Owed) = 0
    BY <1>4, FS_EmptySet DEF SumOf
  <2>2. counter["latencyN"] \in Nat /\ settled \in Nat
        /\ counter["requests"] = counter["latencyN"] + SumOf(Backlog)
        /\ counter["latencyNs"] = settled + SumOf(Owed)
    BY <1>2, <2>1
  <2> QED
    BY <1>2, <2>1, <2>2 DEF WorkInv
<1>6. loads = <<>> /\ DOMAIN snap = Fields /\ snap["requests"] = 0 /\ snap["latencyN"] = 0
      /\ snap["settled"] = 0
  BY DEF M!Init, M!Zero, Fields, M!Counters
<1>7. PollInv
  BY <1>2, <1>6 DEF PollInv
<1> QED
  BY <1>1, <1>5, <1>7 DEF MeterInv

(* For any number of requests, any latencies and any capacity of the ring:  *)
(* however its loads interleave with the marks of the requests, a poll never *)
(* counts a latency sample whose latency or whose request it leaves out, and *)
(* its triggers are the newest, newest first.                               *)
THEOREM PollsAreOrdered == M!Spec => SnapshotIsOrdered
<1>1. M!Spec => [][Ordered]_(M!vars)
  BY InitMeter, StepMeter, PTL DEF M!Spec
<1> QED
  BY <1>1, PTL DEF SnapshotIsOrdered, M!SnapshotIsOrdered, Ordered

-----------------------------------------------------------------------------
(* Sums.  V!Sum is defined by recursion; it is first shown to satisfy its   *)
(* equation.                                                                *)
Adding(f, g, n) == IF n = 0 THEN 0 ELSE g[n - 1] + f[n]

SumsUpTo(f, g, n) == g = [i \in 0..n |-> Adding(f, g, i)]

LEMMA SumsExist == ASSUME NEW f PROVE \A n \in Nat : \E g : SumsUpTo(f, g, n)
<1> SUFFICES ASSUME \E n \in Nat : ~\E g : SumsUpTo(f, g, n) PROVE FALSE
  OBVIOUS
<1> DEFINE X == {n \in Nat : ~\E g : SumsUpTo(f, g, n)}
<1>1. PICK m \in X : \A n \in X : m <= n
  BY LeastNumber
<1>2. CASE m = 0
  <2> DEFINE g == [i \in 0..0 |-> 0]
  <2>1. SumsUpTo(f, g, 0)
    BY DEF SumsUpTo, Adding
  <2> QED
    BY <1>2, <2>1
<1>3. CASE m # 0
  <2>1. m \in Nat /\ m - 1 \in Nat /\ m - 1 \notin X
    BY <1>1, <1>3
  <2>2. PICK g : SumsUpTo(f, g, m - 1)
    BY <2>1
  <2> DEFINE h == [i \in 0..m |-> IF i < m THEN g[i] ELSE Adding(f, g, m)]
  <2>3. ASSUME NEW i \in 0..(m - 1) PROVE h[i] = g[i] /\ g[i] = Adding(f, g, i)
    <3>1. i \in 0..m /\ i < m
      BY <2>1
    <3>2. h[i] = g[i]
      BY <3>1
    <3>3. g[i] = Adding(f, g, i)
      BY <2>2 DEF SumsUpTo
    <3> QED
      BY <3>2, <3>3
  <2>4. ASSUME NEW i \in 0..m PROVE h[i] = Adding(f, h, i)
    <3>1. h[i] = Adding(f, g, i)
      <4>1. CASE i < m
        <5>1. i \in 0..(m - 1)
          BY <2>1, <4>1
        <5> HIDE DEF h
        <5> QED
          BY <2>3, <5>1
      <4>2. CASE ~(i < m)
        <5>1. i = m
          BY <2>1, <4>2
        <5>2. h[i] = IF i < m THEN g[i] ELSE Adding(f, g, m)
          OBVIOUS
        <5> HIDE DEF h
        <5> QED
          BY <4>2, <5>1, <5>2
      <4> QED
        BY <4>1, <4>2
    <3>2. i = 0 \/ i - 1 \in 0..(m - 1)
      BY <2>1
    <3>3. i # 0 => h[i - 1] = g[i - 1]
      BY <2>3, <3>2
    <3> HIDE DEF h
    <3> QED
      BY <3>1, <3>3 DEF Adding
  <2>5. h = [i \in 0..m |-> h[i]]
    OBVIOUS
  <2> HIDE DEF h
  <2>6. SumsUpTo(f, h, m)
    BY <2>4, <2>5 DEF SumsUpTo
  <2> QED
    BY <2>6
<1> QED
  BY <1>2, <1>3

LEMMA SumsAgree ==
  ASSUME NEW f, NEW g, NEW h, NEW n \in Nat, NEW k \in Nat,
         SumsUpTo(f, g, n), SumsUpTo(f, h, k), n <= k
  PROVE  g[n] = h[n]
<1> SUFFICES ASSUME g[n] # h[n] PROVE FALSE
  OBVIOUS
<1> DEFINE X == {i \in 0..n : g[i] # h[i]}
<1>1. PICK m \in X : \A i \in X : m <= i
  <2>1. n \in X /\ X \subseteq Nat
    OBVIOUS
  <2> QED
    BY <2>1, LeastNumber
<1>2. m \in 0..n /\ m \in 0..k /\ g[m] # h[m]
  OBVIOUS
<1>3. g[m] = Adding(f, g, m) /\ h[m] = Adding(f, h, m)
  BY <1>2 DEF SumsUpTo
<1>4. m # 0 => g[m - 1] = h[m - 1]
  <2> SUFFICES ASSUME m # 0 PROVE g[m - 1] = h[m - 1]
    OBVIOUS
  <2>1. m - 1 \in 0..n /\ ~(m <= m - 1)
    BY <1>2
  <2> QED
    BY <1>1, <2>1
<1> QED
  BY <1>2, <1>3, <1>4 DEF Adding

LEMMA SumIsRecursive ==
  ASSUME NEW f
  PROVE  V!Sum(f, 0) = 0 /\ \A n \in Nat : V!Sum(f, n + 1) = V!Sum(f, n) + f[n + 1]
<1> DEFINE G(n) == CHOOSE g : SumsUpTo(f, g, n)
           u == [n \in Nat |-> G(n)[n]]
<1>1. \A n \in Nat : SumsUpTo(f, G(n), n)
  BY SumsExist
<1> HIDE DEF G
<1>2. ASSUME NEW n \in Nat PROVE u[n] = Adding(f, u, n)
  <2>1. u[n] = G(n)[n]
    OBVIOUS
  <2>2. G(n)[n] = Adding(f, G(n), n)
    BY <1>1 DEF SumsUpTo
  <2>3. n # 0 => u[n - 1] = G(n)[n - 1]
    <3> SUFFICES ASSUME n # 0 PROVE u[n - 1] = G(n)[n - 1]
      OBVIOUS
    <3>1. n - 1 \in Nat /\ n - 1 <= n
      OBVIOUS
    <3>2. G(n - 1)[n - 1] = G(n)[n - 1]
      BY <1>1, <3>1, SumsAgree
    <3> QED
      BY <3>1, <3>2
  <2> HIDE DEF u
  <2> QED
    BY <2>1, <2>2, <2>3 DEF Adding
<1>3. u = [n \in Nat |-> u[n]]
  OBVIOUS
<1> HIDE DEF u
<1>4. u = [n \in Nat |-> Adding(f, u, n)]
  BY <1>2, <1>3
<1> DEFINE s == CHOOSE g : g = [n \in Nat |-> Adding(f, g, n)]
<1>5. s = [n \in Nat |-> Adding(f, s, n)]
  BY <1>4
<1>6. ASSUME NEW n PROVE V!Sum(f, n) = s[n]
  BY DEF V!Sum, Adding
<1> HIDE DEF s
<1>7. s[0] = 0
  BY <1>5 DEF Adding
<1>8. ASSUME NEW n \in Nat PROVE s[n + 1] = s[n] + f[n + 1]
  <2>1. n + 1 \in Nat /\ n + 1 # 0 /\ (n + 1) - 1 = n
    OBVIOUS
  <2>2. s[n + 1] = Adding(f, s, n + 1)
    BY <1>5, <2>1
  <2> QED
    BY <2>1, <2>2 DEF Adding
<1> QED
  BY <1>6, <1>7, <1>8

LEMMA Counting ==
  ASSUME NEW X, 0 \in X, \A n \in Nat : n \in X => n + 1 \in X
  PROVE  \A n \in Nat : n \in X
<1> SUFFICES ASSUME \E n \in Nat : n \notin X PROVE FALSE
  OBVIOUS
<1> DEFINE Y == {n \in Nat : n \notin X}
<1>1. PICK m \in Y : \A n \in Y : m <= n
  <2>1. Y \subseteq Nat /\ Y # {}
    OBVIOUS
  <2> QED
    BY <2>1, LeastNumber
<1>2. m \in Nat /\ m \notin X /\ m # 0
  BY <1>1
<1>3. m - 1 \in Nat /\ (m - 1) + 1 = m /\ ~(m <= m - 1)
  BY <1>2
<1>4. m - 1 \in X
  BY <1>1, <1>3
<1> QED
  BY <1>2, <1>3, <1>4

(* Weights: natural numbers from 1 to n.                                    *)
Weights(f, n) == \A i \in 1..n : f[i] \in Nat

LEMMA SumIsNat ==
  ASSUME NEW f, NEW n \in Nat, Weights(f, n) PROVE V!Sum(f, n) \in Nat
<1> DEFINE X == {k \in Nat : k <= n => V!Sum(f, k) \in Nat}
<1>1. 0 \in X
  BY SumIsRecursive
<1>2. ASSUME NEW k \in Nat, k \in X PROVE k + 1 \in X
  <2> SUFFICES ASSUME k + 1 <= n PROVE V!Sum(f, k + 1) \in Nat
    OBVIOUS
  <2>1. k + 1 \in 1..n /\ k <= n
    BY <1>2
  <2>2. V!Sum(f, k) \in Nat /\ f[k + 1] \in Nat
    BY <1>2, <2>1 DEF Weights
  <2>3. V!Sum(f, k + 1) = V!Sum(f, k) + f[k + 1]
    BY SumIsRecursive
  <2> QED
    BY <2>2, <2>3
<1> HIDE DEF X
<1>3. n \in X
  BY <1>1, <1>2, Counting
<1> QED
  BY <1>3 DEF X

(* What comes after the first d is a sum of its own.                        *)
LEMMA SumSplits ==
  ASSUME NEW f, NEW g, NEW d \in Nat, NEW n \in Nat, Weights(f, d + n),
         \A i \in 1..n : g[i] = f[d + i]
  PROVE  V!Sum(f, d + n) = V!Sum(f, d) + V!Sum(g, n) /\ V!Sum(f, d) \in Nat /\ V!Sum(g, n) \in Nat
<1> DEFINE X == {k \in Nat : k <= n => V!Sum(f, d + k) = V!Sum(f, d) + V!Sum(g, k)}
<1>0. /\ Weights(f, d) /\ Weights(g, n)
      /\ \A k \in 0..n : Weights(g, k)
  <2>1. \A i \in 1..d : i \in 1..(d + n)
    OBVIOUS
  <2>2. \A i \in 1..n : d + i \in 1..(d + n)
    OBVIOUS
  <2>3. \A k \in 0..n : \A i \in 1..k : i \in 1..n
    OBVIOUS
  <2> QED
    BY <2>1, <2>2, <2>3 DEF Weights
<1>1. V!Sum(f, d) \in Nat /\ V!Sum(g, n) \in Nat
  BY <1>0, SumIsNat
<1>2. 0 \in X
  <2>1. V!Sum(g, 0) = 0 /\ d + 0 = d
    BY SumIsRecursive
  <2> QED
    BY <1>1, <2>1
<1>3. ASSUME NEW k \in Nat, k \in X PROVE k + 1 \in X
  <2> SUFFICES ASSUME k + 1 <= n PROVE V!Sum(f, d + (k + 1)) = V!Sum(f, d) + V!Sum(g, k + 1)
    OBVIOUS
  <2>1. k + 1 \in 1..n /\ k <= n /\ k \in 0..n /\ d + k \in Nat /\ d + (k + 1) = (d + k) + 1
        /\ d + (k + 1) \in 1..(d + n)
    BY <1>3
  <2>2. V!Sum(f, d + k) = V!Sum(f, d) + V!Sum(g, k)
    BY <1>3, <2>1
  <2>3. V!Sum(f, (d + k) + 1) = V!Sum(f, d + k) + f[(d + k) + 1]
    BY <2>1, SumIsRecursive
  <2>4. V!Sum(g, k + 1) = V!Sum(g, k) + g[k + 1]
    BY SumIsRecursive
  <2>5. g[k + 1] = f[(d + k) + 1] /\ g[k + 1] \in Nat
    BY <2>1, <1>0 DEF Weights
  <2>6. V!Sum(g, k) \in Nat
    BY <1>0, <2>1, SumIsNat
  <2> QED
    BY <1>1, <2>1, <2>2, <2>3, <2>4, <2>5, <2>6
<1> HIDE DEF X
<1>4. n \in X
  BY <1>2, <1>3, Counting
<1> QED
  BY <1>1, <1>4 DEF X

LEMMA SumIsAtMost ==
  ASSUME NEW f, NEW g, NEW n \in Nat, Weights(f, n), Weights(g, n), \A i \in 1..n : f[i] <= g[i]
  PROVE  V!Sum(f, n) <= V!Sum(g, n)
<1> DEFINE X == {k \in Nat : k <= n => V!Sum(f, k) <= V!Sum(g, k)}
<1>1. 0 \in X
  BY SumIsRecursive
<1>2. ASSUME NEW k \in Nat, k \in X PROVE k + 1 \in X
  <2> SUFFICES ASSUME k + 1 <= n PROVE V!Sum(f, k + 1) <= V!Sum(g, k + 1)
    OBVIOUS
  <2>1. k + 1 \in 1..n /\ k <= n /\ \A i \in 1..k : i \in 1..n
    BY <1>2
  <2>2. f[k + 1] \in Nat /\ g[k + 1] \in Nat /\ f[k + 1] <= g[k + 1] /\ Weights(f, k) /\ Weights(g, k)
    BY <2>1 DEF Weights
  <2>3. V!Sum(f, k) \in Nat /\ V!Sum(g, k) \in Nat
    BY <2>2, SumIsNat
  <2>4. V!Sum(f, k + 1) = V!Sum(f, k) + f[k + 1] /\ V!Sum(g, k + 1) = V!Sum(g, k) + g[k + 1]
    BY SumIsRecursive
  <2>5. V!Sum(f, k) <= V!Sum(g, k)
    BY <1>2, <2>1
  <2> QED
    BY <2>2, <2>3, <2>4, <2>5
<1> HIDE DEF X
<1>3. n \in X
  BY <1>1, <1>2, Counting
<1> QED
  BY <1>3 DEF X

-----------------------------------------------------------------------------
(* The events of a ring, and their tokens.                                  *)
Events == [t : Nat, n : Nat]

TokensOf(s) == [i \in 1..Len(s) |-> s[i].n]

LEMMA TotalOfTokens ==
  ASSUME NEW s \in Seq(Events)
  PROVE  /\ V!Total(s) = V!Sum(TokensOf(s), Len(s)) /\ Weights(TokensOf(s), Len(s))
         /\ V!Total(s) \in Nat
<1>1. V!Total(s) = V!Sum(TokensOf(s), Len(s))
  BY DEF V!Total, TokensOf
<1>2. Weights(TokensOf(s), Len(s))
  <2>1. \A i \in 1..Len(s) : s[i] \in Events
    OBVIOUS
  <2>2. \A i \in 1..Len(s) : s[i].n \in Nat
    BY <2>1 DEF Events
  <2> QED
    BY <2>2 DEF Weights, TokensOf
<1>3. Len(s) \in Nat
  OBVIOUS
<1> QED
  BY <1>1, <1>2, <1>3, SumIsNat

LEMMA TotalSplits ==
  ASSUME NEW s \in Seq(Events), NEW d \in 0..Len(s)
  PROVE  /\ SubSeq(s, d + 1, Len(s)) \in Seq(Events)
         /\ V!Total(SubSeq(s, d + 1, Len(s))) = V!Total(s) - V!Total(SubSeq(s, 1, d))
<1> DEFINE x == SubSeq(s, d + 1, Len(s))
           y == SubSeq(s, 1, d)
           n == Len(s) - d
<1>1. n \in Nat /\ d \in Nat /\ d + n = Len(s)
  OBVIOUS
<1>2. x \in Seq(Events) /\ Len(x) = n /\ \A i \in 1..n : x[i] = s[d + i]
  <2> DEFINE a == d + 1
             b == Len(s)
  <2>1. a \in Int /\ b \in Int /\ 1 <= a /\ a <= b + 1 /\ b <= Len(s) /\ b - a + 1 = n
        /\ \A i \in 1..n : a + i - 1 = d + i
    OBVIOUS
  <2> HIDE DEF a, b, n
  <2>2. /\ SubSeq(s, a, b) \in Seq(Events) /\ Len(SubSeq(s, a, b)) = b - a + 1
        /\ \A i \in 1..(b - a + 1) : SubSeq(s, a, b)[i] = s[a + i - 1]
    BY <2>1, Slice
  <2> QED
    BY <2>1, <2>2 DEF a, b
<1>3. y \in Seq(Events) /\ Len(y) = d /\ \A i \in 1..d : y[i] = s[i]
  OBVIOUS
<1> HIDE DEF x, y, n
<1>4. \A i \in 1..n : TokensOf(x)[i] = TokensOf(s)[d + i]
  <2>1. \A i \in 1..n : d + i \in 1..Len(s)
    BY <1>1
  <2> QED
    BY <1>2, <2>1 DEF TokensOf
<1>5. /\ V!Sum(TokensOf(s), d + n) = V!Sum(TokensOf(s), d) + V!Sum(TokensOf(x), n)
      /\ V!Sum(TokensOf(s), d) \in Nat /\ V!Sum(TokensOf(x), n) \in Nat
  <2>1. Weights(TokensOf(s), d + n)
    BY <1>1, TotalOfTokens
  <2> DEFINE f == TokensOf(s)
             g == TokensOf(x)
  <2>2. \A i \in 1..n : g[i] = f[d + i]
    BY <1>4
  <2> HIDE DEF f, g
  <2>3. Weights(f, d + n)
    BY <2>1 DEF f
  <2>4. V!Sum(f, d + n) = V!Sum(f, d) + V!Sum(g, n) /\ V!Sum(f, d) \in Nat /\ V!Sum(g, n) \in Nat
    BY <1>1, <2>2, <2>3, SumSplits
  <2> QED
    BY <2>4 DEF f, g
<1>6. V!Sum(TokensOf(s), d) = V!Sum(TokensOf(y), d)
  <2>1. \A i \in 1..d : TokensOf(y)[i] = TokensOf(s)[0 + i]
    <3>1. \A i \in 1..d : i \in 1..Len(s) /\ 0 + i = i
      BY <1>1
    <3> QED
      BY <1>3, <3>1 DEF TokensOf
  <2>2. Weights(TokensOf(s), 0 + d)
    <3>1. 0 + d = d /\ \A i \in 1..d : i \in 1..Len(s)
      BY <1>1
    <3> QED
      BY <3>1, TotalOfTokens DEF Weights
  <2>3. V!Sum(TokensOf(s), 0 + d) = V!Sum(TokensOf(s), 0) + V!Sum(TokensOf(y), d)
        /\ V!Sum(TokensOf(y), d) \in Nat
    BY <1>1, <2>1, <2>2, SumSplits
  <2>4. V!Sum(TokensOf(s), 0) = 0 /\ 0 + d = d
    BY <1>1, SumIsRecursive
  <2> QED
    BY <2>3, <2>4
<1>7. V!Total(s) = V!Sum(TokensOf(s), d + n) /\ V!Total(x) = V!Sum(TokensOf(x), n)
      /\ V!Total(y) = V!Sum(TokensOf(y), d)
  BY <1>1, <1>2, <1>3, TotalOfTokens
<1>8. V!Total(x) = V!Total(s) - V!Total(y)
  BY <1>5, <1>6, <1>7
<1> QED
  BY <1>2, <1>8 DEF x, y

LEMMA TotalAppends ==
  ASSUME NEW s \in Seq(Events), NEW e \in Events
  PROVE  Append(s, e) \in Seq(Events) /\ V!Total(Append(s, e)) = V!Total(s) + e.n
<1> DEFINE x == Append(s, e)
           n == Len(s)
<1>1. n \in Nat /\ x \in Seq(Events) /\ Len(x) = n + 1 /\ x[n + 1] = e /\ \A i \in 1..n : x[i] = s[i]
  OBVIOUS
<1> HIDE DEF x, n
<1>2. V!Sum(TokensOf(x), n + 1) = V!Sum(TokensOf(x), n) + TokensOf(x)[n + 1]
  BY <1>1, SumIsRecursive
<1>3. TokensOf(x)[n + 1] = e.n
  BY <1>1 DEF TokensOf
<1>4. V!Sum(TokensOf(x), n) = V!Sum(TokensOf(s), n)
  <2>1. 0 + n = n /\ \A i \in 1..n : i \in 1..(n + 1) /\ 0 + i = i
    BY <1>1
  <2>2. \A i \in 1..n : TokensOf(s)[i] = TokensOf(x)[0 + i]
    BY <1>1, <2>1 DEF TokensOf, n
  <2>3. Weights(TokensOf(x), 0 + n)
    BY <1>1, <2>1, TotalOfTokens DEF Weights
  <2>4. V!Sum(TokensOf(x), 0 + n) = V!Sum(TokensOf(x), 0) + V!Sum(TokensOf(s), n)
        /\ V!Sum(TokensOf(s), n) \in Nat
    BY <1>1, <2>2, <2>3, SumSplits
  <2>5. V!Sum(TokensOf(x), 0) = 0
    BY SumIsRecursive
  <2> QED
    BY <2>1, <2>4, <2>5
<1>5. V!Total(s) = V!Sum(TokensOf(s), n) /\ V!Total(x) = V!Sum(TokensOf(x), n + 1)
  BY <1>1, TotalOfTokens DEF n
<1> QED
  BY <1>1, <1>2, <1>3, <1>4, <1>5 DEF x

-----------------------------------------------------------------------------
(* The heads of a sequence in time order that are not after the cutoff.     *)
InOrder(s) == \A i, j \in 1..Len(s) : i <= j => s[i].t <= s[j].t

LEMMA ExpiredIsOld ==
  ASSUME NEW U, NEW s \in Seq(U), \A i \in 1..Len(s) : s[i].t \in Nat, InOrder(s), NEW cut \in Int
  PROVE  /\ V!Expired(s, cut) \in 0..Len(s)
         /\ \A i \in 1..Len(s) : s[i].t > cut <=> i > V!Expired(s, cut)
<1> DEFINE P(i) == /\ \A j \in 1..i : s[j].t <= cut
                   /\ i < Len(s) => s[i + 1].t > cut
           X == {i \in 0..Len(s) : i < Len(s) => s[i + 1].t > cut}
           d == V!Expired(s, cut)
<1>0. Len(s) \in Nat
  OBVIOUS
<1>1. PICK m \in X : \A i \in X : m <= i
  <2>1. Len(s) \in X /\ X \subseteq Nat
    BY <1>0
  <2> QED
    BY <2>1, LeastNumber
<1>2. m \in 0..Len(s) /\ (m < Len(s) => s[m + 1].t > cut)
  BY <1>1
<1>3. \A j \in 1..m : s[j].t <= cut
  <2> SUFFICES ASSUME NEW j \in 1..m PROVE s[j].t <= cut
    OBVIOUS
  <2>1. j - 1 \in 0..Len(s) /\ ~(m <= j - 1) /\ j - 1 < Len(s) /\ (j - 1) + 1 = j /\ j \in 1..Len(s)
    BY <1>0, <1>2
  <2>2. j - 1 \notin X
    BY <1>1, <2>1
  <2>3. ~(s[j].t > cut)
    BY <2>1, <2>2
  <2> QED
    BY <2>1, <2>3
<1>4. d = CHOOSE i \in 0..Len(s) : P(i)
  BY DEF V!Expired
<1>5. \E i \in 0..Len(s) : P(i)
  BY <1>2, <1>3
<1> HIDE DEF d
<1>6. d \in 0..Len(s) /\ P(d)
  BY <1>4, <1>5
<1>7. ASSUME NEW i \in 1..Len(s) PROVE s[i].t > cut <=> i > d
  <2>1. CASE i > d
    <3>1. d < Len(s) /\ d + 1 \in 1..Len(s) /\ d + 1 <= i
      BY <1>0, <1>6, <2>1
    <3>2. s[d + 1].t > cut /\ s[d + 1].t <= s[i].t /\ s[i].t \in Nat /\ s[d + 1].t \in Nat
      BY <1>6, <3>1 DEF InOrder
    <3> QED
      BY <2>1, <3>2
  <2>2. CASE ~(i > d)
    <3>1. i \in 1..d
      BY <1>0, <1>6, <2>2
    <3>2. s[i].t <= cut /\ s[i].t \in Nat
      BY <1>6, <3>1
    <3> QED
      BY <2>2, <3>2
  <2> QED
    BY <2>1, <2>2
<1> QED
  BY <1>6, <1>7 DEF d

-----------------------------------------------------------------------------
Observed == [t : Nat, n : Nat, pass : BOOLEAN]

(* The ring is the last k observations, without their verdicts.             *)
TailOf(r, h, k) ==
  /\ r \in Seq(Events) /\ Len(r) = k /\ k <= Len(h)
  /\ \A i \in 1..k : r[i].t = h[(Len(h) - k) + i].t /\ r[i].n = h[(Len(h) - k) + i].n

(* Exactly the last c observations are after the cutoff.                    *)
Recent(h, cut, c) ==
  c \in 0..Len(h) /\ \A i \in 1..Len(h) : h[i].t > cut <=> i > Len(h) - c

LEMMA SmallerOf == \A m, n : V!Smaller(m, n) = IF m <= n THEN m ELSE n
BY DEF V!Smaller

(* Observing o: the ring with its event is the tail of what was observed.   *)
LEMMA RingGrows ==
  ASSUME NEW h \in Seq(Observed), NEW r, NEW k \in Nat, TailOf(r, h, k), NEW o \in Observed, NEW e \in Events,
         e.t = o.t, e.n = o.n
  PROVE  TailOf(Append(r, e), Append(h, o), k + 1)
<1> DEFINE q == Append(r, e)
           g == Append(h, o)
<1>1. /\ Len(h) \in Nat /\ k <= Len(h) /\ r \in Seq(Events) /\ Len(r) = k
  BY DEF TailOf
<1>2. /\ q \in Seq(Events) /\ Len(q) = k + 1 /\ q[k + 1] = e /\ \A i \in 1..k : q[i] = r[i]
  BY <1>1
<1>3. /\ Len(g) = Len(h) + 1 /\ g[Len(h) + 1] = o /\ \A i \in 1..Len(h) : g[i] = h[i]
  BY <1>1
<1> HIDE DEF q, g
<1>4. ASSUME NEW i \in 1..(k + 1)
      PROVE  q[i].t = g[(Len(g) - (k + 1)) + i].t /\ q[i].n = g[(Len(g) - (k + 1)) + i].n
  <2>0. (Len(g) - (k + 1)) + i = (Len(h) - k) + i
    BY <1>1, <1>3
  <2>1. CASE i \in 1..k
    <3>1. (Len(h) - k) + i \in 1..Len(h)
      BY <1>1, <2>1
    <3>2. q[i] = r[i] /\ g[(Len(h) - k) + i] = h[(Len(h) - k) + i]
      BY <1>2, <1>3, <2>1, <3>1
    <3> QED
      BY <2>0, <2>1, <3>2 DEF TailOf
  <2>2. CASE i = k + 1
    <3>1. (Len(h) - k) + i = Len(h) + 1
      BY <1>1, <2>2
    <3> QED
      BY <1>2, <1>3, <2>0, <2>2, <3>1
  <2> QED
    BY <2>1, <2>2
<1>5. k + 1 <= Len(g)
  BY <1>1, <1>3
<1> QED
  BY <1>2, <1>4, <1>5 DEF TailOf, q, g

(* Dropping heads of a tail leaves a tail.                                  *)
LEMMA TailShrinks ==
  ASSUME NEW h \in Seq(Observed), NEW q, NEW k \in Nat, TailOf(q, h, k), NEW d \in 0..k
  PROVE  TailOf(SubSeq(q, d + 1, Len(q)), h, k - d)
<1> DEFINE a == d + 1
           b == Len(q)
           n == k - d
<1>1. q \in Seq(Events) /\ b = k /\ k <= Len(h) /\ Len(h) \in Nat /\ n \in 0..k
  BY DEF TailOf
<1>2. a \in Int /\ b \in Int /\ 1 <= a /\ a <= b + 1 /\ b <= Len(q) /\ b - a + 1 = n
        /\ \A i \in 1..n : a + i - 1 = d + i
  BY <1>1
<1> HIDE DEF a, b, n
<1> DEFINE x == SubSeq(q, a, b)
<1>3. /\ x \in Seq(Events) /\ Len(x) = b - a + 1
      /\ \A i \in 1..(b - a + 1) : x[i] = q[a + i - 1]
  BY <1>1, <1>2, Slice
<1> HIDE DEF x
<1>4. x \in Seq(Events) /\ Len(x) = n /\ \A i \in 1..n : x[i] = q[d + i]
  BY <1>2, <1>3
<1>5. ASSUME NEW i \in 1..n PROVE x[i].t = h[(Len(h) - n) + i].t /\ x[i].n = h[(Len(h) - n) + i].n
  <2>1. d + i \in 1..k /\ (Len(h) - k) + (d + i) = (Len(h) - n) + i
    BY <1>1 DEF n
  <2>2. q[d + i].t = h[(Len(h) - k) + (d + i)].t /\ q[d + i].n = h[(Len(h) - k) + (d + i)].n
    BY <2>1 DEF TailOf
  <2> QED
    BY <1>4, <2>1, <2>2
<1>6. TailOf(x, h, n)
  BY <1>1, <1>4, <1>5 DEF TailOf
<1> QED
  BY <1>6 DEF x, a, b, n

LEMMA TailInOrder ==
  ASSUME NEW h \in Seq(Observed), InOrder(h), NEW q, NEW k \in Nat, TailOf(q, h, k)
  PROVE  InOrder(q) /\ \A i \in 1..Len(q) : q[i].t \in Nat
<1>1. q \in Seq(Events) /\ Len(q) = k /\ k <= Len(h) /\ Len(h) \in Nat
  BY DEF TailOf
<1>2. \A i \in 1..Len(q) : q[i] \in Events
  BY <1>1
<1>3. ASSUME NEW i \in 1..Len(q), NEW j \in 1..Len(q), i <= j PROVE q[i].t <= q[j].t
  <2>1. /\ (Len(h) - k) + i \in 1..Len(h) /\ (Len(h) - k) + j \in 1..Len(h)
        /\ (Len(h) - k) + i <= (Len(h) - k) + j
    BY <1>1, <1>3
  <2>2. h[(Len(h) - k) + i].t <= h[(Len(h) - k) + j].t
    BY <2>1 DEF InOrder
  <2>3. q[i].t = h[(Len(h) - k) + i].t /\ q[j].t = h[(Len(h) - k) + j].t
    BY <1>1 DEF TailOf
  <2> QED
    BY <2>2, <2>3
<1> QED
  BY <1>2, <1>3 DEF InOrder, Events

(* One ring through velocityState.append: it was the newest of c recent     *)
(* observations, and is the newest of those that are recent now.            *)
Before(h, r, c, n, o, horizon) ==
  /\ h \in Seq(Observed) /\ c \in 0..Len(h) /\ TailOf(r, h, V!Smaller(c, MaxEvents))
  /\ n \in Nat /\ o \in Observed /\ o.t = clock /\ o.n = n /\ clock \in Nat
  /\ InOrder(Append(h, o)) /\ horizon \in Nat \ {0}
  /\ \A i \in 1..Len(h) : i <= Len(h) - c => h[i].t <= clock - horizon

After(g, x, horizon) ==
  \E k \in 0..Len(g) : /\ Recent(g, clock - horizon, k)
                      /\ TailOf(x.ring, g, V!Smaller(k, MaxEvents))
                      /\ x.sum = V!Total(x.ring)

LEMMA RingStep ==
  ASSUME NEW h, NEW r, NEW c, NEW n, NEW o, NEW horizon, Before(h, r, c, n, o, horizon)
  PROVE  After(Append(h, o),
               V!Cap(V!Expire(Append(r, [t |-> clock, n |-> n]), V!Total(r) + n, horizon)), horizon)
<1>a. /\ h \in Seq(Observed) /\ c \in 0..Len(h) /\ TailOf(r, h, V!Smaller(c, MaxEvents))
      /\ n \in Nat /\ o \in Observed /\ o.t = clock /\ o.n = n /\ clock \in Nat
      /\ InOrder(Append(h, o)) /\ horizon \in Nat \ {0}
  BY DEF Before
<1>b. \A i \in 1..Len(h) : i <= Len(h) - c => h[i].t <= clock - horizon
  BY DEF Before
<1> USE <1>a
<1> DEFINE e == [t |-> clock, n |-> n]
           q == Append(r, e)
           g == Append(h, o)
           cut == clock - horizon
           m == V!Smaller(c, MaxEvents)
           l == Len(h)
<1>0. MaxEvents \in Nat \ {0} /\ cut \in Int /\ clock > cut /\ l \in Nat
  BY PartsAssumption DEF V!VelocityConstants
<1>1. m \in 0..c /\ m <= MaxEvents /\ (m < MaxEvents => m = c) /\ m \in Nat
  BY <1>0, SmallerOf
<1>2. e \in Events /\ e.t = clock /\ e.n = n
  BY DEF Events
<1> HIDE DEF m, e
<1>3. TailOf(q, g, m + 1)
  BY <1>1, <1>2, RingGrows DEF m
<1>4. g \in Seq(Observed) /\ Len(g) = l + 1 /\ g[l + 1] = o /\ \A i \in 1..l : g[i] = h[i]
  OBVIOUS
<1>5. V!Total(q) = V!Total(r) + n /\ q \in Seq(Events) /\ Len(q) = m + 1
  BY <1>2, <1>3, TotalAppends DEF TailOf
<1> HIDE DEF q, g, l, cut
<1>6. InOrder(g) /\ \A i \in 1..Len(g) : g[i].t \in Nat
  <2>1. InOrder(g)
    BY DEF g
  <2>2. \A i \in 1..Len(g) : g[i] \in Observed
    BY <1>4
  <2> QED
    BY <2>1, <2>2 DEF Observed
<1> DEFINE D == V!Expired(g, cut)
           d == V!Expired(q, cut)
           k == (l + 1) - D
<1>7. D \in 0..(l + 1) /\ \A i \in 1..(l + 1) : g[i].t > cut <=> i > D
  BY <1>0, <1>4, <1>6, ExpiredIsOld
<1>8. d \in 0..(m + 1) /\ \A i \in 1..(m + 1) : q[i].t > cut <=> i > d
  <2>1. InOrder(q) /\ \A i \in 1..Len(q) : q[i].t \in Nat
    BY <1>1, <1>3, <1>4, <1>6, TailInOrder
  <2> QED
    BY <1>0, <1>5, <2>1, ExpiredIsOld
<1> HIDE DEF D, d
<1>9. \A i \in 1..(m + 1) : i > d <=> ((l + 1) - (m + 1)) + i > D
  <2> SUFFICES ASSUME NEW i \in 1..(m + 1) PROVE i > d <=> ((l + 1) - (m + 1)) + i > D
    OBVIOUS
  <2>1. q[i].t = g[((l + 1) - (m + 1)) + i].t
    BY <1>3, <1>4 DEF TailOf
  <2>2. ((l + 1) - (m + 1)) + i \in 1..(l + 1)
    BY <1>0, <1>1 DEF l
  <2> QED
    BY <1>7, <1>8, <2>1, <2>2
<1>10. D < l + 1
  <2>1. g[l + 1].t > cut /\ l + 1 \in 1..(l + 1)
    BY <1>0, <1>4
  <2> QED
    BY <1>0, <1>7, <2>1
<1>11. k \in 0..(l + 1) /\ k >= 1 /\ (l + 1) - k = D
  BY <1>0, <1>7, <1>10
<1>12. Recent(g, cut, k)
  BY <1>4, <1>7, <1>11 DEF Recent
<1>13. k <= c + 1
  <2> SUFFICES ASSUME ~(k <= c + 1) PROVE FALSE
    OBVIOUS
  <2>1. l - c \in 1..l /\ l - c > D /\ l - c \in 1..(l + 1) /\ l - c <= l - c
    BY <1>0, <1>7, <1>11 DEF l
  <2>2. g[l - c].t > cut /\ g[l - c] = h[l - c]
    BY <1>4, <1>7, <2>1
  <2>3. h[l - c].t <= cut
    BY <1>b, <2>1 DEF l, cut
  <2>4. g[l - c].t \in Nat
    BY <1>4, <1>6, <2>1
  <2> QED
    BY <1>0, <2>2, <2>3, <2>4
<1>14. d < m + 1 /\ (m + 1) - d = IF k <= m + 1 THEN k ELSE m + 1
  <2>1. m + 1 \in 1..(m + 1) /\ ((l + 1) - (m + 1)) + (m + 1) = l + 1
    BY <1>0, <1>1
  <2>2. d < m + 1
    BY <1>0, <1>1, <1>8, <1>9, <1>10, <2>1
  <2>3. d + 1 \in 1..(m + 1) /\ d + 1 > d
    BY <1>1, <1>8, <2>2
  <2>4. ((l + 1) - (m + 1)) + (d + 1) > D
    BY <1>9, <2>3
  <2>5. d > 0 => ~(((l + 1) - (m + 1)) + d > D)
    <3> SUFFICES ASSUME d > 0 PROVE ~(((l + 1) - (m + 1)) + d > D)
      OBVIOUS
    <3>1. d \in 1..(m + 1) /\ ~(d > d)
      BY <1>1, <1>8
    <3> QED
      BY <1>9, <3>1
  <2> QED
    BY <1>0, <1>1, <1>7, <1>8, <1>11, <2>2, <2>4, <2>5
<1> DEFINE y == SubSeq(q, d + 1, Len(q))
           j == (m + 1) - d
<1>15. j \in 1..(m + 1) /\ j \in Nat
  BY <1>1, <1>8, <1>14
<1>16. TailOf(y, g, j) /\ V!Total(y) = V!Total(q) - V!Total(SubSeq(q, 1, d))
  <2>1. d \in 0..Len(q) /\ m + 1 \in Nat
    BY <1>1, <1>5, <1>8
  <2>2. TailOf(y, g, (m + 1) - d)
    BY <1>3, <1>4, <1>8, <2>1, TailShrinks
  <2> QED
    BY <1>5, <2>1, <2>2, TotalSplits
<1> DEFINE z == V!Expire(q, V!Total(r) + n, horizon)
<1>17. z.ring = y /\ z.sum = V!Total(y)
  <2>1. z.ring = y /\ z.sum = (V!Total(r) + n) - V!Total(SubSeq(q, 1, d))
    BY DEF V!Expire, d, cut
  <2> QED
    BY <1>5, <1>16, <2>1
<1> HIDE DEF k, j, y, z
<1> DEFINE x == V!Cap(z)
<1>18. Len(y) = j
  BY <1>16 DEF TailOf
<1>19. TailOf(x.ring, g, V!Smaller(k, MaxEvents)) /\ x.sum = V!Total(x.ring)
  <2>1. CASE j <= MaxEvents
    <3>1. x = z
      BY <1>0, <1>15, <1>17, <1>18, <2>1 DEF V!Cap
    <3>2. j = V!Smaller(k, MaxEvents)
      BY <1>0, <1>1, <1>11, <1>13, <1>14, <2>1, SmallerOf DEF j
    <3> QED
      BY <1>16, <1>17, <3>1, <3>2
  <2>2. CASE j > MaxEvents
    <3>1. j = MaxEvents + 1 /\ V!Smaller(k, MaxEvents) = MaxEvents
      BY <1>0, <1>1, <1>11, <1>14, <1>15, <2>2, SmallerOf DEF j
    <3>2. x = [ring |-> V!LastN(y, MaxEvents), sum |-> z.sum - V!Total(SubSeq(y, 1, Len(y) - MaxEvents))]
      BY <1>0, <1>15, <1>17, <1>18, <2>2 DEF V!Cap
    <3>3. V!LastN(y, MaxEvents) = SubSeq(y, 1 + 1, Len(y)) /\ Len(y) - MaxEvents = 1 /\ j - 1 = MaxEvents
      <4>1. Len(y) - MaxEvents = 1 /\ j - 1 = MaxEvents /\ Len(y) - MaxEvents + 1 = 1 + 1
        BY <1>0, <1>18, <3>1
      <4> QED
        BY <4>1 DEF V!LastN
    <3>4. TailOf(SubSeq(y, 1 + 1, Len(y)), g, j - 1)
      <4>1. 1 \in 0..j
        BY <1>15
      <4> QED
        BY <1>4, <1>15, <1>16, <4>1, TailShrinks
    <3>5. V!Total(SubSeq(y, 1 + 1, Len(y))) = V!Total(y) - V!Total(SubSeq(y, 1, 1))
      <4>1. y \in Seq(Events) /\ 1 \in 0..Len(y)
        BY <1>15, <1>16, <1>18 DEF TailOf
      <4> QED
        BY <4>1, TotalSplits
    <3>6. x.ring = V!LastN(y, MaxEvents) /\ x.sum = z.sum - V!Total(SubSeq(y, 1, Len(y) - MaxEvents))
      BY <3>2
    <3> QED
      BY <1>17, <3>1, <3>3, <3>4, <3>5, <3>6
  <2> QED
    BY <1>0, <1>15, <2>1, <2>2
<1> HIDE DEF x
<1>20. k \in 0..Len(g)
  BY <1>4, <1>11
<1>21. /\ Recent(g, cut, k) /\ TailOf(x.ring, g, V!Smaller(k, MaxEvents)) /\ x.sum = V!Total(x.ring)
  BY <1>12, <1>19
<1> QED
  <2>1. After(g, x, horizon)
    BY <1>20, <1>21 DEF After, cut
  <2> QED
    BY <2>1 DEF x, z, g, q, e

-----------------------------------------------------------------------------
PassTokens(s) == [i \in 1..Len(s) |-> IF s[i].pass THEN s[i].n ELSE 0]

LEMMA AdmittedTokens ==
  ASSUME NEW s \in Seq(Observed)
  PROVE  /\ V!Admitted(s) = V!Sum(PassTokens(s), Len(s)) /\ Weights(PassTokens(s), Len(s))
         /\ V!Admitted(s) \in Nat
<1>1. V!Admitted(s) = V!Sum(PassTokens(s), Len(s))
  BY DEF V!Admitted, PassTokens
<1>2. Weights(PassTokens(s), Len(s))
  <2>1. \A i \in 1..Len(s) : s[i] \in Observed
    OBVIOUS
  <2>2. \A i \in 1..Len(s) : s[i].n \in Nat
    BY <2>1 DEF Observed
  <2> QED
    BY <2>2 DEF Weights, PassTokens
<1>3. Len(s) \in Nat
  OBVIOUS
<1> QED
  BY <1>1, <1>2, <1>3, SumIsNat

LEMMA LastOnes ==
  ASSUME NEW U, NEW h \in Seq(U), NEW k \in 0..Len(h)
  PROVE  /\ V!LastN(h, k) \in Seq(U) /\ Len(V!LastN(h, k)) = k
         /\ \A i \in 1..k : V!LastN(h, k)[i] = h[(Len(h) - k) + i]
<1> DEFINE a == Len(h) - k + 1
           b == Len(h)
<1>1. a \in Int /\ b \in Int /\ 1 <= a /\ a <= b + 1 /\ b <= Len(h) /\ b - a + 1 = k
      /\ \A i \in 1..k : a + i - 1 = (Len(h) - k) + i
  OBVIOUS
<1>2. V!LastN(h, k) = SubSeq(h, a, b)
  BY DEF V!LastN
<1> HIDE DEF a, b
<1>3. /\ SubSeq(h, a, b) \in Seq(U) /\ Len(SubSeq(h, a, b)) = b - a + 1
      /\ \A i \in 1..(b - a + 1) : SubSeq(h, a, b)[i] = h[a + i - 1]
  BY <1>1, Slice
<1> QED
  BY <1>1, <1>2, <1>3

(* What the state of an agent says of its observations.                     *)
Known(st, h) ==
  /\ h \in Seq(Observed) /\ InOrder(h)
  /\ \A i \in 1..Len(h) : h[i].t <= st.lastAt /\ h[i].t > st.lastAt - Window
  /\ TailOf(st.events, h, V!Smaller(Len(h), MaxEvents)) /\ st.sumLong = V!Total(st.events)
  /\ \E c \in 0..Len(h) : /\ Recent(h, st.lastAt - ShortWindow, c)
                          /\ TailOf(st.short, h, V!Smaller(c, MaxEvents))
  /\ st.sumShort = V!Total(st.short)
  /\ V!Admitted(V!LastN(h, V!Smaller(Len(h), MaxEvents))) <= BurstTokens

LEMMA NothingIsKnown == Known(V!FreshState, <<>>)
<1> DEFINE st == V!FreshState
           h == <<>>
<1>0. MaxEvents \in Nat /\ BurstTokens \in Nat
  BY PartsAssumption DEF V!VelocityConstants
<1>1. st.events = <<>> /\ st.short = <<>> /\ st.sumLong = 0 /\ st.sumShort = 0
  BY DEF V!FreshState
<1>2. h \in Seq(Observed) /\ h \in Seq(Events) /\ Len(h) = 0 /\ 1..0 = {}
  OBVIOUS
<1> HIDE DEF st, h
<1>3. V!Smaller(0, MaxEvents) = 0
  BY <1>0, SmallerOf
<1>4. V!Total(h) = 0
  BY <1>2, TotalOfTokens, SumIsRecursive
<1>5. V!Admitted(V!LastN(h, 0)) = 0
  <2> DEFINE k == 0
  <2>1. k \in 0..Len(h)
    BY <1>2
  <2> HIDE DEF k
  <2>1a. h \in Seq(Observed)
    BY <1>2
  <2>2. V!LastN(h, k) \in Seq(Observed) /\ Len(V!LastN(h, k)) = k
    BY <2>1, <2>1a, LastOnes
  <2>3. V!Admitted(V!LastN(h, k)) = V!Sum(PassTokens(V!LastN(h, k)), k)
    BY <2>2, AdmittedTokens
  <2> QED
    BY <2>3, SumIsRecursive DEF k
<1>6. TailOf(h, h, 0) /\ InOrder(h)
  BY <1>2 DEF TailOf, InOrder
<1>7. Recent(h, st.lastAt - ShortWindow, 0) /\ 0 \in 0..Len(h)
  BY <1>2 DEF Recent
<1>8. \A i \in 1..Len(h) : FALSE
  BY <1>2
<1>9. st.events = h /\ st.short = h
  BY <1>1 DEF h
<1>10. Known(st, h)
  BY <1>0, <1>1, <1>2, <1>3, <1>4, <1>5, <1>6, <1>7, <1>8, <1>9 DEF Known
<1> QED
  BY <1>10 DEF st, h

(* The tail of g is the tail of what is left when heads of g are dropped.   *)
LEMMA TailTrims ==
  ASSUME NEW g, NEW f, NEW r, NEW k \in Nat, NEW x \in Nat, TailOf(r, g, k), Len(f) \in Nat,
         k <= Len(f), Len(g) = Len(f) + x, \A i \in 1..Len(f) : f[i] = g[x + i]
  PROVE  TailOf(r, f, k)
<1>1. ASSUME NEW i \in 1..k
      PROVE  r[i].t = f[(Len(f) - k) + i].t /\ r[i].n = f[(Len(f) - k) + i].n
  <2>1. (Len(f) - k) + i \in 1..Len(f) /\ x + ((Len(f) - k) + i) = (Len(g) - k) + i
    OBVIOUS
  <2>2. f[(Len(f) - k) + i] = g[(Len(g) - k) + i]
    BY <2>1
  <2> QED
    BY <2>2 DEF TailOf
<1> QED
  BY <1>1 DEF TailOf

(* The newest MaxEvents observations admit no more than before, when the    *)
(* one that comes is refused.                                               *)
LEMMA RefusalAdmitsNothing ==
  ASSUME NEW h \in Seq(Observed), NEW f \in Seq(Observed), NEW E \in 0..Len(h), Len(f) = (Len(h) - E) + 1,
         \A i \in 1..(Len(h) - E) : f[i] = h[E + i], ~f[Len(f)].pass,
         V!Admitted(V!LastN(h, V!Smaller(Len(h), MaxEvents))) <= BurstTokens
  PROVE  V!Admitted(V!LastN(f, V!Smaller(Len(f), MaxEvents))) <= BurstTokens
<1> DEFINE K == V!Smaller(Len(f), MaxEvents)
           J == V!Smaller(Len(h), MaxEvents)
           n == K - 1
           d == J - n
           p == V!LastN(f, K)
           q == V!LastN(h, J)
<1>0. MaxEvents \in Nat \ {0} /\ BurstTokens \in Nat /\ Len(h) \in Nat /\ Len(f) \in Nat
  BY PartsAssumption DEF V!VelocityConstants
<1>1. K \in 0..Len(f) /\ J \in 0..Len(h) /\ n \in Nat /\ d \in Nat /\ d + n = J /\ K = n + 1 /\ J \in Nat
  BY <1>0, SmallerOf
<1> HIDE DEF K, J
<1>2. p \in Seq(Observed) /\ Len(p) = K /\ \A i \in 1..K : p[i] = f[(Len(f) - K) + i]
  <2>1. K \in 0..Len(f) /\ f \in Seq(Observed)
    BY <1>1
  <2> QED
    BY <2>1, LastOnes
<1>3. q \in Seq(Observed) /\ Len(q) = J /\ \A i \in 1..J : q[i] = h[(Len(h) - J) + i]
  BY <1>1, LastOnes
<1> HIDE DEF n, d, p, q
<1> DEFINE u == PassTokens(q)
           w == PassTokens(p)
<1>4. V!Admitted(p) = V!Sum(w, n + 1) /\ V!Admitted(q) = V!Sum(u, d + n) /\ Weights(u, d + n)
  BY <1>1, <1>2, <1>3, AdmittedTokens
<1>5. \A i \in 1..n : w[i] = u[d + i]
  <2> SUFFICES ASSUME NEW i \in 1..n PROVE w[i] = u[d + i]
    OBVIOUS
  <2> DEFINE x == (Len(f) - K) + i
             y == (Len(h) - J) + (d + i)
  <2>1. i \in 1..K /\ d + i \in 1..J
    BY <1>1
  <2>1a. x \in 1..(Len(h) - E)
    BY <1>0, <1>1
  <2>1b. E + x = y
    <3>1. E \in Int /\ i \in Int /\ Len(f) = (Len(h) - E) + 1 /\ d = J - n /\ K = n + 1
      BY <1>0, <1>1
    <3> QED
      BY <1>0, <1>1, <3>1
  <2> HIDE DEF x, y
  <2>2. p[i] = q[d + i]
    <3>1. p[i] = f[x]
      BY <1>2, <2>1 DEF x
    <3>2. q[d + i] = h[y]
      BY <1>3, <2>1 DEF y
    <3>3. f[x] = h[E + x]
      BY <2>1a
    <3> QED
      BY <2>1b, <3>1, <3>2, <3>3
  <2> QED
    BY <1>2, <1>3, <2>1, <2>2 DEF PassTokens
<1>6. w[n + 1] = 0
  <2>1. n + 1 \in 1..K /\ (Len(f) - K) + (n + 1) = Len(f)
    BY <1>0, <1>1
  <2>2. ~p[n + 1].pass
    BY <1>2, <2>1
  <2> QED
    BY <1>2, <2>1, <2>2 DEF PassTokens
<1> HIDE DEF u, w
<1>7. V!Sum(u, d + n) = V!Sum(u, d) + V!Sum(w, n) /\ V!Sum(u, d) \in Nat /\ V!Sum(w, n) \in Nat
  BY <1>1, <1>4, <1>5, SumSplits
<1>8. V!Sum(w, n + 1) = V!Sum(w, n) + w[n + 1]
  BY <1>1, SumIsRecursive
<1>9. V!Admitted(q) <= BurstTokens
  BY DEF q, J
<1>10. V!Admitted(p) <= BurstTokens
  BY <1>0, <1>4, <1>6, <1>7, <1>8, <1>9
<1> QED
  BY <1>10 DEF p, K

(* What passes is part of what the long ring counts.                        *)
LEMMA PassesAreCounted ==
  ASSUME NEW f \in Seq(Observed), NEW r, NEW K \in 0..Len(f), TailOf(r, f, K)
  PROVE  V!Admitted(V!LastN(f, K)) <= V!Total(r)
<1> DEFINE p == V!LastN(f, K)
<1>1. p \in Seq(Observed) /\ Len(p) = K /\ \A i \in 1..K : p[i] = f[(Len(f) - K) + i]
  BY LastOnes
<1>2. r \in Seq(Events) /\ Len(r) = K /\ K \in Nat
  BY DEF TailOf
<1> HIDE DEF p
<1>3. V!Admitted(p) = V!Sum(PassTokens(p), K) /\ Weights(PassTokens(p), K)
  BY <1>1, AdmittedTokens
<1>4. V!Total(r) = V!Sum(TokensOf(r), K) /\ Weights(TokensOf(r), K)
  BY <1>2, TotalOfTokens
<1>5. \A i \in 1..K : PassTokens(p)[i] <= TokensOf(r)[i]
  <2> SUFFICES ASSUME NEW i \in 1..K PROVE PassTokens(p)[i] <= TokensOf(r)[i]
    OBVIOUS
  <2>1. r[i].n = p[i].n
    BY <1>1 DEF TailOf
  <2>2. TokensOf(r)[i] = r[i].n /\ TokensOf(r)[i] \in Nat
    BY <1>2, <1>4 DEF TokensOf, Weights
  <2>3. PassTokens(p)[i] = IF p[i].pass THEN p[i].n ELSE 0
    BY <1>1 DEF PassTokens
  <2> QED
    BY <2>1, <2>2, <2>3
<1>6. V!Sum(PassTokens(p), K) <= V!Sum(TokensOf(r), K)
  <2> DEFINE u == PassTokens(p)
             w == TokensOf(r)
  <2>1. Weights(u, K) /\ Weights(w, K) /\ \A i \in 1..K : u[i] <= w[i]
    BY <1>3, <1>4, <1>5
  <2> HIDE DEF u, w
  <2>2. V!Sum(u, K) <= V!Sum(w, K)
    BY <1>2, <2>1, SumIsAtMost
  <2> QED
    BY <2>2 DEF u, w
<1> QED
  BY <1>3, <1>4, <1>6 DEF p

-----------------------------------------------------------------------------
(* The state that a check leaves behind, whatever its flag; a check passes  *)
(* only below the burst cap.                                                *)
Checked(new, st, n, block) ==
  /\ new.events = V!Appended(st, n).events /\ new.sumLong = V!Appended(st, n).sumLong
  /\ new.short = V!Appended(st, n).short /\ new.sumShort = V!Appended(st, n).sumShort
  /\ new.lastAt = clock /\ (~block => ~(new.sumLong > BurstTokens))

(* A check: the rings and sums of the new state, and the observations kept. *)
LEMMA CheckKnows ==
  ASSUME NEW st, NEW h, Known(st, h), clock \in Nat, st.lastAt \in Int, st.lastAt <= clock,
         NEW n \in Nat, NEW block \in BOOLEAN, NEW new, Checked(new, st, n, block)
  PROVE  Known(new, Append(SubSeq(h, V!Expired(h, clock - Window) + 1, Len(h)),
                           [t |-> clock, n |-> n, pass |-> ~block]))
<1> DEFINE e == [t |-> clock, n |-> n]
           o == [t |-> clock, n |-> n, pass |-> ~block]
           g == Append(h, o)
           E == V!Expired(h, clock - Window)
           f == Append(SubSeq(h, E + 1, Len(h)), o)
           l == Len(h)
           long == V!Cap(V!Expire(Append(st.events, e), st.sumLong + n, Window))
           short == V!Cap(V!Expire(Append(st.short, e), st.sumShort + n, ShortWindow))
<1>0. /\ Window \in Nat \ {0} /\ ShortWindow \in Nat \ {0} /\ ShortWindow <= Window
      /\ MaxEvents \in Nat \ {0} /\ BurstTokens \in Nat
  BY PartsAssumption DEF V!VelocityConstants
<1>1. h \in Seq(Observed) /\ InOrder(h) /\ l \in Nat
      /\ \A i \in 1..l : h[i].t <= st.lastAt /\ h[i] \in Observed
  BY DEF Known
<1>1a. \A i \in 1..l : h[i].t \in Nat
  BY <1>1 DEF Observed
<1>2. new.events = long.ring /\ new.sumLong = long.sum /\ new.short = short.ring /\ new.sumShort = short.sum
      /\ new.lastAt = clock
  BY DEF V!Appended, Checked
<1>3. o \in Observed /\ o.t = clock /\ o.n = n /\ o.pass = ~block
  BY DEF Observed
<1> HIDE DEF o, long, short
<1>4. g \in Seq(Observed) /\ Len(g) = l + 1 /\ g[l + 1] = o /\ \A i \in 1..l : g[i] = h[i]
  BY <1>1, <1>3
<1> HIDE DEF g, l
<1>5. InOrder(g)
  <2> SUFFICES ASSUME NEW i \in 1..Len(g), NEW j \in 1..Len(g), i <= j PROVE g[i].t <= g[j].t
    BY DEF InOrder
  <2>1. CASE j \in 1..l
    <3>1. i \in 1..l
      BY <1>1, <1>4, <2>1
    <3>2. h[i].t <= h[j].t
      BY <1>1, <2>1, <3>1 DEF InOrder, l
    <3> QED
      BY <1>4, <2>1, <3>1, <3>2
  <2>2. CASE j = l + 1 /\ i \in 1..l
    <3>1. h[i].t <= st.lastAt /\ h[i].t \in Nat
      BY <1>1, <1>1a, <2>2
    <3>2. h[i].t <= clock
      BY <3>1
    <3> QED
      BY <1>3, <1>4, <2>2, <3>2
  <2>3. CASE j = l + 1 /\ i = l + 1
    BY <1>3, <1>4, <2>3
  <2> QED
    BY <1>1, <1>4, <2>1, <2>2, <2>3
<1>6. PICK kW \in 0..Len(g) :
        /\ Recent(g, clock - Window, kW)
        /\ TailOf(long.ring, g, V!Smaller(kW, MaxEvents))
        /\ long.sum = V!Total(long.ring)
  <2>1. TailOf(st.events, h, V!Smaller(Len(h), MaxEvents)) /\ st.sumLong = V!Total(st.events)
    BY DEF Known
  <2>2. Len(h) \in 0..Len(h) /\ InOrder(Append(h, o))
        /\ \A i \in 1..Len(h) : i <= Len(h) - Len(h) => h[i].t <= clock - Window
    BY <1>1, <1>5 DEF l, g
  <2>3. Before(h, st.events, Len(h), n, o, Window)
    BY <1>0, <1>1, <1>3, <2>1, <2>2 DEF Before
  <2>4. After(g, long, Window)
    BY <2>1, <2>3, RingStep DEF g, long
  <2> QED
    BY <2>4 DEF After
<1>7. PICK kS \in 0..Len(g) :
        /\ Recent(g, clock - ShortWindow, kS)
        /\ TailOf(short.ring, g, V!Smaller(kS, MaxEvents))
        /\ short.sum = V!Total(short.ring)
  <2>1. PICK c \in 0..Len(h) : /\ Recent(h, st.lastAt - ShortWindow, c)
                               /\ TailOf(st.short, h, V!Smaller(c, MaxEvents))
    BY DEF Known
  <2>2. ASSUME NEW i \in 1..Len(h), i <= Len(h) - c PROVE h[i].t <= clock - ShortWindow
    <3>1. ~(i > Len(h) - c) /\ h[i].t \in Nat
      BY <1>1, <1>1a, <2>2 DEF l
    <3>2. ~(h[i].t > st.lastAt - ShortWindow)
      BY <2>1, <3>1 DEF Recent
    <3> QED
      BY <1>0, <3>1, <3>2
  <2>3. st.sumShort = V!Total(st.short) /\ InOrder(Append(h, o))
    BY <1>5 DEF Known, g
  <2>4. Before(h, st.short, c, n, o, ShortWindow)
    BY <1>0, <1>1, <1>3, <2>1, <2>2, <2>3 DEF Before
  <2>5. After(g, short, ShortWindow)
    BY <2>3, <2>4, RingStep DEF g, short
  <2> QED
    BY <2>5 DEF After
<1>8. E \in 0..l /\ \A i \in 1..l : h[i].t > clock - Window <=> i > E
  <2>1. clock - Window \in Int
    BY <1>0
  <2> QED
    BY <1>1, <1>1a, <2>1, ExpiredIsOld DEF l
<1>9. /\ f \in Seq(Observed) /\ Len(f) = (l - E) + 1 /\ f[(l - E) + 1] = o
      /\ \A i \in 1..(l - E) : f[i] = h[E + i]
  <2> DEFINE a == E + 1
             s == SubSeq(h, a, l)
  <2>1. a \in Int /\ l \in Int /\ 1 <= a /\ a <= l + 1 /\ l <= Len(h) /\ l - a + 1 = l - E
        /\ l - E \in Nat /\ \A i \in 1..(l - E) : a + i - 1 = E + i
    BY <1>1, <1>8 DEF l
  <2> HIDE DEF a
  <2>2. s \in Seq(Observed) /\ Len(s) = l - a + 1 /\ \A i \in 1..(l - a + 1) : s[i] = h[a + i - 1]
    BY <1>1, <2>1, Slice
  <2>3. f = Append(s, o)
    BY DEF a, l
  <2> HIDE DEF s, f
  <2>4. s \in Seq(Observed) /\ Len(s) = l - E /\ \A i \in 1..(l - E) : s[i] = h[E + i]
    BY <2>1, <2>2
  <2> QED
    BY <1>3, <2>1, <2>3, <2>4
<1> HIDE DEF E, f
<1>10. Len(f) \in Nat /\ Len(f) = (l + 1) - E /\ Len(g) = Len(f) + E /\ E \in Nat /\ Len(f) >= 1
  BY <1>1, <1>4, <1>8, <1>9
<1>11. \A i \in 1..Len(f) : f[i] = g[E + i] /\ E + i \in 1..Len(g)
  <2> SUFFICES ASSUME NEW i \in 1..Len(f) PROVE f[i] = g[E + i] /\ E + i \in 1..Len(g)
    OBVIOUS
  <2>1. CASE i \in 1..(l - E)
    <3>1. E + i \in 1..l /\ E + i \in 1..Len(g)
      BY <1>1, <1>4, <1>8, <2>1
    <3> QED
      BY <1>4, <1>9, <2>1, <3>1
  <2>2. CASE i = (l - E) + 1
    <3>1. E + i = l + 1 /\ E + i \in 1..Len(g)
      BY <1>1, <1>4, <1>8, <2>2
    <3> QED
      BY <1>4, <1>9, <2>2, <3>1
  <2> QED
    BY <1>1, <1>8, <1>9, <2>1, <2>2
<1>12. kW = Len(f)
  <2> DEFINE D == Len(g) - kW
  <2>1. D \in 0..Len(g) /\ \A i \in 1..Len(g) : g[i].t > clock - Window <=> i > D
    BY <1>1, <1>4, <1>6 DEF Recent
  <2> HIDE DEF D
  <2>2. D <= l
    <3>1. g[l + 1].t > clock - Window /\ l + 1 \in 1..Len(g)
      BY <1>0, <1>1, <1>3, <1>4
    <3> QED
      BY <1>1, <1>4, <2>1, <3>1
  <2>3. ~(D < E)
    <3> SUFFICES ASSUME D < E PROVE FALSE
      OBVIOUS
    <3>1. E \in 1..l /\ E \in 1..Len(g) /\ E > D /\ ~(E > E)
      BY <1>1, <1>4, <1>8, <2>1
    <3>2. g[E].t > clock - Window /\ g[E] = h[E]
      BY <1>4, <2>1, <3>1
    <3> QED
      BY <1>8, <3>1, <3>2
  <2>4. ~(E < D)
    <3> SUFFICES ASSUME E < D PROVE FALSE
      OBVIOUS
    <3>1. D \in 1..l /\ D \in 1..Len(g) /\ D > E /\ ~(D > D)
      BY <1>1, <1>4, <1>8, <2>1, <2>2
    <3>2. h[D].t > clock - Window /\ g[D] = h[D]
      BY <1>4, <1>8, <3>1
    <3> QED
      BY <2>1, <3>1, <3>2
  <2>5. D = E
    BY <1>8, <2>1, <2>3, <2>4
  <2> QED
    BY <1>4, <1>10, <2>5 DEF D
<1>13. kS <= Len(f)
  <2> SUFFICES ASSUME ~(kS <= Len(f)) PROVE FALSE
    OBVIOUS
  <2> DEFINE i == Len(g) - kW
  <2>1. i \in 1..Len(g) /\ i > Len(g) - kS /\ ~(i > Len(g) - kW)
    BY <1>10, <1>12
  <2> HIDE DEF i
  <2>2. g[i].t > clock - ShortWindow /\ ~(g[i].t > clock - Window)
    BY <1>6, <1>7, <2>1 DEF Recent
  <2>3. g[i] \in Observed
    BY <1>4, <2>1
  <2>4. g[i].t \in Nat
    BY <2>3 DEF Observed
  <2> QED
    BY <1>0, <2>2, <2>4
<1>14. V!Smaller(Len(f), MaxEvents) \in 0..Len(f) /\ V!Smaller(kS, MaxEvents) \in 0..kS
  BY <1>0, <1>10, SmallerOf
<1>15. TailOf(new.events, f, V!Smaller(Len(f), MaxEvents))
  <2>1. V!Smaller(Len(f), MaxEvents) \in Nat /\ V!Smaller(Len(f), MaxEvents) <= Len(f)
    BY <1>10, <1>14
  <2>2. TailOf(long.ring, g, V!Smaller(Len(f), MaxEvents))
    BY <1>6, <1>12
  <2> QED
    BY <1>2, <1>10, <1>11, <2>1, <2>2, TailTrims
<1>16. TailOf(new.short, f, V!Smaller(kS, MaxEvents))
  <2>1. V!Smaller(kS, MaxEvents) \in Nat /\ V!Smaller(kS, MaxEvents) <= Len(f)
    BY <1>10, <1>13, <1>14
  <2> QED
    BY <1>2, <1>7, <1>10, <1>11, <2>1, TailTrims
<1>17. Recent(f, clock - ShortWindow, kS) /\ kS \in 0..Len(f)
  <2>1. ASSUME NEW i \in 1..Len(f) PROVE f[i].t > clock - ShortWindow <=> i > Len(f) - kS
    <3>1. E + i \in 1..Len(g) /\ (E + i > Len(g) - kS <=> i > Len(f) - kS)
      BY <1>10, <1>11
    <3>2. g[E + i].t > clock - ShortWindow <=> E + i > Len(g) - kS
      BY <1>7, <3>1 DEF Recent
    <3> QED
      BY <1>11, <3>1, <3>2
  <2>2. kS \in 0..Len(f)
    BY <1>10, <1>13
  <2> QED
    BY <2>1, <2>2 DEF Recent
<1>18. InOrder(f) /\ \A i \in 1..Len(f) : f[i].t <= clock /\ f[i].t > clock - Window
  <2>1. ASSUME NEW i \in 1..Len(f), NEW j \in 1..Len(f), i <= j PROVE f[i].t <= f[j].t
    <3>1. E + i <= E + j /\ E + i \in 1..Len(g) /\ E + j \in 1..Len(g)
      BY <1>10, <1>11, <2>1
    <3>2. g[E + i].t <= g[E + j].t
      BY <1>5, <3>1 DEF InOrder
    <3> QED
      BY <1>11, <3>2
  <2>2. ASSUME NEW i \in 1..Len(f) PROVE f[i].t <= clock
    <3>1. Len(f) \in 1..Len(f) /\ i <= Len(f) /\ f[Len(f)] = o
      BY <1>9, <1>10
    <3> QED
      BY <1>3, <2>1, <3>1
  <2>3. ASSUME NEW i \in 1..Len(f) PROVE f[i].t > clock - Window
    <3>1. E + i \in 1..Len(g) /\ E + i > Len(g) - kW
      BY <1>10, <1>11, <1>12
    <3>2. g[E + i].t > clock - Window
      BY <1>6, <3>1 DEF Recent
    <3> QED
      BY <1>11, <3>2
  <2> QED
    BY <2>1, <2>2, <2>3 DEF InOrder
<1>19. V!Admitted(V!LastN(f, V!Smaller(Len(f), MaxEvents))) <= BurstTokens
  <2>1. CASE block
    <3>1. ~f[Len(f)].pass /\ E \in 0..Len(h) /\ Len(f) = (Len(h) - E) + 1
          /\ \A i \in 1..(Len(h) - E) : f[i] = h[E + i]
      BY <1>3, <1>8, <1>9, <2>1 DEF l
    <3>2. V!Admitted(V!LastN(h, V!Smaller(Len(h), MaxEvents))) <= BurstTokens
      BY DEF Known
    <3> QED
      BY <1>1, <1>9, <3>1, <3>2, RefusalAdmitsNothing
  <2>2. CASE ~block
    <3> DEFINE K == V!Smaller(Len(f), MaxEvents)
    <3>0. K \in 0..Len(f)
      BY <1>14
    <3> HIDE DEF K
    <3>1. V!Admitted(V!LastN(f, K)) <= V!Total(new.events)
      BY <1>9, <1>15, <3>0, PassesAreCounted DEF K
    <3>2. V!Total(new.events) <= BurstTokens /\ V!Total(new.events) \in Nat
      <4>1. new.events \in Seq(Events)
        BY <1>15 DEF TailOf
      <4> QED
        <5>1. V!Total(new.events) \in Nat /\ new.sumLong = V!Total(new.events)
          BY <1>2, <1>6, <4>1, TotalOfTokens
        <5>2. ~(new.sumLong > BurstTokens)
          BY <2>2 DEF Checked
        <5> QED
          BY <1>0, <5>1, <5>2
    <3>3. V!Admitted(V!LastN(f, K)) \in Nat
      <4>1. V!LastN(f, K) \in Seq(Observed)
        BY <1>9, <3>0, LastOnes
      <4> QED
        BY <4>1, AdmittedTokens
    <3> QED
      BY <1>0, <3>1, <3>2, <3>3 DEF K
  <2> QED
    BY <2>1, <2>2
<1>20. Known(new, f)
  <2>1. new.sumLong = V!Total(new.events) /\ new.sumShort = V!Total(new.short)
    BY <1>2, <1>6, <1>7
  <2> QED
    BY <1>2, <1>9, <1>15, <1>16, <1>17, <1>18, <1>19, <2>1 DEF Known
<1> QED
  BY <1>20 DEF f, E, o

-----------------------------------------------------------------------------
(* Every tracked agent's state is what its observations make it.            *)
TokenInv ==
  /\ clock \in Nat
  /\ DOMAIN rates \subseteq Others
  /\ DOMAIN obs = Others
  /\ \A a \in Others \ DOMAIN rates : obs[a] = <<>>
  /\ \A a \in DOMAIN rates : /\ rates[a].lastAt \in Int /\ rates[a].lastAt <= clock
                             /\ Known(rates[a], obs[a])

LEMMA AppendFields ==
  ASSUME NEW st, NEW n, NEW flag
  PROVE  LET new == [V!Appended(st, n) EXCEPT !.blockedAt = flag]
         IN  /\ new.events = V!Appended(st, n).events /\ new.sumLong = V!Appended(st, n).sumLong
             /\ new.short = V!Appended(st, n).short /\ new.sumShort = V!Appended(st, n).sumShort
             /\ new.lastAt = clock
BY DEF V!Appended

(* A check keeps the books of its agent and forgets those it evicts. *)
LEMMA CheckRings ==
  ASSUME TokenInv, NEW a \in Others, NEW n \in TokenCounts, V!CheckVelocity(a, n)
  PROVE  TokenInv'
<1>0. clock \in Nat /\ BurstTokens \in Nat /\ V!ZeroTime = -1 /\ n \in Nat
  BY PartsAssumption DEF V!VelocityConstants, V!ZeroTime, TokenInv
<1> DEFINE old   == IF a \in DOMAIN rates THEN rates[a] ELSE V!FreshState
           st    == V!Appended(old, n)
           block == V!Burst(st) \/ V!Spike(st)
           first == block /\ st.blockedAt = V!ZeroTime
           flag  == IF first THEN clock
                    ELSE IF ~block /\ st.blockedAt # V!ZeroTime /\ V!Subsided(st)
                         THEN V!ZeroTime
                         ELSE st.blockedAt
           new   == [st EXCEPT !.blockedAt = flag]
           kept  == Append(V!Kept(a), [t |-> clock, n |-> n, pass |-> ~block])
<1>1. PICK gone \in (IF a \in DOMAIN rates THEN {{}} ELSE V!Evictions) :
        /\ rates' = [b \in (DOMAIN rates \ gone) \cup {a} |->
                       IF b = a THEN [st EXCEPT !.blockedAt = flag] ELSE rates[b]]
        /\ obs' = [b \in Others |->
                     IF b = a THEN Append(V!Kept(a), [t |-> clock, n |-> n, pass |-> ~block])
                     ELSE IF b \in gone THEN <<>> ELSE obs[b]]
  BY Zenon DEF V!CheckVelocity
<1>2. clock' = clock
  BY DEF V!CheckVelocity
<1>3. gone \subseteq DOMAIN rates
  <2>1. CASE a \in DOMAIN rates
    BY <1>1, <2>1
  <2>2. CASE a \notin DOMAIN rates
    BY <1>1, <2>2 DEF V!Evictions
  <2> QED
    BY <2>1, <2>2
<1>4. /\ DOMAIN rates' = (DOMAIN rates \ gone) \cup {a} /\ rates'[a] = new
      /\ \A b \in DOMAIN rates' \ {a} : b \in DOMAIN rates \ gone /\ rates'[b] = rates[b]
      /\ DOMAIN obs' = Others /\ obs'[a] = kept
      /\ \A b \in Others \ {a} : obs'[b] = IF b \in gone THEN <<>> ELSE obs[b]
  BY <1>1
<1>5. old.lastAt \in Int /\ old.lastAt <= clock /\ Known(old, obs[a])
  <2>1. CASE a \in DOMAIN rates
    BY <2>1 DEF TokenInv
  <2>2. CASE a \notin DOMAIN rates
    <3>1. old = V!FreshState /\ obs[a] = <<>>
      BY <2>2 DEF TokenInv
    <3>2. V!FreshState.lastAt = -1
      BY <1>0 DEF V!FreshState
    <3> QED
      BY <1>0, <3>1, <3>2, NothingIsKnown
  <2> QED
    BY <2>1, <2>2
<1>6. block \in BOOLEAN /\ (~block => ~V!Burst(st))
  OBVIOUS
<1>7. /\ new.events = st.events /\ new.sumLong = st.sumLong
      /\ new.short = st.short /\ new.sumShort = st.sumShort /\ new.lastAt = clock
  BY AppendFields
<1>8. kept = Append(SubSeq(obs[a], V!Expired(obs[a], clock - Window) + 1, Len(obs[a])),
                    [t |-> clock, n |-> n, pass |-> ~block])
  BY DEF V!Kept
<1>9. ~block => ~(new.sumLong > BurstTokens)
  <2>1. V!Burst(st) <=> st.sumLong > BurstTokens
    BY DEF V!Burst
  <2> QED
    BY <1>6, <1>7, <2>1
<1>10. Known(new, kept)
  <2>1. Checked(new, old, n, block)
    BY <1>7, <1>9 DEF Checked
  <2> HIDE DEF old, block, new, kept
  <2> QED
    BY <1>0, <1>5, <1>6, <1>8, <2>1, CheckKnows
<1> HIDE DEF old, block, new, kept, st
<1>11. \A b \in DOMAIN rates' : rates'[b].lastAt \in Int /\ rates'[b].lastAt <= clock /\ Known(rates'[b], obs'[b])
  <2> SUFFICES ASSUME NEW b \in DOMAIN rates'
               PROVE  rates'[b].lastAt \in Int /\ rates'[b].lastAt <= clock /\ Known(rates'[b], obs'[b])
    OBVIOUS
  <2>1. CASE b = a
    BY <1>0, <1>4, <1>7, <1>10, <2>1
  <2>2. CASE b # a
    <3>1. rates'[b] = rates[b] /\ obs'[b] = obs[b] /\ b \in DOMAIN rates
      BY <1>4, <2>2 DEF TokenInv
    <3> QED
      BY <3>1 DEF TokenInv
  <2> QED
    BY <2>1, <2>2
<1>12. \A b \in Others \ DOMAIN rates' : obs'[b] = <<>>
  BY <1>4 DEF TokenInv
<1>13. DOMAIN rates' \subseteq Others
  BY <1>4 DEF TokenInv
<1> QED
  BY <1>0, <1>2, <1>4, <1>11, <1>12, <1>13 DEF TokenInv, Known

LEMMA InitRings == V!Init => TokenInv
<1> SUFFICES ASSUME V!Init PROVE TokenInv
  OBVIOUS
<1>1. clock = 0 /\ rates = [a \in {} |-> V!FreshState] /\ obs = [a \in Others |-> <<>>]
  BY DEF V!Init
<1> QED
  BY <1>1 DEF TokenInv

LEMMA StepRings == TokenInv /\ [V!Next]_(V!vars) => TokenInv'
<1> SUFFICES ASSUME TokenInv, [V!Next]_(V!vars) PROVE TokenInv'
  OBVIOUS
<1>1. ASSUME clock' \in {clock, clock + 1}, UNCHANGED <<rates, obs>> PROVE TokenInv'
  BY <1>1 DEF TokenInv, Known
<1>2. CASE UNCHANGED V!vars
  BY <1>1, <1>2 DEF V!vars
<1>3. CASE V!Tick
  BY <1>1, <1>3 DEF V!Tick
<1>4. ASSUME NEW a \in Others, V!Reset(a) PROVE TokenInv'
  <2>1. rates' = [b \in DOMAIN rates \ {a} |-> rates[b]] /\ obs' = [obs EXCEPT ![a] = <<>>] /\ clock' = clock
    BY <1>4 DEF V!Reset
  <2>2. \A b \in DOMAIN rates' : rates'[b] = rates[b] /\ obs'[b] = obs[b]
    BY <2>1 DEF TokenInv
  <2>3. \A b \in DOMAIN rates' : rates'[b].lastAt \in Int /\ rates'[b].lastAt <= clock /\ Known(rates'[b], obs'[b])
    BY <2>1, <2>2 DEF TokenInv
  <2>4. DOMAIN rates' \subseteq Others /\ DOMAIN obs' = Others /\ \A b \in Others \ DOMAIN rates' : obs'[b] = <<>>
    BY <2>1 DEF TokenInv
  <2> QED
    BY <2>1, <2>3, <2>4 DEF TokenInv, Known
<1>5. ASSUME NEW a \in Others, NEW n \in TokenCounts, V!CheckVelocity(a, n) PROVE TokenInv'
  BY <1>5, CheckRings
<1> QED
  BY <1>2, <1>3, <1>4, <1>5 DEF V!Next

(* A ring is what the property says: the newest, with their tokens.         *)
LEMMA TailIsNewest ==
  ASSUME NEW a \in DOMAIN rates, NEW r, NEW horizon, NEW c \in 0..Len(obs[a]), obs[a] \in Seq(Observed),
         Recent(obs[a], rates[a].lastAt - horizon, c), TailOf(r, obs[a], V!Smaller(c, MaxEvents))
  PROVE  V!NewestOf(a, r, horizon)
<1> DEFINE h == obs[a]
           k == V!Smaller(c, MaxEvents)
<1>1. \A i \in 1..Len(h) : h[i].t > rates[a].lastAt - horizon <=> i > Len(h) - c
  BY DEF Recent
<1>2. r \in Seq(Events) /\ Len(r) = k
  BY DEF TailOf
<1>3. ASSUME NEW i \in 1..Len(r)
      PROVE  r[i] = [t |-> h[Len(h) - Len(r) + i].t, n |-> h[Len(h) - Len(r) + i].n]
  <2>1. r[i].t = h[Len(h) - Len(r) + i].t /\ r[i].n = h[Len(h) - Len(r) + i].n
    BY <1>2 DEF TailOf
  <2>2. r[i] \in Events
    BY <1>2
  <2>3. r[i] = [t |-> r[i].t, n |-> r[i].n]
    BY <2>2 DEF Events
  <2> QED
    BY <2>1, <2>3
<1> QED
  BY <1>1, <1>2, <1>3 DEF V!NewestOf

LEMMA RingsFollow == TokenInv => RingsAreExact /\ AdmittedWithinBurst
<1> SUFFICES ASSUME TokenInv PROVE RingsAreExact /\ AdmittedWithinBurst
  OBVIOUS
<1>0. MaxEvents \in Nat \ {0} /\ Window \in Nat /\ ShortWindow \in Nat /\ BurstTokens \in Nat
  BY PartsAssumption DEF V!VelocityConstants
<1>1. AdmittedWithinBurst
  BY DEF TokenInv, Known, AdmittedWithinBurst, V!AdmittedWithinBurst
<1>2. ASSUME NEW a \in DOMAIN rates
      PROVE  /\ V!NewestOf(a, rates[a].events, Window) /\ V!NewestOf(a, rates[a].short, ShortWindow)
             /\ rates[a].sumLong = V!Total(rates[a].events) /\ rates[a].sumShort = V!Total(rates[a].short)
             /\ rates[a].short = V!LastN(rates[a].events, Len(rates[a].short))
  <2> DEFINE st == rates[a]
             h == obs[a]
             l == Len(h)
  <2>1. Known(st, h)
    BY DEF TokenInv
  <2>2. h \in Seq(Observed) /\ l \in Nat
    BY <2>1 DEF Known
  <2>3. Recent(h, st.lastAt - Window, l)
    <3>1. ASSUME NEW i \in 1..Len(h) PROVE h[i].t > st.lastAt - Window <=> i > Len(h) - l
      BY <2>1, <2>2 DEF Known
    <3> QED
      BY <2>2, <3>1 DEF Recent
  <2>4. TailOf(st.events, h, V!Smaller(l, MaxEvents))
    BY <2>1 DEF Known
  <2>5. V!NewestOf(a, st.events, Window)
    <3>1. l \in 0..Len(obs[a])
      BY <2>2
    <3> QED
      BY <2>2, <2>3, <2>4, <3>1, TailIsNewest
  <2>6. PICK c \in 0..Len(h) : /\ Recent(h, st.lastAt - ShortWindow, c)
                               /\ TailOf(st.short, h, V!Smaller(c, MaxEvents))
    BY <2>1 DEF Known
  <2>7. V!NewestOf(a, st.short, ShortWindow)
    BY <2>2, <2>6, TailIsNewest
  <2>8. st.short = V!LastN(st.events, Len(st.short))
    <3> DEFINE j == V!Smaller(c, MaxEvents)
               k == V!Smaller(l, MaxEvents)
               u == V!LastN(st.events, j)
    <3>1. j \in Nat /\ k \in Nat /\ j <= k /\ k <= l
      BY <1>0, <2>2, SmallerOf
    <3> HIDE DEF j, k
    <3>2. st.short \in Seq(Events) /\ Len(st.short) = j /\ st.events \in Seq(Events) /\ Len(st.events) = k
      BY <2>4, <2>6 DEF TailOf, j, k
    <3>3. u \in Seq(Events) /\ Len(u) = j /\ \A i \in 1..j : u[i] = st.events[(k - j) + i]
      <4>1. j \in 0..Len(st.events)
        BY <3>1, <3>2
      <4> QED
        BY <3>2, <4>1, LastOnes
    <3> HIDE DEF u
    <3>4. ASSUME NEW i \in 1..j PROVE st.short[i] = u[i]
      <4>1. st.short[i].t = h[(l - j) + i].t /\ st.short[i].n = h[(l - j) + i].n
        <5>1. \A q \in 1..j : st.short[q].t = h[(l - j) + q].t /\ st.short[q].n = h[(l - j) + q].n
          BY <2>6 DEF TailOf, j
        <5> QED
          BY <5>1
      <4>2. (k - j) + i \in 1..k /\ (l - k) + ((k - j) + i) = (l - j) + i
        <5>1. j \in Int /\ k \in Int /\ l \in Int /\ j <= k /\ i \in Int /\ 1 <= i /\ i <= j
          BY <2>2, <3>1
        <5> HIDE DEF l
        <5> QED
          BY <5>1
      <4>3. u[i].t = h[(l - j) + i].t /\ u[i].n = h[(l - j) + i].n
        <5>1. /\ st.events[(k - j) + i].t = h[(l - k) + ((k - j) + i)].t
              /\ st.events[(k - j) + i].n = h[(l - k) + ((k - j) + i)].n
          BY <2>4, <4>2 DEF TailOf, k
        <5> QED
          BY <3>3, <4>2, <5>1
      <4>4. st.short[i] \in Events /\ u[i] \in Events
        BY <3>2, <3>3
      <4>5. \A x, y \in Events : x.t = y.t /\ x.n = y.n => x = y
        BY DEF Events
      <4> QED
        BY <4>1, <4>3, <4>4, <4>5
    <3>5. st.short = u
      <4> HIDE DEF st
      <4> QED
        BY <3>2, <3>3, <3>4
    <3> QED
      BY <3>2, <3>5 DEF u
  <2> QED
    BY <2>1, <2>5, <2>7, <2>8 DEF Known
<1>3. RingsAreExact
  BY <1>2 DEF RingsAreExact, V!RingsAreExact
<1> QED
  BY <1>1, <1>3

(* For any windows, ring cap, burst cap, memory and clock: whatever checks, *)
(* resets, evictions and expiries come, the rings hold the newest           *)
(* observations of their horizons and the running sums are their totals.    *)
THEOREM RingsStayExact == V!Spec => []RingsAreExact
BY InitRings, StepRings, RingsFollow, PTL DEF V!Spec

(* And the tokens let through within a Window, of the observations that the *)
(* ring has room for, never exceed the burst cap.                           *)
THEOREM AdmissionIsBounded == V!Spec => []AdmittedWithinBurst
BY InitRings, StepRings, RingsFollow, PTL DEF V!Spec

-----------------------------------------------------------------------------
(* The token gauge.  Two seconds that are less than Buckets apart have      *)
(* buckets of their own.                                                    *)
LEMMA OwnSlots ==
  ASSUME NEW s \in Nat, NEW t \in Nat, s < t, t - s < Buckets
  PROVE  W!Slot(s) # W!Slot(t)
<1>1. Buckets \in Nat \ {0}
  BY PartsAssumption DEF W!WindowConstants
<1> SUFFICES ASSUME s % Buckets = t % Buckets PROVE FALSE
  BY DEF W!Slot
<1>2. /\ s = Buckets * (s \div Buckets) + (s % Buckets)
      /\ t = Buckets * (t \div Buckets) + (t % Buckets)
      /\ s \div Buckets \in Int /\ t \div Buckets \in Int /\ s % Buckets \in Int
  BY <1>1, SMTT(30)
<1>3. PICK m \in Int, n \in Int : m = s \div Buckets /\ n = t \div Buckets
  BY <1>2
<1>4. t - s = Buckets * n - Buckets * m
  BY <1>1, <1>2, <1>3
<1>5. Buckets * n - Buckets * m = Buckets * (n - m)
  BY <1>1, SMTT(30)
<1>6. PICK k \in Int : k = n - m
  OBVIOUS
<1>7. t - s = Buckets * k /\ 0 < Buckets * k /\ Buckets * k < Buckets
  BY <1>4, <1>5, <1>6
<1>8. CASE k <= 0
  BY <1>1, <1>7, <1>8, SMTT(30)
<1>9. CASE k >= 1
  <2>1. Buckets * k >= Buckets
    BY <1>1, <1>9, SMTT(30)
  <2> QED
    BY <1>1, <1>7, <2>1
<1> QED
  BY <1>8, <1>9

LEMMA SlotIsOne == ASSUME NEW s \in Nat PROVE W!Slot(s) \in 0..(Buckets - 1)
BY PartsAssumption DEF W!WindowConstants, W!Slot

(* A bucket holds what was recorded for its second, as long as the ring     *)
(* reaches back to it; nothing is recorded for a second that the ring has   *)
(* not reached; and nobody who is under way has read a clock that is more   *)
(* than MaxLag seconds old.                                                 *)
Recorded == \A s \in W!Seconds : last - Buckets < s /\ s <= last => buckets[W!Slot(s)] = total[s]

GaugeInv ==
  /\ second \in W!Seconds /\ last \in 0..second
  /\ DOMAIN buckets = 0..(Buckets - 1) /\ DOMAIN total = W!Seconds
  /\ DOMAIN call = Others /\ DOMAIN stamp = Others
  /\ \A c \in Others : call[c] # "idle" =>
       stamp[c] \in 0..second /\ second - stamp[c] <= MaxLag
  /\ \A s \in W!Seconds : s > last => total[s] = 0
  /\ Recorded

(* After advance the ring reaches up to sec and is as exact as before.      *)
LEMMA AdvanceIsExact ==
  ASSUME GaugeInv, NEW sec \in W!Seconds, NEW s \in W!Seconds,
         W!Later(sec) - Buckets < s, s <= W!Later(sec)
  PROVE  W!Advanced(sec)[W!Slot(s)] = total[s]
<1>0. Buckets \in Nat \ {0} /\ s \in Nat /\ sec \in Nat /\ last \in Nat
  BY PartsAssumption DEF W!WindowConstants, W!Seconds, GaugeInv
<1> DEFINE first == IF sec - last > Buckets THEN sec - Buckets + 1 ELSE last + 1
<1>1. W!Slot(s) \in 0..(Buckets - 1)
  BY <1>0, SlotIsOne
<1>2. W!Advanced(sec)[W!Slot(s)] =
        IF \E t \in first..sec : W!Slot(t) = W!Slot(s) THEN 0 ELSE buckets[W!Slot(s)]
  BY <1>1 DEF W!Advanced
<1>3. first \in Int /\ first > last
  BY <1>0
<1>4. s > last => s \in first..sec
  BY <1>0 DEF W!Later
<1>4a. sec > last => sec - Buckets < s
  BY <1>0 DEF W!Later
<1> HIDE DEF first
<1>5. CASE s > last
  <2>1. total[s] = 0
    BY <1>5 DEF GaugeInv
  <2> QED
    BY <1>2, <1>4, <1>5, <2>1
<1>6. CASE s <= last
  <2>1. ASSUME NEW t \in first..sec PROVE W!Slot(t) # W!Slot(s)
    <3>1. t \in Nat /\ s < t /\ t - s < Buckets
      BY <1>0, <1>3, <1>4a, <1>6
    <3> QED
      BY <1>0, <3>1, OwnSlots
  <2>2. last - Buckets < s
    BY <1>0 DEF W!Later
  <2>3. buckets[W!Slot(s)] = total[s]
    BY <1>6, <2>2 DEF GaugeInv, Recorded
  <2> QED
    BY <1>2, <2>1, <2>3
<1> QED
  BY <1>0, <1>5, <1>6

(* A caller under way finds its second within the reach of the ring, and so *)
(* are the Horizon seconds before it.                                       *)
LEMMA CallerIsInReach ==
  ASSUME GaugeInv, NEW c \in Others, call[c] # "idle"
  PROVE  /\ stamp[c] \in W!Seconds /\ stamp[c] <= second
         /\ W!Later(stamp[c]) \in 0..second /\ stamp[c] <= W!Later(stamp[c])
         /\ last <= W!Later(stamp[c])
         /\ \A s \in W!Seconds : stamp[c] - Horizon < s => W!Later(stamp[c]) - Buckets < s
<1>1. /\ Buckets \in Nat /\ Horizon \in 1..Buckets /\ MaxLag \in 0..(Buckets - Horizon)
      /\ GaugeClock \in Nat
  BY PartsAssumption DEF W!WindowConstants
<1>2. stamp[c] \in 0..second /\ second - stamp[c] <= MaxLag /\ second \in 0..GaugeClock /\ last \in 0..second
  BY DEF GaugeInv, W!Seconds
<1>3. stamp[c] \in W!Seconds
  BY <1>1, <1>2 DEF W!Seconds
<1>4. CASE stamp[c] > last
  BY <1>1, <1>2, <1>3, <1>4 DEF W!Later, W!Seconds
<1>5. CASE ~(stamp[c] > last)
  BY <1>1, <1>2, <1>3, <1>5 DEF W!Later, W!Seconds
<1> QED
  BY <1>4, <1>5

(* What velocity and series do to the ring.                                 *)
LEMMA LookKeeps ==
  ASSUME GaugeInv, NEW c \in Others, call[c] # "idle",
         buckets' = W!Advanced(stamp[c]), last' = W!Later(stamp[c]), UNCHANGED <<second, total>>,
         DOMAIN call' = Others, DOMAIN stamp' = Others,
         \A d \in Others : call'[d] # "idle" => call[d] # "idle" /\ stamp'[d] = stamp[d]
  PROVE  GaugeInv'
<1>1. /\ stamp[c] \in W!Seconds /\ W!Later(stamp[c]) \in 0..second /\ last <= W!Later(stamp[c])
  BY CallerIsInReach
<1>2. Recorded'
  BY <1>1, AdvanceIsExact DEF Recorded, W!Seconds
<1>3. second' \in W!Seconds /\ last' \in 0..second' /\ DOMAIN buckets' = 0..(Buckets - 1) /\ DOMAIN total' = W!Seconds
  BY <1>1 DEF GaugeInv, W!Advanced
<1>4. \A s \in W!Seconds : s > last' => total'[s] = 0
  <2>1. last \in Int /\ last' \in Int /\ last <= last' /\ \A s \in W!Seconds : s \in Int
    BY <1>1 DEF GaugeInv, W!Seconds
  <2> QED
    BY <2>1 DEF GaugeInv
<1>5. \A d \in Others : call'[d] # "idle" => stamp'[d] \in 0..second' /\ second' - stamp'[d] <= MaxLag
  BY DEF GaugeInv
<1> QED
  BY <1>2, <1>3, <1>4, <1>5 DEF GaugeInv, W!Seconds

LEMMA BeginKeeps ==
  ASSUME GaugeInv, NEW c \in Others, NEW what, UNCHANGED <<second, buckets, last, total>>,
         call' = [call EXCEPT ![c] = what], stamp' = [stamp EXCEPT ![c] = second]
  PROVE  GaugeInv'
<1>1. MaxLag \in Nat /\ second \in Nat
  BY PartsAssumption DEF W!WindowConstants, GaugeInv, W!Seconds
<1>2. \A d \in Others : call'[d] # "idle" => stamp'[d] \in 0..second /\ second - stamp'[d] <= MaxLag
  BY <1>1 DEF GaugeInv
<1> QED
  BY <1>2 DEF GaugeInv, Recorded

LEMMA AddKeeps ==
  ASSUME GaugeInv, NEW c \in Others, W!Add(c)
  PROVE  GaugeInv'
<1> DEFINE sec == stamp[c]
           to == W!Later(sec)
<1>0. call[c] = "add" /\ call[c] # "idle"
  BY DEF W!Add
<1>1. /\ sec \in W!Seconds /\ to \in 0..second /\ last <= to /\ sec <= to
      /\ \A s \in W!Seconds : sec - Horizon < s => to - Buckets < s
  BY <1>0, CallerIsInReach
<1>2. /\ buckets' = [W!Advanced(sec) EXCEPT ![W!Slot(sec)] = W!Advanced(sec)[W!Slot(sec)] + amount[c]]
      /\ last' = to
      /\ total' = [total EXCEPT ![sec] = total[sec] + amount[c]]
      /\ call' = [call EXCEPT ![c] = "idle"] /\ stamp' = [stamp EXCEPT ![c] = 0]
      /\ second' = second
  BY DEF W!Add, W!Return
<1>3. Buckets \in Nat \ {0} /\ Horizon \in 1..Buckets /\ GaugeClock \in Nat
  BY PartsAssumption DEF W!WindowConstants
<1>4. sec \in Nat /\ to \in Int /\ \A s \in W!Seconds : s \in Nat
  BY <1>1, <1>3 DEF W!Seconds
<1> HIDE DEF sec, to
<1>5. to - Buckets < sec
  BY <1>1, <1>3, <1>4
<1>6. DOMAIN W!Advanced(sec) = 0..(Buckets - 1) /\ W!Slot(sec) \in 0..(Buckets - 1)
  BY <1>4, SlotIsOne DEF W!Advanced
<1>7. DOMAIN total = W!Seconds /\ DOMAIN call = Others /\ DOMAIN stamp = Others
  BY DEF GaugeInv
<1>8. ASSUME NEW s \in W!Seconds, to - Buckets < s, s <= to
      PROVE  buckets'[W!Slot(s)] = total'[s]
  <2>1. W!Advanced(sec)[W!Slot(s)] = total[s]
    BY <1>1, <1>8, AdvanceIsExact DEF to
  <2>2. CASE s = sec
    BY <1>2, <1>6, <1>7, <2>1, <2>2
  <2>3. CASE s # sec
    <3>1. s \in Nat /\ (s < sec => sec - s < Buckets) /\ (sec < s => s - sec < Buckets)
      BY <1>1, <1>3, <1>4, <1>5, <1>8
    <3>2. W!Slot(s) # W!Slot(sec)
      <4>1. CASE s < sec
        BY <1>4, <3>1, <4>1, OwnSlots
      <4>2. CASE sec < s
        BY <1>4, <3>1, <4>2, OwnSlots
      <4> QED
        BY <1>4, <2>3, <3>1, <4>1, <4>2
    <3>3. W!Slot(s) \in 0..(Buckets - 1)
      BY <3>1, SlotIsOne
    <3>4. buckets'[W!Slot(s)] = W!Advanced(sec)[W!Slot(s)]
      BY <1>2, <1>6, <3>2, <3>3
    <3>5. total'[s] = total[s]
      BY <1>2, <1>7, <2>3
    <3> QED
      BY <2>1, <3>4, <3>5
  <2> QED
    BY <2>2, <2>3
<1>9. Recorded'
  BY <1>2, <1>8 DEF Recorded, W!Seconds
<1>10. ASSUME NEW s \in W!Seconds, s > to PROVE total'[s] = 0
  <2>0. last \in Int
    BY DEF GaugeInv
  <2>1. s # sec /\ s > last
    BY <1>1, <1>4, <1>10, <2>0
  <2> QED
    BY <1>2, <1>7, <2>1 DEF GaugeInv
<1>11. \A d \in Others : call'[d] # "idle" => stamp'[d] \in 0..second' /\ second' - stamp'[d] <= MaxLag
  BY <1>2, <1>7 DEF GaugeInv
<1>12. /\ second' \in W!Seconds /\ last' \in 0..second' /\ DOMAIN buckets' = 0..(Buckets - 1)
       /\ DOMAIN total' = W!Seconds /\ DOMAIN call' = Others /\ DOMAIN stamp' = Others
  BY <1>1, <1>2, <1>6, <1>7 DEF GaugeInv
<1>13. \A s \in W!Seconds : s > last' => total'[s] = 0
  BY <1>2, <1>10
<1> QED
  BY <1>9, <1>11, <1>12, <1>13 DEF GaugeInv, W!Seconds

LEMMA InitGauge == W!Init => GaugeInv
<1> SUFFICES ASSUME W!Init PROVE GaugeInv
  OBVIOUS
<1>1. Buckets \in Nat \ {0} /\ GaugeClock \in Nat /\ BootSecond \in 0..GaugeClock
  BY PartsAssumption DEF W!WindowConstants
<1>2. second = BootSecond /\ last = 0 /\ buckets = [b \in 0..(Buckets - 1) |-> 0]
      /\ total = [s \in W!Seconds |-> 0] /\ call = [c \in Others |-> "idle"] /\ stamp = [c \in Others |-> 0]
  BY DEF W!Init
<1>3. ASSUME NEW s \in W!Seconds PROVE buckets[W!Slot(s)] = total[s] /\ total[s] = 0
  <2>1. W!Slot(s) \in 0..(Buckets - 1)
    BY <1>1, SlotIsOne DEF W!Seconds
  <2> QED
    BY <1>2, <2>1
<1>4. second \in W!Seconds /\ last \in 0..second
  BY <1>1, <1>2 DEF W!Seconds
<1> QED
  BY <1>2, <1>3, <1>4 DEF GaugeInv, Recorded

(* What a poll is promised.                                                 *)
Exactness ==
  \A c \in Others :
    /\ W!Velocity(c) =>
         gauge' = W!SumFunction([s \in {t \in W!Seconds : stamp[c] - Horizon < t /\ t <= stamp[c]} |->
                                   total[s]])
    /\ W!Series(c) => \A s \in DOMAIN points' : s > last' - Buckets => points'[s] = total[s]

LEMMA PollReads == GaugeInv => Exactness
<1> SUFFICES ASSUME GaugeInv, NEW c \in Others
             PROVE  /\ W!Velocity(c) =>
                         gauge' = W!SumFunction([s \in {t \in W!Seconds : stamp[c] - Horizon < t /\ t <= stamp[c]} |->
                                                  total[s]])
                    /\ W!Series(c) => \A s \in DOMAIN points' : s > last' - Buckets => points'[s] = total[s]
  BY DEF Exactness
<1>0. \A s \in W!Seconds : s \in Int
  BY PartsAssumption DEF W!WindowConstants, W!Seconds
<1>1. ASSUME W!Velocity(c)
      PROVE  gauge' = W!SumFunction([s \in {t \in W!Seconds : stamp[c] - Horizon < t /\ t <= stamp[c]} |->
                                       total[s]])
  <2>1. /\ call[c] # "idle" /\ buckets' = W!Advanced(stamp[c])
        /\ gauge' = W!SumFunction([s \in W!Trailing(stamp[c]) |-> buckets'[W!Slot(s)]])
    BY <1>1 DEF W!Velocity
  <2>2. ASSUME NEW s \in W!Seconds, stamp[c] - Horizon < s, s <= stamp[c]
        PROVE  buckets'[W!Slot(s)] = total[s]
    <3>1. /\ stamp[c] \in W!Seconds /\ stamp[c] \in Int /\ W!Later(stamp[c]) \in Int
          /\ W!Later(stamp[c]) - Buckets < s /\ stamp[c] <= W!Later(stamp[c])
      BY <1>0, <2>1, <2>2, CallerIsInReach
    <3>2. s <= W!Later(stamp[c])
      BY <1>0, <2>2, <3>1
    <3> QED
      BY <2>1, <3>1, <3>2, AdvanceIsExact
  <2>3. [s \in W!Trailing(stamp[c]) |-> buckets'[W!Slot(s)]]
         = [s \in {t \in W!Seconds : stamp[c] - Horizon < t /\ t <= stamp[c]} |-> total[s]]
    BY <2>2 DEF W!Trailing
  <2> QED
    BY <2>1, <2>3, Zenon
<1>2. ASSUME W!Series(c), NEW s \in DOMAIN points', s > last' - Buckets
      PROVE  points'[s] = total[s]
  <2>1. /\ call[c] # "idle" /\ buckets' = W!Advanced(stamp[c]) /\ last' = W!Later(stamp[c])
        /\ points' = [t \in {u \in W!Seconds : stamp[c] - Buckets < u /\ u <= stamp[c]} |->
                        buckets'[W!Slot(t)]]
    BY <1>2 DEF W!Series
  <2>2. s \in W!Seconds /\ s <= stamp[c] /\ points'[s] = buckets'[W!Slot(s)]
    BY <1>2, <2>1
  <2>3. /\ stamp[c] \in W!Seconds /\ stamp[c] \in Int /\ W!Later(stamp[c]) \in Int
        /\ stamp[c] <= W!Later(stamp[c]) /\ Buckets \in Int
    BY <1>0, <2>1, CallerIsInReach, PartsAssumption DEF W!WindowConstants
  <2>4. s <= W!Later(stamp[c]) /\ W!Later(stamp[c]) - Buckets < s
    BY <1>0, <1>2, <2>1, <2>2, <2>3
  <2> QED
    BY <2>1, <2>2, <2>3, <2>4, AdvanceIsExact
<1> QED
  BY <1>1, <1>2

LEMMA StepGauge == GaugeInv /\ [W!Next]_(W!vars) => GaugeInv' /\ Exactness
<1> SUFFICES ASSUME GaugeInv, [W!Next]_(W!vars) PROVE GaugeInv'
  BY PollReads
<1>0. /\ MaxLag \in Int /\ GaugeClock \in Nat
  BY PartsAssumption DEF W!WindowConstants
<1>1. ASSUME NEW c \in Others, NEW n \in Amounts, W!BeginAdd(c, n) PROVE GaugeInv'
  <2>1. /\ call' = [call EXCEPT ![c] = "add"] /\ stamp' = [stamp EXCEPT ![c] = second]
        /\ UNCHANGED <<second, buckets, last, total>>
    BY <1>1, Zenon DEF W!BeginAdd
  <2> QED
    BY <1>0, <2>1, BeginKeeps
<1>2. ASSUME NEW c \in Others, W!BeginSnapshot(c) PROVE GaugeInv'
  <2>1. /\ call' = [call EXCEPT ![c] = "velocity"] /\ stamp' = [stamp EXCEPT ![c] = second]
        /\ UNCHANGED <<second, buckets, last, total>>
    BY <1>2 DEF W!BeginSnapshot
  <2> QED
    BY <1>0, <2>1, BeginKeeps
<1>3. ASSUME NEW c \in Others, W!AddNothing(c) PROVE GaugeInv'
  BY <1>3 DEF W!AddNothing, W!Return, GaugeInv, Recorded
<1>4. ASSUME NEW c \in Others, W!Add(c) PROVE GaugeInv'
  BY <1>4, AddKeeps
<1>5. ASSUME NEW c \in Others, W!Velocity(c) PROVE GaugeInv'
  <2>1. /\ call[c] # "idle" /\ buckets' = W!Advanced(stamp[c]) /\ last' = W!Later(stamp[c])
        /\ UNCHANGED <<second, stamp, total>> /\ call' = [call EXCEPT ![c] = "series"]
    BY <1>5 DEF W!Velocity
  <2>2. /\ DOMAIN call' = Others /\ DOMAIN stamp' = Others
        /\ \A d \in Others : call'[d] # "idle" => call[d] # "idle" /\ stamp'[d] = stamp[d]
    BY <2>1 DEF GaugeInv
  <2> QED
    BY <2>1, <2>2, LookKeeps
<1>6. ASSUME NEW c \in Others, W!Series(c) PROVE GaugeInv'
  <2>1. /\ call[c] # "idle" /\ buckets' = W!Advanced(stamp[c]) /\ last' = W!Later(stamp[c])
        /\ UNCHANGED <<second, total>>
        /\ call' = [call EXCEPT ![c] = "idle"] /\ stamp' = [stamp EXCEPT ![c] = 0]
    BY <1>6 DEF W!Series, W!Return
  <2>2. /\ DOMAIN call' = Others /\ DOMAIN stamp' = Others
        /\ \A d \in Others : call'[d] # "idle" => call[d] # "idle" /\ stamp'[d] = stamp[d]
    BY <2>1 DEF GaugeInv
  <2> QED
    BY <2>1, <2>2, LookKeeps
<1>7. CASE W!Tick
  <2>1. second \in 0..GaugeClock /\ second < GaugeClock /\ second' = second + 1 /\ last \in 0..second
    BY <1>7 DEF W!Tick, GaugeInv, W!Seconds
  <2>2. second' \in W!Seconds /\ last \in 0..second'
    BY <1>0, <2>1 DEF W!Seconds
  <2>3. \A c \in Others : call[c] # "idle" => stamp[c] \in 0..second' /\ second' - stamp[c] <= MaxLag
    BY <1>0, <1>7, <2>1 DEF W!Tick, GaugeInv
  <2>4. UNCHANGED <<buckets, last, call, stamp, total>>
    BY <1>7 DEF W!Tick
  <2> QED
    BY <2>2, <2>3, <2>4 DEF GaugeInv, Recorded
<1>8. CASE UNCHANGED W!vars
  BY <1>8 DEF W!vars, GaugeInv, Recorded
<1> QED
  BY <1>1, <1>2, <1>3, <1>4, <1>5, <1>6, <1>7, <1>8 DEF W!Next

(* For any ring, horizon and lag the ring has room for: what a poll reports *)
(* is exact for its own clock reading, whoever reached the ring before it.  *)
THEOREM PollsAreExact == W!Spec => PollIsExact
<1>1. W!Spec => [][Exactness]_(W!vars)
  BY InitGauge, StepGauge, PTL DEF W!Spec
<1> QED
  BY <1>1, PTL DEF PollIsExact, W!PollIsExact, Exactness
-----------------------------------------------------------------------------
(* All parts together: the clock is shared, and only goes forward. *)
PartInv == SketchInv /\ RateInv /\ TokenInv /\ MeterInv /\ GaugeInv

Forward == clock' \in {clock, clock + 1}

LEMMA SketchRests ==
  ASSUME SketchInv, Forward, UNCHANGED sketchVars PROVE SketchInv'
<1>1. clock' \in Nat /\ UNCHANGED <<sketches, sketchVerdict, recent>>
  BY DEF SketchInv, Forward, sketchVars
<1> QED
  BY <1>1 DEF SketchInv, S!FirstBlockIsFirst

LEMMA RateRests ==
  ASSUME RateInv, Forward, UNCHANGED rateVars PROVE RateInv' /\ Spaced
<1>1. clock \in Nat /\ clock' \in Nat /\ clock' >= clock /\ UNCHANGED <<rates, alert>>
  BY DEF RateInv, Forward, rateVars
<1>2. ShortWindow \in Nat /\ V!ZeroTime = -1
  BY PartsAssumption DEF V!VelocityConstants, V!ZeroTime
<1>3. \A a \in DOMAIN rates : Flagged(rates[a].blockedAt, alert[a])'
  BY <1>1, <1>2 DEF RateInv, Flagged
<1>4. \A a \in Others : alert[a] \in Int /\ (alert[a] \in 0..clock => alert[a] \in 0..clock')
  BY <1>1 DEF RateInv
<1> QED
  BY <1>1, <1>3, <1>4 DEF RateInv, Spaced

LEMMA RingsRest ==
  ASSUME TokenInv, Forward, UNCHANGED rateVars PROVE TokenInv'
<1>1. clock' \in Nat /\ clock' >= clock /\ clock \in Nat /\ UNCHANGED <<rates, obs>>
  BY DEF TokenInv, Forward, rateVars
<1> QED
  BY <1>1 DEF TokenInv, Known

LEMMA MeterRests ==
  ASSUME MeterInv, UNCHANGED meterVars PROVE MeterInv' /\ Ordered
<1>1. UNCHANGED M!vars
  BY DEF meterVars, M!vars
<1> QED
  BY <1>1, StepMeter

LEMMA GaugeRests ==
  ASSUME GaugeInv, UNCHANGED gaugeVars PROVE GaugeInv' /\ Exactness
<1>1. UNCHANGED W!vars
  BY DEF gaugeVars, W!vars
<1> QED
  BY <1>1, StepGauge

LEMMA StepParts ==
  PartInv /\ [PartNext]_<<part, clock, vars, restVars>> 
    => PartInv' /\ Spaced /\ Ordered /\ Exactness
<1> SUFFICES ASSUME PartInv, [PartNext]_<<part, clock, vars, restVars>>
             PROVE  PartInv' /\ Spaced /\ Ordered /\ Exactness
  OBVIOUS
<1>1. ASSUME Forward, UNCHANGED <<sketchVars, rateVars, meterVars, gaugeVars>>
      PROVE  PartInv' /\ Spaced /\ Ordered /\ Exactness
  BY <1>1, SketchRests, RateRests, RingsRest, MeterRests, GaugeRests DEF PartInv
<1>2. CASE Exact \/ UNCHANGED <<part, clock, vars, restVars>>
  BY <1>1, <1>2 DEF Exact, restVars, Forward
<1>3. CASE Structural
  <2>1. S!Next /\ UNCHANGED <<rateVars, meterVars, gaugeVars>>
    BY <1>3 DEF Structural
  <2>2. Forward
    BY <2>1 DEF S!Next, S!CheckPayload, S!CheckDegenerate, S!CheckStructure, S!Reset, S!Tick, Forward
  <2> QED
    BY <2>1, <2>2, StepSketch, RateRests, RingsRest, MeterRests, GaugeRests DEF PartInv
<1>4. CASE Tools
  <2>1. T!Next /\ UNCHANGED <<sketchVars, rateVars, meterVars, gaugeVars>>
    BY <1>4 DEF Tools
  <2>2. Forward
    BY <2>1 DEF T!Next, T!CheckPayload, T!CheckWithoutTools, T!CheckWithTools, T!Reset, T!Tick, Forward
  <2> QED
    BY <1>1, <2>1, <2>2
<1>5. CASE Velocity
  <2>1. V!Next /\ UNCHANGED <<sketchVars, meterVars, gaugeVars>>
    BY <1>5 DEF Velocity
  <2>2. Forward
    BY <2>1 DEF V!Next, V!CheckVelocity, V!Reset, V!Tick, Forward
  <2> QED
    BY <2>1, <2>2, StepRate, StepRings, SketchRests, MeterRests, GaugeRests DEF PartInv
<1>6. CASE Count
  <2>1. M!Next /\ clock' = clock /\ UNCHANGED <<sketchVars, rateVars, gaugeVars>>
    BY <1>6 DEF Count
  <2>2. Forward
    BY <2>1 DEF Forward
  <2> QED
    BY <2>1, <2>2, StepMeter, SketchRests, RateRests, RingsRest, GaugeRests DEF PartInv
<1>7. CASE Gauge
  <2>1. W!Next /\ clock' = clock /\ UNCHANGED <<sketchVars, rateVars, meterVars>>
    BY <1>7 DEF Gauge
  <2>2. Forward
    BY <2>1 DEF Forward
  <2> QED
    BY <2>1, <2>2, StepGauge, SketchRests, RateRests, RingsRest, MeterRests DEF PartInv
<1> QED
  BY <1>2, <1>3, <1>4, <1>5, <1>6, <1>7 DEF PartNext

(* The specification that the run explores has all these properties for     *)
(* every value of the constants, whichever part a behaviour exercises and   *)
(* although the parts share one clock.                                      *)
THEOREM PartsAreSound ==
  PartSpec => /\ []LoopQuota /\ AlertsAreRare /\ SnapshotIsOrdered /\ PollIsExact
              /\ []RingsAreExact /\ []AdmittedWithinBurst
<1>1. PartInit => PartInv
  BY InitSketch, InitRate, InitRings, InitMeter, InitGauge DEF PartInit, PartInv
<1>2. PartInv => LoopQuota /\ S!FirstBlockIsFirst /\ RingsAreExact /\ AdmittedWithinBurst
  BY LoopQuotaFollows, RingsFollow DEF PartInv, SketchInv
<1>3. PartInv /\ [PartNext]_<<part, clock, vars, restVars>>
        => PartInv' /\ [Spaced]_(V!vars) /\ [Ordered]_(M!vars) /\ [Exactness]_(W!vars)
  BY StepParts
<1>4. PartSpec => /\ []LoopQuota /\ []S!FirstBlockIsFirst /\ [][Spaced]_(V!vars) /\ [][Ordered]_(M!vars)
                   /\ [][Exactness]_(W!vars) /\ []RingsAreExact /\ []AdmittedWithinBurst
  BY <1>1, <1>2, <1>3, PTL DEF PartSpec
<1> QED
  BY <1>4, PTL DEF AlertsAreRare, V!IncidentsAreSpaced, Spaced,
                   SnapshotIsOrdered, M!SnapshotIsOrdered, Ordered,
                   PollIsExact, W!PollIsExact, Exactness
=============================================================================
