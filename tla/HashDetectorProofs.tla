------------------------- MODULE HashDetectorProofs -------------------------
(***************************************************************************)
(* Proofs about HashDetector, for any agents, fingerprints, TTL, capacity, *)
(* limits and bounds.                                                      *)
(*                                                                         *)
(* The inductive invariant is DetectorInv.  BoundedMemory is inductive     *)
(* only together with the finiteness of the map's domain; WindowShape      *)
(* needs the types; OneAlertPerWindow needs nothing but the types, since   *)
(* an alert and blockedAt change in the same steps.                        *)
(* SlidingQuota is about the history passed; its invariant is QuotaInv.    *)
(***************************************************************************)
EXTENDS HashDetector, FiniteSetTheorems, TLAPS

DetectorInv == TypeOK /\ BoundedMemory /\ WindowShape /\ OneAlertPerWindow

(* evictIfNeeded deletes tracked keys only and leaves room for one more,    *)
(* and whatever it deletes expires no later than anything it keeps.         *)
LEMMA EvictionMakesRoom ==
  ASSUME IsFiniteSet(DOMAIN seen), NEW gone \in Evictions
  PROVE  /\ gone \subseteq DOMAIN seen
         /\ IsFiniteSet(DOMAIN seen \ gone)
         /\ Cardinality(DOMAIN seen \ gone) <= MaxEntries - 1
         /\ gone # {} => Cardinality(DOMAIN seen) >= MaxEntries
         /\ \A k \in gone, l \in DOMAIN seen \ gone :
               seen[k].expires <= seen[l].expires
<1> DEFINE tracked == DOMAIN seen
           excess  == Cardinality(tracked) - MaxEntries + 1
<1>1. Cardinality(tracked) \in Nat /\ MaxEntries \in Nat \ {0}
  BY FS_CardinalityType, DetectorAssumption
<1>2. CASE excess <= 0
  <2>1. gone = {}
    BY <1>2 DEF Evictions, Excess
  <2>2. tracked \ gone = tracked
    BY <2>1
  <2> QED
    BY <1>1, <1>2, <2>1, <2>2
<1>3. CASE ~(excess <= 0)
  <2>1. /\ gone \subseteq tracked
        /\ Cardinality(gone) = excess
        /\ \A k \in gone, l \in tracked \ gone : seen[k].expires <= seen[l].expires
    BY <1>3 DEF Evictions, Excess
  <2>2. IsFiniteSet(tracked \ gone)
    BY FS_Difference
  <2>3. Cardinality(tracked \ gone) = Cardinality(tracked) - Cardinality(tracked \cap gone)
    BY FS_Difference
  <2>4. tracked \cap gone = gone
    BY <2>1
  <2>5. Cardinality(tracked \ gone) = Cardinality(tracked) - excess
    BY <2>1, <2>3, <2>4
  <2>6. Cardinality(tracked \ gone) = MaxEntries - 1 /\ Cardinality(tracked) >= MaxEntries
    BY <1>1, <1>3, <2>5
  <2>7. Cardinality(tracked \ gone) <= MaxEntries - 1
    BY <1>1, <2>6
  <2> QED
    BY <2>1, <2>2, <2>6, <2>7
<1> QED
  BY <1>2, <1>3

-----------------------------------------------------------------------------
(* Type correctness: the initial state and every step keep TypeOK. *)
LEMMA InitType == Init => TypeOK
BY DetectorAssumption
   DEF Init, TypeOK, Keys, Pass, ConstructedLimit, DefaultLimit

LEMMA CountedType ==
  ASSUME TypeOK, NEW e \in Entry
  PROVE  Counted(e) \in Entry
BY DetectorAssumption DEF TypeOK, Counted, Entry, ZeroTime

LEMMA RepeatVerdictType ==
  ASSUME TypeOK, NEW e \in Entry, Live(e)
  PROVE  RepeatVerdict(e) \in [block : BOOLEAN, first : BOOLEAN, retryAfter : Nat]
<1>1. e.expires - now \in Nat /\ Second \in Nat \ {0}
  BY DetectorAssumption DEF TypeOK, Entry, Live
<1>2. CeilSeconds(e.expires - now) \in Nat
  BY <1>1, SMTT(30) DEF CeilSeconds
<1> QED
  BY <1>2 DEF RepeatVerdict, Pass

LEMMA NewEntryType ==
  ASSUME TypeOK
  PROVE  NewEntry(now) \in Entry
BY DetectorAssumption DEF TypeOK, NewEntry, Entry, ZeroTime

(* Deleting keys keeps the map well typed. *)
LEMMA RestrictedType ==
  ASSUME TypeOK, NEW S \in SUBSET DOMAIN seen
  PROVE  /\ DOMAIN Restricted(S) = S
         /\ S \subseteq Keys
         /\ Restricted(S) \in [S -> Entry]
BY DEF TypeOK, Restricted

LEMMA StepType == TypeOK /\ BoundedMemory /\ [Next]_vars => TypeOK'
<1> SUFFICES ASSUME TypeOK, BoundedMemory, [Next]_vars PROVE TypeOK'
  OBVIOUS
<1>1. ASSUME NEW k \in Keys, OpenWindow(k) PROVE TypeOK'
  <2>1. PICK gone \in Evictions :
          /\ seen' = [l \in (DOMAIN seen \ gone) \cup {k} |->
                        IF l = k THEN NewEntry(now) ELSE seen[l]]
          /\ passed' = [Forget(gone) EXCEPT ![k] = @ \cup {<<now, 1>>}]
    BY <1>1 DEF OpenWindow
  <2>2. seen' \in [DOMAIN seen' -> Entry] /\ DOMAIN seen' \subseteq Keys
    BY <2>1, NewEntryType DEF TypeOK
  <2>3. passed' \in [Keys -> SUBSET (Nat \X Nat)]
    <3>1. Forget(gone) \in [Keys -> SUBSET (Nat \X Nat)]
      BY DEF Forget, TypeOK
    <3>2. <<now, 1>> \in Nat \X Nat
      BY DetectorAssumption DEF TypeOK
    <3> QED
      BY <2>1, <3>1, <3>2
  <2> QED
    BY <1>1, <2>2, <2>3 DEF OpenWindow, TypeOK, Pass
<1>2. ASSUME NEW k \in Keys, RepeatSighting(k) PROVE TypeOK'
  <2>1. k \in DOMAIN seen /\ Live(seen[k]) /\ seen[k] \in Entry
    BY <1>2 DEF RepeatSighting, LiveKeys, TypeOK
  <2>2. seen' = [seen EXCEPT ![k] = Counted(seen[k])]
    BY <1>2 DEF RepeatSighting
  <2>3. Counted(seen[k]) \in Entry
    BY <2>1, CountedType
  <2>4. DOMAIN seen' = DOMAIN seen /\ seen' \in [DOMAIN seen -> Entry]
    BY <2>2, <2>3 DEF TypeOK
  <2>5. verdict' \in [block : BOOLEAN, first : BOOLEAN, retryAfter : Nat]
    BY <1>2, <2>1, RepeatVerdictType DEF RepeatSighting
  <2>6. seen'[k].count \in Nat
    BY <2>1, <2>4 DEF Entry
  <2>7. alerts' \in [Keys -> Nat]
    BY <1>2 DEF RepeatSighting, TypeOK
  <2>8. passed' \in [Keys -> SUBSET (Nat \X Nat)]
    BY <1>2, <2>6, DetectorAssumption DEF RepeatSighting, TypeOK
  <2> QED
    BY <1>2, <2>4, <2>5, <2>7, <2>8 DEF RepeatSighting, TypeOK
<1>3. ASSUME NEW a \in Agents, Reset(a) PROVE TypeOK'
  <2> DEFINE gone == {k \in DOMAIN seen : k[1] = a}
  <2>1. seen' = Restricted(DOMAIN seen \ gone) /\ passed' = Forget(gone)
    BY <1>3 DEF Reset
  <2>2. DOMAIN seen' \subseteq Keys /\ seen' \in [DOMAIN seen' -> Entry]
    BY <2>1, RestrictedType
  <2>3. Forget(gone) \in [Keys -> SUBSET (Nat \X Nat)]
    BY DEF Forget, TypeOK
  <2> QED
    BY <1>3, <2>1, <2>2, <2>3 DEF Reset, TypeOK
<1>4. ASSUME NEW a \in Agents, SweepAgent(a) PROVE TypeOK'
  BY <1>4, RestrictedType DEF SweepAgent, TypeOK
<1>5. ASSUME NEW n \in LimitInputs, SetLimit(n) PROVE TypeOK'
  BY <1>5, DetectorAssumption DEF SetLimit, TypeOK, ClampedLimit
<1>6. CASE SweepAll
  BY <1>6, RestrictedType DEF SweepAll, TypeOK, LiveKeys
<1>7. CASE Tick
  BY <1>7, DetectorAssumption DEF Tick, TypeOK
<1>8. CASE UNCHANGED vars
  BY <1>8 DEF vars, TypeOK
<1> QED
  BY <1>1, <1>2, <1>3, <1>4, <1>5, <1>6, <1>7, <1>8 DEF Next, Check

-----------------------------------------------------------------------------
(* The capacity bound: an insertion is preceded by an eviction that leaves  *)
(* room for it, and everything else keeps or shrinks the domain.            *)
LEMMA StepBounded == TypeOK /\ BoundedMemory /\ [Next]_vars => BoundedMemory'
<1> SUFFICES ASSUME TypeOK, BoundedMemory, [Next]_vars PROVE BoundedMemory'
  OBVIOUS
<1>0. MaxEntries \in Nat
  BY DetectorAssumption
<1>1. ASSUME NEW S \in SUBSET DOMAIN seen, DOMAIN seen' = S PROVE BoundedMemory'
  <2>1. IsFiniteSet(S) /\ Cardinality(S) <= Cardinality(DOMAIN seen)
    BY FS_Subset DEF BoundedMemory
  <2>2. Cardinality(S) \in Nat /\ Cardinality(DOMAIN seen) \in Nat
    BY <2>1, FS_CardinalityType DEF BoundedMemory
  <2> QED
    BY <1>0, <1>1, <2>1, <2>2 DEF BoundedMemory
<1>2. ASSUME NEW k \in Keys, OpenWindow(k) PROVE BoundedMemory'
  <2>1. PICK gone \in Evictions :
          seen' = [l \in (DOMAIN seen \ gone) \cup {k} |->
                        IF l = k THEN NewEntry(now) ELSE seen[l]]
    BY <1>2 DEF OpenWindow
  <2> DEFINE kept == DOMAIN seen \ gone
  <2>2. IsFiniteSet(kept) /\ Cardinality(kept) <= MaxEntries - 1
    BY EvictionMakesRoom DEF BoundedMemory
  <2>3. Cardinality(kept) \in Nat
    BY <2>2, FS_CardinalityType
  <2>4. /\ IsFiniteSet(kept \cup {k})
        /\ Cardinality(kept \cup {k}) = IF k \in kept THEN Cardinality(kept)
                                                     ELSE Cardinality(kept) + 1
    BY <2>2, FS_AddElement
  <2>5. DOMAIN seen' = kept \cup {k}
    BY <2>1
  <2>6. Cardinality(kept \cup {k}) <= MaxEntries
    <3> HIDE DEF kept
    <3> QED BY <1>0, <2>2, <2>3, <2>4
  <2> QED
    BY <2>4, <2>5, <2>6 DEF BoundedMemory
<1>3. ASSUME NEW k \in Keys, RepeatSighting(k) PROVE BoundedMemory'
  BY <1>1, <1>3 DEF RepeatSighting
<1>4. ASSUME NEW a \in Agents, Reset(a) PROVE BoundedMemory'
  BY <1>1, <1>4 DEF Reset, Restricted
<1>5. ASSUME NEW a \in Agents, SweepAgent(a) PROVE BoundedMemory'
  BY <1>1, <1>5 DEF SweepAgent, Restricted
<1>6. CASE SweepAll
  BY <1>1, <1>6 DEF SweepAll, Restricted, LiveKeys
<1>7. CASE UNCHANGED seen
  BY <1>7 DEF BoundedMemory
<1> QED
  BY <1>2, <1>3, <1>4, <1>5, <1>6, <1>7 DEF Next, Check, SetLimit, Tick, vars
-----------------------------------------------------------------------------
(* A block recorded by Check lies in the window it is recorded in. *)
EntryShape(e, t) ==
  /\ e.expires <= t + TTL
  /\ e.blockedAt = ZeroTime <=> e.lastBlock = ZeroTime
  /\ e.blockedAt # ZeroTime =>
       /\ e.expires - TTL <= e.blockedAt
       /\ e.blockedAt <= e.lastBlock
       /\ e.lastBlock <= t
       /\ e.lastBlock < e.expires
       /\ e.count >= 2

LEMMA ShapeByEntry == WindowShape <=> \A k \in DOMAIN seen : EntryShape(seen[k], now)
BY DEF WindowShape, EntryShape

LEMMA CountedShape ==
  ASSUME TypeOK, NEW e \in Entry, EntryShape(e, now), Live(e)
  PROVE  EntryShape(Counted(e), now)
BY DetectorAssumption DEF TypeOK, Entry, EntryShape, Counted, Live, ZeroTime

LEMMA StepShape == TypeOK /\ WindowShape /\ [Next]_vars => WindowShape'
<1> SUFFICES ASSUME TypeOK, WindowShape, [Next]_vars
             PROVE  \A k \in DOMAIN seen' : EntryShape(seen'[k], now')
  BY DEF WindowShape, EntryShape
<1>0. \A k \in DOMAIN seen : EntryShape(seen[k], now)
  BY ShapeByEntry
<1>1. ASSUME NEW k \in Keys, OpenWindow(k)
      PROVE  \A l \in DOMAIN seen' : EntryShape(seen'[l], now')
  <2>1. EntryShape(NewEntry(now), now)
    BY DetectorAssumption DEF TypeOK, NewEntry, EntryShape
  <2> QED
    BY <1>0, <1>1, <2>1 DEF OpenWindow
<1>2. ASSUME NEW k \in Keys, RepeatSighting(k)
      PROVE  \A l \in DOMAIN seen' : EntryShape(seen'[l], now')
  <2>1. k \in DOMAIN seen /\ Live(seen[k]) /\ seen[k] \in Entry
    BY <1>2 DEF RepeatSighting, LiveKeys, TypeOK
  <2>2. EntryShape(Counted(seen[k]), now)
    BY <1>0, <2>1, CountedShape
  <2>3. seen' = [seen EXCEPT ![k] = Counted(seen[k])] /\ now' = now
    BY <1>2 DEF RepeatSighting
  <2> QED
    BY <1>0, <2>1, <2>2, <2>3
<1>3. ASSUME NEW S \in SUBSET DOMAIN seen, seen' = Restricted(S), now' = now
      PROVE  \A l \in DOMAIN seen' : EntryShape(seen'[l], now')
  BY <1>0, <1>3 DEF Restricted
<1>4. ASSUME NEW a \in Agents, Reset(a)
      PROVE  \A l \in DOMAIN seen' : EntryShape(seen'[l], now')
  BY <1>3, <1>4 DEF Reset
<1>5. ASSUME NEW a \in Agents, SweepAgent(a)
      PROVE  \A l \in DOMAIN seen' : EntryShape(seen'[l], now')
  BY <1>3, <1>5 DEF SweepAgent
<1>6. CASE SweepAll
  BY <1>3, <1>6 DEF SweepAll, LiveKeys
<1>7. CASE Tick
  BY <1>0, <1>7, DetectorAssumption DEF Tick, EntryShape, TypeOK, Entry, ZeroTime
<1>8. CASE UNCHANGED <<seen, now>>
  BY <1>0, <1>8
<1> QED
  BY <1>1, <1>2, <1>4, <1>5, <1>6, <1>7, <1>8 DEF Next, Check, SetLimit, vars

-----------------------------------------------------------------------------
(* FirstBlock is answered in the step that sets blockedAt, and blockedAt is *)
(* never cleared while the window lasts.                                    *)
LEMMA StepAlerts ==
  TypeOK /\ OneAlertPerWindow /\ [Next]_vars => OneAlertPerWindow'
<1> SUFFICES ASSUME TypeOK, OneAlertPerWindow, [Next]_vars
             PROVE  OneAlertPerWindow'
  OBVIOUS
<1>1. ASSUME NEW k \in Keys, OpenWindow(k) PROVE OneAlertPerWindow'
  BY <1>1 DEF OpenWindow, OneAlertPerWindow, TypeOK, NewEntry
<1>2. ASSUME NEW k \in Keys, RepeatSighting(k) PROVE OneAlertPerWindow'
  <2>1. k \in DOMAIN seen /\ seen[k] \in Entry
    BY <1>2 DEF RepeatSighting, LiveKeys, TypeOK
  <2>2. /\ seen' = [seen EXCEPT ![k] = Counted(seen[k])]
        /\ verdict' = RepeatVerdict(seen[k])
        /\ alerts' = [alerts EXCEPT ![k] = IF verdict'.first THEN alerts[k] + 1
                                                           ELSE alerts[k]]
    BY <1>2 DEF RepeatSighting
  <2>3. alerts'[k] = IF Counted(seen[k]).blockedAt = ZeroTime THEN 0 ELSE 1
    <3>1. now # ZeroTime /\ alerts[k] = IF seen[k].blockedAt = ZeroTime THEN 0 ELSE 1
      BY <2>1, DetectorAssumption DEF TypeOK, ZeroTime, OneAlertPerWindow
    <3>2. CASE seen[k].count + 1 < limit
      BY <2>1, <2>2, <3>1, <3>2 DEF RepeatVerdict, Counted, Pass, Entry, TypeOK
    <3>3. CASE ~(seen[k].count + 1 < limit) /\ seen[k].blockedAt = ZeroTime
      <4>1. verdict'.first
        BY <2>2, <3>3 DEF RepeatVerdict
      <4>2. alerts'[k] = 1
        BY <2>2, <3>1, <3>3, <4>1 DEF TypeOK
      <4>3. Counted(seen[k]).blockedAt = now
        BY <2>1, <3>3 DEF Counted, Entry, TypeOK
      <4> QED
        BY <3>1, <4>2, <4>3
    <3>4. CASE ~(seen[k].count + 1 < limit) /\ seen[k].blockedAt # ZeroTime
      BY <2>1, <2>2, <3>1, <3>4 DEF RepeatVerdict, Counted, Entry, TypeOK
    <3> QED
      BY <3>2, <3>3, <3>4
  <2> QED
    BY <2>1, <2>2, <2>3 DEF OneAlertPerWindow, TypeOK
<1>3. ASSUME NEW S \in SUBSET DOMAIN seen, seen' = Restricted(S), alerts' = alerts
      PROVE  OneAlertPerWindow'
  BY <1>3 DEF Restricted, OneAlertPerWindow
<1>4. ASSUME NEW a \in Agents, Reset(a) PROVE OneAlertPerWindow'
  BY <1>3, <1>4 DEF Reset
<1>5. ASSUME NEW a \in Agents, SweepAgent(a) PROVE OneAlertPerWindow'
  BY <1>3, <1>5 DEF SweepAgent
<1>6. CASE SweepAll
  BY <1>3, <1>6 DEF SweepAll, LiveKeys
<1>7. CASE UNCHANGED <<seen, alerts>>
  BY <1>7 DEF OneAlertPerWindow
<1> QED
  BY <1>1, <1>2, <1>4, <1>5, <1>6, <1>7 DEF Next, Check, SetLimit, Tick, vars

-----------------------------------------------------------------------------
LEMMA InitInv == Init => DetectorInv
<1> SUFFICES ASSUME Init PROVE DetectorInv
  OBVIOUS
<1>1. DOMAIN seen = {}
  BY DEF Init
<1>2. BoundedMemory
  BY <1>1, FS_EmptySet, DetectorAssumption DEF BoundedMemory
<1> QED
  BY <1>1, <1>2, InitType DEF DetectorInv, WindowShape, OneAlertPerWindow

LEMMA StepInv == DetectorInv /\ [Next]_vars => DetectorInv'
BY StepType, StepBounded, StepShape, StepAlerts DEF DetectorInv

(* The inductive invariant holds in every reachable state of the detector. *)
THEOREM DetectorInvariant == Spec => []DetectorInv
BY InitInv, StepInv, PTL DEF Spec

(* The detector's variables keep their types. *)
THEOREM TypeCorrect == Spec => []TypeOK
<1>1. DetectorInv => TypeOK
  BY DEF DetectorInv
<1> QED
  BY <1>1, DetectorInvariant, PTL

(* However many distinct payloads arrive, HashDetector never tracks more    *)
(* than max entries (evictIfNeeded before every insertion).                 *)
THEOREM MemoryIsBounded == Spec => []BoundedMemory
<1>1. DetectorInv => BoundedMemory
  BY DEF DetectorInv
<1> QED
  BY <1>1, DetectorInvariant, PTL

(* The block times kept in an entry lie in the entry's own window. *)
THEOREM WindowsAreShaped == Spec => []WindowShape
<1>1. DetectorInv => WindowShape
  BY DEF DetectorInv
<1> QED
  BY <1>1, DetectorInvariant, PTL

(* Check answers FirstBlock at most once per window and key, whatever the   *)
(* traffic and however SetLimit moves the limit meanwhile.                  *)
THEOREM AlertsOncePerWindow == Spec => []OneAlertPerWindow
<1>1. DetectorInv => OneAlertPerWindow
  BY DEF DetectorInv
<1> QED
  BY <1>1, DetectorInvariant, PTL

-----------------------------------------------------------------------------
(* The end of an open window never moves, so a stuck agent that keeps on    *)
(* sending does not prolong its own penalty: RepeatSighting keeps expires   *)
(* and OpenWindow only touches a key that has no open window.               *)
THEOREM WindowsAreFixed == Spec => WindowNeverExtended
<1>1. TypeOK /\ [Next]_vars =>
        [\A k \in LiveKeys \cap DOMAIN seen' :
            seen'[k].expires = seen[k].expires]_vars
  <2> SUFFICES ASSUME TypeOK, Next, NEW l \in LiveKeys, l \in DOMAIN seen'
               PROVE  seen'[l].expires = seen[l].expires
    BY Zenon
  <2>0. l \in DOMAIN seen
    BY DEF LiveKeys
  <2>1. ASSUME NEW k \in Keys, OpenWindow(k) PROVE seen'[l].expires = seen[l].expires
    BY <2>1 DEF OpenWindow
  <2>2. ASSUME NEW k \in Keys, RepeatSighting(k) PROVE seen'[l].expires = seen[l].expires
    BY <2>0, <2>2 DEF RepeatSighting, Counted, TypeOK
  <2>3. ASSUME NEW a \in Agents, Reset(a) PROVE seen'[l].expires = seen[l].expires
    BY <2>3 DEF Reset, Restricted
  <2>4. ASSUME NEW a \in Agents, SweepAgent(a) PROVE seen'[l].expires = seen[l].expires
    BY <2>4 DEF SweepAgent, Restricted
  <2>5. CASE SweepAll
    BY <2>5 DEF SweepAll, Restricted
  <2>6. CASE seen' = seen
    BY <2>6
  <2> QED
    BY <2>1, <2>2, <2>3, <2>4, <2>5, <2>6 DEF Next, Check, SetLimit, Tick
<1> QED
  BY <1>1, TypeCorrect, PTL DEF Spec, WindowNeverExtended

(* An open window is forgotten only by a Reset of its agent, or by an       *)
(* insertion into a map that is full of open windows: evictIfNeeded takes   *)
(* the smallest expires first, so while an expired entry is left it goes    *)
(* before any open one.                                                     *)
THEOREM OpenWindowsAreKept == Spec => ForgetsDeadFirst
<1>1. DetectorInv /\ [Next]_vars =>
        [\A k \in LiveKeys \ DOMAIN seen' :
           \/ Reset(k[1])
           \/ /\ Cardinality(DOMAIN seen) = MaxEntries
              /\ DOMAIN seen = LiveKeys
              /\ DOMAIN seen' \ DOMAIN seen # {}]_vars
  <2> SUFFICES ASSUME DetectorInv, Next, NEW l \in LiveKeys, l \notin DOMAIN seen'
               PROVE  \/ Reset(l[1])
                      \/ /\ Cardinality(DOMAIN seen) = MaxEntries
                         /\ DOMAIN seen = LiveKeys
                         /\ DOMAIN seen' \ DOMAIN seen # {}
    BY Zenon
  <2>0. l \in DOMAIN seen /\ now < seen[l].expires /\ TypeOK /\ BoundedMemory
    BY DEF LiveKeys, Live, DetectorInv
  <2>1. ASSUME NEW k \in Keys, OpenWindow(k)
        PROVE  /\ Cardinality(DOMAIN seen) = MaxEntries
               /\ DOMAIN seen = LiveKeys
               /\ DOMAIN seen' \ DOMAIN seen # {}
    <3>1. PICK gone \in Evictions :
            seen' = [m \in (DOMAIN seen \ gone) \cup {k} |->
                          IF m = k THEN NewEntry(now) ELSE seen[m]]
      BY <2>1 DEF OpenWindow
    <3>2. /\ Cardinality(DOMAIN seen) >= MaxEntries
          /\ \A i \in gone, j \in DOMAIN seen \ gone : seen[i].expires <= seen[j].expires
      BY <2>0, <3>1, EvictionMakesRoom DEF BoundedMemory
    <3>3. Cardinality(DOMAIN seen) = MaxEntries
      <4>1. Cardinality(DOMAIN seen) \in Nat /\ MaxEntries \in Nat
        BY <2>0, FS_CardinalityType, DetectorAssumption DEF BoundedMemory
      <4> QED
        BY <2>0, <3>2, <4>1 DEF BoundedMemory
    <3>4. gone \subseteq DOMAIN seen /\ l \in gone
      BY <2>0, <3>1, EvictionMakesRoom DEF BoundedMemory
    <3>5. \A j \in DOMAIN seen \ gone : Live(seen[j])
      BY <2>0, <3>2, <3>4, DetectorAssumption DEF Live, TypeOK, Entry
    <3>6. gone = {l}
      <4>1. Cardinality(gone) = 1
        <5>1. Cardinality(DOMAIN seen) - MaxEntries + 1 = 1
          BY <3>3, DetectorAssumption
        <5> QED
          BY <5>1 DEF Evictions, Excess
      <4>2. IsFiniteSet(gone)
        BY <2>0, <3>4, FS_Subset DEF BoundedMemory
      <4> QED
        BY <3>4, <4>1, <4>2, FS_Singleton
    <3>7. DOMAIN seen = LiveKeys
      BY <3>5, <3>6 DEF LiveKeys
    <3>8. k \in DOMAIN seen' /\ k \notin DOMAIN seen
      BY <2>1, <3>1, <3>7 DEF OpenWindow
    <3> QED
      BY <3>3, <3>7, <3>8
  <2>2. ASSUME NEW k \in Keys, RepeatSighting(k) PROVE FALSE
    BY <2>0, <2>2 DEF RepeatSighting, TypeOK
  <2>3. ASSUME NEW a \in Agents, Reset(a) PROVE Reset(l[1])
    <3>1. l[1] = a
      BY <2>0, <2>3 DEF Reset, Restricted
    <3> QED
      BY <2>3, <3>1
  <2>4. ASSUME NEW a \in Agents, SweepAgent(a) PROVE FALSE
    BY <2>0, <2>4 DEF SweepAgent, Restricted, Live
  <2>5. CASE SweepAll
    BY <2>5 DEF SweepAll, Restricted
  <2>6. CASE seen' = seen
    BY <2>0, <2>6
  <2> QED
    BY <2>1, <2>2, <2>3, <2>4, <2>5, <2>6 DEF Next, Check, SetLimit, Tick
<1> QED
  BY <1>1, DetectorInvariant, PTL DEF Spec, ForgetsDeadFirst

-----------------------------------------------------------------------------
(* What a fixed window promises over a sliding one.  The passes remembered  *)
(* for a key come from at most two windows; within one window the numbers   *)
(* of the passes are distinct and lie in 1..Quota.                          *)
TopLimit == CHOOSE n \in LimitsInUse : \A m \in LimitsInUse : m <= n

Quota == WindowQuota(TopLimit)

(* The passes S at time t, all younger than one TTL. *)
Recent(S, t) ==
  \A p \in S : p \in Nat \X (1..Quota) /\ t - TTL < p[1] /\ p[1] <= t

(* The key's window opened at w and has counted c sightings. *)
OpenPasses(S, w, c) ==
  /\ \A p, q \in S : (p[1] < w /\ q[1] < w /\ p[2] = q[2]) => p = q
  /\ \A p, q \in S : (p[1] >= w /\ q[1] >= w /\ p[2] = q[2]) => p = q
  /\ \A p \in S : p[1] >= w => p[2] <= c

(* No window is open at t: what is left are the passes of the last one. *)
ClosedPasses(S, t) ==
  /\ \A p, q \in S : p[2] = q[2] => p = q
  /\ \A p \in S : p[1] < t

KeyPasses(k) ==
  /\ Recent(passed[k], now)
  /\ k \in LiveKeys => OpenPasses(passed[k], seen[k].expires - TTL, seen[k].count)
  /\ k \notin LiveKeys => ClosedPasses(passed[k], now)

QuotaInv == limit \in LimitsInUse /\ \A k \in Keys : KeyPasses(k)

LEMMA QuotaBounds ==
  /\ Quota \in Nat \ {0}
  /\ TopLimit \in LimitsInUse
  /\ \A m \in LimitsInUse : m \in Nat \ {0} /\ (m > 2 => m - 1 <= Quota)
<1>1. TopLimit \in LimitsInUse /\ \A m \in LimitsInUse : m <= TopLimit
  BY LimitsAssumption DEF TopLimit
<1>2. \A m \in LimitsInUse : m \in Nat \ {0}
  BY DetectorAssumption DEF LimitsInUse, ConstructedLimit, DefaultLimit, ClampedLimit
<1> HIDE DEF TopLimit
<1> QED
  BY <1>1, <1>2 DEF Quota, WindowQuota

(* The keys that no step of the detector concerns keep their passes. *)
LEMMA UntouchedKey ==
  ASSUME TypeOK, QuotaInv, NEW k \in Keys, now' = now,
         \/ passed'[k] = passed[k] /\ (k \in LiveKeys' <=> k \in LiveKeys)
         \/ passed'[k] = {} /\ k \notin LiveKeys',
         k \in LiveKeys' => seen'[k] = seen[k]
  PROVE  KeyPasses(k)'
<1>1. KeyPasses(k)
  BY DEF QuotaInv
<1>2. CASE passed'[k] = {} /\ k \notin LiveKeys'
  BY <1>2 DEF KeyPasses, Recent, ClosedPasses
<1>3. CASE passed'[k] = passed[k] /\ (k \in LiveKeys' <=> k \in LiveKeys)
  BY <1>1, <1>3 DEF KeyPasses
<1> QED
  BY <1>2, <1>3

LEMMA StepQuota == DetectorInv /\ QuotaInv /\ [Next]_vars => QuotaInv'
<1> SUFFICES ASSUME DetectorInv, QuotaInv, [Next]_vars PROVE QuotaInv'
  OBVIOUS
<1>0. /\ TypeOK /\ BoundedMemory /\ WindowShape /\ TTL \in Nat \ {0} /\ now \in Nat
      /\ \A k \in DOMAIN seen : seen[k] \in Entry
      /\ passed \in [Keys -> SUBSET (Nat \X Nat)] /\ DOMAIN seen \subseteq Keys
  BY DetectorAssumption DEF DetectorInv, TypeOK
<1>1. ASSUME NEW k \in Keys, OpenWindow(k) PROVE QuotaInv'
  <2>1. PICK gone \in Evictions :
          /\ seen' = [l \in (DOMAIN seen \ gone) \cup {k} |->
                        IF l = k THEN NewEntry(now) ELSE seen[l]]
          /\ passed' = [Forget(gone) EXCEPT ![k] = @ \cup {<<now, 1>>}]
    BY <1>1 DEF OpenWindow
  <2>2. gone \subseteq DOMAIN seen /\ k \notin LiveKeys /\ now' = now /\ limit' = limit
    BY <1>0, <1>1, <2>1, EvictionMakesRoom DEF BoundedMemory, OpenWindow
  <2> SUFFICES ASSUME NEW l \in Keys PROVE KeyPasses(l)'
    BY <2>2 DEF QuotaInv
  <2>3. CASE l # k
    <3>1. passed'[l] = IF l \in gone /\ l \in LiveKeys THEN {} ELSE passed[l]
      BY <2>1, <2>3 DEF Forget
    <3>2. l \in LiveKeys' => l \in LiveKeys /\ seen'[l] = seen[l]
      BY <2>1, <2>2, <2>3 DEF LiveKeys, Live
    <3>3. l \in LiveKeys /\ l \notin gone => l \in LiveKeys'
      BY <2>1, <2>2, <2>3 DEF LiveKeys, Live
    <3>4. l \in gone => l \notin LiveKeys'
      BY <2>1, <2>3 DEF LiveKeys
    <3> QED
      BY <1>0, <2>2, <3>1, <3>2, <3>3, <3>4, UntouchedKey
  <2>4. CASE l = k
    <3>1. passed'[k] = passed[k] \cup {<<now, 1>>}
      BY <2>1, <2>2 DEF Forget
    <3>2. seen'[k] = NewEntry(now) /\ k \in LiveKeys'
      BY <1>0, <2>1, <2>2 DEF LiveKeys, Live, NewEntry
    <3>3. Recent(passed[k], now) /\ ClosedPasses(passed[k], now)
      BY <2>2 DEF QuotaInv, KeyPasses
    <3>4. Recent(passed'[k], now)
      BY <1>0, <3>1, <3>3, QuotaBounds DEF Recent
    <3>5. OpenPasses(passed'[k], now, 1)
      BY <1>0, <3>1, <3>3 DEF OpenPasses, ClosedPasses, Recent
    <3>6. seen'[k].expires - TTL = now /\ seen'[k].count = 1
      BY <1>0, <3>2 DEF NewEntry
    <3> QED
      BY <2>2, <2>4, <3>2, <3>4, <3>5, <3>6 DEF KeyPasses
  <2> QED
    BY <2>3, <2>4
<1>2. ASSUME NEW k \in Keys, RepeatSighting(k) PROVE QuotaInv'
  <2>1. /\ k \in LiveKeys /\ k \in DOMAIN seen /\ now' = now /\ limit' = limit
        /\ seen' = [seen EXCEPT ![k] = Counted(seen[k])]
        /\ verdict' = RepeatVerdict(seen[k])
        /\ passed' = [passed EXCEPT ![k] =
             IF verdict'.block THEN passed[k] ELSE passed[k] \cup {<<now, seen'[k].count>>}]
    BY <1>2 DEF RepeatSighting, LiveKeys
  <2> DEFINE e == seen[k]
  <2>2. /\ e \in Entry /\ now < e.expires /\ e.expires <= now + TTL
        /\ seen'[k] = Counted(e) /\ seen'[k].expires = e.expires
        /\ seen'[k].count = e.count + 1 /\ k \in LiveKeys'
    BY <1>0, <2>1 DEF LiveKeys, Live, WindowShape, Counted
  <2> SUFFICES ASSUME NEW l \in Keys PROVE KeyPasses(l)'
    BY <2>1 DEF QuotaInv
  <2>3. CASE l # k
    <3>1. passed'[l] = passed[l] /\ (l \in DOMAIN seen => seen'[l] = seen[l])
      BY <1>0, <2>1, <2>3
    <3>2. l \in LiveKeys' <=> l \in LiveKeys
      BY <2>1, <3>1 DEF LiveKeys, Live
    <3> QED
      BY <1>0, <2>1, <3>1, <3>2, UntouchedKey DEF LiveKeys
  <2>4. CASE l = k
    <3>1. Recent(passed[k], now) /\ OpenPasses(passed[k], e.expires - TTL, e.count)
      BY <2>1 DEF QuotaInv, KeyPasses
    <3>2. CASE e.count + 1 < limit
      <4>1. passed'[k] = passed[k] \cup {<<now, e.count + 1>>}
        BY <1>0, <2>1, <2>2, <3>2 DEF RepeatVerdict, Pass
      <4>2. e.count + 1 \in 1..Quota /\ e.count \in Nat
        BY <2>2, <3>2, QuotaBounds DEF QuotaInv, Entry
      <4>3. Recent(passed'[k], now)
        BY <1>0, <3>1, <4>1, <4>2 DEF Recent
      <4>4. OpenPasses(passed'[k], e.expires - TTL, e.count + 1)
        <5> DEFINE w == e.expires - TTL
                   c == e.count
        <5>1. w \in Int /\ w <= now /\ c \in Nat
          BY <1>0, <2>2, <4>2 DEF Entry
        <5>2. \A p \in passed[k] : p[1] \in Nat /\ p[2] \in Nat
          BY <1>0
        <5>3. OpenPasses(passed[k], w, c) /\ passed'[k] = passed[k] \cup {<<now, c + 1>>}
          BY <3>1, <4>1
        <5> HIDE DEF w, c
        <5>4. OpenPasses(passed'[k], w, c + 1)
          BY <1>0, <5>1, <5>2, <5>3 DEF OpenPasses
        <5> QED
          BY <5>4 DEF w, c
      <4> QED
        BY <2>1, <2>2, <2>4, <4>3, <4>4 DEF KeyPasses
    <3>3. CASE ~(e.count + 1 < limit)
      <4>1. passed'[k] = passed[k]
        BY <1>0, <2>1, <3>3 DEF RepeatVerdict
      <4>2. OpenPasses(passed[k], e.expires - TTL, e.count + 1)
        BY <1>0, <2>2, <3>1 DEF OpenPasses, Entry
      <4> QED
        BY <2>1, <2>2, <2>4, <3>1, <4>1, <4>2 DEF KeyPasses
    <3> QED
      BY <3>2, <3>3
  <2> QED
    BY <2>3, <2>4
<1>3. ASSUME NEW a \in Agents, Reset(a) PROVE QuotaInv'
  <2> SUFFICES ASSUME NEW l \in Keys PROVE KeyPasses(l)'
    BY <1>3 DEF QuotaInv, Reset
  <2> DEFINE gone == {k \in DOMAIN seen : k[1] = a}
  <2>1. seen' = Restricted(DOMAIN seen \ gone) /\ passed' = Forget(gone) /\ now' = now
    BY <1>3 DEF Reset
  <2>2. passed'[l] = IF l \in gone /\ l \in LiveKeys THEN {} ELSE passed[l]
    BY <2>1 DEF Forget
  <2>3. /\ l \in LiveKeys' => l \in LiveKeys /\ seen'[l] = seen[l] /\ l \notin gone
        /\ l \in LiveKeys /\ l \notin gone => l \in LiveKeys'
    BY <2>1 DEF LiveKeys, Live, Restricted
  <2> QED
    BY <1>0, <2>1, <2>2, <2>3, UntouchedKey
<1>4. ASSUME NEW S \in SUBSET DOMAIN seen, LiveKeys \subseteq S, seen' = Restricted(S),
             UNCHANGED <<now, limit, passed>>
      PROVE  QuotaInv'
  <2> SUFFICES ASSUME NEW l \in Keys PROVE KeyPasses(l)'
    BY <1>4 DEF QuotaInv
  <2>1. /\ l \in LiveKeys' <=> l \in LiveKeys
        /\ l \in LiveKeys' => seen'[l] = seen[l]
    BY <1>4 DEF LiveKeys, Live, Restricted
  <2> QED
    BY <1>0, <1>4, <2>1, UntouchedKey
<1>5. ASSUME NEW a \in Agents, SweepAgent(a) PROVE QuotaInv'
  BY <1>4, <1>5 DEF SweepAgent, LiveKeys
<1>6. CASE SweepAll
  BY <1>4, <1>6 DEF SweepAll, LiveKeys
<1>7. ASSUME NEW n \in LimitInputs, SetLimit(n) PROVE QuotaInv'
  BY <1>7 DEF SetLimit, QuotaInv, KeyPasses, LiveKeys, Live, LimitsInUse
<1>8. CASE Tick
  <2>1. now' = now + 1 /\ UNCHANGED <<seen, limit>>
    BY <1>8 DEF Tick
  <2> SUFFICES ASSUME NEW l \in Keys PROVE KeyPasses(l)'
    BY <2>1 DEF QuotaInv
  <2>2. passed'[l] = {p \in passed[l] : p[1] > now + 1 - TTL}
    <3>1. passed' = [k \in Keys |-> {p \in passed[k] : p[1] > now' - TTL}]
      BY <1>8 DEF Tick
    <3>2. passed'[l] = {p \in passed[l] : p[1] > now' - TTL}
      BY <3>1
    <3> QED
      BY <1>0, <2>1, <3>2
  <2>3. Recent(passed[l], now)
    BY DEF QuotaInv, KeyPasses
  <2>4. Recent(passed'[l], now + 1)
    BY <1>0, <2>2, <2>3 DEF Recent
  <2>5. CASE l \in LiveKeys'
    <3>1. l \in LiveKeys /\ OpenPasses(passed[l], seen[l].expires - TTL, seen[l].count)
      BY <1>0, <2>1, <2>5 DEF LiveKeys, Live, Entry, QuotaInv, KeyPasses
    <3>2. OpenPasses(passed'[l], seen[l].expires - TTL, seen[l].count)
      BY <2>2, <3>1 DEF OpenPasses
    <3> QED
      BY <2>1, <2>4, <2>5, <3>2 DEF KeyPasses
  <2>6. CASE l \notin LiveKeys'
    <3>1. CASE l \in LiveKeys
      <4>1. seen[l].expires = now + 1
        BY <1>0, <2>1, <2>6, <3>1 DEF LiveKeys, Live, Entry
      <4>2. OpenPasses(passed[l], seen[l].expires - TTL, seen[l].count)
        BY <3>1 DEF QuotaInv, KeyPasses
      <4>3. ClosedPasses(passed'[l], now + 1)
        BY <1>0, <2>2, <2>3, <4>1, <4>2 DEF OpenPasses, ClosedPasses, Recent
      <4> QED
        BY <2>1, <2>4, <2>6, <4>3 DEF KeyPasses
    <3>2. CASE l \notin LiveKeys
      <4>1. ClosedPasses(passed'[l], now + 1)
        BY <1>0, <2>2, <2>3, <3>2 DEF ClosedPasses, Recent, QuotaInv, KeyPasses
      <4> QED
        BY <2>1, <2>4, <2>6, <4>1 DEF KeyPasses
    <3> QED
      BY <3>1, <3>2
  <2> QED
    BY <2>5, <2>6
<1>9. CASE UNCHANGED vars
  BY <1>9 DEF vars, QuotaInv, KeyPasses, LiveKeys, Live
<1> QED
  BY <1>1, <1>2, <1>3, <1>5, <1>6, <1>7, <1>8, <1>9 DEF Next, Check

(* Passes with different numbers are counted by their numbers. *)
LEMMA NumberedPasses ==
  ASSUME NEW S, \A p \in S : p[2] \in 1..Quota, \A p, q \in S : p[2] = q[2] => p = q
  PROVE  IsFiniteSet(S) /\ Cardinality(S) <= Quota
<1> DEFINE f == [p \in S |-> p[2]]
<1>1. f \in Injection(S, 1..Quota)
  BY DEF Injection, IsInjective
<1>2. IsFiniteSet(1..Quota) /\ Cardinality(1..Quota) = Quota
  BY QuotaBounds, FS_Interval
<1> QED
  BY <1>1, <1>2, FS_Injection

LEMMA TwoWindows == DetectorInv /\ QuotaInv => SlidingQuota
<1> SUFFICES ASSUME DetectorInv, QuotaInv, NEW k \in Keys
             PROVE  Cardinality(passed[k]) <= 2 * Quota
  BY QuotaBounds DEF SlidingQuota, Quota
<1>1. \A p \in passed[k] : p[1] \in Nat /\ p[2] \in 1..Quota
  BY DEF QuotaInv, KeyPasses, Recent
<1>2. CASE k \notin LiveKeys
  <2>1. \A p, q \in passed[k] : p[2] = q[2] => p = q
    BY <1>2 DEF QuotaInv, KeyPasses, ClosedPasses
  <2>2. IsFiniteSet(passed[k]) /\ Cardinality(passed[k]) <= Quota
    BY <1>1, <2>1, NumberedPasses
  <2> QED
    BY <2>2, FS_CardinalityType, QuotaBounds
<1>3. CASE k \in LiveKeys
  <2> DEFINE w   == seen[k].expires - TTL
             Old == {p \in passed[k] : p[1] < w}
             Cur == {p \in passed[k] : p[1] >= w}
  <2>1. w \in Int
    BY <1>3, DetectorAssumption DEF LiveKeys, DetectorInv, TypeOK, Entry
  <2>2. OpenPasses(passed[k], w, seen[k].count)
    BY <1>3 DEF QuotaInv, KeyPasses
  <2>3. IsFiniteSet(Old) /\ Cardinality(Old) <= Quota
    BY <1>1, <2>2, NumberedPasses DEF OpenPasses
  <2>4. IsFiniteSet(Cur) /\ Cardinality(Cur) <= Quota
    BY <1>1, <2>2, NumberedPasses DEF OpenPasses
  <2>5. passed[k] = Old \cup Cur /\ Old \cap Cur = {}
    BY <1>1, <2>1
  <2>6. Cardinality(passed[k]) = Cardinality(Old) + Cardinality(Cur) - 0
    BY <2>3, <2>4, <2>5, FS_Union, FS_EmptySet
  <2>7. Cardinality(Old) \in Nat /\ Cardinality(Cur) \in Nat
    BY <2>3, <2>4, FS_CardinalityType
  <2> HIDE DEF Old, Cur
  <2> QED
    BY <2>3, <2>4, <2>6, <2>7, QuotaBounds
<1> QED
  BY <1>2, <1>3

(* While a key's history is kept, the detector lets through at most two     *)
(* windows' worth of identical requests in any interval of one TTL: the     *)
(* numbers of the passes in a window are distinct and below every limit     *)
(* SetLimit can have set, and such an interval meets at most two windows.   *)
THEOREM PassesPerTTLAreBounded == Spec => []SlidingQuota
<1>1. Init => QuotaInv
  BY DEF Init, QuotaInv, KeyPasses, Recent, ClosedPasses, LiveKeys, LimitsInUse
<1> QED
  BY <1>1, StepQuota, TwoWindows, DetectorInvariant, PTL DEF Spec

-----------------------------------------------------------------------------
(* Rounding a positive number of ticks up to whole seconds. *)
LEMMA CeilBounds ==
  ASSUME NEW x \in Nat \ {0}
  PROVE  LET r == CeilSeconds(x) IN
           /\ r \in Nat
           /\ r >= 1
           /\ r * Second >= x
           /\ (r - 1) * Second < x
<1>1. Second \in Nat \ {0}
  BY DetectorAssumption
<1> DEFINE y == x + Second - 1
           r == y \div Second
<1>2. y \in Nat /\ y >= Second
  BY <1>1
<1>3. r \in Int /\ y % Second \in 0..(Second - 1) /\ y = Second * r + (y % Second)
  BY <1>1, <1>2, SMTT(30)
<1>4. r * Second = Second * r /\ (r - 1) * Second = Second * r - Second
  <2> HIDE DEF r
  <2> QED BY <1>1, <1>3, SMTT(30)
<1>5. Second * r >= x /\ Second * r - Second < x
  BY <1>1, <1>2, <1>3
<1>6. r >= 1
  <2> HIDE DEF r
  <2> QED BY <1>1, <1>3, <1>5, SMTT(30)
<1> QED
  BY <1>3, <1>4, <1>5, <1>6 DEF CeilSeconds

(* The Retry-After of every 429 is at least one second, outlasts the window *)
(* and is not a whole second too long.                                      *)
THEOREM RetryAfterIsHonest == Spec => HonestRetryAfter
<1>1. TypeOK /\ [Next]_vars =>
        [\A k \in Keys :
           (RepeatSighting(k) /\ verdict'.block) =>
              /\ verdict'.retryAfter >= 1
              /\ now + verdict'.retryAfter * Second >= seen[k].expires
              /\ now + (verdict'.retryAfter - 1) * Second < seen[k].expires]_vars
  <2> SUFFICES ASSUME TypeOK, NEW k \in Keys, RepeatSighting(k), verdict'.block
               PROVE  /\ verdict'.retryAfter >= 1
                      /\ now + verdict'.retryAfter * Second >= seen[k].expires
                      /\ now + (verdict'.retryAfter - 1) * Second < seen[k].expires
    BY Zenon
  <2> DEFINE left == seen[k].expires - now
             wait == CeilSeconds(left)
  <2>1. left \in Nat \ {0} /\ now \in Nat /\ seen[k].expires = now + left
    BY DetectorAssumption DEF RepeatSighting, LiveKeys, Live, TypeOK, Entry
  <2>2. verdict'.retryAfter = wait
    BY DEF RepeatSighting, RepeatVerdict, Pass
  <2>3. wait \in Nat /\ wait >= 1 /\ wait * Second >= left /\ (wait - 1) * Second < left
    BY <2>1, CeilBounds
  <2>4. Second \in Nat /\ wait * Second \in Int /\ (wait - 1) * Second \in Int
    BY <2>3, DetectorAssumption
  <2> HIDE DEF left, wait
  <2> QED
    BY <2>1, <2>2, <2>3, <2>4
<1> QED
  BY <1>1, TypeCorrect, PTL DEF Spec, HonestRetryAfter

=============================================================================
