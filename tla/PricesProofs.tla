---------------------------- MODULE PricesProofs -----------------------------
(***************************************************************************)
(* What the price registry, the price tables, the start of a process and   *)
(* the observer of a response guarantee, for any models, files, flags,     *)
(* tables, intervals and streams, and any number of concurrent refreshes.  *)
(*                                                                         *)
(* Registry.  NeverOlder is about a single step and needs an invariant: a  *)
(* refresh between its fetch and its swap holds refreshMu (Exclusive), and *)
(* what it has fetched is no older than what is installed (Fresh).         *)
(* StopMeansQuiet needs to know in which phases the loop can be inside a   *)
(* refresh (LoopPhases).  DelayIsSane rests on the fact that doubling what *)
(* is below backoffMax stays within the width of a duration; as Doubled is *)
(* defined by recursion, it is first shown to satisfy its equation.        *)
(*                                                                         *)
(* Tables.  A scan has found the longest matching key among those it has   *)
(* visited (BestSoFar); every price of a table in use is capped (Tariff),  *)
(* so that the product with a token count up to MaxExact and the sum of    *)
(* two such products stay within the width.                                *)
(*                                                                         *)
(* Process.  A start has read a prefix of its keys file (ReadUpTo), and    *)
(* the row on disk is the one last written or the defaults (RowsInv).      *)
(*                                                                         *)
(* Usage.  The lines that have arrived whole are the first so many         *)
(* (WholeIsPrefix), and the observer has parsed these and no others        *)
(* (Parsed, in UsageInv).  Sums and the loop over lines are recursive      *)
(* functions, which are first shown to satisfy their equations.            *)
(***************************************************************************)
EXTENDS Prices, WellFoundedInduction, TLAPS

Types ==
  /\ kind \in {"static", "live", "stale"}
  /\ synced \in BOOLEAN /\ failed \in BOOLEAN
  /\ fails \in Nat
  /\ pc \in [Refreshers -> {"idle", "lock", "fetch", "swap"}]
  /\ fetched \in [Refreshers -> SUBSET Models]
  /\ version \in [Refreshers -> Nat]
  /\ remote \in Nat /\ installed \in Nat

(* Only the holder of refreshMu is past the lock. *)
Exclusive == \A p \in Refreshers : pc[p] \in {"fetch", "swap"} => holder = p

Fresh ==
  /\ installed <= remote
  /\ \A p \in Refreshers : pc[p] = "swap" => installed <= version[p] /\ version[p] <= remote

LoopPhases ==
  /\ pc[Loop] # "idle" => phase \in {"boot", "refresh"}
  /\ stop = "returned" => phase \in {"ended", "off"}

RefreshInv == Types /\ Exclusive /\ Fresh

-----------------------------------------------------------------------------
LEMMA InitRefresh == Init => RefreshInv /\ LoopPhases
<1> SUFFICES ASSUME Init PROVE RefreshInv /\ LoopPhases
  OBVIOUS
<1>1. synced \in BOOLEAN /\ failed \in BOOLEAN
  BY Zenon DEF Init
<1>2. Types
  BY <1>1 DEF Init, Types
<1>3. Exclusive /\ Fresh
  BY DEF Init, Exclusive, Fresh
<1>4. LoopPhases
  BY DEF Init, LoopPhases, Refreshers
<1> QED
  BY <1>2, <1>3, <1>4 DEF RefreshInv

LEMMA FailureCount == Types /\ CountFailure => fails' \in Nat /\ fails' > 0
BY RegistryAssumption DEF Types, CountFailure

LEMMA StepTypes == Types /\ [Next]_vars => Types'
<1> SUFFICES ASSUME Types, [Next]_vars PROVE Types'
  OBVIOUS
<1> USE DEF Types
<1>1. ASSUME NEW p \in Refreshers, Acquire(p) PROVE Types'
  BY <1>1 DEF Acquire, tableVars, fetchVars
<1>2. ASSUME NEW p \in Refreshers, NoFetcher(p) PROVE Types'
  BY <1>2, FailureCount DEF NoFetcher, End
<1>3. ASSUME NEW p \in Refreshers, RefreshFailed(p) PROVE Types'
  BY <1>3, FailureCount DEF RefreshFailed, End
<1>4. ASSUME NEW p \in Refreshers, Install(p) PROVE Types'
  BY <1>4 DEF Install, End
<1>5. ASSUME NEW p \in Refreshers, NEW ms \in SUBSET Models \ {{}}, FetchModels(p, ms)
      PROVE  Types'
  BY <1>5 DEF FetchModels, tableVars
<1>6. ASSUME NEW p \in Callers, RefreshNow(p) PROVE Types'
  BY <1>6 DEF RefreshNow, Begin, tableVars, fetchVars, Refreshers
<1>7. CASE Bootstrap
  BY <1>7 DEF Bootstrap, Begin, tableVars, fetchVars, Refreshers
<1>8. CASE LoopBegins \/ TimerFires
  BY <1>8 DEF LoopBegins, TimerFires, Begin, tableVars, fetchVars, Refreshers
<1>9. CASE Start \/ ArmTimer \/ LoopEnds \/ Stop \/ StopReturns \/ SetOnSync
  BY <1>9 DEF Start, ArmTimer, LoopEnds, Stop, StopReturns, SetOnSync, tableVars, fetchVars
<1>10. CASE CatalogChanges
  BY <1>10 DEF CatalogChanges, tableVars, fetchVars
<1>11. ASSUME NEW t \in Tables, Replace(t) \/ ReplaceLive(t) PROVE Types'
  <2>1. CASE Replace(t)
    BY <2>1 DEF Replace, fetchVars
  <2>2. CASE ReplaceLive(t)
    <3>1. synced' \in BOOLEAN /\ failed' \in BOOLEAN
      BY <2>2, Zenon DEF ReplaceLive
    <3> QED
      BY <2>2, <3>1 DEF ReplaceLive, fetchVars
  <2> QED
    BY <1>11, <2>1, <2>2
<1>12. CASE UNCHANGED vars
  BY <1>12 DEF vars, tableVars, fetchVars
<1> QED
  BY <1>1, <1>2, <1>3, <1>4, <1>5, <1>6, <1>7, <1>8, <1>9, <1>10, <1>11, <1>12
  DEF Next, Refreshing, Looping

LEMMA StepRefresh == RefreshInv /\ [Next]_vars => Exclusive' /\ Fresh'
<1> SUFFICES ASSUME RefreshInv, [Next]_vars PROVE Exclusive' /\ Fresh'
  OBVIOUS
<1> USE RegistryAssumption DEF RefreshInv, Types, Exclusive, Fresh
<1>1. ASSUME NEW p \in Refreshers, Acquire(p) PROVE Exclusive' /\ Fresh'
  BY <1>1 DEF Acquire, fetchVars, Refreshers
<1>2. ASSUME NEW p \in Refreshers, NoFetcher(p) PROVE Exclusive' /\ Fresh'
  BY <1>2 DEF NoFetcher, End, Refreshers
<1>3. ASSUME NEW p \in Refreshers, RefreshFailed(p) PROVE Exclusive' /\ Fresh'
  BY <1>3 DEF RefreshFailed, End
<1>4. ASSUME NEW p \in Refreshers, Install(p) PROVE Exclusive' /\ Fresh'
  BY <1>4 DEF Install, End
<1>5. ASSUME NEW p \in Refreshers, NEW ms \in SUBSET Models \ {{}}, FetchModels(p, ms)
      PROVE  Exclusive' /\ Fresh'
  BY <1>5 DEF FetchModels
<1>6. ASSUME NEW p \in Callers, RefreshNow(p) PROVE Exclusive' /\ Fresh'
  BY <1>6 DEF RefreshNow, Begin, fetchVars, Refreshers
<1>7. CASE Bootstrap
  BY <1>7 DEF Bootstrap, Begin, fetchVars, Refreshers
<1>8. CASE LoopBegins \/ TimerFires
  BY <1>8 DEF LoopBegins, TimerFires, Begin, fetchVars, Refreshers
<1>9. CASE Start \/ ArmTimer \/ LoopEnds \/ Stop \/ StopReturns \/ SetOnSync
  BY <1>9 DEF Start, ArmTimer, LoopEnds, Stop, StopReturns, SetOnSync, fetchVars
<1>10. CASE CatalogChanges
  BY <1>10 DEF CatalogChanges, fetchVars
<1>11. ASSUME NEW t \in Tables, Replace(t) \/ ReplaceLive(t) PROVE Exclusive' /\ Fresh'
  BY <1>11 DEF Replace, ReplaceLive, fetchVars
<1>12. CASE UNCHANGED vars
  BY <1>12 DEF vars, fetchVars
<1> QED
  BY <1>1, <1>2, <1>3, <1>4, <1>5, <1>6, <1>7, <1>8, <1>9, <1>10, <1>11, <1>12
  DEF Next, Refreshing, Looping

LEMMA RefreshInvariant == Spec => []RefreshInv
<1>1. RefreshInv /\ [Next]_vars => RefreshInv'
  BY StepTypes, StepRefresh DEF RefreshInv
<1> QED
  BY InitRefresh, <1>1, PTL DEF Spec

-----------------------------------------------------------------------------
(* A refresh never swaps in an older catalog than the one before it, for    *)
(* any number of concurrent RefreshNow calls and the loop (refreshMu in     *)
(* Registry.refresh).                                                       *)
THEOREM PricesNeverGoBack == Spec => NeverOlder
<1>1. RefreshInv /\ [Next]_vars => [installed' >= installed]_vars
  <2> SUFFICES ASSUME RefreshInv, Next PROVE installed' >= installed
    OBVIOUS
  <2> USE DEF RefreshInv, Types
  <2>1. ASSUME NEW p \in Refreshers, Install(p) PROVE installed' >= installed
    BY <2>1 DEF Install, Fresh
  <2>2. CASE installed' = installed
    BY <2>2
  <2> QED
    BY <2>1, <2>2
    DEF Next, Refreshing, Looping, Acquire, NoFetcher, RefreshFailed, FetchModels, RefreshNow,
        Bootstrap, Start, LoopBegins, ArmTimer, TimerFires, LoopEnds, Stop, StopReturns,
        SetOnSync, CatalogChanges, Replace, ReplaceLive
<1> QED
  BY RefreshInvariant, <1>1, PTL DEF Spec, NeverOlder

-----------------------------------------------------------------------------
LEMMA StepLoop == Types /\ LoopPhases /\ [Next]_vars => LoopPhases'
<1> SUFFICES ASSUME Types, LoopPhases, [Next]_vars PROVE LoopPhases'
  OBVIOUS
<1> USE RegistryAssumption DEF Types, LoopPhases, Refreshers
<1>1. ASSUME NEW p \in Refreshers, Acquire(p) PROVE LoopPhases'
  BY <1>1 DEF Acquire, loopVars
<1>2. ASSUME NEW p \in Refreshers, NoFetcher(p) PROVE LoopPhases'
  BY <1>2 DEF NoFetcher, End, Resume
<1>3. ASSUME NEW p \in Refreshers, RefreshFailed(p) PROVE LoopPhases'
  BY <1>3 DEF RefreshFailed, End, Resume
<1>4. ASSUME NEW p \in Refreshers, Install(p) PROVE LoopPhases'
  BY <1>4 DEF Install, End, Resume
<1>5. ASSUME NEW p \in Refreshers, NEW ms \in SUBSET Models \ {{}}, FetchModels(p, ms)
      PROVE  LoopPhases'
  BY <1>5 DEF FetchModels, loopVars
<1>6. ASSUME NEW p \in Callers, RefreshNow(p) PROVE LoopPhases'
  BY <1>6 DEF RefreshNow, Begin, loopVars
<1>7. CASE Bootstrap
  BY <1>7 DEF Bootstrap, Begin
<1>8. CASE LoopBegins \/ TimerFires
  BY <1>8 DEF LoopBegins, TimerFires, Begin
<1>9. CASE Start \/ ArmTimer \/ LoopEnds \/ Stop \/ StopReturns
  BY <1>9 DEF Start, ArmTimer, LoopEnds, Stop, StopReturns
<1>10. CASE CatalogChanges \/ SetOnSync
  BY <1>10 DEF CatalogChanges, SetOnSync, loopVars
<1>11. ASSUME NEW t \in Tables, Replace(t) \/ ReplaceLive(t) PROVE LoopPhases'
  BY <1>11 DEF Replace, ReplaceLive, loopVars
<1>12. CASE UNCHANGED vars
  BY <1>12 DEF vars, loopVars
<1> QED
  BY <1>1, <1>2, <1>3, <1>4, <1>5, <1>6, <1>7, <1>8, <1>9, <1>10, <1>11, <1>12
  DEF Next, Refreshing, Looping

(* When Stop has returned the loop has ended, is inside no refresh and will *)
(* begin none (Registry.Stop waits for the loop's goroutine).               *)
THEOREM StoppedIsQuiet == Spec => []StopMeansQuiet
<1>1. (Types /\ LoopPhases) /\ [Next]_vars => (Types /\ LoopPhases)'
  BY StepTypes, StepLoop
<1>2. Types /\ LoopPhases => StopMeansQuiet
  BY DEF LoopPhases, StopMeansQuiet
<1>3. Init => Types /\ LoopPhases
  BY InitRefresh DEF RefreshInv
<1> QED
  BY <1>1, <1>2, <1>3, PTL DEF Spec

-----------------------------------------------------------------------------
LEMMA StepKind == Types /\ KindIsHonest /\ [Next]_vars => KindIsHonest'
<1> SUFFICES ASSUME Types, KindIsHonest, [Next]_vars PROVE KindIsHonest'
  OBVIOUS
<1> USE DEF Types, KindIsHonest
<1>1. ASSUME NEW p \in Refreshers, RefreshFailed(p) PROVE KindIsHonest'
  BY <1>1, FailureCount DEF RefreshFailed, setup
<1>2. ASSUME NEW p \in Refreshers, Install(p) PROVE KindIsHonest'
  BY <1>2 DEF Install, setup
<1>3. ASSUME NEW t \in Tables, Replace(t) \/ ReplaceLive(t) PROVE KindIsHonest'
  BY <1>3 DEF Replace, ReplaceLive, setup
<1>4. ASSUME NEW p \in Refreshers, NoFetcher(p) PROVE KindIsHonest'
  BY <1>4, FailureCount DEF NoFetcher, setup
<1>5. CASE UNCHANGED <<tableVars, hasFetcher>>
  BY <1>5 DEF tableVars
<1> QED
  BY <1>1, <1>2, <1>3, <1>4, <1>5
  DEF Next, Refreshing, Looping, Acquire, FetchModels, RefreshNow, Bootstrap, Start,
      LoopBegins, ArmTimer, TimerFires, LoopEnds, Stop, StopReturns, SetOnSync,
      CatalogChanges, vars, setup

(* The reported kind, the recorded error and the failure counter always     *)
(* agree about the last refresh (refreshFailed, the swap and ReplaceLive).  *)
THEOREM KindTellsTheTruth == Spec => []KindIsHonest
<1>1. (Types /\ KindIsHonest) /\ [Next]_vars => (Types /\ KindIsHonest)'
  BY StepTypes, StepKind
<1>2. Init => Types /\ KindIsHonest
  BY InitRefresh DEF RefreshInv, Init, KindIsHonest
<1> QED
  BY <1>1, <1>2, PTL DEF Spec

-----------------------------------------------------------------------------
(* No step takes the price of a statically priced model away, as long as    *)
(* the tables handed to Replace and ReplaceLive have one (merge starts from *)
(* a copy of the static table).                                             *)
THEOREM BaseKeepsItsPrice ==
  ASSUME \A t \in Tables \ {Nil} : BaseModels \subseteq DOMAIN t
  PROVE  Spec => []BaseIsPriced
<1>1. BaseIsPriced /\ [Next]_vars => BaseIsPriced'
  <2> SUFFICES ASSUME BaseIsPriced, [Next]_vars PROVE BaseIsPriced'
    OBVIOUS
  <2> USE DEF BaseIsPriced
  <2>1. ASSUME NEW p \in Refreshers, Install(p) PROVE BaseIsPriced'
    BY <2>1 DEF Install, Merge
  <2>2. ASSUME NEW t \in Tables, Replace(t) \/ ReplaceLive(t) PROVE BaseIsPriced'
    BY <2>2 DEF Replace, ReplaceLive
  <2>3. CASE cur' = cur
    BY <2>3
  <2> QED
    BY <2>1, <2>2, <2>3
    DEF Next, Refreshing, Looping, Acquire, NoFetcher, RefreshFailed, FetchModels, RefreshNow,
        Bootstrap, Start, LoopBegins, ArmTimer, TimerFires, LoopEnds, Stop, StopReturns,
        SetOnSync, CatalogChanges, vars, tableVars
<1>2. Init => BaseIsPriced
  BY DEF Init, BaseIsPriced
<1> QED
  BY <1>1, <1>2, PTL DEF Spec

-----------------------------------------------------------------------------
(* The doubling loop of nextDelay.  Doubled is defined by recursion, so     *)
(* that it satisfies its equation has to be shown first: there is one       *)
(* function on 0..n that does (by the least-number principle), and these    *)
(* agree.                                                                   *)
LEMMA LeastNumber ==
  ASSUME NEW X, X \subseteq Nat, X # {}
  PROVE  \E m \in X : \A n \in X : m <= n
<1>1. PICK m \in X : \A n \in X : ~(<<n, m>> \in OpToRel(<, Nat))
  BY NatLessThanWellFounded, WFMin, Zenon
<1>2. \A n \in X : ~(n < m)
  BY <1>1 DEF OpToRel
<1>3. \A n \in X : n \in Nat /\ m \in Nat
  OBVIOUS
<1> QED
  BY <1>2, <1>3

Twice(b) == IF b < BackoffMax THEN Wrap(2 * b) ELSE b

Doubling(f, n) == IF n <= 1 THEN BackoffBase ELSE Twice(f[n - 1])

UpTo(g, n) == g = [i \in 0..n |-> Doubling(g, i)]

LEMMA UpToExists == \A n \in Nat : \E g : UpTo(g, n)
<1> SUFFICES ASSUME \E n \in Nat : ~\E g : UpTo(g, n) PROVE FALSE
  OBVIOUS
<1> DEFINE X == {n \in Nat : ~\E g : UpTo(g, n)}
<1>1. PICK m \in X : \A n \in X : m <= n
  BY LeastNumber
<1>2. CASE m = 0
  <2> DEFINE g == [i \in 0..0 |-> BackoffBase]
  <2>1. UpTo(g, 0)
    BY DEF UpTo, Doubling
  <2> QED
    BY <1>2, <2>1
<1>3. CASE m # 0
  <2>1. m \in Nat /\ m - 1 \in Nat /\ m - 1 \notin X
    BY <1>1, <1>3
  <2>2. PICK g : UpTo(g, m - 1)
    BY <2>1
  <2> DEFINE h == [i \in 0..m |-> IF i < m THEN g[i] ELSE Doubling(g, m)]
  <2>3. \A i \in 0..(m - 1) : h[i] = g[i] /\ g[i] = Doubling(g, i)
    BY <2>1, <2>2 DEF UpTo
  <2>4. ASSUME NEW i \in 0..m PROVE h[i] = Doubling(h, i)
    <3>1. h[i] = Doubling(g, i)
      <4>1. CASE i < m
        <5>1. i \in 0..(m - 1)
          BY <2>1, <4>1
        <5> HIDE DEF h
        <5> QED
          BY <2>3, <5>1
      <4>2. CASE ~(i < m)
        <5>1. i = m
          BY <2>1, <4>2
        <5>2. h[i] = IF i < m THEN g[i] ELSE Doubling(g, m)
          OBVIOUS
        <5> HIDE DEF h
        <5> QED
          BY <4>2, <5>1, <5>2
      <4> QED
        BY <4>1, <4>2
    <3>2. i <= 1 \/ i - 1 \in 0..(m - 1)
      BY <2>1
    <3>3. ~(i <= 1) => h[i - 1] = g[i - 1]
      BY <2>3, <3>2
    <3> HIDE DEF h
    <3> QED
      BY <3>1, <3>3 DEF Doubling
  <2>5. h = [i \in 0..m |-> h[i]]
    OBVIOUS
  <2> HIDE DEF h
  <2>6. UpTo(h, m)
    BY <2>4, <2>5 DEF UpTo
  <2> QED
    BY <2>6
<1> QED
  BY <1>2, <1>3

LEMMA UpToAgrees ==
  ASSUME NEW g, NEW h, NEW n \in Nat, NEW k \in Nat, UpTo(g, n), UpTo(h, k), n <= k
  PROVE  g[n] = h[n]
<1> SUFFICES ASSUME g[n] # h[n] PROVE FALSE
  OBVIOUS
<1> DEFINE X == {i \in 0..n : g[i] # h[i]}
<1>1. PICK m \in X : \A i \in X : m <= i
  <2>1. n \in X /\ X \subseteq Nat
    OBVIOUS
  <2> QED
    BY <2>1, LeastNumber
<1>2. m \in 0..n /\ m \in 0..k /\ g[m] # h[m]
  OBVIOUS
<1>3. g[m] = Doubling(g, m) /\ h[m] = Doubling(h, m)
  BY <1>2 DEF UpTo
<1>4. ~(m <= 1) => g[m - 1] = h[m - 1]
  <2> SUFFICES ASSUME ~(m <= 1) PROVE g[m - 1] = h[m - 1]
    OBVIOUS
  <2>1. m - 1 \in 0..n /\ ~(m <= m - 1)
    BY <1>2
  <2> QED
    BY <1>1, <2>1
<1> QED
  BY <1>2, <1>3, <1>4 DEF Doubling

LEMMA DoubledIsRecursive == \A n \in Nat : Doubled[n] = Doubling(Doubled, n)
<1> DEFINE G(n) == CHOOSE g : UpTo(g, n)
           f == [n \in Nat |-> G(n)[n]]
<1>1. \A n \in Nat : UpTo(G(n), n)
  BY UpToExists
<1> HIDE DEF G
<1>2. ASSUME NEW n \in Nat PROVE f[n] = Doubling(f, n)
  <2>1. f[n] = G(n)[n]
    OBVIOUS
  <2>2. G(n)[n] = Doubling(G(n), n)
    BY <1>1 DEF UpTo
  <2>3. ~(n <= 1) => f[n - 1] = G(n)[n - 1]
    <3> SUFFICES ASSUME ~(n <= 1) PROVE f[n - 1] = G(n)[n - 1]
      OBVIOUS
    <3>1. n - 1 \in Nat /\ n - 1 <= n
      OBVIOUS
    <3>2. G(n - 1)[n - 1] = G(n)[n - 1]
      BY <1>1, <3>1, UpToAgrees
    <3> QED
      BY <3>1, <3>2
  <2> HIDE DEF f
  <2> QED
    BY <2>1, <2>2, <2>3 DEF Doubling
<1>3. f = [n \in Nat |-> f[n]]
  OBVIOUS
<1> HIDE DEF f
<1>4. f = [n \in Nat |-> Doubling(f, n)]
  BY <1>2, <1>3
<1>5. Doubled = CHOOSE g : g = [n \in Nat |-> Doubling(g, n)]
  BY DEF Doubled, Doubling, Twice
<1>6. Doubled = [n \in Nat |-> Doubling(Doubled, n)]
  BY <1>4, <1>5
<1> QED
  BY <1>6

(* Doubling what is below BackoffMax does not overflow. *)
LEMMA TwiceIsPositive ==
  ASSUME NEW b \in Nat, b > 0 PROVE Twice(b) \in Nat /\ Twice(b) > 0
<1>1. PICK half \in Int, full \in Int :
        half = 2^(Width - 1) /\ full = 2^Width /\ full = 2 * half /\ 2 * BackoffMax <= half
        /\ BackoffMax \in Nat \ {0}
  BY RegistryAssumption
<1>2. CASE b < BackoffMax
  <2>1. 2 * b \in Nat /\ 2 * b < half /\ half < full /\ full > 0
    BY <1>1, <1>2
  <2>2. (2 * b) % full = 2 * b
    BY <2>1
  <2>3. Wrap(2 * b) = 2 * b
    BY <1>1, <2>1, <2>2 DEF Wrap
  <2> QED
    BY <1>2, <2>3 DEF Twice
<1>3. CASE ~(b < BackoffMax)
  BY <1>3 DEF Twice
<1> QED
  BY <1>2, <1>3

LEMMA DoubledIsPositive == \A n \in Nat : Doubled[n] \in Nat /\ Doubled[n] > 0
<1> DEFINE X == {n \in Nat : ~(Doubled[n] \in Nat /\ Doubled[n] > 0)}
<1> SUFFICES ASSUME X # {} PROVE FALSE
  OBVIOUS
<1>1. PICK m \in X : \A n \in X : m <= n
  BY LeastNumber
<1>2. m \in Nat /\ Doubled[m] = Doubling(Doubled, m)
  BY DoubledIsRecursive
<1>3. CASE m <= 1
  BY <1>2, <1>3, RegistryAssumption DEF Doubling
<1>4. CASE ~(m <= 1)
  <2>1. m - 1 \in Nat /\ ~(m <= m - 1)
    BY <1>2, <1>4
  <2>2. Doubled[m - 1] \in Nat /\ Doubled[m - 1] > 0
    BY <1>1, <2>1
  <2> QED
    BY <1>2, <1>4, <2>2, TwiceIsPositive DEF Doubling
<1> QED
  BY <1>2, <1>3, <1>4

LEMMA NextDelayIsSane ==
  ASSUME NEW n \in Nat, RefreshInterval > 0
  PROVE  0 < NextDelay(n) /\ NextDelay(n) <= RefreshInterval
<1>1. Doubled[n] \in Nat /\ Doubled[n] > 0
  BY DoubledIsPositive
<1>2. RefreshInterval \in Int /\ BackoffMax \in Nat \ {0}
  BY RegistryAssumption
<1> QED
  BY <1>1, <1>2 DEF NextDelay, Smaller

(* The loop runs only if there is an interval. *)
DelayInv ==
  /\ phase \in {"begin", "arm", "wait", "refresh"} => RefreshInterval > 0
  /\ DelayIsSane

LEMMA StepDelay == Types /\ LoopPhases /\ DelayInv /\ [Next]_vars => DelayInv'
<1> SUFFICES ASSUME Types, LoopPhases, DelayInv, [Next]_vars PROVE DelayInv'
  OBVIOUS
<1> USE DEF DelayInv, DelayIsSane
<1>1. ASSUME NEW p \in Refreshers, End(p), pc[p] # "idle" PROVE DelayInv'
  <2>1. CASE p = Loop
    <3>1. phase \in {"boot", "refresh"}
      BY <1>1, <2>1 DEF LoopPhases
    <3> QED
      BY <1>1, <2>1, <3>1 DEF End, Resume
  <2>2. CASE p # Loop
    BY <1>1, <2>2 DEF End, Resume
  <2> QED
    BY <2>1, <2>2
<1>2. ASSUME NEW p \in Refreshers, NoFetcher(p) \/ RefreshFailed(p) \/ Install(p) PROVE DelayInv'
  <2>1. End(p) /\ pc[p] # "idle"
    BY <1>2 DEF NoFetcher, RefreshFailed, Install
  <2> QED
    BY <1>1, <2>1
<1>3. CASE UNCHANGED <<phase, delay>>
  BY <1>3
<1>4. CASE Bootstrap
  BY <1>4 DEF Bootstrap
<1>5. CASE Start
  BY <1>5 DEF Start
<1>6. CASE LoopBegins
  BY <1>6 DEF LoopBegins
<1>7. CASE ArmTimer
  <2>1. phase = "arm" /\ phase' = "wait" /\ delay' = NextDelay(fails) /\ fails \in Nat
    BY <1>7 DEF ArmTimer, Types
  <2> QED
    BY <2>1, NextDelayIsSane
<1>8. CASE TimerFires \/ LoopEnds
  BY <1>8 DEF TimerFires, LoopEnds
<1>9. ASSUME NEW p \in Refreshers,
             Acquire(p) \/ (\E ms \in SUBSET Models \ {{}} : FetchModels(p, ms))
      PROVE  UNCHANGED <<phase, delay>>
  BY <1>9 DEF Acquire, FetchModels, loopVars
<1>10. ASSUME (\E p \in Callers : RefreshNow(p)) \/ Stop \/ StopReturns \/ SetOnSync \/ CatalogChanges
              \/ (\E t \in Tables : Replace(t) \/ ReplaceLive(t)) \/ UNCHANGED vars
       PROVE  UNCHANGED <<phase, delay>>
  BY <1>10 DEF RefreshNow, Stop, StopReturns, SetOnSync, CatalogChanges, Replace, ReplaceLive,
               vars, loopVars
<1> QED
  BY <1>2, <1>3, <1>4, <1>5, <1>6, <1>7, <1>8, <1>9, <1>10 DEF Next, Refreshing, Looping

(* After any number of failures the loop neither spins nor stalls: the      *)
(* delay it waits is positive, so the doubling never overflows, and not     *)
(* longer than the refresh interval.                                        *)
THEOREM DelaysAreSane == Spec => []DelayIsSane
<1>1. Init => Types /\ LoopPhases /\ DelayInv
  BY InitRefresh DEF RefreshInv, Init, DelayInv, DelayIsSane
<1>2. (Types /\ LoopPhases /\ DelayInv) /\ [Next]_vars => (Types /\ LoopPhases /\ DelayInv)'
  BY StepTypes, StepLoop, StepDelay
<1>3. DelayInv => DelayIsSane
  BY DEF DelayInv
<1> QED
  BY <1>1, <1>2, <1>3, PTL DEF Spec

-----------------------------------------------------------------------------
(* The keys of every table are ids, and none is empty. *)
TablesAreKeyed ==
  /\ DOMAIN base.models \subseteq Seq(Parts) \ {<<>>}
  /\ DOMAIN table.models \subseteq Seq(Parts) \ {<<>>}
  /\ DOMAIN models \subseteq Seq(Parts) \ {<<>>}

(* Of the keys scanned so far, best is the longest that is a prefix. *)
BestSoFar ==
  /\ best # <<>> => best \in DOMAIN table.models \ todo /\ P!HasPrefix(query, best)
  /\ \A k \in DOMAIN table.models \ todo : P!HasPrefix(query, k) => Len(k) <= Len(best)

(* A lookup under way: its table is still the current one, as the swap      *)
(* waits for it.                                                            *)
LookupInv ==
  /\ stage = "start" => reader = "idle"
  /\ reader = "idle" => best = <<>>
  /\ best \in Seq(Parts)
  /\ reader = "scan" => /\ snapshot = table /\ query \in Seq(Parts)
                    /\ todo \subseteq DOMAIN table.models
                    /\ BestSoFar
  /\ P!LookupIsExact

-----------------------------------------------------------------------------
(* Prefixes of one length are equal: what a lookup finds does not depend on *)
(* the order of the scan.                                                   *)
LEMMA PrefixesOfOneLength ==
  ASSUME NEW m, NEW j, NEW k, P!HasPrefix(m, j), P!HasPrefix(m, k), Len(j) = Len(k)
  PROVE  j = k
BY DEF P!HasPrefix

LEMMA PrefixOfItself ==
  ASSUME NEW m \in Seq(Parts)
  PROVE  P!HasPrefix(m, m)
BY DEF P!HasPrefix

LEMMA EmptyIsShort ==
  ASSUME NEW k \in Seq(Parts), k # <<>>
  PROVE  Len(k) \in Nat /\ Len(k) > 0 /\ Len(<<>>) = 0
OBVIOUS

(* A longest key that is a prefix is what a table promises. *)
LEMMA LongestIsPromised ==
  ASSUME NEW t, NEW m, DOMAIN t.models \subseteq Seq(Parts),
         NEW b \in DOMAIN t.models, P!HasPrefix(m, b),
         \A k \in DOMAIN t.models : P!HasPrefix(m, k) => Len(k) <= Len(b)
  PROVE  P!Promised(t, m) = t.models[b]
<1> DEFINE keys == {k \in DOMAIN t.models : P!HasPrefix(m, k)}
           c == CHOOSE k \in keys : \A j \in keys : Len(j) <= Len(k)
<1>1. b \in keys /\ \A j \in keys : Len(j) <= Len(b)
  OBVIOUS
<1>2. c \in keys /\ \A j \in keys : Len(j) <= Len(c)
  BY <1>1
<1>3. Len(c) \in Nat /\ Len(b) \in Nat
  BY <1>1, <1>2
<1>4. Len(c) = Len(b)
  BY <1>1, <1>2, <1>3
<1>5. c = b
  BY <1>1, <1>2, <1>4, PrefixesOfOneLength
<1> QED
  BY <1>1, <1>5 DEF P!Promised

LEMMA NothingIsDefault ==
  ASSUME NEW t, NEW m, \A k \in DOMAIN t.models : ~P!HasPrefix(m, k)
  PROVE  P!Promised(t, m) = t.def
BY DEF P!Promised

-----------------------------------------------------------------------------
(* Load keeps out the empty id; the catalog loop skips it; merge joins keys. *)
LEMMA TablesStayKeyed ==
  ASSUME TablesAreKeyed, [P!Next]_(P!vars)
  PROVE  TablesAreKeyed'
<1> USE DEF TablesAreKeyed, P!tableVars, P!fetchVars, P!readerVars
<1>1. CASE \E f \in Files : P!Load(f)
  <2> PICK f \in Files : P!Load(f)
    BY <1>1
  <2>1. CASE P!BadFile(f)
    BY <2>1 DEF P!Load
  <2>2. CASE ~P!BadFile(f)
    <3>1. base' = P!TableOf(f) /\ table' = P!TableOf(f) /\ models' = models
      BY <2>2 DEF P!Load
    <3>2. DOMAIN P!TableOf(f).models = DOMAIN f.models
      BY DEF P!TableOf
    <3>3. DOMAIN f.models \subseteq Seq(Parts) \ {<<>>}
      BY <2>2, PricesAssumption DEF P!BadFile, P!IdsOver
    <3> QED
      BY <3>1, <3>2, <3>3
  <2> QED
    BY <2>1, <2>2
<1>2. CASE \E e \in Entries : P!FetchEntry(e)
  <2> PICK e \in Entries : P!FetchEntry(e)
    BY <1>2
  <2>1. DOMAIN models' \subseteq DOMAIN models \cup (Seq(Parts) \ {<<>>})
    BY PricesAssumption DEF P!FetchEntry, P!Entered, P!Put, P!IdsOver
  <2> QED
    BY <2>1 DEF P!FetchEntry
<1>3. CASE P!FetchFails
  BY <1>3 DEF P!FetchFails, P!ForgetFetch, P!NoModels
<1>4. CASE P!Install
  <2>1. DOMAIN table'.models = DOMAIN base.models \cup DOMAIN models
    BY <1>4 DEF P!Install, P!Merged, P!Overlay
  <2> QED
    BY <1>4, <2>1 DEF P!Install, P!ForgetFetch, P!NoModels
<1>5. CASE UNCHANGED <<P!tableVars, P!fetchVars>>
  BY <1>5
<1>6. UNCHANGED <<P!tableVars, P!fetchVars>>
      \/ (\E f \in Files : P!Load(f)) \/ (\E e \in Entries : P!FetchEntry(e))
      \/ P!FetchFails \/ P!Install
  BY DEF P!Next, P!vars, P!LookUp, P!ScanKey, P!ScanDone, P!Charge, P!SavedCost, P!Billed, P!Return, P!Exited
<1> QED
  BY <1>1, <1>2, <1>3, <1>4, <1>5, <1>6

(* A hit: the model is itself the longest key that is its prefix. *)
LEMMA LookUpStep ==
  ASSUME TablesAreKeyed, LookupInv,
         NEW m \in Queries, NEW why, P!LookUp(m, why)
  PROVE  LookupInv'
<1>1. m \in Seq(Parts) /\ best = <<>> /\ best' = <<>> /\ stage' = "serving"
      /\ query' = m /\ snapshot' = table /\ table' = table
  BY PricesAssumption DEF P!LookUp, LookupInv, P!IdsOver, P!tableVars
<1>2. CASE m \in DOMAIN table.models
  <2>1. reader' = "priced" /\ price' = table.models[m]
    BY <1>2 DEF P!LookUp
  <2>2. \A k \in DOMAIN table.models : P!HasPrefix(m, k) => Len(k) <= Len(m)
    BY DEF P!HasPrefix
  <2>3. P!Promised(table, m) = table.models[m]
    BY <1>1, <1>2, <2>2, PrefixOfItself, LongestIsPromised DEF TablesAreKeyed
  <2> QED
    BY <1>1, <2>1, <2>3 DEF LookupInv, P!LookupIsExact
<1>3. CASE m \notin DOMAIN table.models
  <2>1. reader' = "scan" /\ todo' = DOMAIN table.models
    BY <1>3 DEF P!LookUp
  <2> QED
    BY <1>1, <2>1 DEF LookupInv, P!LookupIsExact, BestSoFar
<1> QED
  BY <1>2, <1>3

(* One key of the scan, whichever it is. *)
LEMMA ScanKeyStep ==
  ASSUME TablesAreKeyed, LookupInv, NEW k \in todo, P!ScanKey(k)
  PROVE  LookupInv'
<1>1. reader = "scan" /\ reader' = "scan" /\ stage' = stage /\ snapshot' = table /\ table' = table
      /\ query' = query /\ query \in Seq(Parts) /\ todo' = todo \ {k}
      /\ todo \subseteq DOMAIN table.models /\ best \in Seq(Parts) /\ BestSoFar
  BY DEF P!ScanKey, LookupInv, P!tableVars
<1>2. k \in Seq(Parts) /\ k # <<>> /\ k \in DOMAIN table.models
      /\ DOMAIN table.models \subseteq Seq(Parts)
  BY <1>1 DEF TablesAreKeyed
<1>3. best' = P!Longer(k)
  BY DEF P!ScanKey
<1>4. DOMAIN table.models \ todo' = (DOMAIN table.models \ todo) \cup {k}
  BY <1>1, <1>2
<1>5. CASE Len(k) > Len(best) /\ P!HasPrefix(query, k)
  <2>1. best' = k
    BY <1>3, <1>5 DEF P!Longer
  <2>2. \A j \in DOMAIN table.models \ todo : P!HasPrefix(query, j) => Len(j) <= Len(k)
    <3> TAKE j \in DOMAIN table.models \ todo
    <3> HAVE P!HasPrefix(query, j)
    <3>1. Len(j) <= Len(best)
      BY <1>1 DEF BestSoFar
    <3>2. Len(j) \in Nat /\ Len(best) \in Nat /\ Len(k) \in Nat
      BY <1>1, <1>2
    <3> QED
      BY <1>5, <3>1, <3>2
  <2>3. BestSoFar'
    BY <1>1, <1>2, <1>4, <1>5, <2>1, <2>2 DEF BestSoFar
  <2> QED
    BY <1>1, <1>2, <2>1, <2>3 DEF LookupInv, P!LookupIsExact
<1>6. CASE ~(Len(k) > Len(best) /\ P!HasPrefix(query, k))
  <2>1. best' = best
    BY <1>3, <1>6 DEF P!Longer
  <2>2. P!HasPrefix(query, k) => Len(k) <= Len(best)
    BY <1>1, <1>2, <1>6
  <2>3. BestSoFar'
    BY <1>1, <1>2, <1>4, <2>1, <2>2 DEF BestSoFar
  <2> QED
    BY <1>1, <2>1, <2>3 DEF LookupInv, P!LookupIsExact
<1> QED
  BY <1>5, <1>6

(* The whole map is scanned: its longest prefix, or nothing, is known. *)
LEMMA ScanDoneStep ==
  ASSUME TablesAreKeyed, LookupInv, P!ScanDone
  PROVE  LookupInv'
<1>1. reader' = "priced" /\ stage' = stage /\ stage # "start" /\ best' = best
      /\ query' = query /\ snapshot' = table /\ best \in Seq(Parts) /\ BestSoFar
      /\ DOMAIN table.models \ todo = DOMAIN table.models
      /\ price' = IF best # <<>> THEN table.models[best] ELSE table.def
  BY DEF P!ScanDone, LookupInv, P!tableVars
<1>2. \A k \in DOMAIN table.models : P!HasPrefix(query, k) => Len(k) <= Len(best)
  BY <1>1 DEF BestSoFar
<1>3. price' = P!Promised(table, query)
  <2>1. CASE best # <<>>
    <3>1. best \in DOMAIN table.models /\ P!HasPrefix(query, best)
      BY <1>1, <2>1 DEF BestSoFar
    <3> QED
      BY <1>1, <1>2, <2>1, <3>1, LongestIsPromised DEF TablesAreKeyed
  <2>2. CASE best = <<>>
    <3>1. \A k \in DOMAIN table.models : ~P!HasPrefix(query, k)
      BY <1>2, <2>2, EmptyIsShort DEF TablesAreKeyed
    <3> QED
      BY <1>1, <2>2, <3>1, NothingIsDefault
  <2> QED
    BY <2>1, <2>2
<1> QED
  BY <1>1, <1>3 DEF LookupInv, P!LookupIsExact

LEMMA LookupInvStep ==
  ASSUME TablesAreKeyed, LookupInv, [P!Next]_(P!vars)
  PROVE  LookupInv'
<1> USE DEF P!tableVars, P!fetchVars, P!readerVars
<1>1. CASE \E f \in Files : P!Load(f)
  <2>1. reader = "idle" /\ UNCHANGED P!readerVars /\ stage' # "start"
    BY <1>1 DEF P!Load, LookupInv
  <2> QED
    BY <2>1 DEF LookupInv, P!LookupIsExact
<1>2. CASE UNCHANGED <<P!tableVars, P!readerVars>>
  BY <1>2 DEF LookupInv, P!LookupIsExact, BestSoFar
<1>3. CASE P!Install
  <2>1. reader # "scan" /\ UNCHANGED <<stage, P!readerVars>>
    BY <1>3 DEF P!Install, P!ReadLocked
  <2> QED
    BY <2>1 DEF LookupInv, P!LookupIsExact
<1>4. CASE \E m \in Queries, why \in {"actual", "saved"} : P!LookUp(m, why)
  BY <1>4, LookUpStep
<1>5. CASE \E k \in todo : P!ScanKey(k)
  BY <1>5, ScanKeyStep
<1>6. CASE P!ScanDone
  BY <1>6, ScanDoneStep
<1>7. CASE (\E p, c \in TokenCounts : P!Charge(p, c)) \/ (\E size \in BodySizes : P!SavedCost(size))
  <2>1. reader = "priced" /\ reader' = "billed" /\ UNCHANGED <<stage, best>>
    BY <1>7 DEF P!Charge, P!SavedCost, P!Billed
  <2> QED
    BY <2>1 DEF LookupInv, P!LookupIsExact
<1>8. CASE P!Return
  <2>1. reader' = "idle" /\ best' = <<>>
    BY <1>8 DEF P!Return
  <2> QED
    BY <2>1 DEF LookupInv, P!LookupIsExact
<1>9. CASE (\E e \in Entries : P!FetchEntry(e)) \/ P!FetchFails \/ P!Exited \/ UNCHANGED P!vars
  BY <1>2, <1>9 DEF P!FetchEntry, P!FetchFails, P!Exited, P!vars
<1> QED
  BY <1>1, <1>3, <1>4, <1>5, <1>6, <1>7, <1>8, <1>9 DEF P!Next

LEMMA InitLookup == P!Init => TablesAreKeyed /\ LookupInv
BY DEF P!Init, TablesAreKeyed, LookupInv, P!LookupIsExact, P!NoTable, P!NoModels

(* PriceFor answers what the table it began with promises: the longest key  *)
(* that is a prefix of the model, else the default, in whatever order the   *)
(* map is scanned and although refreshes swap tables meanwhile.             *)
THEOREM LookupExactness == P!Spec => []LookupIsExact
<1>1. LookupInv => LookupIsExact
  BY DEF LookupInv, LookupIsExact
<1> QED
  BY <1>1, InitLookup, TablesStayKeyed, LookupInvStep, PTL DEF P!Spec

-----------------------------------------------------------------------------
(* A round of the catalog loop. *)
LEMMA CatalogRound ==
  ASSUME parsed \in Seq(Entries), P!CatalogIsExact, NEW e \in Entries, P!FetchEntry(e)
  PROVE  parsed' \in Seq(Entries) /\ P!CatalogIsExact'
<1> PICK n \in Nat : n = Len(parsed) + 1
  OBVIOUS
<1>1. parsed' \in Seq(Entries) /\ DOMAIN parsed = 1..(n - 1)
      /\ DOMAIN parsed' = 1..n /\ parsed'[n] = e
      /\ \A i \in DOMAIN parsed : parsed'[i] = parsed[i]
  BY DEF P!FetchEntry
<1>2. \A i \in DOMAIN parsed : \A id : P!Usable(i, id)' <=> P!Usable(i, id)
  BY <1>1 DEF P!Usable
<1>3. DOMAIN parsed' = DOMAIN parsed \cup {n} /\ \A i \in DOMAIN parsed : i <= n
  BY <1>1
<1>4. CASE e.id = <<>> \/ P!ModelPrice(e) = Unpriced
  <2>1. models' = models
    BY <1>4 DEF P!FetchEntry, P!Entered
  <2>2. \A id : ~P!Usable(n, id)'
    BY <1>1, <1>4 DEF P!Usable
  <2> QED
    BY <1>1, <1>2, <1>3, <2>1, <2>2 DEF P!CatalogIsExact
<1>5. CASE e.id # <<>> /\ P!ModelPrice(e) # Unpriced
  <2>1. models' = P!Put(models, e.id, P!ModelPrice(e))
    BY <1>5 DEF P!FetchEntry, P!Entered
  <2>2. \A id : P!Usable(n, id)' <=> id = e.id
    BY <1>1, <1>5 DEF P!Usable
  <2>3. DOMAIN models' = DOMAIN models \cup {e.id} /\ models'[e.id] = P!ModelPrice(e)
        /\ \A id \in DOMAIN models \ {e.id} : models'[id] = models[id]
    BY <2>1 DEF P!Put
  <2>4. ASSUME NEW i \in DOMAIN parsed', P!Usable(i, parsed[i].id)'
        PROVE  parsed'[i].id \in DOMAIN models'
    BY <1>1, <1>2, <1>3, <2>2, <2>3, <2>4 DEF P!CatalogIsExact
  <2>5. ASSUME NEW id \in DOMAIN models'
        PROVE  \E i \in DOMAIN parsed' :
                 /\ P!Usable(i, id)' /\ models'[id] = P!ModelPrice(parsed'[i])
                 /\ \A j \in DOMAIN parsed' : P!Usable(j, id)' => j <= i
    <3>1. CASE id = e.id
      BY <1>1, <1>3, <2>2, <2>3, <3>1
    <3>2. CASE id # e.id
      <4>1. PICK i \in DOMAIN parsed :
              /\ P!Usable(i, id) /\ models[id] = P!ModelPrice(parsed[i])
              /\ \A j \in DOMAIN parsed : P!Usable(j, id) => j <= i
        BY <2>3, <3>2 DEF P!CatalogIsExact
      <4> QED
        BY <1>1, <1>2, <1>3, <2>2, <2>3, <3>2, <4>1
    <3> QED
      BY <3>1, <3>2
  <2> QED
    BY <1>1, <2>4, <2>5 DEF P!CatalogIsExact
<1> QED
  BY <1>4, <1>5

CatalogInv == parsed \in Seq(Entries) /\ P!CatalogIsExact

LEMMA EmptyCatalog ==
  ASSUME parsed = <<>>, models = P!NoModels
  PROVE  CatalogInv
BY DEF CatalogInv, P!CatalogIsExact, P!NoModels

LEMMA CatalogStep ==
  ASSUME CatalogInv, [P!Next]_(P!vars)
  PROVE  CatalogInv'
<1>1. CASE \E e \in Entries : P!FetchEntry(e)
  BY <1>1, CatalogRound DEF CatalogInv
<1>2. CASE P!FetchFails \/ P!Install
  <2>1. parsed' = <<>> /\ models' = P!NoModels
    BY <1>2 DEF P!FetchFails, P!Install, P!ForgetFetch
  <2> QED
    BY <2>1 DEF CatalogInv, P!CatalogIsExact, P!NoModels
<1>3. CASE UNCHANGED P!fetchVars
  BY <1>3 DEF P!fetchVars, CatalogInv, P!CatalogIsExact, P!Usable
<1>4. (\E e \in Entries : P!FetchEntry(e)) \/ P!FetchFails \/ P!Install \/ UNCHANGED P!fetchVars
  BY DEF P!Next, P!vars, P!Load, P!LookUp, P!ScanKey, P!ScanDone, P!Charge, P!SavedCost, P!Billed,
         P!Return, P!Exited
<1> QED
  BY <1>1, <1>2, <1>3, <1>4

(* What fetchModels has made of the catalog, after every entry: the last    *)
(* usable entry of an id counts, whatever unusable ones come with it.       *)
THEOREM CatalogExactness == P!Spec => []CatalogIsExact
<1>1. P!Init => CatalogInv
  BY EmptyCatalog DEF P!Init
<1>2. CatalogInv => CatalogIsExact
  BY DEF CatalogInv, CatalogIsExact
<1> QED
  BY <1>1, <1>2, CatalogStep, PTL DEF P!Spec

-----------------------------------------------------------------------------
(* The arithmetic of a charge.                                              *)
LEMMA Scaled ==
  ASSUME NEW n \in Nat, NEW a \in Int, NEW b \in Int, a <= b
  PROVE  n * a \in Int /\ n * b \in Int /\ n * a <= n * b
BY SMTT(30)

LEMMA Divided ==
  ASSUME NEW n \in Nat \ {0}, NEW a \in Int
  PROVE  /\ a \div n \in Int /\ n * (a \div n) \in Int
         /\ n * (a \div n) <= a /\ a < n * (a \div n) + n
<1> DEFINE q == a \div n
<1>1. q \in Int /\ a % n \in 0..(n - 1) /\ a = n * q + (a % n)
  BY SMTT(30)
<1>2. n * q \in Int
  BY <1>1
<1> HIDE DEF q
<1>3. n * q <= a /\ a < n * q + n
  BY <1>1, <1>2
<1> QED
  BY <1>1, <1>2, <1>3 DEF q

(* A quotient is at most c if its dividend is below the next multiple. *)
LEMMA QuotientAtMost ==
  ASSUME NEW n \in Nat \ {0}, NEW a \in Int, NEW c \in Int, a < n * c + n
  PROVE  a \div n <= c
<1> DEFINE q == a \div n
<1>1. q \in Int /\ n * q \in Int /\ n * q <= a
  BY Divided
<1> HIDE DEF q
<1>2. SUFFICES ASSUME c + 1 <= q PROVE FALSE
  BY <1>1 DEF q
<1>3. n * (c + 1) <= n * q /\ n * (c + 1) \in Int
  BY <1>1, <1>2, Scaled
<1>4. n * (c + 1) = n * c + n /\ n * c \in Int
  BY SMTT(30)
<1> QED
  BY <1>1, <1>3, <1>4

LEMMA QuotientOfNat ==
  ASSUME NEW n \in Nat \ {0}, NEW a \in Nat
  PROVE  a \div n \in Nat
<1> DEFINE q == a \div n
<1>1. q \in Int /\ n * q \in Int /\ a < n * q + n
  BY Divided
<1> HIDE DEF q
<1>2. SUFFICES ASSUME q <= -1 PROVE FALSE
  BY <1>1 DEF q
<1>3. n * q <= n * (-1) /\ n * (-1) = -n
  BY <1>1, <1>2, Scaled
<1> QED
  BY <1>1, <1>3

LEMMA ProductWithin ==
  ASSUME NEW k \in Nat, NEW c \in Nat, NEW n \in Int, -k <= n, n <= k,
         NEW m \in Nat, m <= c
  PROVE  n * m \in Int /\ k * c \in Nat /\ -(k * c) <= n * m /\ n * m <= k * c
<1>1. m * (-k) <= m * n /\ m * n <= m * k /\ m * n \in Int /\ m * k \in Int /\ m * (-k) \in Int
  BY Scaled
<1>2. k * m <= k * c /\ k * m \in Int /\ k * c \in Int
  BY Scaled
<1>3. m * n = n * m /\ m * k = k * m /\ m * (-k) = -(k * m) /\ k * c >= 0
  BY SMTT(30)
<1> QED
  BY <1>1, <1>2, <1>3

(* Half of the values of an int64 are not negative. *)
Half == 2^(MoneyWidth - 1)

LEMMA Halves ==
  /\ Half \in Nat \ {0} /\ 2^MoneyWidth = 2 * Half
  /\ P!CapMicro \in Nat \ {0} /\ P!MaxExact \in Nat
  /\ 2 * (P!MaxExact * P!CapMicro) <= Half - 1
  /\ P!MaxExact * P!CapMicro \in Nat
<1>1. Half \in Nat \ {0} /\ 2^MoneyWidth = 2 * Half /\ MaxUSDPer1M \in Nat \ {0} /\ Million \in Nat \ {0}
  BY PricesAssumption DEF P!PricingConstants, Half
<1>0. P!MaxExact = (Half - 1) \div (2 * P!CapMicro)
  BY DEF P!MaxExact, Half
<1> DEFINE c == P!CapMicro
           x == P!MaxExact
<1>2. c \in Nat \ {0}
  <2>1. MaxUSDPer1M * Million \in Int /\ MaxUSDPer1M * 1 <= MaxUSDPer1M * Million
    BY <1>1, Scaled
  <2> QED
    BY <1>1, <2>1 DEF P!CapMicro
<1> HIDE DEF c
<1>3. x = (Half - 1) \div (2 * c)
  BY <1>0 DEF c
<1>4. x \in Nat
  BY <1>1, <1>2, <1>3, QuotientOfNat
<1>5. (2 * c) * x <= Half - 1
  <2>1. 2 * c \in Nat \ {0} /\ Half - 1 \in Int
    BY <1>1, <1>2
  <2> HIDE DEF x
  <2> QED
    BY <2>1, <1>3, Divided
<1> HIDE DEF x
<1>6. (2 * c) * x = 2 * (x * c) /\ x * c \in Nat
  BY <1>2, <1>4, SMTT(30)
<1> QED
  BY <1>1, <1>2, <1>4, <1>5, <1>6 DEF c, x

LEMMA WrapIsExact ==
  ASSUME NEW n \in Int, -Half <= n, n < Half
  PROVE  P!Wrap(n) = n
<1> PICK h \in Nat \ {0} : h = Half
  BY Halves
<1>1. 2^MoneyWidth = 2 * h /\ 2^(MoneyWidth - 1) = h
  BY Halves DEF Half
<1>2. CASE n >= 0
  <2>1. n % (2 * h) = n
    BY <1>2, SMTT(30)
  <2> QED
    BY <1>1, <2>1 DEF P!Wrap
<1>3. CASE n < 0
  <2>1. n % (2 * h) = n + 2 * h
    BY <1>3, SMTT(30)
  <2> QED
    BY <1>1, <2>1 DEF P!Wrap
<1> QED
  BY <1>2, <1>3

-----------------------------------------------------------------------------
(* The prices of every table are amounts up to the cap. *)
Capped == [in : 0..P!CapMicro, out : 0..P!CapMicro]

LEMMA MicroIsCapped ==
  ASSUME NEW v, v \in Int \cup {Absent, Unpriced}, P!ToMicroUSDPer1M(v) # Unpriced
  PROVE  P!ToMicroUSDPer1M(v) \in 0..P!CapMicro
<1>1. v \in Int /\ 0 <= v /\ v <= MaxUSDPer1M * Grain
      /\ P!ToMicroUSDPer1M(v) = (2 * v * Million + Grain) \div (2 * Grain)
  <2>1. v \in Int
    BY DEF P!ToMicroUSDPer1M
  <2>2. MaxUSDPer1M * Grain \in Int
    BY PricesAssumption DEF P!PricingConstants
  <2> QED
    BY <2>1, <2>2 DEF P!ToMicroUSDPer1M
<1>2. Million \in Nat /\ Grain \in Nat \ {0} /\ MaxUSDPer1M \in Nat
  BY PricesAssumption DEF P!PricingConstants
<1>3. P!CapMicro \in Nat /\ P!CapMicro = MaxUSDPer1M * Million
  BY Halves DEF P!CapMicro
<1> PICK c \in Nat : c = P!CapMicro
  BY <1>3
<1>4. Million * v \in Nat /\ Million * v <= Million * (MaxUSDPer1M * Grain)
  <2>1. MaxUSDPer1M * Grain \in Int
    BY <1>2
  <2>2. Million * 0 <= Million * v /\ Million * v \in Int
    BY <1>1, <1>2, Scaled
  <2> QED
    BY <1>1, <1>2, <2>1, <2>2, Scaled
<1>5. Million * (MaxUSDPer1M * Grain) = Grain * c
  BY <1>2, <1>3, SMTT(30)
<1>6. Grain * c \in Nat
  BY <1>2, SMTT(30)
<1>7. 2 * v * Million + Grain = 2 * (Million * v) + Grain
  BY <1>1, <1>2, SMTT(30)
<1>8. (2 * Grain) * c = 2 * (Grain * c)
  BY <1>2, SMTT(30)
<1>9. 2 * Grain \in Nat \ {0} /\ 2 * (Million * v) + Grain \in Nat
  BY <1>2, <1>4
<1>10. 2 * (Million * v) + Grain < (2 * Grain) * c + 2 * Grain
  BY <1>2, <1>4, <1>5, <1>6, <1>8
<1>11. (2 * (Million * v) + Grain) \div (2 * Grain) <= c
  BY <1>9, <1>10, QuotientAtMost
<1>12. (2 * (Million * v) + Grain) \div (2 * Grain) \in Nat
  BY <1>9, QuotientOfNat
<1> QED
  BY <1>1, <1>7, <1>11, <1>12

LEMMA PriceIsCapped ==
  ASSUME NEW in, NEW out, {in, out} \subseteq Int \cup {Absent, Unpriced},
         P!PriceOf(in, out) # Unpriced
  PROVE  P!PriceOf(in, out) \in Capped
BY MicroIsCapped DEF P!PriceOf, Capped

(* The cost of small token counts: no product or sum wraps. *)
LEMMA CostIsExact ==
  ASSUME NEW mp \in Capped, NEW p \in Int, NEW c \in Int, P!Small(p), P!Small(c)
  PROVE  P!Cost(mp, p, c) = P!Quotient(p * mp.in + c * mp.out, Million)
<1>1. mp.in \in Nat /\ mp.in <= P!CapMicro /\ mp.out \in Nat /\ mp.out <= P!CapMicro
      /\ P!CapMicro \in Nat /\ P!MaxExact \in Nat
  BY Halves DEF Capped
<1>2. PICK b \in Nat : b = P!MaxExact * P!CapMicro /\ 2 * b <= Half - 1
  BY Halves
<1>3. p * mp.in \in Int /\ -b <= p * mp.in /\ p * mp.in <= b
  BY <1>1, <1>2, ProductWithin DEF P!Small
<1>4. c * mp.out \in Int /\ -b <= c * mp.out /\ c * mp.out <= b
  BY <1>1, <1>2, ProductWithin DEF P!Small
<1>5. P!Wrap(p * mp.in) = p * mp.in
  BY <1>2, <1>3, Halves, WrapIsExact
<1>6. P!Wrap(c * mp.out) = c * mp.out
  BY <1>2, <1>4, Halves, WrapIsExact
<1>7. P!Wrap(p * mp.in + c * mp.out) = p * mp.in + c * mp.out
  BY <1>2, <1>3, <1>4, Halves, WrapIsExact
<1> QED
  BY <1>5, <1>6, <1>7 DEF P!Cost
-----------------------------------------------------------------------------
Tariff(t) ==
  /\ \A k \in DOMAIN t.models : t.models[k] \in Capped
  /\ t.def \in Capped /\ t.assumed \in Int /\ t.chars \in Nat \ {0}

(* Every price that can be charged is capped, wherever it comes from, and a *)
(* bill is what Cost makes of it.                                           *)
ChargeInv ==
  /\ Tariff(base) /\ Tariff(table)
  /\ \A k \in DOMAIN models : models[k] \in Capped
  /\ price \in Capped
  /\ reader = "billed" => /\ bill.prompt \in Int /\ bill.completion \in Int
                         /\ bill.cost = P!Cost(price, bill.prompt, bill.completion)

LEMMA LoadedIsCapped ==
  ASSUME NEW f \in Files, ~P!BadFile(f)
  PROVE  Tariff(P!TableOf(f))
<1>1. /\ {f.assumed, f.chars, f.def.in, f.def.out} \subseteq Int \cup {Absent}
      /\ \A k \in DOMAIN f.models : {f.models[k].in, f.models[k].out} \subseteq Int \cup {Absent}
  BY PricesAssumption DEF P!PricingConstants, P!Field
<1> DEFINE t == P!TableOf(f)
<1>2. /\ t.models = [k \in DOMAIN f.models |-> P!PriceOf(f.models[k].in, f.models[k].out)]
      /\ t.def = P!PriceOf(f.def.in, f.def.out)
      /\ t.assumed = IF f.assumed = Absent THEN 0 ELSE f.assumed
      /\ t.chars = IF f.chars = Absent THEN P!DefaultCharsPerToken ELSE f.chars
  BY DEF P!TableOf
<1>3. /\ f.chars # Absent => ~(f.chars <= 0)
      /\ P!PriceOf(f.def.in, f.def.out) # Unpriced
      /\ \A k \in DOMAIN f.models : P!PriceOf(f.models[k].in, f.models[k].out) # Unpriced
  BY DEF P!BadFile
<1> HIDE DEF t
<1>4. t.assumed \in Int
  BY <1>1, <1>2
<1>5. t.chars \in Nat \ {0}
  BY <1>1, <1>2, <1>3 DEF P!DefaultCharsPerToken
<1>6. t.def \in Capped
  BY <1>1, <1>2, <1>3, PriceIsCapped
<1>7. ASSUME NEW k \in DOMAIN t.models PROVE t.models[k] \in Capped
  <2>1. k \in DOMAIN f.models /\ t.models[k] = P!PriceOf(f.models[k].in, f.models[k].out)
    BY <1>2
  <2> QED
    BY <1>1, <1>3, <2>1, PriceIsCapped
<1> QED
  BY <1>4, <1>5, <1>6, <1>7 DEF Tariff, t

LEMMA FetchedIsCapped ==
  ASSUME NEW e \in Entries, P!ModelPrice(e) # Unpriced
  PROVE  P!ModelPrice(e) \in Capped
<1>1. e.prompt.value \in Int /\ e.completion.value \in Int /\ Million \in Nat
  BY PricesAssumption DEF P!PricingConstants
<1>2. e.prompt.value * Million \in Int /\ e.completion.value * Million \in Int
  BY <1>1
<1>3. {P!ParsePriceString(e.prompt), P!ParsePriceString(e.completion)}
        \subseteq Int \cup {Absent, Unpriced}
  BY <1>1, <1>2 DEF P!ParsePriceString
<1> QED
  BY <1>3, PriceIsCapped DEF P!ModelPrice

LEMMA InitCharge == P!Init => ChargeInv
<1> SUFFICES ASSUME P!Init PROVE ChargeInv
  OBVIOUS
<1>1. P!NoPrice \in Capped
  BY Halves DEF P!NoPrice, Capped
<1>2. Tariff(P!NoTable)
  BY <1>1 DEF Tariff, P!NoTable, P!NoModels, P!DefaultCharsPerToken
<1> QED
  BY <1>1, <1>2 DEF ChargeInv, P!Init, P!NoModels

LEMMA ChargeStep ==
  ASSUME LookupInv, ChargeInv, [P!Next]_(P!vars)
  PROVE  ChargeInv'
<1> USE DEF P!tableVars, P!fetchVars, P!readerVars
<1>0. P!NoPrice \in Capped
  BY Halves DEF P!NoPrice, Capped
<1>1. CASE \E f \in Files : P!Load(f)
  <2> PICK f \in Files : P!Load(f)
    BY <1>1
  <2>1. CASE P!BadFile(f)
    BY <2>1 DEF P!Load, ChargeInv, Tariff
  <2>2. CASE ~P!BadFile(f)
    <3>1. base' = P!TableOf(f) /\ table' = P!TableOf(f) /\ UNCHANGED <<models, reader, price, bill>>
      BY <2>2 DEF P!Load
    <3> QED
      BY <2>2, <3>1, LoadedIsCapped DEF ChargeInv
  <2> QED
    BY <2>1, <2>2
<1>2. CASE \E e \in Entries : P!FetchEntry(e)
  <2> PICK e \in Entries : P!FetchEntry(e)
    BY <1>2
  <2>1. models' = P!Entered(e) /\ UNCHANGED <<base, table, reader, price, bill>>
    BY DEF P!FetchEntry
  <2>2. ASSUME NEW k \in DOMAIN models' PROVE models'[k] \in Capped
    <3>1. CASE e.id = <<>> \/ P!ModelPrice(e) = Unpriced
      BY <2>1, <3>1 DEF P!Entered, ChargeInv
    <3>2. CASE e.id # <<>> /\ P!ModelPrice(e) # Unpriced
      <4>1. models' = P!Put(models, e.id, P!ModelPrice(e))
        BY <2>1, <3>2 DEF P!Entered
      <4>2. models'[k] = P!ModelPrice(e) \/ (k \in DOMAIN models /\ models'[k] = models[k])
        BY <4>1 DEF P!Put
      <4> QED
        BY <3>2, <4>2, FetchedIsCapped DEF ChargeInv
    <3> QED
      BY <3>1, <3>2
  <2> QED
    BY <2>1, <2>2 DEF ChargeInv
<1>3. CASE P!FetchFails
  BY <1>3 DEF P!FetchFails, P!ForgetFetch, P!NoModels, ChargeInv
<1>4. CASE P!Install
  <2>1. table' = P!Merged /\ models' = P!NoModels /\ UNCHANGED <<base, reader, price, bill>>
    BY <1>4 DEF P!Install, P!ForgetFetch
  <2>2. Tariff(P!Merged)
    <3>1. /\ P!Merged.models = P!Overlay(base.models, models) /\ P!Merged.def = base.def
          /\ P!Merged.assumed = base.assumed /\ P!Merged.chars = base.chars
      BY DEF P!Merged
    <3>2. \A k \in DOMAIN P!Overlay(base.models, models) : P!Overlay(base.models, models)[k] \in Capped
      BY DEF P!Overlay, ChargeInv, Tariff
    <3> QED
      BY <3>1, <3>2 DEF ChargeInv, Tariff
  <2> QED
    BY <2>1, <2>2 DEF ChargeInv, P!NoModels
<1>5. CASE \E m \in Queries, why \in {"actual", "saved"} : P!LookUp(m, why)
  <2> PICK m \in Queries, why \in {"actual", "saved"} : P!LookUp(m, why)
    BY <1>5
  <2>1. /\ UNCHANGED <<base, table, models>> /\ reader' \in {"priced", "scan"}
        /\ price' = price \/ (m \in DOMAIN table.models /\ price' = table.models[m])
    BY DEF P!LookUp
  <2> QED
    BY <2>1 DEF ChargeInv, Tariff
<1>6. CASE \E k \in todo : P!ScanKey(k)
  BY <1>6 DEF P!ScanKey, ChargeInv, Tariff
<1>7. CASE P!ScanDone
  <2>1. /\ UNCHANGED <<base, table, models>> /\ reader' = "priced" /\ reader = "scan"
        /\ price' = IF best # <<>> THEN table.models[best] ELSE table.def
    BY <1>7 DEF P!ScanDone
  <2>2. best # <<>> => best \in DOMAIN table.models
    BY <2>1 DEF LookupInv, BestSoFar
  <2> QED
    BY <2>1, <2>2 DEF ChargeInv, Tariff
<1>8. ASSUME NEW p \in Int, NEW c \in Int, P!Billed(p, c) PROVE ChargeInv'
  <2>1. /\ UNCHANGED <<base, table, models, price>> /\ reader' = "billed"
        /\ bill' = [prompt |-> p, completion |-> c, cost |-> P!Cost(price, p, c)]
    BY <1>8 DEF P!Billed
  <2>2. bill'.prompt = p /\ bill'.completion = c /\ bill'.cost = P!Cost(price', p, c)
    BY <2>1
  <2> QED
    BY <2>1, <2>2 DEF ChargeInv, Tariff
<1>9. CASE \E p, c \in TokenCounts : P!Charge(p, c)
  BY <1>8, <1>9, PricesAssumption DEF P!Charge, P!PricingConstants
<1>10. CASE \E size \in BodySizes : P!SavedCost(size)
  <2> PICK size \in BodySizes : P!SavedCost(size)
    BY <1>10
  <2>1. size \in Nat /\ table.chars \in Nat \ {0} /\ table.assumed \in Int
    BY PricesAssumption DEF P!PricingConstants, ChargeInv, Tariff
  <2>2. P!EstimateTokens(size) \in Int
    BY <2>1, Divided DEF P!EstimateTokens
  <2> QED
    BY <1>8, <2>1, <2>2 DEF P!SavedCost
<1>11. CASE P!Return
  BY <1>0, <1>11 DEF P!Return, ChargeInv, Tariff
<1>12. CASE P!Exited \/ UNCHANGED P!vars
  BY <1>12 DEF P!Exited, P!vars, ChargeInv, Tariff
<1> QED
  BY <1>1, <1>2, <1>3, <1>4, <1>5, <1>6, <1>7, <1>9, <1>10, <1>11, <1>12 DEF P!Next

(* For any price file, catalog, width and cap: a charge for token counts up *)
(* to MaxExact is the exact quotient, so neither a product nor their sum    *)
(* overflows (Calculator.Cost), whichever table the price comes from.       *)
THEOREM ChargesAreExact == P!Spec => []ChargeIsExact
<1>1. ChargeInv => ChargeIsExact
  BY CostIsExact DEF ChargeInv, ChargeIsExact, P!ChargeIsExact
<1> QED
  BY <1>1, InitLookup, InitCharge, TablesStayKeyed, LookupInvStep, ChargeStep, PTL DEF P!Spec

-----------------------------------------------------------------------------
(* A start of the process.  Everything up to the seeding of the book leaves *)
(* no trace in memory; from then on the models of the file have a row.      *)
BookInv ==
  /\ \A m \in DOMAIN edited : m \in DOMAIN book /\ book[m] = edited[m]
  /\ (process \in {"keys", "settings", "serving"} /\ flags.db) =>
        DOMAIN flags.prices \subseteq DOMAIN book

LEMMA InitBook == L!Init => BookInv
BY DEF L!Init, BookInv, L!Nothing

LEMMA BookStep == BookInv /\ [L!Next]_(L!vars) => BookInv'
<1> SUFFICES ASSUME BookInv, [L!Next]_(L!vars) PROVE BookInv'
  OBVIOUS
<1> USE DEF L!diskVars, L!localVars, L!Enter, L!Die
<1>1. CASE \E f \in L!AllFlags : L!Start(f)
  BY <1>1 DEF L!Start, BookInv
<1>2. CASE L!LoadPricing
  BY <1>2 DEF L!LoadPricing, BookInv
<1>3. CASE L!OpenStore
  BY <1>3 DEF L!OpenStore, BookInv
<1>4. CASE L!SeedModelPrices
  <2>1. CASE book' = L!Seeded /\ process' = "keys"
    <3>1. /\ DOMAIN book' = DOMAIN book \cup DOMAIN flags.prices
          /\ \A m \in DOMAIN book : book'[m] = book[m]
      BY <2>1 DEF L!Seeded
    <3>2. flags' = flags /\ edited' = edited
      BY <1>4 DEF L!SeedModelPrices
    <3> QED
      BY <3>1, <3>2 DEF BookInv
  <2>2. CASE UNCHANGED book /\ process' = "down"
    BY <1>4, <2>2 DEF L!SeedModelPrices, BookInv
  <2> QED
    BY <1>4, <2>1, <2>2 DEF L!SeedModelPrices
<1>5. CASE L!LoadKey
  <2>1. UNCHANGED <<flags, book, edited>> /\ (process' = "down" \/ process' = process)
    BY <1>5, Zenon DEF L!LoadKey
  <2> QED
    BY <2>1 DEF BookInv
<1>6. CASE L!KeysDone
  BY <1>6 DEF L!KeysDone, BookInv
<1>7. CASE L!ApplySettings
  <2>1. UNCHANGED <<flags, book, edited>> /\ process = "settings" /\ process' = "serving"
    BY <1>7 DEF L!ApplySettings
  <2> QED
    BY <2>1 DEF BookInv
<1>8. CASE L!Crash
  BY <1>8 DEF L!Crash, BookInv
<1>9. CASE L!BoundReached \/ UNCHANGED L!vars
  BY <1>9 DEF L!BoundReached, L!vars, BookInv
<1>10. CASE \E s \in Settings : L!UpdateSettings(s)
  <2>1. UNCHANGED <<flags, book, edited, process>>
    BY <1>10 DEF L!UpdateSettings
  <2> QED
    BY <2>1 DEF BookInv
<1>11. CASE \E m \in DOMAIN book, row \in EditedRows : L!EditPrice(m, row)
  <2> PICK m \in DOMAIN book, row \in EditedRows : L!EditPrice(m, row)
    BY <1>11
  <2>1. UNCHANGED <<flags, process>> /\ book' = L!Put(book, m, row) /\ edited' = L!Put(edited, m, row)
    BY DEF L!EditPrice
  <2>2. /\ DOMAIN book' = DOMAIN book \cup {m} /\ DOMAIN edited' = DOMAIN edited \cup {m}
        /\ \A k \in DOMAIN book' : book'[k] = IF k = m THEN row ELSE book[k]
        /\ \A k \in DOMAIN edited' : edited'[k] = IF k = m THEN row ELSE edited[k]
    BY <2>1 DEF L!Put
  <2> QED
    BY <2>1, <2>2 DEF BookInv
<1> QED
  BY <1>1, <1>2, <1>3, <1>4, <1>5, <1>6, <1>7, <1>8, <1>9, <1>10, <1>11 DEF L!Next

(* Whatever price files the processes are started with, and wherever a      *)
(* start fails or a process dies (SeedModelPrices, ON CONFLICT DO NOTHING): *)
(* an edited row stays as edited, and a process that serves from the        *)
(* database has a row for each model of its file.                           *)
THEOREM PriceBookSurvives == L!Spec => []PriceBookIsKept
<1>1. BookInv => PriceBookIsKept
  BY DEF BookInv, PriceBookIsKept, L!PriceBookIsKept
<1> QED
  BY <1>1, InitBook, BookStep, PTL DEF L!Spec

-----------------------------------------------------------------------------
(* What a start has read so far: the first n entries of the keys file are   *)
(* valid, and the callers known are theirs, each as its last entry says.    *)
ReadUpTo(n) ==
  /\ \A i \in 1..n : flags.keys[i].key # None /\ flags.keys[i].id # None
  /\ DOMAIN callers = {flags.keys[i].key : i \in 1..n}
  /\ \A k \in DOMAIN callers : \E i \in 1..n :
       /\ flags.keys[i].key = k /\ callers[k].id = flags.keys[i].id
       /\ callers[k].budget = flags.keys[i].budget
       /\ \A j \in 1..n : j > i => flags.keys[j].key # k

KeysInv ==
  /\ flags.keys \in KeyFiles \cup {Bad, None}
  /\ process \in {"down", "pricing", "open", "seed"} => callers = L!Nothing /\ next = 1
  /\ (process = "keys" /\ flags.keys \notin {Bad, None}) =>
        next \in 1..(Len(flags.keys) + 1) /\ ReadUpTo(next - 1)
  /\ process = "settings" => L!KeysAreComplete

(* What is stored: the row on disk is the one last written, or at most the  *)
(* defaults; and until a process serves, nothing is in its memory.          *)
RowsInv ==
  /\ written = [disk |-> written.disk, memory |-> written.memory]
  /\ memRow = written.memory
  /\ IF written.disk = None THEN diskRow \in {None, L!DefaultSettings}
     ELSE diskRow = written.disk
  /\ process # "serving" => costAlert = 0

LEMMA InitConfigured == L!Init => KeysInv /\ RowsInv
BY DEF L!Init, KeysInv, RowsInv

(* Reading one more valid entry.                                            *)
LEMMA ReadOneMore ==
  ASSUME NEW n \in Nat, ReadUpTo(n), L!ValidEntry(flags.keys[n + 1]), flags' = flags,
         callers' = L!Put(callers, flags.keys[n + 1].key,
                          [id |-> flags.keys[n + 1].id, budget |-> flags.keys[n + 1].budget])
  PROVE  ReadUpTo(n + 1)'
<1> DEFINE e == flags.keys[n + 1]
<1>0. 1..(n + 1) = 1..n \cup {n + 1} /\ n + 1 \notin 1..n
  OBVIOUS
<1>1. /\ DOMAIN callers' = DOMAIN callers \cup {e.key}
      /\ \A k \in DOMAIN callers' :
           callers'[k] = IF k = e.key THEN [id |-> e.id, budget |-> e.budget] ELSE callers[k]
  BY DEF L!Put
<1>2. \A i \in 1..(n + 1) : flags.keys[i].key # None /\ flags.keys[i].id # None
  BY <1>0 DEF ReadUpTo, L!ValidEntry
<1>3. DOMAIN callers' = {flags.keys[i].key : i \in 1..(n + 1)}
  <2> HIDE DEF e
  <2>1. DOMAIN callers = {flags.keys[i].key : i \in 1..n}
    BY DEF ReadUpTo
  <2>2. {flags.keys[i].key : i \in 1..(n + 1)} = {flags.keys[i].key : i \in 1..n} \cup {flags.keys[n + 1].key}
    BY <1>0
  <2> QED
    BY <1>1, <2>1, <2>2 DEF e
<1>4. ASSUME NEW k \in DOMAIN callers'
      PROVE  \E i \in 1..(n + 1) :
               /\ flags.keys[i].key = k /\ callers'[k].id = flags.keys[i].id
               /\ callers'[k].budget = flags.keys[i].budget
               /\ \A j \in 1..(n + 1) : j > i => flags.keys[j].key # k
  <2>1. CASE k = e.key
    <3>1. callers'[k].id = e.id /\ callers'[k].budget = e.budget
      BY <1>1, <2>1
    <3>2. n + 1 \in 1..(n + 1) /\ \A j \in 1..(n + 1) : ~(j > n + 1)
      OBVIOUS
    <3> QED
      BY <2>1, <3>1, <3>2
  <2>2. CASE k # e.key
    <3>1. k \in DOMAIN callers /\ callers'[k] = callers[k]
      BY <1>1, <2>2
    <3>2. PICK i \in 1..n :
               /\ flags.keys[i].key = k /\ callers[k].id = flags.keys[i].id
               /\ callers[k].budget = flags.keys[i].budget
               /\ \A j \in 1..n : j > i => flags.keys[j].key # k
      BY <3>1 DEF ReadUpTo
    <3>3. i \in 1..(n + 1) /\ \A j \in 1..(n + 1) : j > i => flags.keys[j].key # k
      BY <1>0, <2>2, <3>2
    <3> QED
      BY <3>1, <3>2, <3>3
  <2> QED
    BY <2>1, <2>2
<1> QED
  BY <1>2, <1>3, <1>4 DEF ReadUpTo

LEMMA NothingRead == callers = L!Nothing => ReadUpTo(0)
BY DEF ReadUpTo, L!Nothing

LEMMA KeysStep == KeysInv /\ [L!Next]_(L!vars) => KeysInv'
<1> SUFFICES ASSUME KeysInv, [L!Next]_(L!vars) PROVE KeysInv'
  OBVIOUS
<1> USE DEF L!diskVars, L!localVars, L!Enter
<1>0. ASSUME L!Die, flags' = flags PROVE KeysInv'
  BY <1>0 DEF L!Die, KeysInv
<1>a. ASSUME UNCHANGED <<flags, callers, next>>, process' = "keys", process \in {"open", "seed"}
      PROVE  KeysInv'
  <2>1. callers = L!Nothing /\ next = 1 /\ ReadUpTo(next - 1)
    BY <1>a, NothingRead DEF KeysInv
  <2>2. ReadUpTo(next - 1)'
    BY <2>1, <1>a DEF ReadUpTo
  <2>3. flags.keys \notin {Bad, None} => next \in 1..(Len(flags.keys) + 1)
    BY <2>1, PricesAssumption DEF L!ProcessConstants, KeysInv
  <2> QED
    BY <1>a, <2>2, <2>3 DEF KeysInv
<1>b. ASSUME UNCHANGED <<process, flags, callers, next>> PROVE KeysInv'
  BY <1>b DEF KeysInv, ReadUpTo, L!KeysAreComplete
<1>1. CASE \E f \in L!AllFlags : L!Start(f)
  BY <1>1 DEF L!Start, L!AllFlags, KeysInv
<1>2. CASE L!LoadPricing
  <2>1. CASE L!Die
    BY <1>0, <1>2, <2>1 DEF L!LoadPricing
  <2>2. CASE process' = "open" /\ UNCHANGED <<callers, next>>
    BY <1>2, <2>2 DEF L!LoadPricing, KeysInv
  <2> QED
    BY <1>2, <2>1, <2>2 DEF L!LoadPricing
<1>3. CASE L!OpenStore
  <2>1. CASE L!Die
    BY <1>0, <1>3, <2>1 DEF L!OpenStore
  <2>2. CASE process' = "seed" /\ UNCHANGED <<callers, next>>
    BY <1>3, <2>2 DEF L!OpenStore, KeysInv
  <2>3. CASE process' = "keys" /\ UNCHANGED <<callers, next>>
    BY <1>3, <1>a, <2>3 DEF L!OpenStore
  <2> QED
    BY <1>3, <2>1, <2>2, <2>3 DEF L!OpenStore
<1>4. CASE L!SeedModelPrices
  BY <1>4, <1>0, <1>a DEF L!SeedModelPrices
<1>5. CASE L!LoadKey
  <2>0. flags' = flags /\ process = "keys" /\ ~L!KeysRead
    BY <1>5 DEF L!LoadKey
  <2>1. CASE L!Die
    BY <1>0, <2>0, <2>1
  <2>2. CASE ~L!Die
    <3> DEFINE e == flags.keys[next]
    <3>1. /\ flags.keys # Bad /\ L!ValidEntry(e) /\ process' = process
          /\ callers' = L!Put(callers, e.key, [id |-> e.id, budget |-> e.budget])
          /\ next' = next + 1
      BY <1>5, <2>2 DEF L!LoadKey
    <3>2. flags.keys \notin {Bad, None} /\ ~(next > Len(flags.keys))
      BY <2>0, <3>1 DEF L!KeysRead
    <3>3. next \in 1..(Len(flags.keys) + 1) /\ ReadUpTo(next - 1) /\ Len(flags.keys) \in Nat
      BY <2>0, <3>2, PricesAssumption DEF KeysInv, L!ProcessConstants
    <3>4. next - 1 \in Nat /\ (next - 1) + 1 = next /\ next' - 1 = next
          /\ next' \in 1..(Len(flags.keys) + 1)
      BY <3>1, <3>2, <3>3
    <3> HIDE DEF e
    <3>5. PICK n \in Nat : n = next - 1
      BY <3>4
    <3>6. ReadUpTo(n) /\ flags.keys[n + 1] = e /\ next' - 1 = n + 1
      BY <3>3, <3>4, <3>5 DEF e
    <3>7. ReadUpTo(n + 1)'
      BY <2>0, <3>1, <3>6, ReadOneMore
    <3>8. ReadUpTo(next - 1)'
      BY <3>6, <3>7 DEF ReadUpTo
    <3> QED
      BY <2>0, <3>1, <3>4, <3>8 DEF KeysInv
  <2> QED
    BY <2>1, <2>2
<1>6. CASE L!KeysDone
  <2>1. UNCHANGED <<flags, callers, next>> /\ process = "keys" /\ process' = "settings" /\ L!KeysRead
    BY <1>6 DEF L!KeysDone
  <2>2. ASSUME flags.keys # None PROVE L!KeysAreComplete
    <3>1. flags.keys \notin {Bad, None} /\ next > Len(flags.keys)
      BY <2>1, <2>2 DEF L!KeysRead
    <3>2. /\ next \in 1..(Len(flags.keys) + 1) /\ ReadUpTo(next - 1)
          /\ Len(flags.keys) \in Nat /\ DOMAIN flags.keys = 1..Len(flags.keys)
      BY <2>1, <3>1, PricesAssumption DEF KeysInv, L!ProcessConstants
    <3>3. next - 1 = Len(flags.keys)
      BY <3>1, <3>2
    <3> DEFINE n == next - 1
    <3>4. ReadUpTo(n) /\ DOMAIN flags.keys = 1..n
      BY <3>2, <3>3
    <3> HIDE DEF n
    <3> QED
      BY <3>4 DEF ReadUpTo, L!KeysAreComplete
  <2>3. L!KeysAreComplete'
    BY <2>1, <2>2 DEF L!KeysAreComplete
  <2> QED
    BY <2>1, <2>3 DEF KeysInv
<1>7. CASE L!ApplySettings
  BY <1>7 DEF L!ApplySettings, KeysInv
<1>8. CASE L!Crash
  BY <1>0, <1>8 DEF L!Crash
<1>9. CASE L!BoundReached \/ UNCHANGED L!vars
  BY <1>9, <1>b DEF L!BoundReached, L!vars
<1>10. CASE \E s \in Settings : L!UpdateSettings(s)
  BY <1>10, <1>b DEF L!UpdateSettings
<1>11. CASE \E m \in DOMAIN book, row \in EditedRows : L!EditPrice(m, row)
  BY <1>11, <1>b DEF L!EditPrice
<1> QED
  BY <1>1, <1>2, <1>3, <1>4, <1>5, <1>6, <1>7, <1>8, <1>9, <1>10, <1>11 DEF L!Next

LEMMA RowsStep == RowsInv /\ [L!Next]_(L!vars) => RowsInv'
<1> SUFFICES ASSUME RowsInv, [L!Next]_(L!vars) PROVE RowsInv'
  OBVIOUS
<1> USE DEF L!diskVars, L!localVars, L!Enter
<1>0. ASSUME L!Die, diskRow' = diskRow PROVE RowsInv'
  <2>1. written' = [disk |-> written.disk, memory |-> None] /\ memRow' = None /\ costAlert' = 0
    BY <1>0 DEF L!Die, RowsInv
  <2> QED
    BY <1>0, <2>1 DEF RowsInv
<1>a. ASSUME UNCHANGED <<diskRow, memRow, costAlert, written>>, process # "serving" \/ process' = process
      PROVE  RowsInv'
  BY <1>a DEF RowsInv
<1>1. CASE \E f \in L!AllFlags : L!Start(f)
  BY <1>1, <1>a DEF L!Start
<1>2. CASE L!LoadPricing
  BY <1>2, <1>0, <1>a DEF L!LoadPricing
<1>3. CASE L!OpenStore
  BY <1>3, <1>0, <1>a DEF L!OpenStore
<1>4. CASE L!SeedModelPrices
  BY <1>4, <1>0, <1>a DEF L!SeedModelPrices
<1>5. CASE L!LoadKey
  <2>1. diskRow' = diskRow /\ process = "keys"
        /\ (L!Die \/ UNCHANGED <<memRow, costAlert, written>>)
    BY <1>5, Zenon DEF L!LoadKey
  <2> QED
    BY <2>1, <1>0, <1>a
<1>6. CASE L!KeysDone
  BY <1>6, <1>a DEF L!KeysDone
<1>7. CASE L!ApplySettings
  <2>1. /\ UNCHANGED <<memRow, written>> /\ process' = "serving"
        /\ diskRow' \in {diskRow, IF flags.db THEN L!SettingsRead ELSE diskRow}
    BY <1>7 DEF L!ApplySettings
  <2>2. diskRow' = diskRow \/ (diskRow = None /\ diskRow' = L!DefaultSettings)
    BY <2>1 DEF L!SettingsRead, L!Row
  <2>3. IF written.disk = None THEN diskRow' \in {None, L!DefaultSettings}
        ELSE diskRow' = written.disk
    BY <2>2 DEF RowsInv
  <2> QED
    BY <2>1, <2>3 DEF RowsInv
<1>8. CASE L!Crash
  BY <1>0, <1>8 DEF L!Crash
<1>9. CASE L!BoundReached \/ UNCHANGED L!vars
  BY <1>9, <1>a DEF L!BoundReached, L!vars
<1>10. CASE \E s \in Settings : L!UpdateSettings(s)
  <2> PICK s \in Settings : L!UpdateSettings(s)
    BY <1>10
  <2>1. CASE flags.db
    <3>1. written' = [disk |-> s, memory |-> written.memory] /\ diskRow' = s /\ memRow' = memRow
          /\ process' = process /\ costAlert' = costAlert
      BY <2>1 DEF L!UpdateSettings, RowsInv
    <3> QED
      BY <3>1 DEF RowsInv
  <2>2. CASE ~flags.db
    <3>1. written' = [disk |-> written.disk, memory |-> s] /\ diskRow' = diskRow /\ memRow' = s
          /\ process' = process /\ costAlert' = costAlert
      BY <2>2 DEF L!UpdateSettings, RowsInv
    <3> QED
      BY <3>1 DEF RowsInv
  <2> QED
    BY <2>1, <2>2
<1>11. CASE \E m \in DOMAIN book, row \in EditedRows : L!EditPrice(m, row)
  BY <1>11, <1>a DEF L!EditPrice
<1> QED
  BY <1>1, <1>2, <1>3, <1>4, <1>5, <1>6, <1>7, <1>8, <1>9, <1>10, <1>11 DEF L!Next

(* One step into service: its keys and settings are the right ones.         *)
LEMMA IntoService ==
  ASSUME KeysInv, RowsInv, [L!Next]_(L!vars), process # "serving", process' = "serving"
  PROVE  /\ L!KeysAreComplete
         /\ \/ limit' = L!ClampedLimit(L!StoredSettings.loop) /\ costAlert' = L!StoredSettings.cost
            \/ flags.db /\ "settings" \in Failures /\ limit' = limit /\ costAlert' = 0
<1> USE DEF L!diskVars, L!localVars, L!Enter, L!Die
<1>1. L!ApplySettings
  <2>1. ~L!LoadKey
    <3>1. L!LoadKey => process = "keys" /\ (process' = "down" \/ process' = process)
      BY Zenon DEF L!LoadKey
    <3> QED
      BY <3>1
  <2>2. ~(\E f \in L!AllFlags : L!Start(f)) /\ ~L!LoadPricing /\ ~L!OpenStore /\ ~L!SeedModelPrices
    BY DEF L!Start, L!LoadPricing, L!OpenStore, L!SeedModelPrices
  <2>3. ~L!KeysDone /\ ~L!Crash /\ ~L!BoundReached /\ ~UNCHANGED L!vars
    BY DEF L!KeysDone, L!Crash, L!BoundReached, L!vars
  <2>4. ~(\E s \in Settings : L!UpdateSettings(s))
    BY DEF L!UpdateSettings
  <2>5. ~(\E m \in DOMAIN book, row \in EditedRows : L!EditPrice(m, row))
    BY DEF L!EditPrice
  <2> QED
    BY <2>1, <2>2, <2>3, <2>4, <2>5 DEF L!Next
<1>2. L!KeysAreComplete
  BY <1>1 DEF L!ApplySettings, KeysInv
<1>3. L!SettingsRead = L!StoredSettings
  BY DEF L!SettingsRead, L!StoredSettings, L!Row, RowsInv
<1> QED
  BY <1>1, <1>2, <1>3 DEF L!ApplySettings, RowsInv

(* For any files, flags and failures: a process serves only with every key  *)
(* of its file, each as its last entry says (loadKeys, whose entries are    *)
(* stored before a bad one is met), and with the settings last stored.      *)
THEOREM ConfiguredBeforeServing == L!Spec => ServesAsConfigured
<1>1. KeysInv /\ RowsInv /\ [L!Next]_(L!vars) =>
        [(process # "serving" /\ process' = "serving") =>
           /\ L!KeysAreComplete
           /\ \/ limit' = L!ClampedLimit(L!StoredSettings.loop) /\ costAlert' = L!StoredSettings.cost
              \/ flags.db /\ "settings" \in Failures /\ limit' = limit /\ costAlert' = 0]_(L!vars)
  BY IntoService
<1> QED
  BY <1>1, InitConfigured, KeysStep, RowsStep, PTL DEF L!Spec, ServesAsConfigured, L!ServesAsConfigured

-----------------------------------------------------------------------------
(* The tokens of a response.  Its two recursions, over the sizes of lines   *)
(* and over the lines themselves, satisfy their equations: of either, g has *)
(* the value at n that its value at n - 1 demands.                          *)
Demanded(parsing, origin, f, g, n) ==
  IF n = 0 THEN origin ELSE IF parsing THEN U!ProcessLine(g[n - 1], f[n]) ELSE g[n - 1] + f[n]

RunsUpTo(parsing, origin, f, g, n) ==
  g = [i \in 0..n |-> g[i]] /\ \A i \in 0..n : g[i] = Demanded(parsing, origin, f, g, i)

LEMMA SameDemand ==
  ASSUME NEW parsing, NEW origin, NEW f, NEW g, NEW h, NEW n, n # 0 => g[n - 1] = h[n - 1]
  PROVE  Demanded(parsing, origin, f, g, n) = Demanded(parsing, origin, f, h, n)
BY Zenon DEF Demanded

LEMMA RunsExist ==
  ASSUME NEW parsing, NEW origin, NEW f PROVE \A n \in Nat : \E g : RunsUpTo(parsing, origin, f, g, n)
<1> DEFINE X == {n \in Nat : ~\E g : RunsUpTo(parsing, origin, f, g, n)}
           D(g, n) == Demanded(parsing, origin, f, g, n)
<1> SUFFICES ASSUME X # {} PROVE FALSE
  OBVIOUS
<1>1. PICK m \in X : \A n \in X : m <= n
  BY LeastNumber
<1>2. CASE m = 0
  <2> DEFINE g == [i \in 0..0 |-> origin]
  <2>1. RunsUpTo(parsing, origin, f, g, 0)
    BY DEF RunsUpTo, Demanded
  <2> QED
    BY <1>2, <2>1
<1>3. CASE m # 0
  <2>1. m \in Nat /\ m - 1 \in Nat /\ m - 1 \notin X
    BY <1>1, <1>3
  <2>2. PICK g : RunsUpTo(parsing, origin, f, g, m - 1)
    BY <2>1
  <2> DEFINE h == [i \in 0..m |-> IF i < m THEN g[i] ELSE D(g, m)]
  <2>3. ASSUME NEW i \in 0..(m - 1) PROVE h[i] = g[i] /\ g[i] = D(g, i)
    <3>1. i \in 0..m /\ i < m
      BY <2>1
    <3>2. h[i] = g[i]
      BY <3>1
    <3>3. g[i] = D(g, i)
      BY <2>2 DEF RunsUpTo
    <3> QED
      BY <3>2, <3>3
  <2>4. ASSUME NEW i \in 0..m PROVE h[i] = D(h, i)
    <3>1. h[i] = D(g, i)
      <4>1. CASE i < m
        <5>1. i \in 0..(m - 1)
          BY <2>1, <4>1
        <5> HIDE DEF h, D
        <5> QED
          BY <2>3, <5>1
      <4>2. CASE ~(i < m)
        <5>1. i = m
          BY <2>1, <4>2
        <5>2. h[i] = IF i < m THEN g[i] ELSE D(g, m)
          OBVIOUS
        <5> HIDE DEF h, D
        <5> QED
          BY <4>2, <5>1, <5>2
      <4> QED
        BY <4>1, <4>2
    <3>2. i = 0 \/ i - 1 \in 0..(m - 1)
      BY <2>1
    <3>3. i # 0 => g[i - 1] = h[i - 1]
      BY <2>3, <3>2
    <3>4. D(g, i) = D(h, i)
      <4> HIDE DEF h
      <4> QED
        BY <3>3, SameDemand
    <3> HIDE DEF h, D
    <3> QED
      BY <3>1, <3>4
  <2>5. h = [i \in 0..m |-> h[i]]
    OBVIOUS
  <2> HIDE DEF h
  <2>6. RunsUpTo(parsing, origin, f, h, m)
    BY <2>4, <2>5 DEF RunsUpTo
  <2> QED
    BY <2>6
<1> QED
  BY <1>2, <1>3

LEMMA RunsAgree ==
  ASSUME NEW parsing, NEW origin, NEW f, NEW g, NEW h, NEW n \in Nat, NEW k \in Nat,
         RunsUpTo(parsing, origin, f, g, n), RunsUpTo(parsing, origin, f, h, k), n <= k
  PROVE  g[n] = h[n]
<1> SUFFICES ASSUME g[n] # h[n] PROVE FALSE
  OBVIOUS
<1> DEFINE X == {i \in 0..n : g[i] # h[i]}
<1>1. PICK m \in X : \A i \in X : m <= i
  <2>1. n \in X /\ X \subseteq Nat
    OBVIOUS
  <2> QED
    BY <2>1, LeastNumber
<1>2. m \in 0..n /\ m \in 0..k /\ g[m] # h[m]
  OBVIOUS
<1>3. g[m] = Demanded(parsing, origin, f, g, m) /\ h[m] = Demanded(parsing, origin, f, h, m)
  BY <1>2 DEF RunsUpTo
<1>4. m # 0 => g[m - 1] = h[m - 1]
  <2> SUFFICES ASSUME m # 0 PROVE g[m - 1] = h[m - 1]
    OBVIOUS
  <2>1. m - 1 \in 0..n /\ ~(m <= m - 1)
    BY <1>2
  <2> QED
    BY <1>1, <2>1
<1> QED
  BY <1>2, <1>3, <1>4, SameDemand

LEMMA RunExists ==
  ASSUME NEW parsing, NEW origin, NEW f
  PROVE  \E u : u = [n \in Nat |-> Demanded(parsing, origin, f, u, n)]
<1> DEFINE G(n) == CHOOSE g : RunsUpTo(parsing, origin, f, g, n)
           u == [n \in Nat |-> G(n)[n]]
<1>1. \A n \in Nat : RunsUpTo(parsing, origin, f, G(n), n)
  BY RunsExist
<1> HIDE DEF G
<1>2. ASSUME NEW n \in Nat PROVE u[n] = Demanded(parsing, origin, f, u, n)
  <2>1. u[n] = G(n)[n]
    OBVIOUS
  <2>2. G(n)[n] = Demanded(parsing, origin, f, G(n), n)
    BY <1>1 DEF RunsUpTo
  <2>3. n # 0 => G(n)[n - 1] = u[n - 1]
    <3> SUFFICES ASSUME n # 0 PROVE u[n - 1] = G(n)[n - 1]
      OBVIOUS
    <3>1. n - 1 \in Nat /\ n - 1 <= n
      OBVIOUS
    <3>2. G(n - 1)[n - 1] = G(n)[n - 1]
      <4>1. RunsUpTo(parsing, origin, f, G(n - 1), n - 1) /\ RunsUpTo(parsing, origin, f, G(n), n)
        BY <1>1, <3>1
      <4>2. \A i \in 0..(n - 1) : i \in 0..n
        BY <3>1
      <4> DEFINE a == G(n - 1)
                 b == G(n)
                 k == n - 1
      <4>3. RunsUpTo(parsing, origin, f, a, k) /\ RunsUpTo(parsing, origin, f, b, n) /\ k \in Nat /\ k <= n
        BY <3>1, <4>1
      <4> HIDE DEF a, b, k
      <4>4. a[k] = b[k]
        BY <4>3, RunsAgree
      <4> QED
        BY <4>4 DEF a, b, k
    <3> QED
      BY <3>1, <3>2
  <2> HIDE DEF u
  <2>4. Demanded(parsing, origin, f, G(n), n) = Demanded(parsing, origin, f, u, n)
    BY <2>3, SameDemand
  <2> QED
    BY <2>1, <2>2, <2>4
<1>3. u = [n \in Nat |-> u[n]]
  OBVIOUS
<1> HIDE DEF u
<1>4. u = [n \in Nat |-> Demanded(parsing, origin, f, u, n)]
  BY <1>2, <1>3
<1> QED
  BY <1>4

LEMMA SumIsRecursive ==
  ASSUME NEW f
  PROVE  U!Sum(f, 0) = 0 /\ \A n \in Nat : U!Sum(f, n + 1) = U!Sum(f, n) + f[n + 1]
<1>1. PICK u : u = [n \in Nat |-> Demanded(FALSE, 0, f, u, n)]
  BY RunExists
<1>2. u = [n \in Nat |-> IF n = 0 THEN 0 ELSE u[n - 1] + f[n]]
  BY <1>1 DEF Demanded
<1> DEFINE s == CHOOSE g : g = [n \in Nat |-> IF n = 0 THEN 0 ELSE g[n - 1] + f[n]]
<1>3. s = [n \in Nat |-> IF n = 0 THEN 0 ELSE s[n - 1] + f[n]]
  BY <1>2
<1>4. ASSUME NEW n PROVE U!Sum(f, n) = s[n]
  BY DEF U!Sum
<1> HIDE DEF s
<1>5. s[0] = 0
  BY <1>3
<1>6. ASSUME NEW n \in Nat PROVE s[n + 1] = s[n] + f[n + 1]
  <2>1. n + 1 \in Nat /\ n + 1 # 0 /\ (n + 1) - 1 = n
    OBVIOUS
  <2>2. s[n + 1] = s[(n + 1) - 1] + f[n + 1]
    BY <1>3, <2>1
  <2> QED
    BY <2>1, <2>2
<1> QED
  BY <1>4, <1>5, <1>6

(* after is the run of the loop of feedSSE.                                 *)
LEMMA LoopIsRecursive ==
  ASSUME NEW st, NEW lines, Len(lines) \in Nat
  PROVE  \E after : /\ U!ProcessLines(st, lines) = after[Len(lines)] /\ after[0] = st
                    /\ \A n \in Nat : after[n + 1] = U!ProcessLine(after[n], lines[n + 1])
<1>1. PICK u : u = [n \in Nat |-> Demanded(TRUE, st, lines, u, n)]
  BY RunExists
<1>2. u = [n \in Nat |-> IF n = 0 THEN st ELSE U!ProcessLine(u[n - 1], lines[n])]
  BY <1>1 DEF Demanded
<1> DEFINE s == CHOOSE g : g = [n \in Nat |-> IF n = 0 THEN st ELSE U!ProcessLine(g[n - 1], lines[n])]
<1>3. s = [n \in Nat |-> IF n = 0 THEN st ELSE U!ProcessLine(s[n - 1], lines[n])]
  BY <1>2
<1>4. U!ProcessLines(st, lines) = s[Len(lines)]
  BY DEF U!ProcessLines
<1> HIDE DEF s
<1>5. s[0] = st
  BY <1>3
<1>6. ASSUME NEW n \in Nat PROVE s[n + 1] = U!ProcessLine(s[n], lines[n + 1])
  <2>1. n + 1 \in Nat /\ n + 1 # 0 /\ (n + 1) - 1 = n
    OBVIOUS
  <2>2. s[n + 1] = U!ProcessLine(s[(n + 1) - 1], lines[n + 1])
    BY <1>3, <2>1
  <2> QED
    BY <2>1, <2>2
<1> QED
  BY <1>4, <1>5, <1>6

LEMMA Counting ==
  ASSUME NEW X, 0 \in X, \A n \in Nat : n \in X => n + 1 \in X
  PROVE  \A n \in Nat : n \in X
<1> SUFFICES ASSUME \E n \in Nat : n \notin X PROVE FALSE
  OBVIOUS
<1> DEFINE Y == {n \in Nat : n \notin X}
<1>1. PICK m \in Y : \A n \in Y : m <= n
  <2>1. Y \subseteq Nat /\ Y # {}
    OBVIOUS
  <2> QED
    BY <2>1, LeastNumber
<1>2. m \in Nat /\ m \notin X /\ m # 0
  BY <1>1
<1>3. m - 1 \in Nat /\ (m - 1) + 1 = m /\ ~(m <= m - 1)
  BY <1>2
<1>4. m - 1 \in X
  BY <1>1, <1>3
<1> QED
  BY <1>2, <1>3, <1>4

LEMMA LinesAreTyped ==
  ASSUME NEW r \in Responses
  PROVE  /\ r.sse \in BOOLEAN /\ r.lines \in Seq(U!Lines) /\ Len(r.lines) \in Nat
         /\ \A i \in 1..Len(r.lines) :
              /\ r.lines[i].size \in Nat \ {0} /\ r.lines[i].content \in Nat
              /\ r.lines[i].kind \in {"usage", "delta", "other"}
              /\ i < Len(r.lines) => r.lines[i].feed
<1>1. r.sse \in BOOLEAN /\ r.lines \in Seq(U!Lines) /\ \A i \in 1..(Len(r.lines) - 1) : r.lines[i].feed
  BY PricesAssumption DEF U!UsageConstants
<1>2. Len(r.lines) \in Nat /\ \A i \in 1..Len(r.lines) : r.lines[i] \in U!Lines
  BY <1>1
<1>3. \A i \in 1..Len(r.lines) : i < Len(r.lines) => i \in 1..(Len(r.lines) - 1)
  BY <1>2
<1> QED
  BY <1>1, <1>2, <1>3 DEF U!Lines

(* A sum of natural numbers is one, and no smaller than one over fewer.     *)
LEMMA SumGrows ==
  ASSUME NEW f, NEW n \in Nat, \A i \in 1..n : f[i] \in Nat
  PROVE  /\ \A k \in 0..n : U!Sum(f, k) \in Nat
         /\ \A j \in 0..n, k \in 0..n : j <= k => U!Sum(f, j) <= U!Sum(f, k)
         /\ \A j \in 0..n, k \in 0..n : j < k => U!Sum(f, j) + f[k] <= U!Sum(f, k)
<1> DEFINE S(k) == U!Sum(f, k)
           X == {k \in Nat : k <= n => S(k) \in Nat}
<1>0. S(0) = 0 /\ \A k \in Nat : S(k + 1) = S(k) + f[k + 1]
  BY SumIsRecursive
<1> HIDE DEF S
<1>1. ASSUME NEW k \in Nat, k \in X PROVE k + 1 \in X
  <2> SUFFICES ASSUME k + 1 <= n PROVE S(k + 1) \in Nat
    OBVIOUS
  <2>1. k <= n /\ k + 1 \in 1..n
    BY <1>1
  <2> QED
    BY <1>0, <1>1, <2>1
<1>2. 0 \in X
  BY <1>0
<1> HIDE DEF X
<1>3. \A k \in Nat : k \in X
  BY <1>1, <1>2, Counting
<1>4. \A k \in 0..n : S(k) \in Nat
  BY <1>3 DEF X
<1>5. ASSUME NEW j \in 0..n PROVE \A k \in 0..n : j <= k => S(j) <= S(k)
  <2> DEFINE Y == {k \in Nat : j <= k /\ k <= n => S(j) <= S(k)}
  <2>1. 0 \in Y
    BY <1>4
  <2>2. ASSUME NEW k \in Nat, k \in Y PROVE k + 1 \in Y
    <3> SUFFICES ASSUME j <= k + 1, k + 1 <= n PROVE S(j) <= S(k + 1)
      OBVIOUS
    <3>1. CASE j = k + 1
      BY <1>4, <3>1
    <3>2. CASE j # k + 1
      <4>1. j <= k /\ k <= n /\ k \in 0..n /\ k + 1 \in 1..n
        BY <3>2
      <4>2. S(j) <= S(k) /\ S(k + 1) = S(k) + f[k + 1] /\ f[k + 1] \in Nat /\ S(j) \in Nat /\ S(k) \in Nat
        BY <1>0, <1>4, <2>2, <4>1
      <4> QED
        BY <4>2
    <3> QED
      BY <3>1, <3>2
  <2> HIDE DEF Y
  <2>3. \A k \in Nat : k \in Y
    BY <2>1, <2>2, Counting
  <2> QED
    BY <2>3 DEF Y
<1>6. ASSUME NEW j \in 0..n, NEW k \in 0..n, j < k PROVE S(j) + f[k] <= S(k)
  <2>1. k - 1 \in 0..n /\ j <= k - 1 /\ (k - 1) + 1 = k /\ k - 1 \in Nat /\ k \in 1..n
    BY <1>6
  <2>2. S(j) <= S(k - 1) /\ S(k) = S(k - 1) + f[k] /\ S(j) \in Nat /\ S(k - 1) \in Nat /\ f[k] \in Nat
    BY <1>0, <1>4, <1>5, <2>1
  <2> QED
    BY <2>2
<1> QED
  BY <1>4, <1>5, <1>6 DEF S

LEMMA EndsGrow ==
  ASSUME NEW r \in Responses
  PROVE  /\ \A i \in 0..Len(r.lines) : U!End(r, i) \in Nat
         /\ \A i \in 0..Len(r.lines), j \in 0..Len(r.lines) : i < j => U!End(r, i) < U!End(r, j)
         /\ U!End(r, 0) = 0
         /\ \A i \in 1..Len(r.lines) : U!End(r, i) = U!End(r, i - 1) + r.lines[i].size
<1> DEFINE f == [k \in 1..Len(r.lines) |-> r.lines[k].size]
<1>1. Len(r.lines) \in Nat /\ \A i \in 1..Len(r.lines) : f[i] \in Nat \ {0}
  BY LinesAreTyped
<1>2. ASSUME NEW i PROVE U!End(r, i) = U!Sum(f, i)
  BY DEF U!End
<1>6. \A i \in 1..Len(r.lines) : f[i] = r.lines[i].size
  OBVIOUS
<1> HIDE DEF f
<1>3. /\ \A i \in 0..Len(r.lines) : U!Sum(f, i) \in Nat
      /\ \A i \in 0..Len(r.lines), j \in 0..Len(r.lines) : i < j => U!Sum(f, i) + f[j] <= U!Sum(f, j)
  BY <1>1, SumGrows
<1>4. U!Sum(f, 0) = 0
  BY SumIsRecursive
<1>5. ASSUME NEW i \in 0..Len(r.lines), NEW j \in 0..Len(r.lines), i < j PROVE U!Sum(f, i) < U!Sum(f, j)
  <2>1. j \in 1..Len(r.lines)
    BY <1>1, <1>5
  <2>2. f[j] \in Nat \ {0} /\ U!Sum(f, i) \in Nat /\ U!Sum(f, j) \in Nat /\ U!Sum(f, i) + f[j] <= U!Sum(f, j)
    BY <1>1, <1>3, <1>5, <2>1
  <2> QED
    BY <2>2
<1>7. ASSUME NEW i \in 1..Len(r.lines) PROVE U!Sum(f, i) = U!Sum(f, i - 1) + r.lines[i].size
  <2>1. i - 1 \in Nat /\ (i - 1) + 1 = i
    BY <1>1
  <2>2. U!Sum(f, (i - 1) + 1) = U!Sum(f, i - 1) + f[(i - 1) + 1]
    BY <2>1, SumIsRecursive
  <2> QED
    BY <1>6, <2>1, <2>2
<1> QED
  BY <1>2, <1>3, <1>4, <1>5, <1>7

(* The lines that have arrived whole are the first so many.                 *)
LEMMA WholeIsPrefix ==
  ASSUME NEW r \in Responses, NEW n \in Nat
  PROVE  \E k \in 0..Len(r.lines) : U!Complete(r, n) = 1..k
<1> DEFINE N == Len(r.lines)
           C == U!Complete(r, n)
           X == {k \in 0..N : k + 1 \notin C}
<1>1. N \in Nat /\ C \subseteq 1..N
  BY LinesAreTyped DEF U!Complete
<1>2. ASSUME NEW i \in 1..N, NEW j \in C, i < j PROVE i \in C
  <2>1. i \in 0..N /\ j \in 0..N /\ i < N
    BY <1>1, <1>2
  <2>2. U!End(r, i) < U!End(r, j) /\ U!End(r, i) \in Nat /\ U!End(r, j) \in Nat
    BY <1>2, <2>1, EndsGrow
  <2>3. U!End(r, j) <= n
    BY DEF U!Complete
  <2>4. r.lines[i].feed
    BY <2>1, LinesAreTyped
  <2>5. U!End(r, i) <= n
    BY <2>2, <2>3
  <2> QED
    BY <2>4, <2>5 DEF U!Complete
<1> HIDE DEF C
<1>3. N \in X /\ X \subseteq Nat
  BY <1>1
<1>4. PICK k \in X : \A m \in X : k <= m
  BY <1>3, LeastNumber
<1>5. k \in 0..N /\ k + 1 \notin C
  BY <1>4
<1>6. ASSUME NEW i \in 1..k PROVE i \in C
  <2>1. i - 1 \in 0..N /\ ~(k <= i - 1) /\ (i - 1) + 1 = i
    BY <1>1, <1>5
  <2> QED
    BY <1>4, <2>1
<1>7. ASSUME NEW i \in C PROVE i \in 1..k
  <2> SUFFICES ASSUME i \notin 1..k PROVE FALSE
    OBVIOUS
  <2>1. i \in 1..N /\ k + 1 <= i /\ i # k + 1
    BY <1>1, <1>5, <1>7
  <2>2. k + 1 \in 1..N /\ k + 1 < i
    BY <1>1, <1>5, <2>1
  <2> QED
    BY <1>2, <1>5, <2>2
<1> QED
  BY <1>5, <1>6, <1>7 DEF C

(* The content of the first k lines.                                        *)
IsUsage(r, i) == r.lines[i].kind = "usage"

Content(r) == [i \in 1..Len(r.lines) |-> IF r.lines[i].kind = "delta" THEN r.lines[i].content ELSE 0]

Chars(r, k) == U!Sum(Content(r), k)

LEMMA CharsCount ==
  ASSUME NEW r \in Responses
  PROVE  /\ Chars(r, 0) = 0
         /\ \A k \in 0..Len(r.lines) : Chars(r, k) \in Nat
         /\ \A k \in 0..(Len(r.lines) - 1) : Chars(r, k + 1) = Chars(r, k) + Content(r)[k + 1]
<1>1. Len(r.lines) \in Nat /\ \A i \in 1..Len(r.lines) : Content(r)[i] \in Nat
  BY LinesAreTyped DEF Content
<1>2. \A k \in 0..Len(r.lines) : U!Sum(Content(r), k) \in Nat
  BY <1>1, SumGrows
<1>3. U!Sum(Content(r), 0) = 0 /\ \A k \in Nat : U!Sum(Content(r), k + 1) = U!Sum(Content(r), k) + Content(r)[k + 1]
  BY SumIsRecursive
<1>4. \A k \in 0..(Len(r.lines) - 1) : k \in Nat
  BY <1>1
<1> QED
  BY <1>2, <1>3, <1>4 DEF Chars

(* Summing what counts of all lines is summing the first k.                 *)
LEMMA CharsOfPrefix ==
  ASSUME NEW r \in Responses, NEW k \in 0..Len(r.lines),
         NEW f, f = [i \in 1..Len(r.lines) |-> IF i \in 1..k /\ r.lines[i].kind = "delta"
                                               THEN r.lines[i].content ELSE 0]
  PROVE  U!Sum(f, Len(r.lines)) = Chars(r, k)
<1> DEFINE N == Len(r.lines)
           G(j) == IF j <= k THEN Chars(r, j) ELSE Chars(r, k)
           X == {j \in Nat : j <= N => U!Sum(f, j) = G(j)}
<1>0. N \in Nat /\ k \in Nat /\ k <= N
  BY LinesAreTyped
<1>1. ASSUME NEW i \in 1..N PROVE f[i] = IF i <= k THEN Content(r)[i] ELSE 0
  BY <1>0 DEF Content
<1>2. U!Sum(f, 0) = 0 /\ \A j \in Nat : U!Sum(f, j + 1) = U!Sum(f, j) + f[j + 1]
  BY SumIsRecursive
<1>3. 0 \in X
  BY <1>0, <1>2, CharsCount
<1>4. ASSUME NEW j \in Nat, j \in X PROVE j + 1 \in X
  <2> SUFFICES ASSUME j + 1 <= N PROVE U!Sum(f, j + 1) = G(j + 1)
    OBVIOUS
  <2>1. j <= N /\ j + 1 \in 1..N /\ j \in 0..(N - 1) /\ j \in 0..N
    BY <1>0, <1>4
  <2>2. U!Sum(f, j) = G(j) /\ U!Sum(f, j + 1) = U!Sum(f, j) + f[j + 1]
    BY <1>2, <1>4, <2>1
  <2>3. Chars(r, j + 1) = Chars(r, j) + Content(r)[j + 1] /\ Chars(r, k) \in Nat
    BY <1>0, <2>1, CharsCount
  <2>4. CASE j + 1 <= k
    <3>1. j <= k
      BY <1>0, <2>4
    <3>2. f[j + 1] = Content(r)[j + 1]
      <4> HIDE DEF N
      <4> QED
        BY <1>1, <2>1, <2>4
    <3> QED
      BY <2>2, <2>3, <2>4, <3>1, <3>2
  <2>5. CASE ~(j + 1 <= k)
    <3>1. f[j + 1] = 0
      BY <1>1, <2>1, <2>5
    <3>2. j <= k => j = k
      BY <1>0, <2>5
    <3>3. G(j) = Chars(r, k)
      BY <3>2
    <3> QED
      BY <2>2, <2>3, <2>5, <3>1, <3>3
  <2> QED
    BY <2>4, <2>5
<1> HIDE DEF X
<1>5. N \in X
  BY <1>0, <1>3, <1>4, Counting
<1>6. U!Sum(f, N) = G(N)
  <2>1. N <= N
    BY <1>0
  <2> HIDE DEF G, N
  <2> QED
    BY <1>5, <2>1 DEF X
<1>7. N <= k => N = k
  BY <1>0
<1> QED
  BY <1>6, <1>7

(* What parsing the first k lines of r comes to.                            *)
Parsed(r, k, st) ==
  /\ st = [use |-> st.use, ch |-> st.ch] /\ st.use.have \in BOOLEAN
  /\ st.use.have => \E i \in 1..k :
        /\ IsUsage(r, i) /\ \A j \in 1..(i - 1) : ~IsUsage(r, j)
        /\ st.use.prompt = r.lines[i].prompt /\ st.use.completion = r.lines[i].completion
  /\ ~st.use.have => (\A j \in 1..k : ~IsUsage(r, j)) /\ st.ch = Chars(r, k)

LEMMA ParseOne ==
  ASSUME NEW r \in Responses, NEW k \in 0..(Len(r.lines) - 1), NEW st, Parsed(r, k, st)
  PROVE  Parsed(r, k + 1, U!ProcessLine(st, r.lines[k + 1]))
<1> DEFINE l == r.lines[k + 1]
           new == U!ProcessLine(st, l)
<1>0. Len(r.lines) \in Nat /\ k \in Nat /\ k + 1 \in 1..Len(r.lines)
  BY LinesAreTyped
<1>1. \A i \in 1..k : i \in 1..(k + 1)
  BY <1>0
<1>2. \A i \in 1..(k + 1) : i \in 1..k \/ i = k + 1
  BY <1>0
<1>3. /\ Chars(r, k + 1) = Chars(r, k) + Content(r)[k + 1] /\ Chars(r, k) \in Nat
      /\ Content(r)[k + 1] = IF l.kind = "delta" THEN l.content ELSE 0
  <2>1. k \in 0..Len(r.lines)
    BY <1>0
  <2>2. Chars(r, k + 1) = Chars(r, k) + Content(r)[k + 1] /\ Chars(r, k) \in Nat
    BY <2>1, CharsCount
  <2>3. Content(r)[k + 1] = IF l.kind = "delta" THEN l.content ELSE 0
    BY <1>0 DEF Content
  <2> QED
    BY <2>2, <2>3
<1>4. CASE st.use.have
  <2>1. new = st
    BY <1>4 DEF U!ProcessLine
  <2> QED
    BY <1>1, <1>4, <2>1 DEF Parsed
<1>5. CASE ~st.use.have /\ l.kind = "usage"
  <2>1. /\ new = [use |-> [have |-> TRUE, prompt |-> l.prompt, completion |-> l.completion], ch |-> st.ch]
    BY <1>5 DEF U!ProcessLine
  <2>2. \A j \in 1..((k + 1) - 1) : ~IsUsage(r, j)
    BY <1>0, <1>5 DEF Parsed
  <2>3. IsUsage(r, k + 1) /\ k + 1 \in 1..(k + 1)
    BY <1>0, <1>5 DEF IsUsage
  <2> HIDE DEF new
  <2>4. /\ new.use.have = TRUE /\ new.use.prompt = l.prompt /\ new.use.completion = l.completion
        /\ new = [use |-> new.use, ch |-> new.ch]
    BY <2>1
  <2>5. Parsed(r, k + 1, new)
    BY <2>2, <2>3, <2>4 DEF Parsed
  <2> QED
    BY <2>5 DEF new
<1>6. CASE ~st.use.have /\ l.kind # "usage"
  <2>1. st = [use |-> st.use, ch |-> st.ch] /\ st.ch = Chars(r, k) /\ \A j \in 1..k : ~IsUsage(r, j)
    BY <1>6 DEF Parsed
  <2>2. new = IF l.kind = "delta" THEN [st EXCEPT !.ch = st.ch + l.content] ELSE st
    BY <1>6 DEF U!ProcessLine
  <2> HIDE DEF new
  <2>3. new = [use |-> st.use, ch |-> IF l.kind = "delta" THEN st.ch + l.content ELSE st.ch]
    <3>1. CASE l.kind = "delta"
      BY <2>1, <2>2, <3>1
    <3>2. CASE l.kind # "delta"
      BY <2>1, <2>2, <3>2
    <3> QED
      BY <3>1, <3>2
  <2>4. new.use = st.use /\ new = [use |-> new.use, ch |-> new.ch]
    BY <2>3
  <2>5. new.ch = Chars(r, k + 1)
    <3>1. CASE l.kind = "delta"
      BY <1>3, <2>1, <2>3, <3>1
    <3>2. CASE l.kind # "delta"
      BY <1>3, <2>1, <2>3, <3>2
    <3> QED
      BY <3>1, <3>2
  <2>6. \A j \in 1..(k + 1) : ~IsUsage(r, j)
    BY <1>2, <1>6, <2>1 DEF IsUsage
  <2>7. Parsed(r, k + 1, new)
    BY <1>6, <2>4, <2>5, <2>6 DEF Parsed
  <2> QED
    BY <2>7 DEF new
<1> QED
  BY <1>4, <1>5, <1>6

LEMMA ParseMore ==
  ASSUME NEW r \in Responses, NEW a \in Nat, NEW b \in Nat, a <= b, b <= Len(r.lines),
         NEW st, Parsed(r, a, st)
  PROVE  Parsed(r, b, U!ProcessLines(st, SubSeq(r.lines, a + 1, b)))
<1> DEFINE sub == SubSeq(r.lines, a + 1, b)
<1>0. r.lines \in Seq(U!Lines) /\ Len(r.lines) \in Nat
  BY LinesAreTyped
<1>1. Len(sub) = b - a /\ \A i \in 1..(b - a) : sub[i] = r.lines[a + i]
  <2>1. sub = [i \in 1..(b - a) |-> r.lines[a + i]]
    BY <1>0
  <2>2. b - a \in Nat
    OBVIOUS
  <2> HIDE DEF sub
  <2> QED
    BY <2>1, <2>2
<1> HIDE DEF sub
<1>2. b - a \in Nat /\ Len(sub) \in Nat
  BY <1>1
<1>3. PICK after : /\ U!ProcessLines(st, sub) = after[Len(sub)] /\ after[0] = st
                   /\ \A n \in Nat : after[n + 1] = U!ProcessLine(after[n], sub[n + 1])
  BY <1>2, LoopIsRecursive
<1> DEFINE X == {n \in Nat : n <= b - a => Parsed(r, a + n, after[n])}
<1>4. 0 \in X
  <2>1. a + 0 = a
    OBVIOUS
  <2> QED
    BY <1>3, <2>1
<1>5. ASSUME NEW n \in Nat, n \in X PROVE n + 1 \in X
  <2> SUFFICES ASSUME n + 1 <= b - a PROVE Parsed(r, a + (n + 1), after[n + 1])
    OBVIOUS
  <2>1. n <= b - a /\ n + 1 \in 1..(b - a) /\ a + n \in 0..(Len(r.lines) - 1) /\ a + (n + 1) = (a + n) + 1
    BY <1>0
  <2>2. Parsed(r, a + n, after[n])
    BY <1>5, <2>1
  <2>3. after[n + 1] = U!ProcessLine(after[n], r.lines[(a + n) + 1])
    BY <1>1, <1>3, <2>1
  <2>4. Parsed(r, (a + n) + 1, U!ProcessLine(after[n], r.lines[(a + n) + 1]))
    BY <2>1, <2>2, ParseOne
  <2> QED
    BY <2>1, <2>3, <2>4
<1> HIDE DEF X
<1>6. b - a \in X
  BY <1>2, <1>4, <1>5, Counting
<1>7. Parsed(r, a + (b - a), after[b - a]) /\ a + (b - a) = b
  BY <1>2, <1>6 DEF X
<1> QED
  BY <1>1, <1>3, <1>7 DEF sub

(* u is the first usage object of r, and among the first n bytes.           *)
FirstUsage(r, n, u) ==
  \E i \in U!Complete(r, n) :
     /\ IsUsage(r, i) /\ \A j \in 1..(i - 1) : ~IsUsage(r, j)
     /\ u.prompt = r.lines[i].prompt /\ u.completion = r.lines[i].completion

(* What the observer knows: while it parses, it has parsed exactly the      *)
(* lines that have arrived whole, and buffers the rest; past the cap, which *)
(* takes lines near its size, it guesses nothing; a usage object it has     *)
(* seen is the first of the response; and what it has reported is what it   *)
(* knew.                                                                    *)
UsageInv ==
  /\ response \in Responses /\ received \in Nat /\ line \in 1..(Len(response.lines) + 1)
  /\ overCap \in BOOLEAN /\ use.have \in BOOLEAN /\ (use.have => response.sse)
  /\ (response.sse /\ ~overCap) =>
        /\ U!Complete(response, received) = 1..(line - 1)
        /\ Parsed(response, line - 1, [use |-> use, ch |-> deltaCh])
        /\ buffered = received - U!End(response, line - 1)
  /\ (response.sse /\ overCap) => ~U!Fits
  /\ (response.sse /\ overCap /\ ~use.have) => deltaCh = 0
  /\ use.have => FirstUsage(response, received, use)
  /\ result # U!NoResult => result = U!Tokens

LEMMA InitUsage == U!Init => UsageInv
<1> SUFFICES ASSUME U!Init PROVE UsageInv
  OBVIOUS
<1>1. /\ response \in Responses /\ received = 0 /\ line = 1 /\ overCap = FALSE /\ buffered = 0
      /\ use = U!NoUse /\ deltaCh = 0 /\ result = U!NoResult
  BY DEF U!Init
<1>2. use.have = FALSE
  BY <1>1 DEF U!NoUse
<1>3. Len(response.lines) \in Nat
  BY <1>1, LinesAreTyped
<1>4. U!Complete(response, 0) = 1..0
  <2>1. ASSUME NEW i \in 1..Len(response.lines) PROVE ~(U!End(response, i) <= 0)
    <3>1. i \in 0..Len(response.lines) /\ 0 \in 0..Len(response.lines) /\ 0 < i
      BY <1>3
    <3>2. U!End(response, i) \in Nat /\ U!End(response, 0) < U!End(response, i) /\ U!End(response, 0) = 0
      BY <1>1, <3>1, EndsGrow
    <3> QED
      BY <3>2
  <2> QED
    BY <2>1 DEF U!Complete
<1>5. Chars(response, 0) = 0
  BY <1>1, CharsCount
<1>6. Parsed(response, 0, [use |-> use, ch |-> deltaCh])
  <2> DEFINE st == [use |-> use, ch |-> deltaCh]
  <2>1. st = [use |-> st.use, ch |-> st.ch] /\ st.use = use /\ st.ch = deltaCh
    OBVIOUS
  <2> HIDE DEF st
  <2>2. st.use.have = FALSE /\ st.ch = Chars(response, 0) /\ \A j \in 1..0 : FALSE
    BY <1>1, <1>2, <1>5, <2>1
  <2>3. Parsed(response, 0, st)
    BY <2>1, <2>2 DEF Parsed
  <2> QED
    BY <2>3 DEF st
<1>7. 1 - 1 = 0 /\ line \in 1..(Len(response.lines) + 1)
  BY <1>1, <1>3
<1>8. buffered = received - U!End(response, line - 1)
  BY <1>1, <1>7, EndsGrow
<1> QED
  BY <1>1, <1>2, <1>4, <1>6, <1>7, <1>8 DEF UsageInv

(* The chunk makes the first k lines whole, and the loop parses up to k.    *)
LEMMA FeedParses ==
  ASSUME UsageInv, NEW n \in Nat, response.sse, ~overCap, U!FeedSSE(n)
  PROVE  /\ line' \in 1..(Len(response.lines) + 1) /\ line <= line'
         /\ U!Complete(response, received + n) = 1..(line' - 1)
         /\ Parsed(response, line' - 1, [use |-> use', ch |-> deltaCh'])
<1> DEFINE due == {i \in U!Complete(response, received + n) : i >= line}
           next1 == IF due = {} THEN line ELSE U!Max(due) + 1
           st == [use |-> use, ch |-> deltaCh]
           to == U!ProcessLines(st, SubSeq(response.lines, line, next1 - 1))
<1>0. /\ response \in Responses /\ received \in Nat /\ received + n \in Nat
      /\ line \in 1..(Len(response.lines) + 1) /\ line \in Nat /\ Len(response.lines) \in Nat
      /\ U!Complete(response, received) = 1..(line - 1) /\ Parsed(response, line - 1, st)
  BY LinesAreTyped DEF UsageInv
<1>1. PICK k \in 0..Len(response.lines) : U!Complete(response, received + n) = 1..k
  BY <1>0, WholeIsPrefix
<1>2. ASSUME NEW i \in 1..(line - 1) PROVE i \in 1..k
  <2>1. i \in U!Complete(response, received)
    BY <1>0
  <2>2. i \in 1..Len(response.lines) /\ response.lines[i].feed /\ U!End(response, i) <= received
    BY <2>1 DEF U!Complete
  <2>3. U!End(response, i) \in Nat
    <3>1. i \in 0..Len(response.lines)
      BY <1>0, <2>2
    <3> QED
      BY <1>0, <3>1, EndsGrow
  <2>4. U!End(response, i) <= received + n
    BY <1>0, <2>2, <2>3
  <2>5. i \in U!Complete(response, received + n)
    BY <2>2, <2>4 DEF U!Complete
  <2> QED
    BY <1>1, <2>5
<1>3. line - 1 <= k
  <2>1. CASE line = 1
    BY <2>1
  <2>2. CASE line # 1
    <3>1. line - 1 \in 1..(line - 1)
      BY <1>0, <2>2
    <3> QED
      BY <1>2, <3>1
  <2> QED
    BY <2>1, <2>2
<1>4. next1 = k + 1
  <2>1. due = line..k
    BY <1>0, <1>1
  <2>2. CASE due = {}
    <3>1. ~(line <= k)
      <4>1. line \notin line..k
        BY <2>1, <2>2
      <4> QED
        BY <1>0, <4>1
    <3> QED
      BY <1>0, <1>3, <2>2, <3>1
  <2>3. CASE due # {}
    <3>1. k \in line..k /\ \A y \in line..k : k >= y
      <4>1. \E y : y \in line..k
        BY <2>1, <2>3
      <4> QED
        BY <1>0, <4>1
    <3>2. ASSUME NEW x \in line..k, \A y \in line..k : x >= y PROVE x = k
      BY <1>0, <3>1, <3>2
    <3>3. U!Max(due) = CHOOSE x \in line..k : \A y \in line..k : x >= y
      BY <2>1 DEF U!Max
    <3>4. U!Max(due) = k
      BY <3>1, <3>2, <3>3
    <3> QED
      BY <2>3, <3>4
  <2> QED
    BY <2>2, <2>3
<1>5. line' = next1 /\ use' = to.use /\ deltaCh' = to.ch
  BY DEF U!FeedSSE
<1> HIDE DEF next1, st
<1>6. Parsed(response, k, to)
  <2>1. line - 1 \in Nat /\ (line - 1) + 1 = line /\ k \in Nat /\ k <= Len(response.lines) /\ next1 - 1 = k
    BY <1>0, <1>4
  <2>2. Parsed(response, k, U!ProcessLines(st, SubSeq(response.lines, (line - 1) + 1, k)))
    BY <1>0, <1>3, <2>1, ParseMore
  <2> QED
    BY <2>1, <2>2
<1> HIDE DEF to
<1>7. to = [use |-> to.use, ch |-> to.ch]
  BY <1>6 DEF Parsed
<1>8. [use |-> use', ch |-> deltaCh'] = to
  BY <1>5, <1>7
<1>9. line' - 1 = k /\ line' \in 1..(Len(response.lines) + 1) /\ line <= line'
  BY <1>0, <1>3, <1>4, <1>5
<1> QED
  BY <1>1, <1>6, <1>8, <1>9

(* What has been parsed holds its first usage object.                       *)
LEMMA ParsedIsFirst ==
  ASSUME NEW r, NEW n, NEW k, U!Complete(r, n) = 1..k, NEW u, NEW ch,
         Parsed(r, k, [use |-> u, ch |-> ch]), u.have
  PROVE  FirstUsage(r, n, u)
<1>1. PICK i \in 1..k : /\ IsUsage(r, i) /\ \A j \in 1..(i - 1) : ~IsUsage(r, j)
                        /\ u.prompt = r.lines[i].prompt /\ u.completion = r.lines[i].completion
  BY DEF Parsed
<1>2. i \in U!Complete(r, n)
  OBVIOUS
<1> QED
  BY <1>1, <1>2 DEF FirstUsage

LEMMA FirstStaysFirst ==
  ASSUME NEW r \in Responses, NEW a \in Nat, NEW n \in Nat, NEW u, FirstUsage(r, a, u)
  PROVE  FirstUsage(r, a + n, u)
<1>1. PICK i \in U!Complete(r, a) :
             /\ IsUsage(r, i) /\ \A j \in 1..(i - 1) : ~IsUsage(r, j)
             /\ u.prompt = r.lines[i].prompt /\ u.completion = r.lines[i].completion
  BY DEF FirstUsage
<1>2. i \in 1..Len(r.lines) /\ r.lines[i].feed /\ U!End(r, i) <= a
  BY DEF U!Complete
<1>3. i \in 0..Len(r.lines)
  BY <1>2, LinesAreTyped
<1>4. U!End(r, i) \in Nat
  BY <1>3, EndsGrow
<1>5. U!End(r, i) <= a + n
  BY <1>2, <1>4
<1>6. i \in U!Complete(r, a + n)
  BY <1>2, <1>5 DEF U!Complete
<1> QED
  BY <1>1, <1>6 DEF FirstUsage

(* Lines a chunk below the cap do not overflow the buffer.                  *)
LEMMA FittingFits ==
  ASSUME UsageInv, response.sse, ~overCap, U!Fits,
         NEW n \in 1..MaxChunk, received + n <= U!Size(response)
  PROVE  ~U!Overflows(n)
<1> DEFINE k == line - 1
           N == Len(response.lines)
           E(i) == U!End(response, i)
<1>0. /\ response \in Responses /\ received \in Nat /\ N \in Nat /\ k \in 0..N
      /\ MaxChunk \in Nat /\ BufferCap \in Nat /\ n \in Nat /\ 1 <= n /\ n <= MaxChunk
  BY LinesAreTyped, PricesAssumption DEF UsageInv, U!UsageConstants
<1>1. U!Complete(response, received) = 1..k /\ buffered = received - E(k)
  BY DEF UsageInv
<1>2. /\ \A i \in 0..N : E(i) \in Nat
      /\ E(0) = 0 /\ \A i \in 1..N : E(i) = E(i - 1) + response.lines[i].size
  BY <1>0, EndsGrow
<1>3. received + n <= E(N)
  BY DEF U!Size
<1>4. E(k) <= received
  <2>1. CASE k = 0
    BY <1>0, <1>2, <2>1
  <2>2. CASE k # 0
    <3>1. k \in 1..k
      <4> HIDE DEF k, N
      <4> QED
        BY <1>0, <2>2
    <3>2. k \in U!Complete(response, received)
      BY <1>1, <3>1
    <3> QED
      BY <3>2 DEF U!Complete
  <2> QED
    BY <2>1, <2>2
<1> HIDE DEF E
<1>5. k # N
  BY <1>0, <1>2, <1>3, <1>4
<1>6. k + 1 \in 1..N /\ (k + 1) - 1 = k /\ k + 1 \notin 1..k /\ k + 1 \in 0..N
  BY <1>0, <1>5
<1>7. received < E(k + 1)
  <2>1. CASE response.lines[k + 1].feed
    <3>1. ~(E(k + 1) <= received)
      BY <1>1, <1>6, <2>1 DEF U!Complete, E
    <3> QED
      BY <1>0, <1>2, <1>6, <3>1
  <2>2. CASE ~response.lines[k + 1].feed
    <3>1. ~(k + 1 < N)
      BY <1>0, <1>6, <2>2, LinesAreTyped
    <3>2. k + 1 = N
      BY <1>0, <1>6, <3>1
    <3>3. E(N) \in Nat
      BY <1>0, <1>2
    <3> QED
      BY <1>0, <1>3, <3>2, <3>3
  <2> QED
    BY <2>1, <2>2
<1>8. /\ response.lines[k + 1].size + MaxChunk <= BufferCap + 1
      /\ response.lines[k + 1].size \in Nat
  BY <1>0, <1>6, LinesAreTyped DEF U!Fits
<1>9. E(k + 1) = E(k) + response.lines[k + 1].size /\ E(k) \in Nat
  BY <1>0, <1>2, <1>6
<1>10. buffered + n <= BufferCap
  <2> DEFINE s == response.lines[k + 1].size
             e == E(k)
  <2>1. /\ s \in Nat /\ e \in Nat /\ s + MaxChunk <= BufferCap + 1 /\ received < e + s
        /\ buffered = received - e
    BY <1>1, <1>7, <1>8, <1>9
  <2> HIDE DEF s, e
  <2> QED
    BY <1>0, <2>1
<1>11. buffered \in Int
  BY <1>0, <1>1, <1>9
<1> QED
  BY <1>0, <1>10, <1>11 DEF U!Overflows

LEMMA ReadKeeps ==
  ASSUME UsageInv, NEW n \in 1..MaxChunk, U!Read(n)
  PROVE  UsageInv'
<1>0. n \in Nat /\ MaxChunk \in Nat
  BY PricesAssumption DEF U!UsageConstants
<1>1. /\ result = U!NoResult /\ received' = received + n /\ response' = response /\ result' = result
  BY DEF U!Read
<1>2. /\ response \in Responses /\ received' \in Nat /\ line \in 1..(Len(response.lines) + 1)
      /\ overCap \in BOOLEAN /\ use.have \in BOOLEAN /\ (use.have => response.sse)
  BY <1>0, <1>1 DEF UsageInv
<1>3. result' = U!NoResult
  BY <1>1
<1>8. use.have => FirstUsage(response, received + n, use)
  <2>1. received \in Nat /\ (use.have => FirstUsage(response, received, use))
    BY DEF UsageInv
  <2> QED
    BY <1>0, <1>2, <2>1, FirstStaysFirst
<1>9. ASSUME use' = use
      PROVE  use'.have => FirstUsage(response, received, use)'
  BY <1>1, <1>8, <1>9 DEF FirstUsage, IsUsage, U!Complete
<1>10. U!Fits' = U!Fits
  BY <1>1 DEF U!Fits
<1>4. CASE overCap
  <2>1. UNCHANGED <<line, buffered, overCap, use, deltaCh>>
    BY <1>4 DEF U!Read
  <2> QED
    BY <1>1, <1>2, <1>3, <1>4, <1>9, <1>10, <2>1 DEF UsageInv, U!NoResult
<1>5. CASE ~overCap /\ U!Overflows(n)
  <2>1. /\ overCap' = TRUE /\ deltaCh' = (IF response.sse /\ ~use.have THEN 0 ELSE deltaCh)
        /\ line' = line /\ use' = use
    BY <1>5 DEF U!Read, U!Overflow
  <2>2. response.sse => ~U!Fits
    BY <1>5, FittingFits DEF U!Read
  <2> QED
    BY <1>1, <1>2, <1>3, <1>9, <1>10, <2>1, <2>2 DEF UsageInv, U!NoResult
<1>6. CASE ~overCap /\ ~U!Overflows(n) /\ ~response.sse
  <2>1. UNCHANGED <<line, use, deltaCh, overCap>>
    BY <1>6 DEF U!Read, U!FeedJSON
  <2> QED
    BY <1>1, <1>2, <1>3, <1>6, <1>9, <1>10, <2>1 DEF UsageInv, U!NoResult
<1>7. CASE ~overCap /\ ~U!Overflows(n) /\ response.sse
  <2>1. U!FeedSSE(n)
    BY <1>7 DEF U!Read
  <2>2. overCap' = overCap
    BY <2>1 DEF U!FeedSSE
  <2>3. /\ line' \in 1..(Len(response.lines) + 1)
        /\ U!Complete(response, received + n) = 1..(line' - 1)
        /\ Parsed(response, line' - 1, [use |-> use', ch |-> deltaCh'])
    BY <1>0, <1>7, <2>1, FeedParses
  <2>4. use'.have \in BOOLEAN
    BY <2>3 DEF Parsed
  <2>5. /\ U!Complete(response, received)' = 1..(line' - 1)
        /\ Parsed(response, line - 1, [use |-> use, ch |-> deltaCh])'
    BY <1>1, <2>3 DEF Parsed, IsUsage, Chars, Content
  <2>6. (buffered = received - U!End(response, line - 1))'
    <3>1. buffered' = received + n - U!End(response, line' - 1)
      BY <2>1 DEF U!FeedSSE
    <3>2. U!End(response, line - 1)' = U!End(response, line' - 1)
      BY <1>1 DEF U!End, U!Sum
    <3>3. received \in Nat /\ U!End(response, line' - 1) \in Nat
      <4>0. Len(response.lines) \in Nat
        BY <1>2, LinesAreTyped
      <4>1. line' - 1 \in 0..Len(response.lines)
        <5> DEFINE l == line'
        <5>1. l \in 1..(Len(response.lines) + 1)
          BY <2>3
        <5> HIDE DEF l
        <5>2. l - 1 \in 0..Len(response.lines)
          BY <4>0, <5>1
        <5> QED
          BY <5>2 DEF l
      <4> QED
        BY <1>2, <4>1, EndsGrow DEF UsageInv
    <3> QED
      BY <1>0, <1>1, <3>1, <3>2, <3>3
  <2>7. use'.have => FirstUsage(response, received, use)'
    <3>1. use'.have => FirstUsage(response, received + n, use')
      BY <2>3, ParsedIsFirst
    <3> QED
      BY <1>1, <3>1 DEF FirstUsage, IsUsage, U!Complete
  <2> QED
    BY <1>1, <1>2, <1>3, <1>7, <2>2, <2>3, <2>4, <2>5, <2>6, <2>7 DEF UsageInv, U!NoResult
<1> QED
  BY <1>4, <1>5, <1>6, <1>7 DEF UsageInv

LEMMA StillKnows ==
  ASSUME UsageInv, UNCHANGED <<response, received, line, buffered, overCap, use, deltaCh>>,
         result' \in {result, U!Tokens}
  PROVE  UsageInv'
<1>1. U!Tokens' = U!Tokens
  BY DEF U!Tokens, U!ParsesWithUsage, U!Size
<1>2. U!NoResult' = U!NoResult
  BY DEF U!NoResult
<1>3. result' # U!NoResult => result' = U!Tokens'
  BY <1>1 DEF UsageInv
<1>4. U!Complete(response, received)' = U!Complete(response, received)
  BY DEF U!Complete
<1>5. U!Fits' = U!Fits /\ U!End(response, line - 1)' = U!End(response, line - 1)
  BY DEF U!Fits
<1> QED
  BY <1>2, <1>3, <1>4, <1>5 DEF UsageInv, FirstUsage, Parsed, IsUsage, Chars, Content

LEMMA StepUsage == UsageInv /\ [U!Next]_(U!vars) => UsageInv'
<1> SUFFICES ASSUME UsageInv, [U!Next]_(U!vars) PROVE UsageInv'
  OBVIOUS
<1>1. CASE \E n \in 1..MaxChunk : U!Read(n)
  BY <1>1, ReadKeeps
<1>2. CASE U!Finish
  BY <1>2, StillKnows DEF U!Finish
<1>3. CASE U!Closed \/ UNCHANGED U!vars
  BY <1>3, StillKnows DEF U!Closed, U!vars
<1> QED
  BY <1>1, <1>2, <1>3 DEF U!Next

(* The usage object that has been seen is the one to account by. *)
LEMMA SeenIsExpected ==
  ASSUME UsageInv, response.sse, use.have
  PROVE  U!Tokens = U!Expected
<1> DEFINE usages == {i \in U!Complete(response, received) : response.lines[i].kind = "usage"}
<1>1. usages # {} => U!Expected = <<response.lines[U!Min(usages)].prompt,
                                   response.lines[U!Min(usages)].completion>>
  BY DEF U!Expected
<1>2. PICK i \in U!Complete(response, received) :
             /\ IsUsage(response, i) /\ \A j \in 1..(i - 1) : ~IsUsage(response, j)
             /\ use.prompt = response.lines[i].prompt
             /\ use.completion = response.lines[i].completion
  BY DEF UsageInv, FirstUsage
<1>3. \A y \in usages : y \in Int /\ y >= 1 /\ IsUsage(response, y)
  <2>1. Len(response.lines) \in Nat
    BY LinesAreTyped DEF UsageInv
  <2> QED
    BY <2>1 DEF U!Complete, IsUsage
<1>4. i \in usages /\ i \in Int
  BY <1>2, <1>3 DEF IsUsage
<1> HIDE DEF usages
<1>5. ASSUME NEW y \in usages PROVE i <= y
  <2> SUFFICES ASSUME ~(i <= y) PROVE FALSE
    OBVIOUS
  <2>1. y \in 1..(i - 1)
    BY <1>3, <1>4
  <2> QED
    BY <1>2, <1>3, <2>1
<1>6. ASSUME NEW x \in usages, \A y \in usages : x <= y PROVE x = i
  <2>1. x \in Int /\ x <= i /\ i <= x
    BY <1>3, <1>4, <1>5, <1>6
  <2> QED
    BY <1>4, <2>1
<1>7. U!Min(usages) = i
  BY <1>4, <1>5, <1>6 DEF U!Min
<1>8. U!Expected = <<use.prompt, use.completion>>
  BY <1>1, <1>2, <1>4, <1>7
<1>9. U!Tokens = <<use.prompt, use.completion>>
  BY DEF U!Tokens
<1> QED
  BY <1>8, <1>9

LEMMA TokensAreExpected ==
  ASSUME UsageInv, response.sse, ~overCap
  PROVE  U!Tokens = U!Expected
<1> DEFINE r == response
           k == line - 1
           N == Len(response.lines)
           whole == U!Complete(response, received)
           usages == {i \in whole : response.lines[i].kind = "usage"}
           f == [i \in 1..N |-> IF i \in whole /\ response.lines[i].kind = "delta"
                                THEN response.lines[i].content ELSE 0]
<1>0. r \in Responses /\ N \in Nat /\ k \in 0..N /\ whole = 1..k
  BY LinesAreTyped DEF UsageInv
<1>1. Parsed(response, k, [use |-> use, ch |-> deltaCh])
  BY DEF UsageInv
<1>2. /\ use.have \in BOOLEAN
      /\ use.have => \E i \in 1..k :
           /\ IsUsage(response, i) /\ \A j \in 1..(i - 1) : ~IsUsage(response, j)
           /\ use.prompt = response.lines[i].prompt /\ use.completion = response.lines[i].completion
      /\ ~use.have => (\A j \in 1..k : ~IsUsage(response, j)) /\ deltaCh = Chars(response, k)
  BY <1>1 DEF Parsed
<1>3. U!Expected = IF usages # {}
                   THEN <<response.lines[U!Min(usages)].prompt, response.lines[U!Min(usages)].completion>>
                   ELSE <<PromptEstimate, (U!Sum(f, N) + 3) \div 4>>
  BY DEF U!Expected
<1>4. U!Sum(f, N) = Chars(response, k)
  <2>1. f = [i \in 1..N |-> IF i \in 1..k /\ response.lines[i].kind = "delta"
                            THEN response.lines[i].content ELSE 0]
    BY <1>0
  <2> HIDE DEF f, k
  <2> QED
    BY <1>0, <2>1, CharsOfPrefix
<1>5. Chars(response, k) \in Nat
  BY <1>0, CharsCount
<1>6. usages = {i \in 1..k : IsUsage(response, i)}
  BY <1>0 DEF IsUsage
<1> HIDE DEF k, N, whole, usages, f
<1>7. CASE use.have
  BY <1>7, SeenIsExpected
<1>8. CASE ~use.have
  <2>1. usages = {}
    BY <1>2, <1>6, <1>8
  <2>2. U!Expected = <<PromptEstimate, (deltaCh + 3) \div 4>> /\ deltaCh \in Nat
    BY <1>2, <1>3, <1>4, <1>5, <1>8, <2>1
  <2>3. U!EstimateCompletionTokens(deltaCh) = (deltaCh + 3) \div 4
    <3>1. CASE deltaCh = 0
      BY <3>1 DEF U!EstimateCompletionTokens
    <3>2. CASE deltaCh # 0
      <4>1. ~(deltaCh <= 0)
        BY <2>2, <3>2
      <4> QED
        BY <4>1 DEF U!EstimateCompletionTokens
    <3> QED
      BY <3>1, <3>2
  <2>4. U!Tokens = <<PromptEstimate, U!EstimateCompletionTokens(deltaCh)>>
    BY <1>8 DEF U!Tokens
  <2> QED
    BY <2>2, <2>3, <2>4
<1> QED
  BY <1>2, <1>7, <1>8

LEMMA UsageFollows == UsageInv => ChunkingIsInvisible
<1> SUFFICES ASSUME UsageInv, result # U!NoResult, response.sse
             PROVE  /\ result \in {U!Expected, <<PromptEstimate, 0>>}
                    /\ U!Fits => result = U!Expected
  BY DEF ChunkingIsInvisible, U!ChunkingIsInvisible
<1>1. result = U!Tokens /\ overCap \in BOOLEAN /\ use.have \in BOOLEAN /\ (overCap => ~U!Fits)
  BY DEF UsageInv
<1>2. ASSUME overCap, ~use.have PROVE U!Tokens = <<PromptEstimate, 0>>
  <2>1. deltaCh = 0
    BY <1>2 DEF UsageInv
  <2>2. U!EstimateCompletionTokens(deltaCh) = 0
    BY <2>1 DEF U!EstimateCompletionTokens
  <2> QED
    BY <1>2, <2>2 DEF U!Tokens
<1> QED
  BY <1>1, <1>2, TokensAreExpected, SeenIsExpected

(* The loop of feedSSE changes nothing once it has a usage object.          *)
LEMMA LoopKeepsUse ==
  ASSUME NEW st, NEW lines, Len(lines) \in Nat, st.use.have
  PROVE  U!ProcessLines(st, lines) = st
<1>1. PICK after : /\ U!ProcessLines(st, lines) = after[Len(lines)] /\ after[0] = st
                   /\ \A n \in Nat : after[n + 1] = U!ProcessLine(after[n], lines[n + 1])
  BY LoopIsRecursive
<1> DEFINE X == {n \in Nat : after[n] = st}
<1>2. 0 \in X
  BY <1>1
<1>3. ASSUME NEW n \in Nat, n \in X PROVE n + 1 \in X
  <2>1. after[n + 1] = U!ProcessLine(st, lines[n + 1])
    BY <1>1, <1>3
  <2>2. ASSUME NEW l PROVE U!ProcessLine(st, l) = st
    BY DEF U!ProcessLine
  <2> QED
    BY <2>1, <2>2
<1> HIDE DEF X
<1>4. Len(lines) \in X
  BY <1>2, <1>3, Counting
<1> QED
  BY <1>1, <1>4 DEF X

LEMMA FeedKeepsUse ==
  ASSUME UsageInv, NEW n \in Nat, response.sse, ~overCap, use.have, U!FeedSSE(n)
  PROVE  use' = use
<1> DEFINE st == [use |-> use, ch |-> deltaCh]
           a == line - 1
           b == line' - 1
           sub == SubSeq(response.lines, a + 1, b)
<1>0. response.lines \in Seq(U!Lines) /\ Len(response.lines) \in Nat
  BY LinesAreTyped DEF UsageInv
<1>2. /\ line \in Nat /\ line' \in Nat /\ a + 1 = line
      /\ a \in Nat /\ b \in Nat /\ a <= b /\ b <= Len(response.lines)
  BY <1>0, FeedParses DEF UsageInv
<1>1. use' = U!ProcessLines(st, sub).use
  BY <1>2 DEF U!FeedSSE
<1>3. Len(sub) \in Nat
  <2> HIDE DEF a, b
  <2>1. sub = [i \in 1..(b - a) |-> response.lines[a + i]]
    BY <1>0, <1>2
  <2>2. b - a \in Nat
    BY <1>2
  <2> HIDE DEF sub
  <2> QED
    BY <2>1, <2>2
<1>4. st.use = use
  OBVIOUS
<1> HIDE DEF st, sub
<1>5. U!ProcessLines(st, sub) = st
  BY <1>3, <1>4, LoopKeepsUse
<1> QED
  BY <1>1, <1>4, <1>5

(* For any response, chunks, cap and moment at which the stream ends: what  *)
(* is accounted depends only on the lines that arrived whole, if all lines  *)
(* stay a chunk below the cap; and with longer lines it is either that or   *)
(* the estimate without any completion (feedSSE, tokens).                   *)
THEOREM ChunksDoNotShow == U!Spec => []ChunkingIsInvisible
BY InitUsage, StepUsage, UsageFollows, PTL DEF U!Spec

(* A usage object once seen is never replaced or cleared, and it is what    *)
(* the response is accounted by, whatever overflows or fails later          *)
(* (parseSSEPayload, feedSSE, tokens).                                      *)
THEOREM UsageIsNeverLost == U!Spec => UsageIsKept
<1>1. UsageInv /\ [U!Next]_(U!vars)
        => [use.have => /\ use' = use
                        /\ result' # result => result' = <<use.prompt, use.completion>>]_(U!vars)
  <2> SUFFICES ASSUME UsageInv, U!Next, use.have
               PROVE  use' = use /\ (result' # result => result' = <<use.prompt, use.completion>>)
    BY DEF U!vars
  <2>1. response.sse
    BY DEF UsageInv
  <2>2. ASSUME NEW n \in 1..MaxChunk, U!Read(n) PROVE use' = use /\ result' = result
    <3>1. n \in Nat
      BY PricesAssumption DEF U!UsageConstants
    <3>2. CASE overCap \/ U!Overflows(n)
      BY <2>2, <3>2 DEF U!Read, U!Overflow
    <3>3. CASE ~overCap /\ ~U!Overflows(n)
      <4>1. U!FeedSSE(n) /\ result' = result
        BY <2>1, <2>2, <3>3 DEF U!Read
      <4> QED
        BY <2>1, <3>1, <3>3, <4>1, FeedKeepsUse
    <3> QED
      BY <3>2, <3>3
  <2>3. CASE U!Finish
    <3>1. result' = U!Tokens /\ use' = use
      BY <2>3 DEF U!Finish
    <3> QED
      BY <2>1, <3>1 DEF U!Tokens
  <2>4. CASE U!Closed
    BY <2>4 DEF U!Closed, U!vars
  <2> QED
    BY <2>2, <2>3, <2>4 DEF U!Next
<1> QED
  BY <1>1, InitUsage, StepUsage, PTL DEF U!Spec, UsageIsKept, U!UsageIsKept

-----------------------------------------------------------------------------
(* The four parts side by side: a step of one is a step of its own         *)
(* specification and none of the others'.                                   *)
LEMMA EachPartSteps ==
  [PartNext]_<<part, vars, priceVars, processVars, usageVars>> =>
    [Next]_vars /\ [P!Next]_(P!vars) /\ [L!Next]_(L!vars) /\ [U!Next]_(U!vars)
<1> SUFFICES ASSUME [PartNext]_<<part, vars, priceVars, processVars, usageVars>>
             PROVE  [Next]_vars /\ [P!Next]_(P!vars) /\ [L!Next]_(L!vars) /\ [U!Next]_(U!vars)
  OBVIOUS
<1>1. UNCHANGED priceVars => UNCHANGED P!vars
  BY DEF priceVars, P!vars, P!tableVars, P!fetchVars, P!readerVars
<1>2. UNCHANGED processVars => UNCHANGED L!vars
  BY DEF processVars, L!vars, L!diskVars, L!localVars
<1>3. UNCHANGED usageVars => UNCHANGED U!vars
  BY DEF usageVars, U!vars
<1> QED
  BY <1>1, <1>2, <1>3, Zenon DEF PartNext, Schedule, Quote, Live, Observe

(* What the run explores is an instance of what is proved: the composed     *)
(* specification implies each part's, so every theorem above holds of it.   *)
THEOREM PricesAreSound ==
  PartSpec => /\ [](StopMeansQuiet /\ KindIsHonest /\ DelayIsSane) /\ NeverOlder
              /\ [](LookupIsExact /\ CatalogIsExact /\ ChargeIsExact)
              /\ []PriceBookIsKept /\ ServesAsConfigured
              /\ []ChunkingIsInvisible /\ UsageIsKept
<1>1. PartInit => Init /\ P!Init /\ L!Init /\ U!Init
  BY DEF PartInit
<1>2. PartSpec => Spec /\ P!Spec /\ L!Spec /\ U!Spec
  BY <1>1, EachPartSteps, PTL DEF PartSpec, Spec, P!Spec, L!Spec, U!Spec
<1> QED
  BY <1>2, StoppedIsQuiet, KindTellsTheTruth, DelaysAreSane, PricesNeverGoBack, LookupExactness,
     CatalogExactness, ChargesAreExact, PriceBookSurvives, ConfiguredBeforeServing,
     ChunksDoNotShow, UsageIsNeverLost, PTL
=============================================================================
