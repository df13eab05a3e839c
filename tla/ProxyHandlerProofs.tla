------------------------- MODULE ProxyHandlerProofs -------------------------
(***************************************************************************)
(* Theorems about the request path, for any number of goroutines, any      *)
(* callers, budgets, costs, agents and calendar that HandlerAssumption     *)
(* allows.                                                                 *)
(*                                                                         *)
(* CoreInv is the base of all the others: the invariants of the two parts, *)
(* taken from their own proofs (DP, BP), the types, and what the place of  *)
(* a request says about its locals.  It yields the refinement of the parts *)
(* (PartsAreImplemented) and the arithmetic of Retry-After.                *)
(*                                                                         *)
(* BooksInv counts in the requests that have made one entry and not yet    *)
(* the next.  IncidentInv names the request that carries a notification    *)
(* still due.  OverspendInv bounds what is spent in a window together with *)
(* what may still be charged without another look at its sum; it needs     *)
(* that no row is stamped in the future (ChargeInv).                       *)
(***************************************************************************)
EXTENDS ProxyHandler, FiniteSetTheorems, TLAPS

-----------------------------------------------------------------------------
(* The calendar.  Everything follows from the fact that t \div n is the     *)
(* only q with q * n <= t < q * n + n.                                      *)
LEMMA Scaling ==
  ASSUME NEW n \in Nat, NEW a \in Int, NEW b \in Int, a <= b
  PROVE  n * a \in Int /\ n * b \in Int /\ n * a <= n * b
BY SMTT(30)

LEMMA Quotient ==
  ASSUME NEW n \in Nat \ {0}, NEW t \in Int
  PROVE  /\ t \div n \in Int
         /\ n * (t \div n) \in Int
         /\ n * (t \div n) <= t
         /\ t < n * (t \div n) + n
<1> DEFINE q == t \div n
<1>1. q \in Int /\ t % n \in 0..(n - 1) /\ t = n * q + (t % n)
  BY SMTT(30)
<1> HIDE DEF q
<1>2. n * q \in Int
  BY <1>1, SMTT(30)
<1>3. n * q <= t /\ t < n * q + n
  BY <1>1, <1>2
<1> QED
  BY <1>1, <1>2, <1>3 DEF q

LEMMA QuotientIsUnique ==
  ASSUME NEW n \in Nat \ {0}, NEW t \in Int, NEW q \in Int, n * q <= t, t < n * q + n
  PROVE  t \div n = q
<1> DEFINE d == t \div n
<1>1. d \in Int /\ n * d \in Int /\ n * d <= t /\ t < n * d + n
  BY Quotient
<1> HIDE DEF d
<1>2. n * q \in Int /\ n * (q + 1) = n * q + n /\ n * (d + 1) = n * d + n
  BY <1>1, SMTT(30)
<1>3. CASE d < q
  <2>1. d + 1 <= q
    BY <1>1, <1>3
  <2>2. n * (d + 1) <= n * q
    BY <1>1, <2>1, Scaling
  <2> QED
    BY <1>1, <1>2, <2>2
<1>4. CASE q < d
  <2>1. q + 1 <= d
    BY <1>1, <1>4
  <2>2. n * (q + 1) <= n * d
    BY <1>1, <2>1, Scaling
  <2> QED
    BY <1>1, <1>2, <2>2
<1> QED
  BY <1>1, <1>3, <1>4 DEF d

LEMMA QuotientIsMonotonic ==
  ASSUME NEW n \in Nat \ {0}, NEW s \in Int, NEW t \in Int, s <= t
  PROVE  s \div n <= t \div n
<1> DEFINE a == s \div n
           b == t \div n
<1>1. a \in Int /\ b \in Int /\ n * a \in Int /\ n * b \in Int /\ n * a <= s /\ t < n * b + n
  BY Quotient
<1> HIDE DEF a, b
<1>2. n * (b + 1) = n * b + n
  BY <1>1, SMTT(30)
<1>3. CASE b + 1 <= a
  <2>1. n * (b + 1) <= n * a
    BY <1>1, <1>3, Scaling
  <2> QED
    BY <1>1, <1>2, <2>1
<1>4. CASE a <= b
  BY <1>4 DEF a, b
<1> QED
  BY <1>1, <1>3, <1>4

(* A day holds the ticks between two multiples of DayTicks. *)
LEMMA DayBounds ==
  ASSUME NEW t \in Int
  PROVE  /\ Day(t) \in Int
         /\ t \in Nat => Day(t) >= 1
         /\ DayTicks * (Day(t) - 1) <= t
         /\ t < DayTicks * Day(t)
         /\ DayTicks * (Day(t) - 1) \in Int /\ DayTicks * Day(t) \in Int
<1> DEFINE q == t \div DayTicks
<1>1. DayTicks \in Nat \ {0}
  BY HandlerAssumption
<1>2. q \in Int /\ DayTicks * q \in Int /\ DayTicks * q <= t /\ t < DayTicks * q + DayTicks
  BY <1>1, Quotient
<1>3. t \in Nat => q >= 0
  <2> SUFFICES ASSUME t \in Nat PROVE q >= 0
    OBVIOUS
  <2>1. 0 \div DayTicks <= t \div DayTicks
    BY <1>1, QuotientIsMonotonic
  <2>2. 0 \div DayTicks = 0
    BY <1>1, QuotientIsUnique
  <2> QED
    BY <2>1, <2>2
<1>4. Day(t) = q + 1
  BY DEF Day
<1> HIDE DEF q
<1>5. DayTicks * (q + 1) = DayTicks * q + DayTicks /\ (q + 1) - 1 = q
  BY <1>1, <1>2, SMTT(30)
<1> QED
  BY <1>1, <1>2, <1>3, <1>4, <1>5

LEMMA DayIsMonotonic ==
  ASSUME NEW s \in Int, NEW t \in Int, s <= t
  PROVE  Day(s) <= Day(t)
<1>1. s \div DayTicks <= t \div DayTicks /\ s \div DayTicks \in Int /\ t \div DayTicks \in Int
  BY HandlerAssumption, QuotientIsMonotonic, Quotient
<1> QED
  BY <1>1 DEF Day

LEMMA DayIsUnique ==
  ASSUME NEW t \in Int, NEW d \in Int, DayTicks * (d - 1) <= t, t < DayTicks * d
  PROVE  Day(t) = d
<1>1. DayTicks * d = DayTicks * (d - 1) + DayTicks
  BY HandlerAssumption, SMTT(30)
<1>2. DayTicks \in Nat \ {0} /\ d - 1 \in Int /\ t < DayTicks * (d - 1) + DayTicks
  BY <1>1, HandlerAssumption
<1>3. t \div DayTicks = d - 1
  BY <1>2, QuotientIsUnique
<1> QED
  BY <1>3 DEF Day

(* The clock moves by one tick, the date by at most one day. *)
LEMMA NextDate ==
  ASSUME NEW t \in Nat
  PROVE  Day(t + 1) = Day(t) \/ Day(t + 1) = Day(t) + 1
<1> DEFINE d == Day(t)
           lo == DayTicks * (d - 1)
           hi == DayTicks * d
<1>0. DayTicks \in Nat \ {0}
  BY HandlerAssumption
<1>1. d \in Int /\ lo <= t /\ t < hi /\ lo \in Int /\ hi \in Int
  BY DayBounds
<1> HIDE DEF d
<1>2. DayTicks * (d + 1) = hi + DayTicks /\ DayTicks * ((d + 1) - 1) = hi
  BY <1>0, <1>1, SMTT(30)
<1>3. CASE t + 1 < hi
  BY <1>1, <1>3, DayIsUnique DEF d
<1>4. CASE t + 1 = hi
  <2>1. DayTicks * ((d + 1) - 1) <= t + 1 /\ t + 1 < DayTicks * (d + 1)
    BY <1>0, <1>1, <1>2, <1>4
  <2>2. Day(t + 1) = d + 1
    BY <1>1, <2>1, DayIsUnique
  <2> QED
    BY <2>2 DEF d
<1> QED
  BY <1>1, <1>3, <1>4

(* A month holds the days between two multiples of MonthDays. *)
LEMMA MonthBounds ==
  ASSUME NEW t \in Int
  PROVE  /\ MonthStart(t) \in Int
         /\ MonthStart(t) <= Day(t)
         /\ Day(t) < MonthStart(t) + MonthDays
         /\ \E m \in Int : MonthStart(t) = MonthDays * m + 1
<1> DEFINE m == (Day(t) - 1) \div MonthDays
<1>1. Day(t) - 1 \in Int /\ Day(t) \in Int /\ MonthDays \in Nat \ {0}
  BY DayBounds, HandlerAssumption
<1>2. m \in Int /\ MonthDays * m \in Int /\ MonthDays * m <= Day(t) - 1
      /\ Day(t) - 1 < MonthDays * m + MonthDays
  BY <1>1, Quotient
<1>3. MonthStart(t) = m * MonthDays + 1
  BY DEF MonthStart
<1> HIDE DEF m
<1>4. m * MonthDays = MonthDays * m
  BY <1>1, <1>2, SMTT(30)
<1> QED
  BY <1>1, <1>2, <1>3, <1>4

LEMMA MonthIsUnique ==
  ASSUME NEW t \in Int, NEW m \in Int,
         MonthDays * m + 1 <= Day(t), Day(t) < MonthDays * m + 1 + MonthDays
  PROVE  MonthStart(t) = MonthDays * m + 1
<1>0. Day(t) - 1 \in Int /\ Day(t) \in Int /\ MonthDays \in Nat \ {0}
  BY DayBounds, HandlerAssumption
<1>1. MonthDays * m \in Int /\ m * MonthDays = MonthDays * m
  BY <1>0, SMTT(30)
<1>2. MonthDays * m <= Day(t) - 1 /\ Day(t) - 1 < MonthDays * m + MonthDays
  BY <1>0, <1>1
<1>3. (Day(t) - 1) \div MonthDays = m
  BY <1>0, <1>2, QuotientIsUnique
<1> QED
  BY <1>1, <1>3 DEF MonthStart
-----------------------------------------------------------------------------
(* Waiting, in whole seconds, for a window that starts with day w + 1 ends  *)
(* in the first second of that window: a day is a whole number of seconds.  *)
LEMMA WaitReachesWindow ==
  ASSUME NEW g \in Nat, NEW w \in Int, g < DayTicks * w
  PROVE  LET left == (DayTicks * w) \div Second - g \div Second
             wait == IF left < 1 THEN 1 ELSE left
             back == g + wait * Second
         IN  /\ back \in Int
             /\ back - Second \in Int
             /\ back >= DayTicks * w
             /\ g <= back - Second
             /\ back - Second < DayTicks * w
<1> DEFINE c == DayTicks \div Second
           n == (DayTicks * w) \div Second
           q == g \div Second
           N == DayTicks * w
<1>1. /\ Second \in Nat \ {0} /\ DayTicks \in Nat \ {0} /\ DayTicks % Second = 0
      /\ N \in Int /\ g < N
  BY HandlerAssumption
<1>2. c \in Int /\ DayTicks = Second * c
  BY <1>1, SMTT(30)
<1>3. q \in Int /\ Second * q \in Int /\ Second * q <= g /\ g < Second * q + Second
  BY <1>1, Quotient
<1>4. n \in Int /\ N = Second * n
  <2> HIDE DEF c
  <2>1. c * w \in Int /\ N = Second * (c * w)
    BY <1>2, <1>1, SMTT(30)
  <2>2. Second * (c * w) <= N /\ N < Second * (c * w) + Second
    BY <1>1, <2>1
  <2>3. n = c * w
    BY <1>1, <2>1, <2>2, QuotientIsUnique
  <2> QED
    BY <2>1, <2>3
<1> HIDE DEF n, q, c, N
<1>5. q < n
  <2>1. CASE n <= q
    <3>1. Second * n <= Second * q
      BY <1>1, <1>3, <1>4, <2>1, Scaling
    <3> QED
      BY <1>1, <1>3, <1>4, <3>1
  <2> QED
    BY <1>3, <1>4, <2>1
<1>6. (n - q) * Second = N - Second * q
  BY <1>1, <1>3, <1>4, SMTT(30)
<1> DEFINE back == g + (n - q) * Second
<1>7. back = N + (g - Second * q) /\ back \in Int
  BY <1>1, <1>3, <1>6
<1>8. back >= N /\ back - Second < N
  BY <1>1, <1>3, <1>7
<1>9. g <= back - Second
  <2>1. Second * (q + 1) <= Second * n /\ Second * (q + 1) = Second * q + Second
    <3>1. q + 1 <= n
      BY <1>3, <1>4, <1>5
    <3>2. Second * (q + 1) <= Second * n
      BY <1>1, <1>3, <1>4, <3>1, Scaling
    <3>3. Second * (q + 1) = Second * q + Second
      BY <1>1, <1>3, SMTT(30)
    <3> QED
      BY <3>2, <3>3
  <2> QED
    BY <1>1, <1>3, <1>4, <1>7, <2>1
<1> HIDE DEF back
<1>10. (IF n - q < 1 THEN 1 ELSE n - q) = n - q
  BY <1>3, <1>4, <1>5
<1>11. back - Second \in Int
  BY <1>1, <1>7
<1> QED
  BY <1>7, <1>8, <1>9, <1>10, <1>11 DEF back, n, q, N

LEMMA DayRetry ==
  ASSUME NEW r \in Requests, gate[r] \in Nat, pc[r] = "dayDenied"
  PROVE  LET back == gate[r] + BudgetRetryAfter(r) * Second IN
           Day(back) > Day(gate[r]) /\ Day(back - Second) = Day(gate[r])
<1> DEFINE g    == gate[r]
           d    == Day(g)
           back == g + BudgetRetryAfter(r) * Second
<1>1. d \in Int /\ DayTicks * (d - 1) <= g /\ g < DayTicks * d /\ DayTicks \in Nat \ {0}
      /\ DayTicks * (d - 1) \in Int /\ DayTicks * d \in Int /\ g \in Nat
  BY DayBounds, HandlerAssumption
<1>2. NextWindow(r) = DayTicks * d
  <2>1. d * DayTicks = DayTicks * d
    <3> HIDE DEF d
    <3> QED BY <1>1, SMTT(30)
  <2> QED BY <2>1 DEF NextWindow
<1>3. /\ back \in Int /\ back - Second \in Int /\ back >= DayTicks * d
      /\ g <= back - Second /\ back - Second < DayTicks * d
  BY <1>1, <1>2, WaitReachesWindow DEF BudgetRetryAfter
<1> HIDE DEF back, d, g
<1>4. Day(back - Second) = d
  <2>1. DayTicks * (d - 1) <= back - Second
    BY <1>1, <1>3
  <2> QED
    BY <1>1, <1>3, <2>1, DayIsUnique
<1>5. Day(back) > d
  <2>1. Day(back) \in Int /\ back < DayTicks * Day(back) /\ DayTicks * Day(back) \in Int
    BY <1>3, DayBounds
  <2>2. CASE Day(back) <= d
    <3>1. DayTicks * Day(back) <= DayTicks * d
      BY <1>1, <2>1, <2>2, Scaling
    <3> QED
      BY <1>1, <1>3, <2>1, <3>1
  <2> QED
    BY <1>1, <2>1, <2>2
<1> QED
  BY <1>4, <1>5 DEF back, d, g

LEMMA MonthRetry ==
  ASSUME NEW r \in Requests, gate[r] \in Nat, pc[r] = "monthDenied"
  PROVE  LET back == gate[r] + BudgetRetryAfter(r) * Second IN
           /\ MonthStart(back) > MonthStart(gate[r])
           /\ MonthStart(back - Second) = MonthStart(gate[r])
<1> DEFINE g    == gate[r]
           M    == MonthStart(g)
           last == M + MonthDays - 1
           back == g + BudgetRetryAfter(r) * Second
<1>0. DayTicks \in Nat \ {0} /\ MonthDays \in Nat \ {0} /\ g \in Nat /\ g \in Int
  BY HandlerAssumption
<1>a. Day(g) \in Int /\ g < DayTicks * Day(g) /\ DayTicks * Day(g) \in Int
  BY <1>0, DayBounds
<1>1. M \in Int /\ M <= Day(g) /\ Day(g) < M + MonthDays /\ Day(g) \in Int
      /\ g < DayTicks * Day(g) /\ DayTicks * Day(g) \in Int
  BY <1>0, <1>a, MonthBounds
<1>2. PICK m \in Int : M = MonthDays * m + 1
  BY <1>0, MonthBounds
<1>3. NextWindow(r) = DayTicks * last
  <2>1. last \in Int
    BY <1>0, <1>1
  <2>2. last * DayTicks = DayTicks * last
    <3> HIDE DEF last
    <3> QED BY <1>0, <2>1, SMTT(30)
  <2> QED BY <2>2 DEF NextWindow
<1> HIDE DEF M, g
<1>4. last \in Int /\ Day(g) <= last
  BY <1>0, <1>1
<1>5. DayTicks * Day(g) <= DayTicks * last /\ DayTicks * last \in Int
  BY <1>0, <1>1, <1>4, Scaling
<1>6. g < DayTicks * last
  BY <1>0, <1>1, <1>5
<1>7. /\ back \in Int /\ back - Second \in Int /\ back >= DayTicks * last
      /\ g <= back - Second /\ back - Second < DayTicks * last
  <2> HIDE DEF last
  <2> QED BY <1>0, <1>3, <1>4, <1>6, WaitReachesWindow DEF BudgetRetryAfter, g
<1> HIDE DEF back
<1>8. MonthStart(back) > M
  <2>1. Day(back) \in Int /\ back < DayTicks * Day(back) /\ DayTicks * Day(back) \in Int
    BY <1>7, DayBounds
  <2>2. Day(back) > last
    <3>1. CASE Day(back) <= last
      <4>1. DayTicks * Day(back) <= DayTicks * last
        BY <1>0, <1>4, <2>1, <3>1, Scaling
      <4> QED
        BY <1>5, <1>7, <2>1, <4>1
    <3> QED
      BY <1>4, <2>1, <3>1
  <2>3. MonthStart(back) \in Int /\ Day(back) < MonthStart(back) + MonthDays
    BY <1>7, MonthBounds
  <2> QED
    BY <1>0, <1>1, <2>1, <2>2, <2>3
<1>9. MonthStart(back - Second) = M
  <2> DEFINE b == back - Second
  <2>1. b \in Int /\ g <= b /\ b < DayTicks * last
    BY <1>7
  <2> HIDE DEF b
  <2>2. Day(b) \in Int /\ DayTicks * (Day(b) - 1) <= b /\ DayTicks * (Day(b) - 1) \in Int
    BY <2>1, DayBounds
  <2>3. Day(g) <= Day(b)
    BY <1>0, <2>1, DayIsMonotonic
  <2>4. Day(b) <= last
    <3>1. CASE last <= Day(b) - 1
      <4>1. DayTicks * last <= DayTicks * (Day(b) - 1)
        BY <1>0, <1>4, <2>2, <3>1, Scaling
      <4> QED
        BY <1>5, <2>1, <2>2, <4>1
    <3> QED
      BY <1>4, <2>2, <3>1
  <2>5. MonthDays * m + 1 <= Day(b) /\ Day(b) < MonthDays * m + 1 + MonthDays
    BY <1>0, <1>1, <1>2, <2>2, <2>3, <2>4
  <2>6. MonthStart(b) = MonthDays * m + 1
    BY <2>1, <2>5, MonthIsUnique
  <2> QED
    BY <1>2, <2>6 DEF b
<1> QED
  BY <1>8, <1>9 DEF back, M, g

-----------------------------------------------------------------------------
(* The parts.  What is proved of them in modules of their own is used here  *)
(* at the instances the request path makes of them.                         *)
DP == INSTANCE HashDetectorProofs WITH
        LimitInputs <- {}, MaxSightings <- MaxArrivals

BP == INSTANCE BudgetAlertsProofs WITH
        Workers <- Requests, MaxDay <- Day(MaxClock), MaxRows <- MaxArrivals,
        Durable <- {}, MaxRestarts <- 0,
        day <- Day(now), pc <- cost, rows <- requests, restarts <- 0

LEMMA PartAssumptions ==
  DP!DetectorAssumption /\ DP!LimitsAssumption /\ BP!BudgetAssumption
<1>1. DP!DetectorAssumption
  BY HandlerAssumption DEF DP!DetectorAssumption
<1>2. DP!LimitsAssumption
  BY HandlerAssumption
     DEF DP!LimitsAssumption, DP!LimitsInUse, DP!ConstructedLimit, DP!DefaultLimit
<1>3. Day(MaxClock) \in Nat \ {0}
  BY HandlerAssumption, DayBounds
<1>4. BP!BudgetAssumption
  BY <1>3, HandlerAssumption DEF BP!BudgetAssumption
<1> QED
  BY <1>1, <1>2, <1>4

(* Both names of an instance denote the same formulas. *)
LEMMA SameDetector ==
  D!Init = DP!Init /\ D!Next = DP!Next /\ D!vars = DP!vars /\ D!TypeOK = DP!TypeOK
<1>1. D!Init = DP!Init
  BY DEF D!Init, DP!Init, D!NewEntry, DP!NewEntry, D!ConstructedLimit,
         DP!ConstructedLimit, D!DefaultLimit, DP!DefaultLimit, D!Pass, DP!Pass,
         D!Keys, DP!Keys, D!ZeroTime, DP!ZeroTime
<1>2. D!Next = DP!Next
  BY DEF D!Next, DP!Next, D!Check, DP!Check, D!OpenWindow, DP!OpenWindow, D!Live,
         DP!Live, D!LiveKeys, DP!LiveKeys, D!Excess, DP!Excess, D!Cardinality,
         DP!Cardinality, D!Evictions, DP!Evictions, D!NewEntry, DP!NewEntry,
         D!Forget, DP!Forget, D!Pass, DP!Pass, D!Keys, DP!Keys, D!ZeroTime,
         DP!ZeroTime, D!RepeatSighting, DP!RepeatSighting, D!Counted, DP!Counted,
         D!RepeatVerdict, DP!RepeatVerdict, D!CeilSeconds, DP!CeilSeconds, D!Reset,
         DP!Reset, D!Restricted, DP!Restricted, D!SweepAgent, DP!SweepAgent,
         D!SweepAll, DP!SweepAll, D!Tick, DP!Tick, D!SetLimit, DP!SetLimit,
         D!ClampedLimit, DP!ClampedLimit
<1>3. D!vars = DP!vars
  BY DEF D!vars, DP!vars
<1>4. D!TypeOK = DP!TypeOK
  BY DEF D!TypeOK, DP!TypeOK, D!Keys, DP!Keys, D!Entry, DP!Entry, D!ZeroTime,
         DP!ZeroTime
<1> QED
  BY <1>1, <1>2, <1>3, <1>4

LEMMA SameBudget ==
  B!Init = BP!Init /\ B!Next = BP!Next /\ B!vars = BP!vars /\ B!TypeOK = BP!TypeOK
<1>1. B!Init = BP!Init
  BY DEF B!Init, BP!Init, B!NoSpend, BP!NoSpend, B!Days, BP!Days, B!Events, BP!Events, B!Thresholds,
         BP!Thresholds
<1>2. B!Next = BP!Next
  BY DEF B!Next, BP!Next, B!OnCost, BP!OnCost, B!Step, BP!Step, B!Restart, BP!Restart,
         B!Midnight, BP!Midnight, B!BoundsReached, BP!BoundsReached, B!vars, BP!vars,
         B!LogRequest, BP!LogRequest, B!CheckBudget, BP!CheckBudget, B!Return,
         BP!Return, B!Goto, BP!Goto, B!WriteRow, BP!WriteRow, B!LoseRow, BP!LoseRow,
         B!AddRow, BP!AddRow, B!Days, BP!Days, B!ReadDayStart, BP!ReadDayStart,
         B!SumActualCost, BP!SumActualCost, B!ReadNow, BP!ReadNow, B!Spend, BP!Spend,
         B!Crossed, BP!Crossed, B!FiredOn, BP!FiredOn, B!Thresholds, BP!Thresholds,
         B!ThresholdMicro, BP!ThresholdMicro, B!NoSpend, BP!NoSpend, B!Events, BP!Events
<1>3. B!vars = BP!vars
  BY DEF B!vars, BP!vars
<1>4. B!TypeOK = BP!TypeOK
  BY DEF B!TypeOK, BP!TypeOK, B!Days, BP!Days, B!Steps, BP!Steps, B!Events, BP!Events, B!Thresholds,
         BP!Thresholds
<1> QED
  BY <1>1, <1>2, <1>3, <1>4

(* Only Check, Reset, a sweep and the clock touch the detector. *)
LEMMA DetectorSteps ==
  ASSUME [Next]_vars
  PROVE  \/ UNCHANGED detectorVars
         \/ \E r \in Requests : CheckLoop(r)
         \/ \E a \in Agents : DeleteHistory(a)
         \/ PollMetrics
         \/ Tick
<1>1. CASE UNCHANGED vars
  BY <1>1 DEF vars
<1>2. CASE Unauthorized
  BY <1>2 DEF Unauthorized
<1>3. ASSUME NEW r \in Requests, NEW i \in Inputs, Arrive(r, i)
      PROVE  UNCHANGED detectorVars
  BY <1>3 DEF Arrive
<1>4. ASSUME NEW r \in Requests, Deny(r) PROVE UNCHANGED detectorVars
  BY <1>4 DEF Deny, GateTime, GateMonth, GateDay, WriteBudgetExceeded
<1>5. ASSUME NEW r \in Requests, Block(r), ~CheckLoop(r) PROVE UNCHANGED detectorVars
  BY <1>5 DEF Block, ReadBody, RequestTooLarge, MarkLoopBlocked, LogBlocked,
              NotifyLoop, WriteLoopBlocked
<1>6. ASSUME NEW r \in Requests, Account(r) PROVE UNCHANGED detectorVars
  BY <1>6 DEF Account, LogActual, CheckBudget, PublishComplete, ResponseDone,
              CloseBody, Finalize
<1>7. ASSUME NEW r \in Requests, Upstream(r) PROVE UNCHANGED detectorVars
  BY <1>7 DEF Upstream, UpstreamFails, UntrackedDone, ModifyResponse, EndOfStream,
              CopyAborted, Finalize
<1> QED
  BY <1>1, <1>2, <1>3, <1>4, <1>5, <1>6, <1>7 DEF Next
-----------------------------------------------------------------------------
(* Types of the handler's own variables, and where a request can be in      *)
(* which state: it has an input from its arrival to its return, the caller  *)
(* whose budgets it is held against has a key, its accounting runs between  *)
(* the end of its body and its return, and starts only once.                *)
Result == [block : BOOLEAN, first : BOOLEAN, retryAfter : Nat]

HandlerTypes ==
  /\ keySince \in [Callers \cup {Anonymous} -> [Days -> Int]]
  /\ blocked \in Nat /\ actual \in Nat /\ active \in Int /\ loopBlocks \in Nat
  /\ forwarded \in Nat /\ lost \in Nat /\ arrivals \in 0..MaxArrivals
  /\ pc \in [Requests -> Places]
  /\ req \in [Requests -> Inputs \cup {NoRequest}]
  /\ gate \in [Requests -> 0..now]
  /\ res \in [Requests -> Result]
  /\ finalized \in [Requests -> BOOLEAN]
  /\ notices \in [Agents \X Fps -> Nat]
  /\ events \in [EventTypes -> Nat]

Gated == {"gate", "month", "day", "monthDenied", "dayDenied"}

RequestShape(r) ==
  /\ pc[r] # "idle" => req[r] \in Inputs /\ req[r].caller # Unknown
  /\ pc[r] \in Gated => req[r].caller # Anonymous
  /\ finalized[r] => pc[r] \in {"close", "done"}
  /\ pc[r] \in {"close", "done"} => finalized[r]
  /\ cost[r] # "idle" => pc[r] \in {"close", "done"}

Shapes == \A r \in Requests : RequestShape(r)

CoreInv == DP!DetectorInv /\ BP!TypeOK /\ HandlerTypes /\ Shapes

(* What the parts' types say of the variables the handler reads. *)
LEMMA PartTypes ==
  ASSUME CoreInv
  PROVE  /\ now \in Nat /\ now <= MaxClock /\ verdict \in Result
         /\ since \in [Days -> Int] /\ requests \in Nat
         /\ cost \in [Requests -> B!Steps]
         /\ today \in [Requests -> 1..Day(now)] /\ amount \in [Requests -> Int]
         /\ Day(now) \in Nat \ {0} /\ Day(MaxClock) \in Nat
<1>1. now \in 0..MaxClock /\ verdict \in Result
  BY DEF CoreInv, DP!DetectorInv, DP!TypeOK, Result
<1>2. now \in Nat /\ now <= MaxClock /\ Day(now) \in Nat \ {0} /\ Day(MaxClock) \in Nat
  BY <1>1, HandlerAssumption, DayBounds
<1>3. /\ since \in [Days -> Int] /\ requests \in 0..MaxArrivals
      /\ cost \in [Requests -> B!Steps]
      /\ today \in [Requests -> 1..Day(now)] /\ amount \in [Requests -> Int]
  BY DEF CoreInv, BP!TypeOK, BP!Days, Days, B!Steps, BP!Steps
<1>4. requests \in Nat
  BY <1>3, HandlerAssumption
<1> QED
  BY <1>1, <1>2, <1>3, <1>4

(* A request in flight is of a tracked agent and a known caller. *)
LEMMA InFlight ==
  ASSUME CoreInv, NEW r \in Requests, pc[r] # "idle"
  PROVE  /\ Key(r) \in Agents \X Fps
         /\ req[r] \in Inputs
         /\ req[r].caller \in Callers \cup {Anonymous}
BY HandlerAssumption DEF CoreInv, Shapes, RequestShape, Key

LEMMA ReturnTypes ==
  ASSUME HandlerTypes, now \in Nat, NEW r \in Requests, Return(r), now' = now
  PROVE  /\ active' \in Int
         /\ pc' \in [Requests -> Places]
         /\ req' \in [Requests -> Inputs \cup {NoRequest}]
         /\ gate' \in [Requests -> 0..now']
         /\ res' \in [Requests -> Result]
         /\ finalized' \in [Requests -> BOOLEAN]
<1>1. "idle" \in Places /\ D!Pass \in Result
  BY DEF Places, D!Pass, Result
<1> QED
  BY <1>1 DEF HandlerTypes, Return

LEMMA StepHandlerTypes == CoreInv /\ [Next]_vars => HandlerTypes'
<1> SUFFICES ASSUME CoreInv, [Next]_vars PROVE HandlerTypes'
  OBVIOUS
<1> USE DEF detectorVars, costVars, storeVars, meterVars, localVars, historyVars
<1>0. HandlerTypes /\ Shapes
  BY DEF CoreInv
<1>a. /\ now \in Nat /\ requests \in Nat /\ Day(MaxClock) \in Nat
      /\ today \in [Requests -> 1..Day(now)] /\ amount \in [Requests -> Int]
  BY PartTypes
<1>b. Places = {"idle", "gate", "month", "day", "monthDenied", "dayDenied", "body",
                "check", "blocked", "record", "notify", "answer", "untracked",
                "forward", "stream", "close", "done"}
  BY DEF Places
<1>c. MaxArrivals \in Nat
  BY HandlerAssumption
<1>1. CASE Unauthorized
  BY <1>0, <1>1, <1>c DEF Unauthorized, HandlerTypes
<1>2. ASSUME NEW r \in Requests, NEW i \in Inputs, Arrive(r, i) PROVE HandlerTypes'
  <2>1. AfterFastPath(i) \in Places
    BY <1>b DEF AfterFastPath
  <2> QED
    BY <1>0, <1>2, <1>c, <2>1 DEF Arrive, Goto, HandlerTypes
<1>3. ASSUME NEW r \in Requests, Deny(r) PROVE HandlerTypes'
  <2>1. CASE GateTime(r)
    BY <1>0, <1>a, <1>b, <2>1 DEF GateTime, Goto, HandlerTypes
  <2>2. CASE GateMonth(r)
    BY <1>0, <1>b, <2>2 DEF GateMonth, Goto, HandlerTypes
  <2>3. CASE GateDay(r)
    BY <1>0, <1>b, <2>3 DEF GateDay, Goto, HandlerTypes
  <2>4. CASE WriteBudgetExceeded(r)
    <3>1. events' \in [EventTypes -> Nat]
      BY <1>0, <2>4 DEF WriteBudgetExceeded, Publish, HandlerTypes, EventTypes
    <3>2. now' = now /\ Return(r)
      BY <2>4 DEF WriteBudgetExceeded
    <3> QED
      BY <1>0, <1>a, <2>4, <3>1, <3>2, ReturnTypes DEF WriteBudgetExceeded, HandlerTypes
  <2> QED
    BY <1>3, <2>1, <2>2, <2>3, <2>4 DEF Deny
<1>4. ASSUME NEW r \in Requests, Block(r) PROVE HandlerTypes'
  <2>1. CASE ReadBody(r)
    BY <1>0, <1>b, <2>1 DEF ReadBody, Goto, HandlerTypes
  <2>2. CASE RequestTooLarge(r)
    <3>1. now' = now /\ Return(r)
      BY <2>2 DEF RequestTooLarge
    <3> QED
      BY <1>0, <1>a, <2>2, <3>1, ReturnTypes DEF RequestTooLarge, HandlerTypes
  <2>3. CASE CheckLoop(r)
    <3>1. verdict' \in Result /\ now' = now
      <4>1. DP!Next /\ now' = now
        <5>1. D!Check(Key(r)) /\ Key(r) \in Agents \X Fps
          BY <2>3, InFlight DEF CheckLoop
        <5>2. D!Next
          BY <5>1 DEF D!Next, D!Keys
        <5> QED
          BY <5>1, <5>2, SameDetector DEF D!Check, D!OpenWindow, D!RepeatSighting
      <4>2. DP!DetectorInv'
        BY <4>1, PartAssumptions, DP!StepInv DEF CoreInv
      <4> QED
        BY <4>1, <4>2 DEF DP!DetectorInv, DP!TypeOK, Result
    <3> QED
      BY <1>0, <1>b, <2>3, <3>1 DEF CheckLoop, Goto, HandlerTypes
  <2>4. CASE MarkLoopBlocked(r)
    BY <1>0, <1>b, <2>4 DEF MarkLoopBlocked, Goto, HandlerTypes
  <2>5. CASE LogBlocked(r)
    BY <1>0, <1>b, <2>5 DEF LogBlocked, Goto, HandlerTypes
  <2>6. CASE NotifyLoop(r)
    <3>1. notices' \in [Agents \X Fps -> Nat]
      <4> DEFINE k == Key(r)
      <4>1. notices' = [notices EXCEPT ![k] = IF res[r].first THEN notices[k] + 1
                                                             ELSE notices[k]]
        BY <2>6 DEF NotifyLoop
      <4>2. k \in Agents \X Fps
        BY <2>6, InFlight DEF NotifyLoop, Goto
      <4> HIDE DEF k
      <4> QED
        BY <1>0, <4>1, <4>2 DEF HandlerTypes
    <3> QED
      BY <1>0, <1>b, <2>6, <3>1 DEF NotifyLoop, Goto, HandlerTypes
  <2>7. CASE WriteLoopBlocked(r)
    <3>1. events' \in [EventTypes -> Nat]
      BY <1>0, <2>7 DEF WriteLoopBlocked, Publish, HandlerTypes, EventTypes
    <3>2. now' = now /\ Return(r)
      BY <2>7 DEF WriteLoopBlocked
    <3> QED
      BY <1>0, <1>a, <2>7, <3>1, <3>2, ReturnTypes DEF WriteLoopBlocked, HandlerTypes
  <2> QED
    BY <1>4, <2>1, <2>2, <2>3, <2>4, <2>5, <2>6, <2>7 DEF Block
<1>5. ASSUME NEW r \in Requests, Account(r) PROVE HandlerTypes'
  <2>1. CASE LogActual(r)
    <3>1. cost[r] = "log"
      BY <2>1 DEF LogActual, B!WriteRow, B!LoseRow
    <3>2. req[r].caller \in Callers \cup {Anonymous}
      <4>1. pc[r] # "idle"
        BY <1>0, <3>1 DEF Shapes, RequestShape
      <4> QED
        BY <4>1, InFlight
    <3>3. /\ keySince' \in [Callers \cup {Anonymous} -> [Days -> Int]]
          /\ actual' \in Nat /\ lost' \in Nat
      <4>1. CASE UNCHANGED <<keySince, actual>> /\ lost' = lost + 1
        BY <1>0, <4>1 DEF HandlerTypes
      <4>2. CASE ~(UNCHANGED <<keySince, actual>> /\ lost' = lost + 1)
        <5> DEFINE k   == req[r].caller
                   new == [d \in Days |-> IF d <= today[r] THEN keySince[k][d] + amount[r]
                                                           ELSE keySince[k][d]]
        <5>1. keySince' = [keySince EXCEPT ![k] = new] /\ actual' = actual + 1 /\ lost' = lost
          BY <2>1, <4>2 DEF LogActual
        <5>2. new \in [Days -> Int]
          BY <1>0, <1>a, <3>2 DEF HandlerTypes
        <5> HIDE DEF new
        <5> QED
          BY <1>0, <3>2, <5>1, <5>2 DEF HandlerTypes
      <4> QED
        BY <4>1, <4>2
    <3> QED
      BY <1>0, <2>1, <3>3 DEF LogActual, HandlerTypes
  <2>2. CASE CheckBudget(r)
    BY <1>0, <2>2 DEF CheckBudget, HandlerTypes
  <2>3. CASE PublishComplete(r)
    <3>1. events' \in [EventTypes -> Nat]
      BY <1>0, <2>3 DEF PublishComplete, Publish, HandlerTypes, EventTypes
    <3> QED
      BY <1>0, <2>3, <3>1 DEF PublishComplete, HandlerTypes
  <2>4. CASE ResponseDone(r)
    <3>1. now' = now /\ Return(r)
      BY <2>4 DEF ResponseDone
    <3> QED
      BY <1>0, <1>a, <2>4, <3>1, ReturnTypes DEF ResponseDone, HandlerTypes
  <2>5. ASSUME NEW c \in Costs, CloseBody(r, c) PROVE HandlerTypes'
    BY <1>0, <1>b, <2>5 DEF CloseBody, Goto, Finalize, HandlerTypes
  <2> QED
    BY <1>5, <2>1, <2>2, <2>3, <2>4, <2>5 DEF Account
<1>6. ASSUME NEW r \in Requests, Upstream(r) PROVE HandlerTypes'
  <2>1. CASE UpstreamFails(r)
    <3>1. now' = now /\ Return(r)
      BY <2>1 DEF UpstreamFails
    <3> QED
      BY <1>0, <1>a, <2>1, <3>1, ReturnTypes DEF UpstreamFails, HandlerTypes
  <2>2. CASE UntrackedDone(r)
    <3>1. now' = now /\ Return(r) /\ forwarded' \in Nat
      BY <1>0, <2>2 DEF UntrackedDone, HandlerTypes
    <3> QED
      BY <1>0, <1>a, <2>2, <3>1, ReturnTypes DEF UntrackedDone, HandlerTypes
  <2>3. CASE ModifyResponse(r)
    BY <1>0, <1>b, <2>3 DEF ModifyResponse, Goto, HandlerTypes
  <2>4. ASSUME NEW c \in Costs, EndOfStream(r, c) PROVE HandlerTypes'
    BY <1>0, <1>b, <2>4 DEF EndOfStream, Goto, Finalize, HandlerTypes
  <2>5. ASSUME NEW c \in Costs, CopyAborted(r, c) PROVE HandlerTypes'
    BY <1>0, <1>b, <2>5 DEF CopyAborted, Goto, Finalize, HandlerTypes
  <2> QED
    BY <1>6, <2>1, <2>2, <2>3, <2>4, <2>5 DEF Upstream
<1>7. ASSUME NEW a \in Agents, DeleteHistory(a) PROVE HandlerTypes'
  BY <1>0, <1>7 DEF DeleteHistory, D!Reset, HandlerTypes
<1>8. CASE PollMetrics
  BY <1>0, <1>8 DEF PollMetrics, D!SweepAll, HandlerTypes
<1>9. CASE Tick
  <2>1. now' = now + 1
    BY <1>9 DEF Tick, D!Tick
  <2>2. gate \in [Requests -> 0..now']
    BY <1>0, <1>a, <2>1 DEF HandlerTypes
  <2> QED
    BY <1>0, <1>9, <2>2 DEF Tick, HandlerTypes
<1>10. CASE UNCHANGED vars
  BY <1>0, <1>10 DEF vars, HandlerTypes
<1> QED
  BY <1>1, <1>2, <1>3, <1>4, <1>5, <1>6, <1>7, <1>8, <1>9, <1>10 DEF Next

(* A goroutine's step leaves the locals of the others alone. *)
RequestStep(r) ==
  (\E i \in Inputs : Arrive(r, i)) \/ Deny(r) \/ Block(r) \/ Account(r) \/ Upstream(r)

SameLocals(q) ==
  UNCHANGED <<pc[q], req[q], gate[q], res[q], finalized[q], cost[q], today[q], amount[q]>>

LEMMA OthersStand ==
  ASSUME CoreInv, NEW r \in Requests, RequestStep(r), NEW q \in Requests, q # r
  PROVE  SameLocals(q)
<1> USE DEF detectorVars, costVars, storeVars, meterVars, localVars, historyVars, SameLocals
<1>0. /\ pc \in [Requests -> Places] /\ gate \in [Requests -> 0..now]
      /\ req \in [Requests -> Inputs \cup {NoRequest}]
      /\ res \in [Requests -> Result] /\ finalized \in [Requests -> BOOLEAN]
      /\ cost \in [Requests -> B!Steps]
      /\ today \in [Requests -> 1..Day(now)] /\ amount \in [Requests -> Int]
  BY PartTypes DEF CoreInv, HandlerTypes
<1>1. ASSUME Return(r), UNCHANGED costVars PROVE SameLocals(q)
  BY <1>0, <1>1 DEF Return
<1>2. ASSUME NEW i \in Inputs, Arrive(r, i) PROVE SameLocals(q)
  BY <1>0, <1>2 DEF Arrive, Goto
<1>3. CASE Deny(r)
  BY <1>0, <1>1, <1>3 DEF Deny, GateTime, GateMonth, GateDay, WriteBudgetExceeded, Goto
<1>4. CASE Block(r)
  <2>1. CASE RequestTooLarge(r) \/ WriteLoopBlocked(r)
    BY <1>1, <2>1 DEF RequestTooLarge, WriteLoopBlocked
  <2>2. CASE ReadBody(r) \/ CheckLoop(r) \/ MarkLoopBlocked(r) \/ LogBlocked(r) \/ NotifyLoop(r)
    BY <1>0, <2>2 DEF ReadBody, CheckLoop, MarkLoopBlocked, LogBlocked, NotifyLoop, Goto
  <2> QED
    BY <1>4, <2>1, <2>2 DEF Block
<1>5. ASSUME NEW c \in Costs, Finalize(r, c), UNCHANGED <<req, gate, res>>, pc'[q] = pc[q]
      PROVE  SameLocals(q)
  BY <1>0, <1>5 DEF Finalize, B!OnCost, B!Goto
<1>6. CASE Account(r)
  <2>1. CASE ResponseDone(r)
    BY <1>1, <2>1 DEF ResponseDone
  <2>2. ASSUME NEW c \in Costs, CloseBody(r, c) PROVE SameLocals(q)
    BY <1>0, <1>5, <2>2 DEF CloseBody, Goto
  <2>3. CASE LogActual(r)
    BY <1>0, <2>3 DEF LogActual, B!WriteRow, B!LoseRow, B!Goto
  <2>4. CASE CheckBudget(r)
    BY <1>0, <2>4 DEF CheckBudget, B!CheckBudget, B!ReadDayStart, B!SumActualCost,
                      B!ReadNow, B!Spend, B!Goto
  <2>5. CASE PublishComplete(r)
    BY <1>0, <2>5 DEF PublishComplete, B!Return, B!Goto
  <2> QED
    BY <1>6, <2>1, <2>2, <2>3, <2>4, <2>5 DEF Account
<1>7. CASE Upstream(r)
  <2>1. CASE UpstreamFails(r) \/ UntrackedDone(r)
    BY <1>1, <2>1 DEF UpstreamFails, UntrackedDone
  <2>2. ASSUME NEW c \in Costs, EndOfStream(r, c) \/ CopyAborted(r, c) PROVE SameLocals(q)
    BY <1>0, <1>5, <2>2 DEF EndOfStream, CopyAborted, Goto
  <2>3. CASE ModifyResponse(r)
    BY <1>0, <2>3 DEF ModifyResponse, Goto
  <2> QED
    BY <1>7, <2>1, <2>2, <2>3 DEF Upstream
<1> QED
  BY <1>2, <1>3, <1>4, <1>6, <1>7 DEF RequestStep

(* A step of no goroutine leaves all locals alone. *)
LEMMA AllStand ==
  ASSUME [Next]_vars, \A r \in Requests : ~RequestStep(r)
  PROVE  UNCHANGED <<pc, req, gate, res, finalized, cost, today, amount>>
<1> USE DEF detectorVars, costVars, storeVars, meterVars, localVars, historyVars
<1>1. CASE Unauthorized
  BY <1>1 DEF Unauthorized
<1>2. ASSUME NEW a \in Agents, DeleteHistory(a)
      PROVE  UNCHANGED <<pc, req, gate, res, finalized, cost, today, amount>>
  BY <1>2 DEF DeleteHistory
<1>3. CASE PollMetrics \/ Tick
  BY <1>3 DEF PollMetrics, Tick
<1>4. CASE UNCHANGED vars
  BY <1>4 DEF vars
<1> QED
  BY <1>1, <1>2, <1>3, <1>4 DEF Next, RequestStep

LEMMA StepShapes == CoreInv /\ [Next]_vars => Shapes'
<1> SUFFICES ASSUME CoreInv, [Next]_vars, NEW q \in Requests PROVE RequestShape(q)'
  BY DEF Shapes
<1> USE DEF detectorVars, costVars, storeVars, meterVars, localVars, historyVars
<1>0. RequestShape(q)
  BY DEF CoreInv, Shapes
<1>a. /\ pc \in [Requests -> Places]
      /\ req \in [Requests -> Inputs \cup {NoRequest}]
      /\ finalized \in [Requests -> BOOLEAN] /\ cost \in [Requests -> B!Steps]
  BY PartTypes DEF CoreInv, HandlerTypes
<1>1. CASE SameLocals(q)
  BY <1>0, <1>1 DEF SameLocals, RequestShape
<1>2. ASSUME RequestStep(q) PROVE RequestShape(q)'
  <2>0. Gated = {"gate", "month", "day", "monthDenied", "dayDenied"}
    BY DEF Gated
  <2>1. ASSUME Return(q), UNCHANGED cost, cost[q] = "idle" PROVE RequestShape(q)'
    <3>1. pc'[q] = "idle" /\ cost'[q] = "idle" /\ ~finalized'[q]
      BY <1>a, <2>1 DEF Return
    <3> QED
      BY <2>0, <3>1 DEF RequestShape
  <2>2. ASSUME NEW i \in Inputs, Arrive(q, i) PROVE RequestShape(q)'
    <3>1. pc'[q] = AfterFastPath(i) /\ req'[q] = i /\ cost'[q] = "idle" /\ ~finalized'[q]
      BY <1>0, <1>a, <2>2 DEF Arrive, Goto, RequestShape
    <3> QED
      BY <2>0, <2>2, <3>1 DEF RequestShape, AfterFastPath, Arrive
  <2>3. CASE Deny(q)
    <3>1. CASE WriteBudgetExceeded(q)
      BY <1>0, <2>1, <3>1 DEF WriteBudgetExceeded, RequestShape
    <3>2. CASE GateTime(q) \/ GateMonth(q) \/ GateDay(q)
      <4>1. /\ pc[q] \in {"gate", "month", "day"}
            /\ pc'[q] \in Gated \cup {"body"}
            /\ req' = req /\ cost' = cost /\ finalized' = finalized
        BY <1>a, <2>0, <3>2 DEF GateTime, GateMonth, GateDay, Goto
      <4> QED
        BY <1>0, <2>0, <4>1 DEF RequestShape
    <3> QED
      BY <2>3, <3>1, <3>2 DEF Deny
  <2>4. CASE Block(q)
    <3>1. CASE RequestTooLarge(q) \/ WriteLoopBlocked(q)
      BY <1>0, <2>1, <3>1 DEF RequestTooLarge, WriteLoopBlocked, RequestShape
    <3>2. CASE ReadBody(q) \/ CheckLoop(q) \/ MarkLoopBlocked(q) \/ LogBlocked(q) \/ NotifyLoop(q)
      <4>1. /\ pc[q] \in {"body", "check", "blocked", "record", "notify"}
            /\ pc'[q] \in {"untracked", "check", "blocked", "forward", "record", "notify", "answer"}
            /\ req' = req /\ cost' = cost /\ finalized' = finalized
        BY <1>a, <3>2 DEF ReadBody, CheckLoop, MarkLoopBlocked, LogBlocked, NotifyLoop, Goto
      <4> QED
        BY <1>0, <2>0, <4>1 DEF RequestShape
    <3> QED
      BY <2>4, <3>1, <3>2 DEF Block
  <2>5. CASE Account(q)
    <3>1. CASE ResponseDone(q)
      BY <2>1, <3>1 DEF ResponseDone
    <3>2. ASSUME NEW c \in Costs, CloseBody(q, c) PROVE RequestShape(q)'
      <4>1. pc[q] = "close" /\ pc'[q] = "done" /\ finalized'[q] /\ req' = req
        BY <1>a, <3>2 DEF CloseBody, Goto, Finalize
      <4> QED
        BY <1>0, <2>0, <4>1 DEF RequestShape
    <3>3. CASE LogActual(q) \/ CheckBudget(q) \/ PublishComplete(q)
      <4>1. cost[q] # "idle" /\ UNCHANGED <<pc, req, finalized>>
        BY <3>3 DEF LogActual, CheckBudget, PublishComplete, B!WriteRow, B!LoseRow,
                    B!CheckBudget, B!ReadDayStart, B!SumActualCost, B!ReadNow, B!Spend,
                    B!Return
      <4> QED
        BY <1>0, <4>1 DEF RequestShape
    <3> QED
      BY <2>5, <3>1, <3>2, <3>3 DEF Account
  <2>6. CASE Upstream(q)
    <3>1. CASE UpstreamFails(q) \/ UntrackedDone(q)
      BY <1>0, <2>1, <3>1 DEF UpstreamFails, UntrackedDone, RequestShape
    <3>2. CASE ModifyResponse(q)
      <4>1. pc[q] = "forward" /\ pc'[q] = "stream" /\ UNCHANGED <<req, finalized, cost>>
        BY <1>a, <3>2 DEF ModifyResponse, Goto
      <4>2. ~finalized[q]
        BY <1>0, <4>1 DEF RequestShape
      <4> QED
        BY <1>0, <2>0, <4>1, <4>2 DEF RequestShape
    <3>3. ASSUME NEW c \in Costs, EndOfStream(q, c) \/ CopyAborted(q, c)
          PROVE  RequestShape(q)'
      <4>1. pc[q] = "stream" /\ pc'[q] \in {"close", "done"} /\ finalized'[q] /\ req' = req
        BY <1>a, <3>3 DEF EndOfStream, CopyAborted, Goto, Finalize
      <4> QED
        BY <1>0, <2>0, <4>1 DEF RequestShape
    <3> QED
      BY <2>6, <3>1, <3>2, <3>3 DEF Upstream
  <2> QED
    BY <1>2, <2>2, <2>3, <2>4, <2>5, <2>6 DEF RequestStep
<1>3. CASE \E r \in Requests : RequestStep(r)
  BY <1>1, <1>2, <1>3, OthersStand
<1>4. CASE \A r \in Requests : ~RequestStep(r)
  BY <1>1, <1>4, AllStand DEF SameLocals
<1> QED
  BY <1>3, <1>4

-----------------------------------------------------------------------------
(* Every step of the request path is a step of the detector's               *)
(* specification, or leaves the detector alone; likewise for the accounting *)
(* of costs, whose midnight is the tick at which the date changes.          *)
LEMMA StepDetector == CoreInv /\ [Next]_vars => [D!Next]_(D!vars)
<1> SUFFICES ASSUME CoreInv, [Next]_vars PROVE D!Next \/ UNCHANGED D!vars
  OBVIOUS
<1>1. CASE UNCHANGED detectorVars
  BY <1>1 DEF detectorVars, D!vars
<1>2. ASSUME NEW r \in Requests, CheckLoop(r) PROVE D!Next
  <2>1. D!Check(Key(r)) /\ Key(r) \in Agents \X Fps
    BY <1>2, InFlight DEF CheckLoop
  <2> QED
    BY <2>1 DEF D!Next, D!Keys
<1>3. ASSUME NEW a \in Agents, DeleteHistory(a) PROVE D!Next
  BY <1>3 DEF DeleteHistory, D!Next
<1>4. CASE PollMetrics \/ Tick
  BY <1>4 DEF PollMetrics, Tick, D!Next
<1> QED
  BY <1>1, <1>2, <1>3, <1>4, DetectorSteps

LEMMA StepBudget == CoreInv /\ [Next]_vars => [B!Next]_(B!vars)
<1> SUFFICES ASSUME CoreInv, [Next]_vars PROVE B!Next \/ UNCHANGED B!vars
  OBVIOUS
<1> USE DEF detectorVars, meterVars
<1>1. ASSUME UNCHANGED <<now, costVars, requests>> PROVE UNCHANGED B!vars
  BY <1>1 DEF costVars, B!vars
<1>2. CASE Unauthorized \/ UNCHANGED vars
  BY <1>1, <1>2 DEF Unauthorized, vars
<1>3. ASSUME NEW r \in Requests, NEW i \in Inputs, Arrive(r, i) PROVE UNCHANGED B!vars
  BY <1>1, <1>3 DEF Arrive
<1>4. ASSUME NEW r \in Requests, Deny(r) PROVE UNCHANGED B!vars
  BY <1>1, <1>4 DEF Deny, GateTime, GateMonth, GateDay, WriteBudgetExceeded
<1>5. ASSUME NEW r \in Requests, Block(r) PROVE UNCHANGED B!vars
  <2>1. CASE CheckLoop(r)
    BY <1>1, <2>1 DEF CheckLoop, D!Check, D!OpenWindow, D!RepeatSighting
  <2>2. CASE ~CheckLoop(r)
    BY <1>1, <1>5, <2>2 DEF Block, ReadBody, RequestTooLarge, MarkLoopBlocked,
                            LogBlocked, NotifyLoop, WriteLoopBlocked
  <2> QED
    BY <2>1, <2>2
<1>6. ASSUME NEW r \in Requests, NEW c \in Costs, Finalize(r, c)
      PROVE  B!Next \/ UNCHANGED B!vars
  <2>1. CASE finalized[r]
    BY <1>1, <1>6, <2>1 DEF Finalize
  <2>2. CASE ~finalized[r]
    BY <1>6, <2>2 DEF Finalize, B!Next
  <2> QED
    BY <2>1, <2>2
<1>7. ASSUME NEW r \in Requests, Account(r) PROVE B!Next \/ UNCHANGED B!vars
  <2>1. CASE LogActual(r)
    BY <2>1 DEF LogActual, B!Next, B!Step, B!LogRequest
  <2>2. CASE CheckBudget(r)
    BY <2>2 DEF CheckBudget, B!Next, B!Step
  <2>3. CASE PublishComplete(r)
    BY <2>3 DEF PublishComplete, B!Next, B!Step
  <2>4. CASE ResponseDone(r)
    BY <1>1, <2>4 DEF ResponseDone
  <2>5. ASSUME NEW c \in Costs, CloseBody(r, c) PROVE B!Next \/ UNCHANGED B!vars
    BY <1>6, <2>5 DEF CloseBody
  <2> QED
    BY <1>7, <2>1, <2>2, <2>3, <2>4, <2>5 DEF Account
<1>8. ASSUME NEW r \in Requests, Upstream(r) PROVE B!Next \/ UNCHANGED B!vars
  <2>1. CASE UpstreamFails(r) \/ UntrackedDone(r) \/ ModifyResponse(r)
    BY <1>1, <2>1 DEF UpstreamFails, UntrackedDone, ModifyResponse
  <2>2. ASSUME NEW c \in Costs, EndOfStream(r, c) \/ CopyAborted(r, c)
        PROVE  B!Next \/ UNCHANGED B!vars
    BY <1>6, <2>2 DEF EndOfStream, CopyAborted
  <2> QED
    BY <1>8, <2>1, <2>2 DEF Upstream
<1>9. ASSUME NEW a \in Agents, DeleteHistory(a) PROVE UNCHANGED B!vars
  BY <1>1, <1>9 DEF DeleteHistory, D!Reset
<1>10. CASE PollMetrics
  BY <1>1, <1>10 DEF PollMetrics, D!SweepAll
<1>11. CASE Tick
  <2>1. now' = now + 1 /\ now < MaxClock /\ now \in Nat /\ UNCHANGED <<costVars, requests>>
    BY <1>11, PartTypes DEF Tick, D!Tick
  <2>2. CASE Day(now + 1) = Day(now)
    BY <2>1, <2>2 DEF B!vars, costVars, Day
  <2>3. CASE Day(now + 1) = Day(now) + 1
    <3>0. now \in Int /\ now + 1 \in Int /\ MaxClock \in Int /\ now + 1 <= MaxClock
      BY <2>1, HandlerAssumption
    <3>1. Day(now + 1) <= Day(MaxClock) /\ Day(now) \in Int /\ Day(MaxClock) \in Int
      BY <3>0, DayIsMonotonic, DayBounds
    <3>2. Day(now) < Day(MaxClock)
      BY <2>3, <3>1
    <3>3. Day(now') = Day(now) + 1
      BY <2>1, <2>3
    <3>4. B!Midnight
      BY <2>1, <3>2, <3>3 DEF B!Midnight, costVars, Day
    <3> QED
      BY <3>4 DEF B!Next
  <2> QED
    BY <2>1, <2>2, <2>3, NextDate
<1> QED
  BY <1>2, <1>3, <1>4, <1>5, <1>7, <1>8, <1>9, <1>10, <1>11 DEF Next

LEMMA InitCore == Init => CoreInv
<1> SUFFICES ASSUME Init PROVE CoreInv
  OBVIOUS
<1>1. DP!DetectorInv
  BY PartAssumptions, SameDetector, DP!InitInv DEF Init
<1>2. BP!TypeOK
  BY PartAssumptions, SameBudget, BP!InitAlert DEF Init, BP!AlertInv
<1>3. now = 0 /\ cost = [r \in Requests |-> "idle"] /\ requests = 0
  BY DEF Init, D!Init, B!Init
<1>4. D!Pass \in Result /\ "idle" \in Places
  BY DEF D!Pass, Result, Places
<1>5. HandlerTypes
  BY <1>3, <1>4, HandlerAssumption DEF Init, HandlerTypes
<1>6. Shapes
  BY <1>3 DEF Init, Shapes, RequestShape, Gated
<1> QED
  BY <1>1, <1>2, <1>5, <1>6 DEF CoreInv

LEMMA StepCore == CoreInv /\ [Next]_vars => CoreInv'
<1> SUFFICES ASSUME CoreInv, [Next]_vars PROVE CoreInv'
  OBVIOUS
<1>1. DP!DetectorInv'
  <2>1. DP!Next \/ UNCHANGED DP!vars
    BY StepDetector, SameDetector DEF D!vars, DP!vars
  <2> QED
    BY <2>1, PartAssumptions, DP!StepInv DEF CoreInv
<1>2. BP!TypeOK'
  <2>1. BP!Next \/ UNCHANGED BP!vars
    BY StepBudget, SameBudget DEF B!vars, BP!vars
  <2> QED
    BY <2>1, PartAssumptions, BP!StepTypes DEF CoreInv
<1> QED
  BY <1>1, <1>2, StepHandlerTypes, StepShapes DEF CoreInv

(* The inductive core of the request path holds in every reachable state. *)
THEOREM CoreInvariant == Spec => []CoreInv
BY InitCore, StepCore, PTL DEF Spec

(* The request path implements the specifications of both its parts: it     *)
(* calls the detector with tracked keys only and one call at a time, starts *)
(* an onCost only when none is running for the response, and its clock      *)
(* drives their days.                                                       *)
THEOREM PartsAreImplemented == Spec => PartsAreUsedAsSpecified
<1>1. Init => D!Init /\ B!Init
  BY DEF Init
<1> QED
  BY <1>1, StepDetector, StepBudget, CoreInvariant, PTL
     DEF Spec, D!Spec, B!Spec, PartsAreUsedAsSpecified

(* A budget 429 sends the caller back in the first second of the window     *)
(* after the one that refused it (secondsUntilNextUTCDay and its monthly    *)
(* twin): a matter of the clock's arithmetic alone.                         *)
THEOREM RetriesReachNextWindow == Spec => []RetryReachesNextWindow
<1>1. CoreInv => RetryReachesNextWindow
  <2> SUFFICES ASSUME CoreInv, NEW r \in Requests
               PROVE  LET back == gate[r] + BudgetRetryAfter(r) * Second IN
                        /\ pc[r] = "dayDenied" =>
                             Day(back) > Day(gate[r]) /\ Day(back - Second) = Day(gate[r])
                        /\ pc[r] = "monthDenied" =>
                             /\ MonthStart(back) > MonthStart(gate[r])
                             /\ MonthStart(back - Second) = MonthStart(gate[r])
    BY DEF RetryReachesNextWindow
  <2>1. gate[r] \in Nat
    BY PartTypes DEF CoreInv, HandlerTypes
  <2> QED
    BY <2>1, DayRetry, MonthRetry
<1> QED
  BY <1>1, CoreInvariant, PTL

-----------------------------------------------------------------------------
(* The books, with the requests that are between two entries counted in.    *)
Among(f, S) == {r \in Requests : f[r] \in S}
Number(f, S) == Cardinality(Among(f, S))

Busy == {"gate", "month", "day", "monthDenied", "dayDenied", "body", "check", "blocked",
         "record", "notify", "answer", "untracked", "forward", "stream", "close", "done"}
BlockPath == {"record", "notify", "answer"}
Charging == {"log", "start", "sum", "now", "spend", "complete"}

BooksInv ==
  /\ active = Number(pc, Busy)
  /\ events["complete"] + Number(cost, Charging) = requests
  /\ events["loop_blocked"] + Number(pc, BlockPath) = loopBlocks
  /\ requests + Number(pc, {"stream"}) = forwarded
  /\ actual + Number(cost, {"log"}) <= requests
  /\ blocked + Number(pc, {"record"}) <= loopBlocks
  /\ actual + blocked + lost + Number(cost, {"log"}) + Number(pc, {"record"})
       = requests + loopBlocks

One(x, S) == IF x \in S THEN 1 ELSE 0

(* Moving one request changes the number of requests at a place by one at   *)
(* most.                                                                    *)
LEMMA CountMoves ==
  ASSUME NEW f, NEW g, NEW S, NEW r \in Requests,
         \A q \in Requests : q # r => g[q] = f[q]
  PROVE  /\ Number(f, S) \in Nat /\ Number(g, S) \in Nat
         /\ Number(g, S) = Number(f, S) + One(g[r], S) - One(f[r], S)
<1> DEFINE A == Among(f, S)
           C == Among(g, S)
           U == A \ {r}
<1>1. IsFiniteSet(A) /\ IsFiniteSet(C)
  BY HandlerAssumption, FS_Subset DEF Among
<1>2. U = C \ {r}
  BY DEF Among
<1>3. Cardinality(A) \in Nat /\ Cardinality(C) \in Nat
  BY <1>1, FS_CardinalityType
<1>4. Cardinality(U) = IF r \in A THEN Cardinality(A) - 1 ELSE Cardinality(A)
  BY <1>1, FS_RemoveElement
<1>5. Cardinality(U) = IF r \in C THEN Cardinality(C) - 1 ELSE Cardinality(C)
  BY <1>1, <1>2, FS_RemoveElement
<1>6. (r \in A <=> f[r] \in S) /\ (r \in C <=> g[r] \in S)
  BY DEF Among
<1> HIDE DEF U, A, C
<1>7. Cardinality(C) = Cardinality(A) + One(g[r], S) - One(f[r], S)
  BY <1>3, <1>4, <1>5, <1>6 DEF One
<1> QED
  BY <1>3, <1>7 DEF Number, A, C

(* What a step of r enters into the books: each line is about r alone. *)
Entered(r) ==
  /\ active' = active + One(pc'[r], Busy) - One(pc[r], Busy)
  /\ events'["complete"] + One(cost'[r], Charging) + requests
       = events["complete"] + One(cost[r], Charging) + requests'
  /\ events'["loop_blocked"] + One(pc'[r], BlockPath) + loopBlocks
       = events["loop_blocked"] + One(pc[r], BlockPath) + loopBlocks'
  /\ requests' + One(pc'[r], {"stream"}) + forwarded
       = requests + One(pc[r], {"stream"}) + forwarded'
  /\ actual' + One(cost'[r], {"log"}) + requests <= actual + One(cost[r], {"log"}) + requests'
  /\ blocked' + One(pc'[r], {"record"}) + loopBlocks
       <= blocked + One(pc[r], {"record"}) + loopBlocks'
  /\ actual' + blocked' + lost' + One(cost'[r], {"log"}) + One(pc'[r], {"record"})
       + requests + loopBlocks
       = actual + blocked + lost + One(cost[r], {"log"}) + One(pc[r], {"record"})
         + requests' + loopBlocks'

LEMMA BookTypes ==
  ASSUME CoreInv
  PROVE  /\ actual \in Nat /\ blocked \in Nat /\ lost \in Nat /\ loopBlocks \in Nat
         /\ forwarded \in Nat /\ requests \in Nat /\ active \in Int
         /\ events["complete"] \in Nat /\ events["loop_blocked"] \in Nat
BY PartTypes DEF CoreInv, HandlerTypes, EventTypes

(* A published total and what is under way go on adding up to a counter. *)
LEMMA StaysEqual ==
  ASSUME NEW e \in Nat, NEW n \in Int, NEW t \in Nat, e + n = t,
         NEW e1 \in Nat, NEW n1 \in Int, NEW t1 \in Nat, NEW x \in Int, NEW x1 \in Int,
         e1 + x1 + t = e + x + t1, n1 = n + x1 - x
  PROVE  e1 + n1 = t1
OBVIOUS

(* Such entries keep the books. *)
LEMMA EntriesAddUp ==
  ASSUME CoreInv, CoreInv', BooksInv, NEW r \in Requests, Entered(r),
         \A q \in Requests : q # r => pc'[q] = pc[q] /\ cost'[q] = cost[q]
  PROVE  BooksInv'
<1>1. /\ actual \in Nat /\ blocked \in Nat /\ lost \in Nat /\ loopBlocks \in Nat
      /\ forwarded \in Nat /\ requests \in Nat /\ active \in Int
      /\ events["complete"] \in Nat /\ events["loop_blocked"] \in Nat
  BY BookTypes
<1>2. /\ actual' \in Nat /\ blocked' \in Nat /\ lost' \in Nat /\ loopBlocks' \in Nat
      /\ forwarded' \in Nat /\ requests' \in Nat /\ active' \in Int
      /\ events'["complete"] \in Nat /\ events'["loop_blocked"] \in Nat
  <2>1. requests' \in 0..MaxArrivals
    BY DEF CoreInv, BP!TypeOK
  <2> QED
    BY <2>1, HandlerAssumption DEF CoreInv, HandlerTypes, EventTypes
<1>3. ASSUME NEW S
      PROVE  /\ Number(pc, S) \in Nat /\ Number(pc', S) \in Nat
             /\ Number(pc', S) = Number(pc, S) + One(pc'[r], S) - One(pc[r], S)
  BY CountMoves
<1>4. ASSUME NEW S
      PROVE  /\ Number(cost, S) \in Nat /\ Number(cost', S) \in Nat
             /\ Number(cost', S) = Number(cost, S) + One(cost'[r], S) - One(cost[r], S)
  BY CountMoves
<1>5. \A x, S : One(x, S) \in Int
  BY DEF One
<1>6. active' = Number(pc', Busy)
  BY <1>1, <1>2, <1>3, <1>5 DEF Entered, BooksInv
<1>7. events'["complete"] + Number(cost', Charging) = requests'
  <2>1. PICK n \in Int, n1 \in Int, x \in Int, x1 \in Int :
          /\ n = Number(cost, Charging) /\ n1 = Number(cost', Charging)
          /\ x = One(cost[r], Charging) /\ x1 = One(cost'[r], Charging)
          /\ n1 = n + x1 - x
    BY <1>4, <1>5
  <2>2. PICK e \in Nat, e1 \in Nat, t \in Nat, t1 \in Nat :
          /\ e = events["complete"] /\ e1 = events'["complete"]
          /\ t = requests /\ t1 = requests'
    BY <1>1, <1>2
  <2>3. e + n = t /\ e1 + x1 + t = e + x + t1 /\ n1 = n + x1 - x
    BY <2>1, <2>2 DEF BooksInv, Entered
  <2>4. e1 + n1 = t1
    BY <2>3, StaysEqual
  <2> QED
    BY <2>1, <2>2, <2>4
<1>8. events'["loop_blocked"] + Number(pc', BlockPath) = loopBlocks'
  <2>1. PICK n \in Int, n1 \in Int, x \in Int, x1 \in Int :
          /\ n = Number(pc, BlockPath) /\ n1 = Number(pc', BlockPath)
          /\ x = One(pc[r], BlockPath) /\ x1 = One(pc'[r], BlockPath)
          /\ n1 = n + x1 - x
    BY <1>3, <1>5
  <2>2. PICK e \in Nat, e1 \in Nat, t \in Nat, t1 \in Nat :
          /\ e = events["loop_blocked"] /\ e1 = events'["loop_blocked"]
          /\ t = loopBlocks /\ t1 = loopBlocks'
    BY <1>1, <1>2
  <2>3. e + n = t /\ e1 + x1 + t = e + x + t1 /\ n1 = n + x1 - x
    BY <2>1, <2>2 DEF BooksInv, Entered
  <2>4. e1 + n1 = t1
    BY <2>3, StaysEqual
  <2> QED
    BY <2>1, <2>2, <2>4
<1>9. requests' + Number(pc', {"stream"}) = forwarded'
  <2> DEFINE n  == Number(pc, {"stream"})
             n1 == Number(pc', {"stream"})
             x  == One(pc[r], {"stream"})
             x1 == One(pc'[r], {"stream"})
  <2>1. n \in Nat /\ n1 \in Nat /\ n1 = n + x1 - x /\ x \in Int /\ x1 \in Int
    BY <1>3, <1>5
  <2>2. requests + n = forwarded /\ requests' + x1 + forwarded = requests + x + forwarded'
    BY DEF BooksInv, Entered
  <2> HIDE DEF n, n1, x, x1
  <2>3. requests' + n1 = forwarded'
    BY <1>1, <1>2, <2>1, <2>2
  <2> QED
    BY <2>3 DEF n1
<1>10. actual' + Number(cost', {"log"}) <= requests'
  BY <1>1, <1>2, <1>4, <1>5 DEF Entered, BooksInv
<1>11. blocked' + Number(pc', {"record"}) <= loopBlocks'
  BY <1>1, <1>2, <1>3, <1>5 DEF Entered, BooksInv
<1>12. actual' + blocked' + lost' + Number(cost', {"log"}) + Number(pc', {"record"})
        = requests' + loopBlocks'
  <2> DEFINE n  == Number(cost, {"log"})
             m  == Number(pc, {"record"})
             n1 == Number(cost', {"log"})
             m1 == Number(pc', {"record"})
             x  == One(cost[r], {"log"})
             y  == One(pc[r], {"record"})
             x1 == One(cost'[r], {"log"})
             y1 == One(pc'[r], {"record"})
  <2>1. n \in Nat /\ n1 \in Nat /\ n1 = n + x1 - x /\ x \in Int /\ x1 \in Int
    BY <1>4, <1>5
  <2>2. m \in Nat /\ m1 \in Nat /\ m1 = m + y1 - y /\ y \in Int /\ y1 \in Int
    BY <1>3, <1>5
  <2>3. actual + blocked + lost + n + m = requests + loopBlocks
    BY DEF BooksInv
  <2>4. actual' + blocked' + lost' + x1 + y1 + requests + loopBlocks
          = actual + blocked + lost + x + y + requests' + loopBlocks'
    BY DEF Entered
  <2> HIDE DEF n, m, n1, m1, x, y, x1, y1
  <2>5. actual' + blocked' + lost' + n1 + m1 = requests' + loopBlocks'
    BY <1>1, <1>2, <2>1, <2>2, <2>3, <2>4
  <2> QED
    BY <2>5 DEF n1, m1
<1> QED
  BY <1>6, <1>7, <1>8, <1>9, <1>10, <1>11, <1>12 DEF BooksInv, Number, Among

(* A request that moves on without an entry. *)
LEMMA NoEntry ==
  ASSUME CoreInv, NEW r \in Requests, cost'[r] = cost[r],
         UNCHANGED <<active, requests, events, loopBlocks, forwarded, actual, blocked, lost>>,
         \A S \in {Busy, BlockPath, {"stream"}, {"record"}} : One(pc'[r], S) = One(pc[r], S)
  PROVE  Entered(r)
<1>1. \A x, S : One(x, S) \in Int
  BY DEF One
<1> QED
  BY <1>1, BookTypes DEF Entered

(* A request that returns from a place where nothing is left to enter. *)
LEMMA ReturnEntered ==
  ASSUME CoreInv, NEW r \in Requests, Return(r), cost' = cost,
         pc[r] \in Busy \ (BlockPath \cup {"stream"}),
         UNCHANGED <<requests, loopBlocks, actual, blocked, lost, forwarded>>,
         events'["complete"] = events["complete"],
         events'["loop_blocked"] = events["loop_blocked"]
  PROVE  Entered(r)
<1>1. pc'[r] = "idle" /\ active' = active - 1
  BY DEF Return, CoreInv, HandlerTypes
<1>2. /\ One(pc[r], Busy) = 1 /\ One(pc'[r], Busy) = 0
      /\ One(pc[r], BlockPath) = 0 /\ One(pc'[r], BlockPath) = 0
      /\ One(pc[r], {"stream"}) = 0 /\ One(pc'[r], {"stream"}) = 0
      /\ One(pc[r], {"record"}) = 0 /\ One(pc'[r], {"record"}) = 0
  BY <1>1 DEF One, Busy, BlockPath
<1>3. One(cost[r], Charging) \in Int /\ One(cost[r], {"log"}) \in Int
  BY DEF One
<1> QED
  BY <1>1, <1>2, <1>3, BookTypes DEF Entered

(* The step that ends the body starts its accounting. *)
LEMMA FinalizeEntered ==
  ASSUME CoreInv, NEW r \in Requests, NEW c \in Costs, Finalize(r, c),
         UNCHANGED <<active, events, loopBlocks, forwarded, actual, blocked, lost>>,
         \/ pc[r] = "stream" /\ pc'[r] \in {"close", "done"}
         \/ pc[r] = "close" /\ pc'[r] = "done"
  PROVE  Entered(r)
<1>1. CASE pc[r] = "stream" /\ pc'[r] \in {"close", "done"}
  <2>1. ~finalized[r]
    BY <1>1 DEF CoreInv, Shapes, RequestShape
  <2>2. cost[r] = "idle" /\ cost'[r] = "log" /\ requests' = requests + 1
    BY <2>1, PartTypes DEF Finalize, B!OnCost, B!Goto
  <2>3. /\ One(pc[r], Busy) = 1 /\ One(pc'[r], Busy) = 1
        /\ One(pc[r], BlockPath) = 0 /\ One(pc'[r], BlockPath) = 0
        /\ One(pc[r], {"stream"}) = 1 /\ One(pc'[r], {"stream"}) = 0
        /\ One(pc[r], {"record"}) = 0 /\ One(pc'[r], {"record"}) = 0
    BY <1>1 DEF One, Busy, BlockPath
  <2>4. /\ One(cost[r], Charging) = 0 /\ One(cost'[r], Charging) = 1
        /\ One(cost[r], {"log"}) = 0 /\ One(cost'[r], {"log"}) = 1
    BY <2>2 DEF One, Charging
  <2> QED
    BY <2>2, <2>3, <2>4, BookTypes DEF Entered
<1>2. CASE pc[r] = "close" /\ pc'[r] = "done"
  <2>1. finalized[r]
    BY <1>2 DEF CoreInv, Shapes, RequestShape
  <2>2. cost'[r] = cost[r] /\ requests' = requests
    BY <2>1 DEF Finalize, costVars
  <2> QED
    BY <1>2, <2>2, NoEntry DEF One, Busy, BlockPath
<1> QED
  BY <1>1, <1>2

LEMMA RequestEntered ==
  ASSUME CoreInv, NEW r \in Requests, RequestStep(r)
  PROVE  Entered(r)
<1> USE DEF detectorVars, costVars, storeVars, meterVars, localVars, historyVars
<1>0. /\ pc \in [Requests -> Places] /\ cost \in [Requests -> B!Steps] /\ RequestShape(r)
      /\ events \in [EventTypes -> Nat]
      /\ EventTypes = {"complete", "loop_blocked", "budget_exceeded"}
  BY PartTypes DEF CoreInv, HandlerTypes, Shapes, EventTypes
<1>1. ASSUME NEW i \in Inputs, Arrive(r, i) PROVE Entered(r)
  <2>1. pc[r] = "idle" /\ pc'[r] \in {"untracked", "body", "gate"} /\ active' = active + 1
        /\ UNCHANGED <<cost, requests, events, loopBlocks, forwarded, actual, blocked, lost>>
    BY <1>0, <1>1 DEF Arrive, Goto, AfterFastPath
  <2>2. /\ One(pc[r], Busy) = 0 /\ One(pc'[r], Busy) = 1
        /\ One(pc[r], BlockPath) = 0 /\ One(pc'[r], BlockPath) = 0
        /\ One(pc[r], {"stream"}) = 0 /\ One(pc'[r], {"stream"}) = 0
        /\ One(pc[r], {"record"}) = 0 /\ One(pc'[r], {"record"}) = 0
    BY <2>1 DEF One, Busy, BlockPath
  <2>3. One(cost[r], Charging) \in Int /\ One(cost[r], {"log"}) \in Int
    BY DEF One
  <2> QED
    BY <2>1, <2>2, <2>3, BookTypes DEF Entered
<1>2. CASE Deny(r)
  <2>1. CASE WriteBudgetExceeded(r)
    <3>1. /\ pc[r] \in Busy \ (BlockPath \cup {"stream"}) /\ Return(r) /\ cost' = cost
          /\ UNCHANGED <<requests, loopBlocks, actual, blocked, lost, forwarded>>
      BY <2>1 DEF WriteBudgetExceeded, Busy, BlockPath
    <3>2. /\ events'["complete"] = events["complete"]
          /\ events'["loop_blocked"] = events["loop_blocked"]
      BY <1>0, <2>1 DEF WriteBudgetExceeded, Publish
    <3> QED
      BY <3>1, <3>2, ReturnEntered
  <2>2. CASE GateTime(r) \/ GateMonth(r) \/ GateDay(r)
    <3>1. /\ pc[r] \in Gated /\ pc'[r] \in Gated \cup {"body"} /\ cost' = cost
          /\ UNCHANGED <<active, requests, events, loopBlocks, forwarded, actual, blocked, lost>>
      BY <1>0, <2>2 DEF GateTime, GateMonth, GateDay, Goto, Gated
    <3> QED
      BY <3>1, NoEntry DEF One, Busy, BlockPath, Gated
  <2> QED
    BY <1>2, <2>1, <2>2 DEF Deny
<1>3. CASE Block(r)
  <2>1. CASE ReadBody(r) \/ CheckLoop(r)
    <3>1. /\ pc[r] \in {"body", "check"}
          /\ pc'[r] \in {"untracked", "check", "blocked", "forward"} /\ cost' = cost
          /\ UNCHANGED <<active, requests, events, loopBlocks, forwarded, actual, blocked, lost>>
      BY <1>0, <2>1 DEF ReadBody, CheckLoop, Goto
    <3> QED
      BY <3>1, NoEntry DEF One, Busy, BlockPath
  <2>2. CASE NotifyLoop(r)
    <3>1. /\ pc[r] = "notify" /\ pc'[r] = "answer" /\ cost' = cost
          /\ UNCHANGED <<active, requests, events, loopBlocks, forwarded, actual, blocked, lost>>
      BY <1>0, <2>2 DEF NotifyLoop, Goto
    <3> QED
      BY <3>1, NoEntry DEF One, Busy, BlockPath
  <2>3. CASE RequestTooLarge(r)
    <3>1. /\ pc[r] \in Busy \ (BlockPath \cup {"stream"}) /\ Return(r) /\ cost' = cost
          /\ UNCHANGED <<requests, loopBlocks, actual, blocked, lost, forwarded, events>>
      BY <2>3 DEF RequestTooLarge, Busy, BlockPath
    <3> QED
      BY <3>1, ReturnEntered
  <2>4. CASE MarkLoopBlocked(r)
    <3>1. /\ pc[r] = "blocked" /\ pc'[r] = "record" /\ loopBlocks' = loopBlocks + 1
          /\ UNCHANGED <<active, cost, requests, events, forwarded, actual, blocked, lost>>
      BY <1>0, <2>4 DEF MarkLoopBlocked, Goto
    <3>2. /\ One(pc[r], Busy) = 1 /\ One(pc'[r], Busy) = 1
          /\ One(pc[r], BlockPath) = 0 /\ One(pc'[r], BlockPath) = 1
          /\ One(pc[r], {"stream"}) = 0 /\ One(pc'[r], {"stream"}) = 0
          /\ One(pc[r], {"record"}) = 0 /\ One(pc'[r], {"record"}) = 1
      BY <3>1 DEF One, Busy, BlockPath
    <3>3. One(cost[r], Charging) \in Int /\ One(cost[r], {"log"}) \in Int
      BY DEF One
    <3>4. PICK s \in Int, q \in Nat, l \in Nat :
            /\ s = actual + blocked + lost + One(cost[r], {"log"})
            /\ q = requests /\ l = loopBlocks
      <4>1. /\ actual + blocked + lost + One(cost[r], {"log"}) \in Int
            /\ requests \in Nat /\ loopBlocks \in Nat
        BY <3>3, BookTypes
      <4> QED
        BY <4>1, Zenon
    <3>5. s + 1 + q + l = s + 0 + q + (l + 1)
      OBVIOUS
    <3>6. actual' + blocked' + lost' + One(cost'[r], {"log"}) + One(pc'[r], {"record"})
            + requests + loopBlocks
            = actual + blocked + lost + One(cost[r], {"log"}) + One(pc[r], {"record"})
              + requests' + loopBlocks'
      BY <3>1, <3>2, <3>4, <3>5
    <3> QED
      BY <3>1, <3>2, <3>3, <3>6, BookTypes DEF Entered
  <2>5. CASE LogBlocked(r)
    <3>1. /\ pc[r] = "record" /\ pc'[r] = "notify"
          /\ \/ blocked' = blocked + 1 /\ lost' = lost
             \/ blocked' = blocked /\ lost' = lost + 1
          /\ UNCHANGED <<active, cost, requests, events, loopBlocks, forwarded, actual>>
      BY <1>0, <2>5 DEF LogBlocked, Goto
    <3>2. /\ One(pc[r], Busy) = 1 /\ One(pc'[r], Busy) = 1
          /\ One(pc[r], BlockPath) = 1 /\ One(pc'[r], BlockPath) = 1
          /\ One(pc[r], {"stream"}) = 0 /\ One(pc'[r], {"stream"}) = 0
          /\ One(pc[r], {"record"}) = 1 /\ One(pc'[r], {"record"}) = 0
      BY <3>1 DEF One, Busy, BlockPath
    <3>3. One(cost[r], Charging) \in Int /\ One(cost[r], {"log"}) \in Int
      BY DEF One
    <3> QED
      BY <3>1, <3>2, <3>3, BookTypes DEF Entered
  <2>6. CASE WriteLoopBlocked(r)
    <3>1. /\ pc[r] = "answer" /\ pc'[r] = "idle" /\ active' = active - 1
          /\ UNCHANGED <<cost, requests, loopBlocks, forwarded, actual, blocked, lost>>
      BY <1>0, <2>6 DEF WriteLoopBlocked, Return
    <3>2. /\ events'["loop_blocked"] = events["loop_blocked"] + 1
          /\ events'["complete"] = events["complete"]
      BY <1>0, <2>6 DEF WriteLoopBlocked, Publish
    <3>3. /\ One(pc[r], Busy) = 1 /\ One(pc'[r], Busy) = 0
          /\ One(pc[r], BlockPath) = 1 /\ One(pc'[r], BlockPath) = 0
          /\ One(pc[r], {"stream"}) = 0 /\ One(pc'[r], {"stream"}) = 0
          /\ One(pc[r], {"record"}) = 0 /\ One(pc'[r], {"record"}) = 0
      BY <3>1 DEF One, Busy, BlockPath
    <3>4. One(cost[r], Charging) \in Int /\ One(cost[r], {"log"}) \in Int
      BY DEF One
    <3> QED
      BY <3>1, <3>2, <3>3, <3>4, BookTypes DEF Entered
  <2> QED
    BY <1>3, <2>1, <2>2, <2>3, <2>4, <2>5, <2>6 DEF Block
<1>4. CASE Account(r)
  <2>1. CASE LogActual(r)
    <3>1. /\ cost[r] = "log" /\ cost'[r] = "start" /\ pc' = pc
          /\ \/ actual' = actual + 1 /\ lost' = lost
             \/ actual' = actual /\ lost' = lost + 1
          /\ UNCHANGED <<active, requests, events, loopBlocks, forwarded, blocked>>
      BY <1>0, <2>1 DEF LogActual, B!WriteRow, B!LoseRow, B!Goto
    <3>2. /\ One(cost[r], Charging) = 1 /\ One(cost'[r], Charging) = 1
          /\ One(cost[r], {"log"}) = 1 /\ One(cost'[r], {"log"}) = 0
      BY <3>1 DEF One, Charging
    <3>3. \A S : One(pc[r], S) \in Int
      BY DEF One
    <3> QED
      BY <3>1, <3>2, <3>3, BookTypes DEF Entered
  <2>2. CASE CheckBudget(r)
    <3>1. /\ cost[r] \in {"start", "sum", "now", "spend"}
          /\ cost'[r] \in {"sum", "now", "spend", "complete"} /\ pc' = pc
          /\ UNCHANGED <<active, requests, events, loopBlocks, forwarded, actual, blocked, lost>>
      BY <1>0, <2>2 DEF CheckBudget, B!CheckBudget, B!ReadDayStart, B!SumActualCost,
                        B!ReadNow, B!Spend, B!Goto
    <3>2. /\ One(cost[r], Charging) = 1 /\ One(cost'[r], Charging) = 1
          /\ One(cost[r], {"log"}) = 0 /\ One(cost'[r], {"log"}) = 0
      BY <3>1 DEF One, Charging
    <3>3. \A S : One(pc[r], S) \in Int
      BY DEF One
    <3> QED
      BY <3>1, <3>2, <3>3, BookTypes DEF Entered
  <2>3. CASE PublishComplete(r)
    <3>1. /\ cost[r] = "complete" /\ cost'[r] = "idle" /\ pc' = pc
          /\ UNCHANGED <<active, requests, loopBlocks, forwarded, actual, blocked, lost>>
      BY <1>0, <2>3 DEF PublishComplete, B!Return, B!Goto
    <3>2. /\ events'["complete"] = events["complete"] + 1
          /\ events'["loop_blocked"] = events["loop_blocked"]
      BY <1>0, <2>3 DEF PublishComplete, Publish
    <3>3. /\ One(cost[r], Charging) = 1 /\ One(cost'[r], Charging) = 0
          /\ One(cost[r], {"log"}) = 0 /\ One(cost'[r], {"log"}) = 0
      BY <3>1 DEF One, Charging
    <3>4. \A S : One(pc[r], S) \in Int
      BY DEF One
    <3> QED
      BY <3>1, <3>2, <3>3, <3>4, BookTypes DEF Entered
  <2>4. CASE ResponseDone(r)
    <3>1. /\ pc[r] \in Busy \ (BlockPath \cup {"stream"}) /\ Return(r) /\ cost' = cost
          /\ UNCHANGED <<requests, loopBlocks, actual, blocked, lost, forwarded, events>>
      BY <2>4 DEF ResponseDone, Busy, BlockPath
    <3> QED
      BY <3>1, ReturnEntered
  <2>5. ASSUME NEW c \in Costs, CloseBody(r, c) PROVE Entered(r)
    <3>1. /\ pc[r] = "close" /\ pc'[r] = "done" /\ Finalize(r, c)
          /\ UNCHANGED <<active, events, loopBlocks, forwarded, actual, blocked, lost>>
      BY <1>0, <2>5 DEF CloseBody, Goto
    <3> QED
      BY <3>1, FinalizeEntered
  <2> QED
    BY <1>4, <2>1, <2>2, <2>3, <2>4, <2>5 DEF Account
<1>5. CASE Upstream(r)
  <2>1. CASE UpstreamFails(r) \/ UntrackedDone(r)
    <3>1. /\ pc[r] \in Busy \ (BlockPath \cup {"stream"}) /\ Return(r) /\ cost' = cost
          /\ UNCHANGED <<requests, loopBlocks, actual, blocked, lost, events, forwarded>>
      BY <2>1 DEF UpstreamFails, UntrackedDone, Busy, BlockPath
    <3> QED
      BY <3>1, ReturnEntered
  <2>2. CASE ModifyResponse(r)
    <3>1. /\ pc[r] = "forward" /\ pc'[r] = "stream" /\ forwarded' = forwarded + 1
          /\ UNCHANGED <<active, cost, requests, events, loopBlocks, actual, blocked, lost>>
      BY <1>0, <2>2 DEF ModifyResponse, Goto
    <3>2. /\ One(pc[r], Busy) = 1 /\ One(pc'[r], Busy) = 1
          /\ One(pc[r], BlockPath) = 0 /\ One(pc'[r], BlockPath) = 0
          /\ One(pc[r], {"stream"}) = 0 /\ One(pc'[r], {"stream"}) = 1
          /\ One(pc[r], {"record"}) = 0 /\ One(pc'[r], {"record"}) = 0
      BY <3>1 DEF One, Busy, BlockPath
    <3>3. One(cost[r], Charging) \in Int /\ One(cost[r], {"log"}) \in Int
      BY DEF One
    <3> QED
      BY <3>1, <3>2, <3>3, BookTypes DEF Entered
  <2>3. ASSUME NEW c \in Costs, EndOfStream(r, c) \/ CopyAborted(r, c) PROVE Entered(r)
    <3>1. /\ pc[r] = "stream" /\ pc'[r] \in {"close", "done"} /\ Finalize(r, c)
          /\ UNCHANGED <<active, events, loopBlocks, forwarded, actual, blocked, lost>>
      BY <1>0, <2>3 DEF EndOfStream, CopyAborted, Goto
    <3> QED
      BY <3>1, FinalizeEntered
  <2> QED
    BY <1>5, <2>1, <2>2, <2>3 DEF Upstream
<1> QED
  BY <1>1, <1>2, <1>3, <1>4, <1>5 DEF RequestStep

(* Steps of no request leave the books alone. *)
LEMMA NoRequestStep ==
  ASSUME [Next]_vars, \A r \in Requests : ~RequestStep(r)
  PROVE  UNCHANGED <<costVars, storeVars, meterVars, pc, localVars, forwarded, notices,
                     events, lost>>
<1> USE DEF historyVars
<1>1. CASE Unauthorized
  BY <1>1 DEF Unauthorized
<1>2. ASSUME NEW a \in Agents, DeleteHistory(a)
      PROVE  UNCHANGED <<costVars, storeVars, meterVars, pc, localVars, forwarded, notices,
                         events, lost>>
  BY <1>2 DEF DeleteHistory
<1>3. CASE PollMetrics \/ Tick
  BY <1>3 DEF PollMetrics, Tick
<1>4. CASE UNCHANGED vars
  BY <1>4 DEF vars
<1> QED
  BY <1>1, <1>2, <1>3, <1>4 DEF Next, RequestStep

LEMMA StepBooks == CoreInv /\ CoreInv' /\ BooksInv /\ [Next]_vars => BooksInv'
<1> SUFFICES ASSUME CoreInv, CoreInv', BooksInv, [Next]_vars PROVE BooksInv'
  OBVIOUS
<1>1. ASSUME NEW r \in Requests, RequestStep(r) PROVE BooksInv'
  <2>1. \A q \in Requests : q # r => pc'[q] = pc[q] /\ cost'[q] = cost[q]
    BY <1>1, OthersStand DEF SameLocals
  <2> QED
    BY <1>1, <2>1, RequestEntered, EntriesAddUp
<1>2. CASE \A r \in Requests : ~RequestStep(r)
  <2>1. UNCHANGED <<active, requests, loopBlocks, forwarded, actual, blocked, lost, events, pc, cost>>
    BY <1>2, NoRequestStep DEF costVars, storeVars, meterVars
  <2> QED
    BY <2>1 DEF BooksInv, Number, Among
<1> QED
  BY <1>1, <1>2

LEMMA NobodyAmong ==
  ASSUME NEW f, NEW S, \A r \in Requests : f[r] \notin S
  PROVE  Number(f, S) = 0
BY FS_EmptySet DEF Number, Among

LEMMA InitBooks == Init => BooksInv
<1> SUFFICES ASSUME Init PROVE BooksInv
  OBVIOUS
<1>1. \A r \in Requests : pc[r] = "idle" /\ cost[r] = "idle"
  BY DEF Init, B!Init
<1>2. /\ Number(pc, Busy) = 0 /\ Number(pc, BlockPath) = 0 /\ Number(pc, {"stream"}) = 0
      /\ Number(pc, {"record"}) = 0 /\ Number(cost, Charging) = 0
      /\ Number(cost, {"log"}) = 0
  BY <1>1, NobodyAmong DEF Busy, BlockPath, Charging
<1>3. requests = 0 /\ events["complete"] = 0 /\ events["loop_blocked"] = 0
  BY DEF Init, B!Init, EventTypes
<1> QED
  BY <1>2, <1>3 DEF Init, BooksInv

LEMMA QuietBooks == CoreInv /\ BooksInv => BooksBalance
<1> SUFFICES ASSUME CoreInv, BooksInv, Quiescent
             PROVE  /\ active = 0
                    /\ requests = forwarded
                    /\ events["complete"] = requests
                    /\ events["loop_blocked"] = loopBlocks
                    /\ actual <= requests /\ blocked <= loopBlocks
                    /\ actual + blocked + lost = requests + loopBlocks
  BY DEF BooksBalance
<1>1. \A r \in Requests : pc[r] = "idle" /\ cost[r] = "idle"
  BY DEF Quiescent, CoreInv, Shapes, RequestShape
<1>2. /\ Number(pc, Busy) = 0 /\ Number(pc, BlockPath) = 0 /\ Number(pc, {"stream"}) = 0
      /\ Number(pc, {"record"}) = 0 /\ Number(cost, Charging) = 0
      /\ Number(cost, {"log"}) = 0
  BY <1>1, NobodyAmong DEF Busy, BlockPath, Charging
<1>3. actual + blocked + lost + 0 + 0 = requests + loopBlocks
  BY <1>2 DEF BooksInv
<1>4. actual + blocked + lost = requests + loopBlocks
  BY <1>3, BookTypes
<1> QED
  BY <1>2, <1>4, BookTypes DEF BooksInv

(* Whatever the goroutines do, in whatever order, and whichever rows are    *)
(* lost: once the proxy is idle its gauge is zero, every tracked response   *)
(* was accounted once, and counters, live events and rows agree.            *)
THEOREM BooksAlwaysBalance == Spec => []BooksBalance
<1>1. Init => BooksInv
  BY InitBooks
<1>2. CoreInv /\ CoreInv' /\ BooksInv /\ [Next]_vars => BooksInv'
  BY StepBooks
<1> QED
  BY <1>1, <1>2, QuietBooks, CoreInvariant, PTL DEF Spec

(* The variables of the request path and of its parts keep their types; in  *)
(* particular markDone never takes the gauge of active requests below zero. *)
THEOREM TypeCorrect == Spec => []TypeOK
<1>1. CoreInv /\ BooksInv => TypeOK
  <2> SUFFICES ASSUME CoreInv, BooksInv PROVE TypeOK
    OBVIOUS
  <2>1. D!TypeOK /\ B!TypeOK
    BY SameDetector, SameBudget DEF CoreInv, DP!DetectorInv
  <2>2. active \in 0..Cardinality(Requests)
    <3>1. Among(pc, Busy) \in SUBSET Requests
      BY DEF Among
    <3>2. IsFiniteSet(Among(pc, Busy)) /\ Number(pc, Busy) <= Cardinality(Requests)
      BY <3>1, HandlerAssumption, FS_Subset DEF Number
    <3>3. Number(pc, Busy) \in Nat /\ Cardinality(Requests) \in Nat
      BY <3>2, HandlerAssumption, FS_CardinalityType DEF Number
    <3> QED
      BY <3>2, <3>3 DEF BooksInv
  <2> QED
    BY <2>1, <2>2 DEF TypeOK, CoreInv, HandlerTypes
<1> QED
  BY <1>1, InitBooks, StepBooks, CoreInvariant, PTL DEF Spec
-----------------------------------------------------------------------------
(* An incident whose notification is still due is carried by the request    *)
(* that was told FirstBlock, until it has notified.                         *)
Carries(r, k) == Key(r) = k /\ res[r].first /\ pc[r] \in {"blocked", "record", "notify"}

IncidentInv ==
  \A k \in DOMAIN seen :
    seen[k].blockedAt # D!ZeroTime => notices[k] >= 1 \/ \E r \in Requests : Carries(r, k)

(* A request that carries an incident goes on carrying it, or notifies. *)
LEMMA CarriedOn ==
  ASSUME CoreInv, [Next]_vars, NEW k \in Agents \X Fps, NEW r \in Requests, Carries(r, k)
  PROVE  Carries(r, k)' \/ notices'[k] >= 1
<1> USE DEF detectorVars, costVars, storeVars, meterVars, localVars, historyVars
<1>0. /\ pc \in [Requests -> Places] /\ notices \in [Agents \X Fps -> Nat] /\ cost[r] = "idle"
      /\ pc[r] \in {"blocked", "record", "notify"} /\ Key(r) = k /\ res[r].first
  BY DEF CoreInv, HandlerTypes, Shapes, RequestShape, Carries
<1>1. CASE SameLocals(r)
  BY <1>1 DEF SameLocals, Carries, Key
<1>2. CASE RequestStep(r)
  <2>1. CASE MarkLoopBlocked(r) \/ LogBlocked(r)
    <3>1. pc'[r] \in {"record", "notify"} /\ req' = req /\ res' = res
      BY <1>0, <2>1 DEF MarkLoopBlocked, LogBlocked, Goto
    <3> QED
      BY <1>0, <3>1 DEF Carries, Key
  <2>2. CASE NotifyLoop(r)
    <3>1. notices' = [notices EXCEPT ![k] = notices[k] + 1]
      BY <1>0, <2>2 DEF NotifyLoop
    <3> QED
      BY <1>0, <3>1
  <2>3. ASSUME NEW i \in Inputs PROVE ~Arrive(r, i)
    BY <1>0 DEF Arrive, Goto
  <2>4. ~Deny(r)
    BY <1>0 DEF Deny, GateTime, GateMonth, GateDay, WriteBudgetExceeded, Goto
  <2>5. ~ReadBody(r) /\ ~RequestTooLarge(r) /\ ~CheckLoop(r) /\ ~WriteLoopBlocked(r)
    BY <1>0 DEF ReadBody, RequestTooLarge, CheckLoop, WriteLoopBlocked, Goto
  <2>6. ~Account(r)
    BY <1>0 DEF Account, LogActual, B!WriteRow, B!LoseRow, CheckBudget, B!CheckBudget,
                B!ReadDayStart, B!SumActualCost, B!ReadNow, B!Spend, PublishComplete,
                B!Return, ResponseDone, CloseBody, Goto
  <2>7. ~Upstream(r)
    BY <1>0 DEF Upstream, UpstreamFails, UntrackedDone, ModifyResponse, EndOfStream,
                CopyAborted, Goto
  <2> QED
    BY <1>2, <2>1, <2>2, <2>3, <2>4, <2>5, <2>6, <2>7 DEF RequestStep, Block
<1>3. CASE \E q \in Requests : RequestStep(q)
  BY <1>1, <1>2, <1>3, OthersStand
<1>4. CASE \A q \in Requests : ~RequestStep(q)
  BY <1>1, <1>4, AllStand DEF SameLocals
<1> QED
  BY <1>3, <1>4

(* Notifications are never taken back. *)
LEMMA NoticesStay ==
  ASSUME CoreInv, [Next]_vars, NEW k \in Agents \X Fps, notices[k] >= 1
  PROVE  notices'[k] >= 1
<1> USE DEF historyVars
<1>0. notices \in [Agents \X Fps -> Nat]
  BY DEF CoreInv, HandlerTypes
<1>1. CASE UNCHANGED notices
  BY <1>1
<1>2. ASSUME NEW r \in Requests, NotifyLoop(r) PROVE notices'[k] >= 1
  <2> DEFINE l == Key(r)
  <2>1. notices' = [notices EXCEPT ![l] = IF res[r].first THEN notices[l] + 1 ELSE notices[l]]
    BY <1>2 DEF NotifyLoop
  <2> HIDE DEF l
  <2> QED
    BY <1>0, <2>1
<1>3. ASSUME NEW r \in Requests, RequestStep(r), ~NotifyLoop(r) PROVE UNCHANGED notices
  <2>1. ASSUME NEW i \in Inputs, Arrive(r, i) PROVE UNCHANGED notices
    BY <2>1 DEF Arrive
  <2>2. CASE Deny(r)
    BY <2>2 DEF Deny, GateTime, GateMonth, GateDay, WriteBudgetExceeded
  <2>3. CASE Block(r)
    BY <1>3, <2>3 DEF Block, ReadBody, RequestTooLarge, CheckLoop, MarkLoopBlocked,
                      LogBlocked, WriteLoopBlocked
  <2>4. CASE Account(r)
    BY <2>4 DEF Account, LogActual, CheckBudget, PublishComplete, ResponseDone, CloseBody
  <2>5. CASE Upstream(r)
    BY <2>5 DEF Upstream, UpstreamFails, UntrackedDone, ModifyResponse, EndOfStream,
                CopyAborted
  <2> QED
    BY <1>3, <2>1, <2>2, <2>3, <2>4, <2>5 DEF RequestStep
<1>4. CASE \A r \in Requests : ~RequestStep(r)
  BY <1>1, <1>4, NoRequestStep
<1> QED
  BY <1>1, <1>2, <1>3, <1>4

(* A block that is new in a window was answered with FirstBlock. *)
LEMMA NewBlockIsFirst ==
  ASSUME CoreInv, [Next]_vars, NEW k \in DOMAIN seen', seen'[k].blockedAt # D!ZeroTime,
         ~(k \in DOMAIN seen /\ seen[k].blockedAt # D!ZeroTime)
  PROVE  \E r \in Requests : Carries(r, k)'
<1>0. \A l \in DOMAIN seen : seen[l] \in [count : Nat \ {0}, expires : Nat,
             blockedAt : Nat \cup {D!ZeroTime}, lastBlock : Nat \cup {D!ZeroTime}]
  BY DEF CoreInv, DP!DetectorInv, DP!TypeOK, DP!Entry, DP!ZeroTime, D!ZeroTime
<1>1. CASE UNCHANGED detectorVars
  BY <1>1 DEF detectorVars
<1>2. ASSUME NEW a \in Agents, DeleteHistory(a) PROVE FALSE
  BY <1>2 DEF DeleteHistory, D!Reset, D!Restricted
<1>3. CASE PollMetrics \/ Tick
  BY <1>3 DEF PollMetrics, Tick, D!SweepAll, D!Restricted, D!LiveKeys, D!Tick
<1>4. ASSUME NEW r \in Requests, CheckLoop(r) PROVE Carries(r, k)'
  <2> DEFINE l == Key(r)
  <2>1. CASE D!OpenWindow(l)
    <3>1. PICK gone : seen' = [m \in (DOMAIN seen \ gone) \cup {l} |->
                                 IF m = l THEN D!NewEntry(now) ELSE seen[m]]
      BY <2>1 DEF D!OpenWindow
    <3>2. D!NewEntry(now).blockedAt = D!ZeroTime
      BY DEF D!NewEntry
    <3> HIDE DEF l
    <3> QED
      BY <3>1, <3>2
  <2>2. CASE D!RepeatSighting(l)
    <3>1. /\ l \in DOMAIN seen
          /\ seen' = [seen EXCEPT ![l] = D!Counted(seen[l])]
          /\ verdict' = D!RepeatVerdict(seen[l])
      BY <2>2 DEF D!RepeatSighting, D!LiveKeys
    <3>2. k = l
      <4> HIDE DEF l
      <4> QED BY <3>1
    <3>3. seen[l].blockedAt = D!ZeroTime /\ D!Counted(seen[l]).blockedAt # D!ZeroTime
      <4> HIDE DEF l
      <4> QED BY <3>1, <3>2
    <3>4. ~(seen[l].count + 1 < limit)
      <4>1. CASE seen[l].count + 1 < limit
        <5>1. limit \in Nat /\ seen[l].count \in Nat
          BY <1>0, <3>1 DEF CoreInv, DP!DetectorInv, DP!TypeOK
        <5> QED
          BY <3>3, <4>1, <5>1 DEF D!Counted
      <4> QED
        BY <4>1
    <3>5. verdict'.first /\ verdict'.block
      BY <3>1, <3>3, <3>4 DEF D!RepeatVerdict
    <3>6. res'[r] = verdict' /\ pc'[r] = "blocked" /\ req' = req
      BY <1>4, <3>5 DEF CheckLoop, Goto, CoreInv, HandlerTypes
    <3> QED
      BY <3>2, <3>5, <3>6 DEF Carries, Key
  <2> QED
    BY <1>4, <2>1, <2>2 DEF CheckLoop, D!Check
<1> QED
  BY <1>1, <1>2, <1>3, <1>4, DetectorSteps

LEMMA StepIncident == CoreInv /\ CoreInv' /\ IncidentInv /\ [Next]_vars => IncidentInv'
<1> SUFFICES ASSUME CoreInv, CoreInv', IncidentInv, [Next]_vars,
                    NEW k \in DOMAIN seen', seen'[k].blockedAt # D!ZeroTime
             PROVE  notices'[k] >= 1 \/ \E r \in Requests : Carries(r, k)'
  BY DEF IncidentInv, D!ZeroTime
<1>1. k \in Agents \X Fps
  BY DEF CoreInv, DP!DetectorInv, DP!TypeOK, DP!Keys
<1>2. CASE k \in DOMAIN seen /\ seen[k].blockedAt # D!ZeroTime
  <2>1. CASE notices[k] >= 1
    BY <1>1, <2>1, NoticesStay
  <2>2. ASSUME NEW r \in Requests, Carries(r, k) PROVE Carries(r, k)' \/ notices'[k] >= 1
    BY <1>1, <2>2, CarriedOn
  <2> QED
    BY <1>2, <2>1, <2>2 DEF IncidentInv
<1>3. CASE ~(k \in DOMAIN seen /\ seen[k].blockedAt # D!ZeroTime)
  BY <1>3, NewBlockIsFirst
<1> QED
  BY <1>2, <1>3

(* An incident is never silent: the request that is told FirstBlock reaches *)
(* its notification whatever fails on the way, so once the proxy is idle    *)
(* every key blocked in an open window has been announced.                  *)
THEOREM IncidentsAreNotified == Spec => []IncidentIsNotified
<1>1. Init => IncidentInv
  BY DEF Init, D!Init, IncidentInv
<1>2. IncidentInv => IncidentIsNotified
  BY DEF IncidentInv, IncidentIsNotified, Quiescent, Carries
<1> QED
  BY <1>1, <1>2, StepIncident, CoreInvariant, PTL DEF Spec
-----------------------------------------------------------------------------
(* A budget window: the days from from until before to, with the places of  *)
(* a request whose gate has still to read its sum (before) and of one that  *)
(* has been let through and can still be charged (after).                   *)
DayWindow(k, d) ==
  [from |-> d, to |-> d + 1, budget |-> CallerDaily[k], before |-> {"month", "day"},
   after |-> {"body", "check", "forward", "stream"}]

MonthWindow(k, d) ==
  [from |-> d, to |-> d + MonthDays, budget |-> CallerMonthly[k], before |-> {"month"},
   after |-> {"day", "body", "check", "forward", "stream"}]

Windows(k) ==
  {DayWindow(k, d) : d \in Days} \cup
  {MonthWindow(k, d) : d \in {e \in Days : MonthStart((e - 1) * DayTicks) = e}}

Inside(d, w) == w.from <= d /\ d < w.to

(* The requests of caller k that can still be charged in w without the gate *)
(* reading w's sum again: those past the gate, those whose gate read the    *)
(* clock before w began, and those whose row is being written.              *)
Pending(r, k, w) ==
  /\ req[r].caller = k
  /\ \/ /\ Inside(Day(now), w)
        /\ pc[r] \in w.after \/ (pc[r] \in w.before /\ Day(gate[r]) < w.from)
     \/ cost[r] = "log" /\ Inside(today[r], w)

Outstanding(k, w) == {r \in Requests : Pending(r, k, w)}

Spent(k, w) == SpentBetween(k, w.from, w.to)

(* No row is stamped in the future, and a row costs at most MaxCost. *)
ChargeInv ==
  /\ \A r \in Requests : cost[r] = "log" => amount[r] \in Costs
  /\ \A k \in Callers, d \in Days : d > Day(now) => keySince[k][d] = 0

(* What is spent, and what may still be charged without another look at the *)
(* sum, stay within the overspend.                                          *)
WindowInv(k, w) ==
  Spent(k, w) + MaxCost * Cardinality(Outstanding(k, w))
    <= w.budget - 1 + MaxCost * Cardinality(Requests)

OverspendInv ==
  /\ ChargeInv
  /\ \A k \in Callers : \A w \in Windows(k) : w.budget > 0 => WindowInv(k, w)

LEMMA WholeDays == Days \subseteq Int
BY DEF Days

LEMMA WindowShape ==
  ASSUME NEW k \in Callers, NEW w \in Windows(k)
  PROVE  /\ w.from \in Days /\ w.from \in Int /\ w.to \in Int /\ w.from < w.to /\ w.budget \in Int
         /\ \/ w = DayWindow(k, w.from)
            \/ w = MonthWindow(k, w.from) /\ MonthStart((w.from - 1) * DayTicks) = w.from
<1>0. Days \subseteq Int /\ MonthDays \in Nat \ {0} /\ CallerDaily[k] \in Int /\ CallerMonthly[k] \in Int
  BY HandlerAssumption DEF Days
<1>1. ASSUME NEW d \in Days, w = DayWindow(k, d)
      PROVE  /\ w.from \in Days /\ w.from \in Int /\ w.to \in Int /\ w.from < w.to /\ w.budget \in Int
             /\ w = DayWindow(k, w.from)
  BY <1>0, <1>1 DEF DayWindow
<1>2. ASSUME NEW d \in Days, MonthStart((d - 1) * DayTicks) = d, w = MonthWindow(k, d)
      PROVE  /\ w.from \in Days /\ w.from \in Int /\ w.to \in Int /\ w.from < w.to /\ w.budget \in Int
             /\ w = MonthWindow(k, w.from) /\ MonthStart((w.from - 1) * DayTicks) = w.from
  BY <1>0, <1>2 DEF MonthWindow
<1> QED
  BY <1>1, <1>2 DEF Windows

LEMMA HighestCost ==
  /\ MaxCost \in Nat
  /\ \A c \in Costs : c \in Int /\ c <= MaxCost
<1>1. \E c \in Costs \cup {0} : \A e \in Costs \cup {0} : e <= c
  BY HandlerAssumption
<1>2. MaxCost \in Costs \cup {0} /\ \A e \in Costs \cup {0} : e <= MaxCost
  BY <1>1 DEF MaxCost
<1> QED
  BY <1>2, HandlerAssumption

LEMMA SpentType ==
  ASSUME NEW k \in Callers, NEW w \in Windows(k),
         keySince \in [Callers \cup {Anonymous} -> [Days -> Int]]
  PROVE  Spent(k, w) \in Int
BY WindowShape DEF Spent, SpentBetween

LEMMA OutstandingSize ==
  ASSUME NEW k, NEW w
  PROVE  /\ IsFiniteSet(Outstanding(k, w)) /\ Cardinality(Outstanding(k, w)) \in Nat
         /\ Cardinality(Outstanding(k, w)) <= Cardinality(Requests)
         /\ Cardinality(Requests) \in Nat
<1>1. Outstanding(k, w) \subseteq Requests
  BY DEF Outstanding
<1> QED
  BY <1>1, HandlerAssumption, FS_Subset, FS_CardinalityType

-----------------------------------------------------------------------------
(* A gate that read the clock inside w, and found the sum not exhausted,    *)
(* has read all that is spent in w.                                         *)
LEMMA GateReadsWindow ==
  ASSUME CoreInv, ChargeInv, NEW k \in Callers, NEW w \in Windows(k), w.budget > 0,
         NEW r \in Requests, req[r].caller = k, Inside(Day(now), w), ~(Day(gate[r]) < w.from),
         \/ w = DayWindow(k, w.from) /\ ~DayExhausted(r)
         \/ w = MonthWindow(k, w.from) /\ ~MonthExhausted(r)
            /\ MonthStart((w.from - 1) * DayTicks) = w.from
  PROVE  Spent(k, w) <= w.budget - 1
<1> DEFINE g == gate[r]
<1>0. /\ g \in Int /\ now \in Int /\ g <= now /\ Day(g) \in Int /\ Day(now) \in Int
      /\ Day(g) <= Day(now) /\ w.from \in Days /\ w.from \in Int /\ w.to \in Int /\ w.budget \in Int
      /\ keySince \in [Callers \cup {Anonymous} -> [Days -> Int]]
  <2>1. gate[r] \in 0..now /\ now \in Nat
    BY PartTypes DEF CoreInv, HandlerTypes
  <2>2. g \in Int /\ now \in Int /\ g <= now
    BY <2>1
  <2> QED
    BY <2>2, DayIsMonotonic, DayBounds, WindowShape DEF CoreInv, HandlerTypes
<1>1. w.from <= Day(g) /\ Day(g) < w.to /\ Day(now) < w.to
  BY <1>0 DEF Inside
<1>2. w.to \in Days => keySince[k][w.to] = 0
  BY <1>0, <1>1 DEF ChargeInv
<1>3. Spent(k, w) = keySince[k][w.from]
  BY <1>0, <1>2 DEF Spent, SpentBetween
<1>4. CASE w = DayWindow(k, w.from) /\ ~DayExhausted(r)
  <2>1. w.to = w.from + 1 /\ w.budget = CallerDaily[k]
    BY <1>4 DEF DayWindow
  <2>2. Day(g) = w.from
    BY <1>0, <1>1, <2>1
  <2>3. ~(keySince[k][w.from] >= w.budget)
    BY <1>4, <2>1, <2>2 DEF DayExhausted, Exhausted
  <2> QED
    BY <1>0, <1>3, <2>3
<1>5. CASE w = MonthWindow(k, w.from) /\ ~MonthExhausted(r)
           /\ MonthStart((w.from - 1) * DayTicks) = w.from
  <2>1. w.to = w.from + MonthDays /\ w.budget = CallerMonthly[k]
    BY <1>5 DEF MonthWindow
  <2>2. MonthStart(g) = w.from
    <3>1. (w.from - 1) * DayTicks \in Int
      BY <1>0, HandlerAssumption
    <3>2. PICK m \in Int : w.from = MonthDays * m + 1
      BY <1>5, <3>1, MonthBounds
    <3>3. MonthDays * m + 1 <= Day(g) /\ Day(g) < MonthDays * m + 1 + MonthDays
      BY <1>1, <2>1, <3>2
    <3> HIDE DEF g
    <3>4. MonthStart(g) = MonthDays * m + 1
      BY <1>0, <3>3, MonthIsUnique
    <3> QED
      BY <3>2, <3>4
  <2>3. ~(keySince[k][w.from] >= w.budget)
    BY <1>5, <2>1, <2>2 DEF MonthExhausted, Exhausted
  <2> QED
    BY <1>0, <1>3, <2>3
<1> QED
  BY <1>4, <1>5

(* Only onCost's write of a row changes a caller's sum. *)
LEMMA OnlyRowsCharge ==
  ASSUME CoreInv, NEW r \in Requests, RequestStep(r)
  PROVE  /\ now' = now
         /\ \/ UNCHANGED keySince
            \/ /\ cost[r] = "log" /\ cost'[r] = "start"
               /\ UNCHANGED <<pc, req, gate>>
               /\ keySince' = [keySince EXCEPT ![req[r].caller] =
                     [d \in Days |-> IF d <= today[r] THEN keySince[req[r].caller][d] + amount[r]
                                     ELSE keySince[req[r].caller][d]]]
<1> USE DEF detectorVars, costVars, storeVars, meterVars, localVars, historyVars
<1>1. ASSUME NEW i \in Inputs, Arrive(r, i) PROVE UNCHANGED <<now, keySince>>
  BY <1>1 DEF Arrive
<1>2. CASE Deny(r)
  BY <1>2 DEF Deny, GateTime, GateMonth, GateDay, WriteBudgetExceeded
<1>3. CASE Block(r)
  <2>1. CASE CheckLoop(r)
    BY <2>1 DEF CheckLoop, D!Check, D!OpenWindow, D!RepeatSighting
  <2> QED
    BY <1>3, <2>1 DEF Block, ReadBody, RequestTooLarge, MarkLoopBlocked, LogBlocked,
                      NotifyLoop, WriteLoopBlocked
<1>4. CASE LogActual(r)
  <2>1. cost \in [Requests -> B!Steps]
    BY PartTypes
  <2> QED
    BY <1>4, <2>1 DEF LogActual, B!WriteRow, B!LoseRow, B!Goto
<1>5. CASE Account(r) /\ ~LogActual(r)
  BY <1>5 DEF Account, CheckBudget, PublishComplete, ResponseDone, CloseBody, Finalize
<1>6. CASE Upstream(r)
  BY <1>6 DEF Upstream, UpstreamFails, UntrackedDone, ModifyResponse, EndOfStream,
              CopyAborted, Finalize
<1> QED
  BY <1>1, <1>2, <1>3, <1>4, <1>5, <1>6 DEF RequestStep

(* The steps after which a request may be charged, gate by gate. *)
LEMMA Admissions ==
  ASSUME CoreInv, "gate" \notin Failures, NEW r \in Requests, RequestStep(r)
  PROVE  /\ req'[r].caller \in Callers
              /\ pc'[r] \in {"month", "day", "body", "check", "forward", "stream"} =>
              /\ UNCHANGED <<req, cost>>
              /\ \/ pc'[r] = "month" /\ gate'[r] = now
                 \/ pc[r] = "month" /\ pc'[r] = "day" /\ gate' = gate /\ ~MonthExhausted(r)
                 \/ pc[r] = "day" /\ pc'[r] = "body" /\ gate' = gate /\ ~DayExhausted(r)
                 \/ /\ pc[r] \in {"body", "check", "forward"}
                    /\ pc'[r] \in {"check", "forward", "stream"}
         /\ cost'[r] = "log" =>
              /\ req' = req
              /\ \/ cost[r] = "log" /\ UNCHANGED <<today, amount>>
                 \/ pc[r] = "stream" /\ today'[r] = Day(now) /\ amount'[r] \in Costs
<1> USE DEF detectorVars, costVars, storeVars, meterVars, localVars, historyVars
<1> DEFINE Open == {"month", "day", "body", "check", "forward", "stream"}
           Move == \/ pc'[r] = "month" /\ gate'[r] = now
                   \/ pc[r] = "month" /\ pc'[r] = "day" /\ gate' = gate /\ ~MonthExhausted(r)
                   \/ pc[r] = "day" /\ pc'[r] = "body" /\ gate' = gate /\ ~DayExhausted(r)
                   \/ /\ pc[r] \in {"body", "check", "forward"}
                      /\ pc'[r] \in {"check", "forward", "stream"}
           Admit == req'[r].caller \in Callers /\ pc'[r] \in Open => UNCHANGED <<req, cost>> /\ Move
           Charge == cost'[r] = "log" =>
              /\ req' = req
              /\ \/ cost[r] = "log" /\ UNCHANGED <<today, amount>>
                 \/ pc[r] = "stream" /\ today'[r] = Day(now) /\ amount'[r] \in Costs
<1>0. /\ pc \in [Requests -> Places] /\ cost \in [Requests -> B!Steps]
      /\ req \in [Requests -> Inputs \cup {NoRequest}]
      /\ gate \in [Requests -> 0..now] /\ RequestShape(r)
      /\ today \in [Requests -> 1..Day(now)] /\ amount \in [Requests -> Int]
  BY PartTypes DEF CoreInv, HandlerTypes, Shapes
<1>1. ASSUME NEW i \in Inputs, Arrive(r, i) PROVE Admit /\ Charge
  <2>1. cost[r] = "idle" /\ req'[r] = i /\ cost' = cost
    BY <1>0, <1>1 DEF Arrive, Goto, RequestShape
  <2>2. req'[r].caller \in Callers => pc'[r] \in {"untracked", "gate"}
    BY <1>0, <1>1, <2>1, HandlerAssumption DEF Arrive, Goto, AfterFastPath
  <2> QED
    BY <2>1, <2>2
<1>2. CASE Return(r) /\ UNCHANGED cost /\ pc[r] # "idle" /\ (cost[r] = "idle" \/ pc[r] \notin {"close", "done"})
  BY <1>0, <1>2 DEF Return, RequestShape
<1>3. CASE Deny(r)
  <2>0. cost[r] # "log"
    BY <1>0, <1>3 DEF Deny, GateTime, GateMonth, GateDay, WriteBudgetExceeded, Goto, RequestShape
  <2>1. CASE GateTime(r)
    BY <1>0, <2>0, <2>1 DEF GateTime, Goto
  <2>2. CASE GateMonth(r)
    BY <1>0, <2>0, <2>2 DEF GateMonth, Goto
  <2>3. CASE GateDay(r)
    BY <1>0, <2>0, <2>3 DEF GateDay, Goto
  <2>4. CASE WriteBudgetExceeded(r)
    BY <1>2, <2>4 DEF WriteBudgetExceeded
  <2> QED
    BY <1>3, <2>1, <2>2, <2>3, <2>4 DEF Deny
<1>4. CASE Block(r)
  <2>0. cost[r] # "log"
    BY <1>0, <1>4 DEF Block, ReadBody, RequestTooLarge, CheckLoop, MarkLoopBlocked, LogBlocked,
                      NotifyLoop, WriteLoopBlocked, Goto, RequestShape
  <2>1. CASE ReadBody(r)
    BY <1>0, <2>0, <2>1 DEF ReadBody, Goto
  <2>2. CASE CheckLoop(r)
    BY <1>0, <2>0, <2>2 DEF CheckLoop, Goto
  <2>3. CASE MarkLoopBlocked(r) \/ LogBlocked(r) \/ NotifyLoop(r)
    BY <1>0, <2>0, <2>3 DEF MarkLoopBlocked, LogBlocked, NotifyLoop, Goto
  <2>4. CASE RequestTooLarge(r) \/ WriteLoopBlocked(r)
    BY <1>2, <2>4 DEF RequestTooLarge, WriteLoopBlocked
  <2> QED
    BY <1>4, <2>1, <2>2, <2>3, <2>4 DEF Block
<1>5. CASE Account(r)
  <2>1. CASE LogActual(r)
    <3>1. pc' = pc /\ cost'[r] = "start" /\ pc[r] \in {"close", "done"}
      BY <1>0, <2>1 DEF LogActual, B!WriteRow, B!LoseRow, B!Goto, RequestShape
    <3> QED
      BY <3>1
  <2>2. CASE CheckBudget(r)
    <3>1. /\ pc' = pc /\ cost'[r] \in {"sum", "now", "spend", "complete"}
          /\ cost[r] \in {"start", "sum", "now", "spend"}
      BY <1>0, <2>2 DEF CheckBudget, B!CheckBudget, B!ReadDayStart, B!SumActualCost,
                        B!ReadNow, B!Spend, B!Goto
    <3>2. pc[r] \in {"close", "done"}
      BY <1>0, <3>1 DEF RequestShape
    <3> QED
      BY <3>1, <3>2
  <2>3. CASE PublishComplete(r)
    <3>1. pc' = pc /\ cost[r] = "complete" /\ cost'[r] = "idle"
      BY <1>0, <2>3 DEF PublishComplete, B!Return, B!Goto
    <3>2. pc[r] \in {"close", "done"}
      BY <1>0, <3>1 DEF RequestShape
    <3> QED
      BY <3>1, <3>2
  <2>4. CASE ResponseDone(r)
    BY <1>2, <2>4 DEF ResponseDone
  <2>5. ASSUME NEW c \in Costs, CloseBody(r, c) PROVE Admit /\ Charge
    <3>1. pc'[r] = "done" /\ finalized[r] /\ cost[r] = "idle"
      BY <1>0, <2>5 DEF CloseBody, Goto, RequestShape
    <3>2. cost' = cost
      BY <2>5, <3>1 DEF CloseBody, Finalize
    <3> QED
      BY <3>1, <3>2
  <2> QED
    BY <1>5, <2>1, <2>2, <2>3, <2>4, <2>5 DEF Account
<1>6. CASE Upstream(r)
  <2>1. CASE UpstreamFails(r) \/ UntrackedDone(r)
    BY <1>2, <2>1 DEF UpstreamFails, UntrackedDone
  <2>2. CASE ModifyResponse(r)
    BY <1>0, <2>2 DEF ModifyResponse, Goto, RequestShape
  <2>3. ASSUME NEW c \in Costs, EndOfStream(r, c) \/ CopyAborted(r, c) PROVE Admit /\ Charge
    <3>1. pc[r] = "stream" /\ pc'[r] \in {"close", "done"} /\ ~finalized[r] /\ req' = req
      BY <1>0, <2>3 DEF EndOfStream, CopyAborted, Goto, RequestShape
    <3>2. B!OnCost(r, c)
      BY <2>3, <3>1 DEF EndOfStream, CopyAborted, Finalize
    <3>3. today'[r] = Day(now) /\ amount'[r] = c
      BY <1>0, <3>2 DEF B!OnCost
    <3> QED
      BY <3>1, <3>3
  <2> QED
    BY <1>6, <2>1, <2>2, <2>3 DEF Upstream
<1> QED
  BY <1>1, <1>3, <1>4, <1>5, <1>6 DEF RequestStep

LEMMA ClockStep ==
  ASSUME CoreInv, [Next]_vars, \A r \in Requests : ~RequestStep(r)
  PROVE  now' >= now
<1>1. now \in Nat
  BY PartTypes
<1>2. CASE UNCHANGED vars
  BY <1>1, <1>2 DEF vars, detectorVars
<1>3. CASE Tick
  BY <1>1, <1>3 DEF Tick, D!Tick
<1>4. CASE PollMetrics
  BY <1>1, <1>4 DEF PollMetrics, D!SweepAll
<1>5. ASSUME NEW a \in Agents, DeleteHistory(a) PROVE now' = now
  BY <1>5 DEF DeleteHistory, D!Reset
<1>6. CASE Unauthorized
  BY <1>1, <1>6 DEF Unauthorized, detectorVars
<1> QED
  BY <1>1, <1>2, <1>3, <1>4, <1>5, <1>6 DEF Next, RequestStep

LEMMA StepCharge ==
  ASSUME CoreInv, CoreInv', ChargeInv, [Next]_vars, "gate" \notin Failures
  PROVE  ChargeInv'
<1>0. /\ keySince \in [Callers \cup {Anonymous} -> [Days -> Int]] /\ Days \subseteq Int
      /\ today \in [Requests -> 1..Day(now)] /\ amount \in [Requests -> Int]
      /\ Day(now) \in Int /\ now \in Int /\ now' \in Int /\ Day(now)' \in Int
      /\ \A r \in Requests : today[r] \in Int /\ today[r] <= Day(now)
  <2>1. now' \in Nat
    BY HandlerAssumption DEF CoreInv, DP!DetectorInv, DP!TypeOK
  <2>2. Day(now)' \in Int
    BY <2>1, DayBounds DEF Day
  <2>3. Day(now) \in Int /\ today \in [Requests -> 1..Day(now)]
    BY PartTypes
  <2>4. \A r \in Requests : today[r] \in Int /\ today[r] <= Day(now)
    BY <2>3
  <2>5. /\ keySince \in [Callers \cup {Anonymous} -> [Days -> Int]] /\ Days \subseteq Int
        /\ amount \in [Requests -> Int] /\ now \in Int
    BY PartTypes, WholeDays DEF CoreInv, HandlerTypes
  <2> QED
    BY <2>1, <2>2, <2>3, <2>4, <2>5
<1>1. ASSUME NEW q \in Requests, cost'[q] = "log" PROVE amount'[q] \in Costs
  <2>1. CASE SameLocals(q)
    BY <1>1, <2>1 DEF SameLocals, ChargeInv
  <2>2. CASE RequestStep(q)
    BY <1>1, <2>2, Admissions DEF ChargeInv
  <2>3. CASE \E r \in Requests : RequestStep(r)
    BY <2>1, <2>2, <2>3, OthersStand
  <2>4. CASE \A r \in Requests : ~RequestStep(r)
    BY <1>1, <2>4, NoRequestStep DEF costVars, ChargeInv
  <2> QED
    BY <2>3, <2>4
<1>2. ASSUME NEW k \in Callers, NEW d \in Days, d > Day(now)' PROVE keySince'[k][d] = 0
  <2>1. ASSUME NEW r \in Requests, RequestStep(r) PROVE keySince'[k][d] = 0
    <3>1. now' = now /\ Day(now)' = Day(now)
      BY <2>1, OnlyRowsCharge DEF Day
    <3>2. d > Day(now) /\ keySince[k][d] = 0
      BY <1>2, <3>1 DEF ChargeInv
    <3>3. CASE UNCHANGED keySince
      BY <3>2, <3>3
    <3>4. CASE keySince' # keySince
      <4> DEFINE c == req[r].caller
      <4>1. keySince' = [keySince EXCEPT ![c] =
                [e \in Days |-> IF e <= today[r] THEN keySince[c][e] + amount[r]
                                ELSE keySince[c][e]]]
        BY <2>1, <3>4, OnlyRowsCharge
      <4>2. ~(d <= today[r])
        BY <1>0, <3>2
      <4> HIDE DEF c
      <4> QED
        BY <1>0, <3>2, <4>1, <4>2
    <3> QED
      BY <3>3, <3>4
  <2>2. CASE \A r \in Requests : ~RequestStep(r)
    <3>1. keySince' = keySince /\ now' >= now
      BY <2>2, NoRequestStep, ClockStep DEF storeVars
    <3>2. Day(now) <= Day(now)'
      BY <1>0, <3>1, DayIsMonotonic DEF Day
    <3>3. d > Day(now)
      BY <1>0, <1>2, <3>2
    <3> QED
      BY <3>1, <3>3 DEF ChargeInv
  <2> QED
    BY <2>1, <2>2
<1> QED
  BY <1>1, <1>2 DEF ChargeInv

(* What can happen to a window in a step: its sum is found below the budget *)
(* and stands, nobody joins the outstanding requests, or one of them leaves *)
(* them with its row.                                                       *)
LEMMA StepWindow ==
  ASSUME CoreInv, CoreInv', ChargeInv, [Next]_vars, "gate" \notin Failures,
         NEW k \in Callers, NEW w \in Windows(k), w.budget > 0
  PROVE  \/ Spent(k, w)' <= w.budget - 1
         \/ Spent(k, w)' = Spent(k, w) /\ Outstanding(k, w)' \subseteq Outstanding(k, w)
         \/ \E r \in Outstanding(k, w) :
              /\ Outstanding(k, w)' \subseteq Outstanding(k, w) \ {r}
              /\ Spent(k, w)' <= Spent(k, w) + MaxCost
<1>0. /\ keySince \in [Callers \cup {Anonymous} -> [Days -> Int]] /\ Days \subseteq Int
      /\ today \in [Requests -> 1..Day(now)] /\ amount \in [Requests -> Int]
      /\ Day(now) \in Int /\ now \in Int
      /\ w.from \in Days /\ w.from \in Int /\ w.to \in Int /\ w.from < w.to /\ w.budget \in Int
  <2>1. Day(now) \in Int /\ today \in [Requests -> 1..Day(now)]
    BY PartTypes
  <2>2. /\ keySince \in [Callers \cup {Anonymous} -> [Days -> Int]] /\ Days \subseteq Int
        /\ amount \in [Requests -> Int] /\ now \in Int
    BY PartTypes, WholeDays DEF CoreInv, HandlerTypes
  <2> QED
    BY <2>1, <2>2, WindowShape
<1>1. CASE keySince' = keySince
  <2>0. Spent(k, w)' = Spent(k, w)
    BY <1>1 DEF Spent, SpentBetween
  <2> SUFFICES ASSUME NEW q \in Requests, Pending(q, k, w)', ~Pending(q, k, w)
               PROVE  Spent(k, w) <= w.budget - 1
    BY <2>0 DEF Outstanding
  <2>1. CASE RequestStep(q)
    <3>1. now' = now /\ Day(now)' = Day(now) /\ req'[q].caller = k
      BY <2>1, OnlyRowsCharge DEF Day, Pending
    <3>2. w.after \cup w.before \subseteq {"month", "day", "body", "check", "forward", "stream"}
          /\ "month" \notin w.after /\ "stream" \in w.after
      BY WindowShape DEF DayWindow, MonthWindow
    <3>3. CASE cost'[q] = "log" /\ Inside(today'[q], w)
      <4>1. req' = req /\ \/ cost[q] = "log" /\ UNCHANGED <<today, amount>>
                          \/ pc[q] = "stream" /\ today'[q] = Day(now)
        BY <2>1, <3>1, <3>3, Admissions
      <4> QED
        BY <3>1, <3>2, <3>3, <4>1 DEF Pending
    <3>4. CASE /\ Inside(Day(now), w)
               /\ pc'[q] \in w.after \/ (pc'[q] \in w.before /\ Day(gate'[q]) < w.from)
      <4>1. /\ req' = req
            /\ \/ pc'[q] = "month" /\ gate'[q] = now
               \/ pc[q] = "month" /\ pc'[q] = "day" /\ gate' = gate /\ ~MonthExhausted(q)
               \/ pc[q] = "day" /\ pc'[q] = "body" /\ gate' = gate /\ ~DayExhausted(q)
               \/ /\ pc[q] \in {"body", "check", "forward"}
                  /\ pc'[q] \in {"check", "forward", "stream"}
        BY <2>1, <3>1, <3>2, <3>4, Admissions
      <4>2. CASE pc'[q] = "month" /\ gate'[q] = now
        BY <1>0, <3>2, <3>4, <4>2 DEF Inside
      <4>3. CASE pc[q] = "month" /\ pc'[q] = "day" /\ gate' = gate /\ ~MonthExhausted(q)
        <5>1. CASE w = DayWindow(k, w.from)
          BY <3>1, <3>4, <4>1, <4>3, <5>1 DEF Pending, DayWindow
        <5>2. CASE w = MonthWindow(k, w.from) /\ MonthStart((w.from - 1) * DayTicks) = w.from
          <6>1. pc[q] \in w.before
            BY <4>3, <5>2 DEF MonthWindow
          <6>2. ~(Day(gate[q]) < w.from) /\ req[q].caller = k
            BY <3>1, <3>4, <4>1, <6>1 DEF Pending
          <6> QED
            BY <3>4, <4>3, <5>2, <6>2, GateReadsWindow
        <5> QED
          BY <5>1, <5>2, WindowShape
      <4>4. CASE pc[q] = "day" /\ pc'[q] = "body" /\ gate' = gate /\ ~DayExhausted(q)
        <5>1. CASE w = MonthWindow(k, w.from)
          BY <3>1, <3>4, <4>1, <4>4, <5>1 DEF Pending, MonthWindow
        <5>2. CASE w = DayWindow(k, w.from)
          <6>1. pc[q] \in w.before
            BY <4>4, <5>2 DEF DayWindow
          <6>2. ~(Day(gate[q]) < w.from) /\ req[q].caller = k
            BY <3>1, <3>4, <4>1, <6>1 DEF Pending
          <6> QED
            BY <3>4, <4>4, <5>2, <6>2, GateReadsWindow
        <5> QED
          BY <5>1, <5>2, WindowShape
      <4>5. CASE pc[q] \in {"body", "check", "forward"}
        <5>1. pc[q] \in w.after
          BY <4>5, WindowShape DEF DayWindow, MonthWindow
        <5> QED
          BY <3>1, <3>4, <4>1, <5>1 DEF Pending
      <4> QED
        BY <4>1, <4>2, <4>3, <4>4, <4>5
    <3> QED
      BY <3>1, <3>3, <3>4 DEF Pending
  <2>2. ASSUME NEW r \in Requests, RequestStep(r), r # q PROVE FALSE
    <3>1. SameLocals(q) /\ Day(now)' = Day(now)
      BY <2>2, OthersStand, OnlyRowsCharge DEF Day
    <3> QED
      BY <3>1 DEF SameLocals, Pending
  <2>3. CASE \A r \in Requests : ~RequestStep(r)
    <3>1. UNCHANGED <<req, pc, gate, cost, today>> /\ now' >= now
      BY <2>3, NoRequestStep, ClockStep DEF localVars, costVars
    <3>2. ~Inside(Day(now), w) /\ Inside(Day(now)', w)
      BY <3>1 DEF Pending
    <3>3. Day(now) <= Day(now)' /\ Day(now)' \in Int
      <4>1. now' \in Nat
        BY HandlerAssumption DEF CoreInv, DP!DetectorInv, DP!TypeOK
      <4> QED
        BY <1>0, <3>1, <4>1, DayIsMonotonic, DayBounds DEF Day
    <3>4. Day(now) < w.from
      BY <1>0, <3>2, <3>3 DEF Inside
    <3>5. keySince[k][w.from] = 0 /\ (w.to \in Days => keySince[k][w.to] = 0)
      BY <1>0, <3>4 DEF ChargeInv
    <3>6. Spent(k, w) = 0
      BY <3>5 DEF Spent, SpentBetween
    <3> QED
      BY <1>0, <3>6
  <2> QED
    BY <2>1, <2>2, <2>3
<1>2. CASE keySince' # keySince
  <2>1. PICK r \in Requests : RequestStep(r)
    BY <1>2, NoRequestStep DEF storeVars
  <2> DEFINE c == req[r].caller
  <2>2. /\ cost[r] = "log" /\ cost'[r] = "start" /\ UNCHANGED <<pc, req, gate, now>>
        /\ keySince' = [keySince EXCEPT ![c] =
              [d \in Days |-> IF d <= today[r] THEN keySince[c][d] + amount[r]
                              ELSE keySince[c][d]]]
    BY <1>2, <2>1, OnlyRowsCharge
  <2>3. Day(now)' = Day(now) /\ pc[r] \notin w.after \cup w.before
    <3>1. pc[r] \in {"close", "done"}
      BY <2>2 DEF CoreInv, Shapes, RequestShape
    <3> QED
      BY <2>2, <3>1, WindowShape DEF Day, DayWindow, MonthWindow
  <2>4. ~Pending(r, k, w)'
    BY <2>2, <2>3 DEF Pending
  <2>5. Outstanding(k, w)' \subseteq Outstanding(k, w) \ {r}
    <3>1. ASSUME NEW q \in Requests, q # r, Pending(q, k, w)' PROVE Pending(q, k, w)
      BY <2>1, <2>3, <3>1, OthersStand DEF Pending, SameLocals
    <3> QED
      BY <2>4, <3>1 DEF Outstanding
  <2>6. today[r] \in Int /\ amount[r] \in Int /\ amount[r] <= MaxCost /\ MaxCost \in Nat
    BY <1>0, <2>2, HighestCost DEF ChargeInv
  <2> HIDE DEF c
  <2>7. CASE c # k \/ ~Inside(today[r], w)
    <3>1. CASE c # k
      <4>1. keySince'[k] = keySince[k]
        BY <1>0, <2>2, <3>1
      <4> QED
        BY <2>5, <4>1 DEF Spent, SpentBetween
    <3>2. CASE c = k /\ ~Inside(today[r], w)
      <4>1. \A d \in Days : keySince'[k][d] = IF d <= today[r] THEN keySince[k][d] + amount[r]
                                              ELSE keySince[k][d]
        BY <1>0, <2>2, <3>2
      <4>2. CASE today[r] < w.from
        <5>1. keySince'[k][w.from] = keySince[k][w.from]
              /\ (w.to \in Days => keySince'[k][w.to] = keySince[k][w.to])
          BY <1>0, <2>6, <4>1, <4>2
        <5> QED
          BY <2>5, <5>1 DEF Spent, SpentBetween
      <4>3. CASE w.to <= today[r]
        <5>1. w.to \in Days
          BY <1>0, <2>6, <4>3, PartTypes, DayIsMonotonic, HandlerAssumption DEF Days
        <5>2. keySince'[k][w.from] = keySince[k][w.from] + amount[r]
              /\ keySince'[k][w.to] = keySince[k][w.to] + amount[r]
          BY <1>0, <2>6, <4>1, <4>3, <5>1
        <5>3. keySince[k][w.from] \in Int /\ keySince[k][w.to] \in Int
          BY <1>0, <5>1
        <5>4. Spent(k, w)' = Spent(k, w)
          BY <2>6, <5>1, <5>2, <5>3 DEF Spent, SpentBetween
        <5> QED
          BY <2>5, <5>4
      <4> QED
        BY <1>0, <2>6, <3>2, <4>2, <4>3 DEF Inside
    <3> QED
      BY <2>7, <3>1, <3>2
  <2>8. CASE c = k /\ Inside(today[r], w)
    <3>1. r \in Outstanding(k, w)
      BY <2>2, <2>8 DEF Outstanding, Pending, c
    <3>2. \A d \in Days : keySince'[k][d] = IF d <= today[r] THEN keySince[k][d] + amount[r]
                                            ELSE keySince[k][d]
      BY <1>0, <2>2, <2>8
    <3>3. keySince'[k][w.from] = keySince[k][w.from] + amount[r]
          /\ (w.to \in Days => keySince'[k][w.to] = keySince[k][w.to])
      BY <1>0, <2>6, <2>8, <3>2 DEF Inside
    <3>4. keySince[k][w.from] \in Int /\ (w.to \in Days => keySince[k][w.to] \in Int)
      BY <1>0
    <3>5. Spent(k, w)' <= Spent(k, w) + MaxCost
      BY <2>6, <3>3, <3>4 DEF Spent, SpentBetween
    <3> QED
      BY <2>5, <3>1, <3>5
  <2> QED
    BY <2>7, <2>8
<1> QED
  BY <1>1, <1>2

(* The arithmetic of the three. *)
LEMMA WindowAddsUp ==
  ASSUME CoreInv, CoreInv', NEW k \in Callers, NEW w \in Windows(k), WindowInv(k, w),
         \/ Spent(k, w)' <= w.budget - 1
         \/ Spent(k, w)' = Spent(k, w) /\ Outstanding(k, w)' \subseteq Outstanding(k, w)
         \/ \E r \in Outstanding(k, w) :
              /\ Outstanding(k, w)' \subseteq Outstanding(k, w) \ {r}
              /\ Spent(k, w)' <= Spent(k, w) + MaxCost
  PROVE  WindowInv(k, w)'
<1>1. PICK s \in Int, s1 \in Int, b \in Int, n \in Nat, n1 \in Nat, z \in Nat, m \in Nat :
        /\ s = Spent(k, w) /\ s1 = Spent(k, w)' /\ b = w.budget /\ m = MaxCost
        /\ n = Cardinality(Outstanding(k, w)) /\ n1 = Cardinality(Outstanding(k, w)')
        /\ z = Cardinality(Requests) /\ n1 <= z
  <2>1. Spent(k, w) \in Int
    BY SpentType DEF CoreInv, HandlerTypes
  <2>2. Spent(k, w)' \in Int
    <3>1. keySince' \in [Callers \cup {Anonymous} -> [Days -> Int]]
      BY DEF CoreInv, HandlerTypes
    <3> QED
      BY <3>1, WindowShape DEF Spent, SpentBetween
  <2>3. Outstanding(k, w)' \subseteq Requests
    BY DEF Outstanding
  <2>4. /\ Cardinality(Outstanding(k, w)') \in Nat
        /\ Cardinality(Outstanding(k, w)') <= Cardinality(Requests)
    BY <2>3, HandlerAssumption, FS_Subset, FS_CardinalityType
  <2> QED
    BY <2>1, <2>2, <2>4, OutstandingSize, WindowShape, HighestCost
<1>2. PICK p \in Int, p1 \in Int, pz \in Int :
        p = m * n /\ p1 = m * n1 /\ pz = m * z /\ p1 <= pz
  <2>1. n \in Int /\ n1 \in Int /\ z \in Int /\ n <= n /\ n1 <= z
    BY <1>1
  <2>2. m * n \in Int /\ m * n1 \in Int /\ m * z \in Int /\ m * n1 <= m * z
    BY <2>1, Scaling
  <2> QED
    BY <2>2, Zenon
<1>3. s + p <= b - 1 + pz
  BY <1>1, <1>2 DEF WindowInv
<1>4. CASE s1 <= b - 1
  <2>1. s1 + p1 <= b - 1 + pz
    BY <1>2, <1>4
  <2> QED
    BY <1>1, <1>2, <2>1 DEF WindowInv
<1>5. CASE s1 = s /\ Outstanding(k, w)' \subseteq Outstanding(k, w)
  <2>1. n1 <= n
    BY <1>1, <1>5, OutstandingSize, FS_Subset
  <2>2. p1 <= p
    BY <1>2, <2>1, Scaling
  <2>3. s1 + p1 <= b - 1 + pz
    BY <1>3, <1>5, <2>2
  <2> QED
    BY <1>1, <1>2, <2>3 DEF WindowInv
<1>6. ASSUME NEW r \in Outstanding(k, w), Outstanding(k, w)' \subseteq Outstanding(k, w) \ {r},
             s1 <= s + m
      PROVE  WindowInv(k, w)'
  <2>1. /\ IsFiniteSet(Outstanding(k, w) \ {r})
        /\ Cardinality(Outstanding(k, w) \ {r}) = n - 1
    BY <1>1, OutstandingSize, FS_RemoveElement
  <2>2. n1 <= n - 1
    BY <1>1, <1>6, <2>1, FS_Subset
  <2>3. m * n1 <= m * (n - 1) /\ m * (n - 1) \in Int
    BY <2>2, Scaling
  <2>4. m * (n - 1) = m * n - m
    BY SMTT(30)
  <2>5. p1 <= p - m
    BY <1>2, <2>3, <2>4
  <2>6. s1 + p1 <= b - 1 + pz
    BY <1>3, <1>6, <2>5
  <2> QED
    BY <1>1, <1>2, <2>6 DEF WindowInv
<1> QED
  BY <1>1, <1>4, <1>5, <1>6

LEMMA InitOverspend == Init => OverspendInv
<1> SUFFICES ASSUME Init PROVE OverspendInv
  OBVIOUS
<1>0. keySince = [k \in Callers \cup {Anonymous} |-> [d \in Days |-> 0]]
      /\ cost = [r \in Requests |-> "idle"]
  BY DEF Init, B!Init
<1>1. ChargeInv
  BY <1>0 DEF ChargeInv
<1>2. ASSUME NEW k \in Callers, NEW w \in Windows(k), w.budget > 0 PROVE WindowInv(k, w)
  <2>1. Spent(k, w) = 0
    BY <1>0, WindowShape DEF Spent, SpentBetween
  <2>2. PICK b \in Int, n \in Nat, z \in Nat, m \in Nat :
          /\ b = w.budget /\ m = MaxCost /\ n = Cardinality(Outstanding(k, w))
          /\ z = Cardinality(Requests) /\ n <= z
    BY OutstandingSize, WindowShape, HighestCost
  <2>3. m * n \in Int /\ m * z \in Int /\ m * n <= m * z
    BY <2>2, Scaling
  <2>4. 0 + m * n <= b - 1 + m * z
    BY <1>2, <2>2, <2>3
  <2> QED
    BY <2>1, <2>2, <2>4 DEF WindowInv
<1> QED
  BY <1>1, <1>2 DEF OverspendInv

LEMMA StepOverspend ==
  ASSUME "gate" \notin Failures
  PROVE  CoreInv /\ CoreInv' /\ OverspendInv /\ [Next]_vars => OverspendInv'
<1> SUFFICES ASSUME CoreInv, CoreInv', OverspendInv, [Next]_vars PROVE OverspendInv'
  OBVIOUS
<1>1. ChargeInv /\ ChargeInv'
  BY StepCharge DEF OverspendInv
<1>2. ASSUME NEW k \in Callers, NEW w \in Windows(k), w.budget > 0 PROVE WindowInv(k, w)'
  <2>1. WindowInv(k, w)
    BY <1>2 DEF OverspendInv
  <2> QED
    BY <1>1, <1>2, <2>1, StepWindow, WindowAddsUp
<1> QED
  BY <1>1, <1>2 DEF OverspendInv

LEMMA OverspendFollows == CoreInv /\ OverspendInv => OverspendBounded
<1> SUFFICES ASSUME CoreInv, OverspendInv, NEW k \in Callers, NEW d \in Days
             PROVE  /\ CallerDaily[k] > 0 =>
                         SpentBetween(k, d, d + 1) <= Overspend(CallerDaily[k])
                    /\ (CallerMonthly[k] > 0 /\ MonthStart((d - 1) * DayTicks) = d) =>
                         SpentBetween(k, d, d + MonthDays) <= Overspend(CallerMonthly[k])
  BY DEF OverspendBounded
<1>1. ASSUME NEW w \in Windows(k), w.budget > 0
      PROVE  Spent(k, w) <= w.budget - 1 + Cardinality(Requests) * MaxCost
  <2>1. PICK s \in Int, b \in Int, n \in Nat, z \in Nat, m \in Nat :
          /\ s = Spent(k, w) /\ b = w.budget /\ m = MaxCost
          /\ n = Cardinality(Outstanding(k, w)) /\ z = Cardinality(Requests)
    BY OutstandingSize, WindowShape, HighestCost, SpentType DEF CoreInv, HandlerTypes
  <2>2. s + m * n <= b - 1 + m * z
    BY <1>1, <2>1 DEF OverspendInv, WindowInv
  <2>3. m * 0 = 0 /\ m * 0 <= m * n /\ m * n \in Int /\ m * z \in Int
    BY Scaling
  <2>4. m * z = z * m
    BY SMTT(30)
  <2>5. s <= b - 1 + z * m
    BY <2>2, <2>3, <2>4
  <2> QED
    BY <2>1, <2>5
<1>2. ASSUME CallerDaily[k] > 0
      PROVE  SpentBetween(k, d, d + 1) <= Overspend(CallerDaily[k])
  <2> DEFINE w == DayWindow(k, d)
  <2>1. w \in Windows(k)
    BY DEF Windows
  <2>2. w.from = d /\ w.to = d + 1 /\ w.budget = CallerDaily[k]
    BY DEF DayWindow
  <2> HIDE DEF w
  <2> QED
    BY <1>1, <1>2, <2>1, <2>2 DEF Spent, Overspend
<1>3. ASSUME CallerMonthly[k] > 0, MonthStart((d - 1) * DayTicks) = d
      PROVE  SpentBetween(k, d, d + MonthDays) <= Overspend(CallerMonthly[k])
  <2> DEFINE w == MonthWindow(k, d)
  <2>1. w \in Windows(k)
    BY <1>3 DEF Windows
  <2>2. w.from = d /\ w.to = d + MonthDays /\ w.budget = CallerMonthly[k]
    BY DEF MonthWindow
  <2> HIDE DEF w
  <2> QED
    BY <1>1, <1>3, <2>1, <2>2 DEF Spent, Overspend
<1> QED
  BY <1>2, <1>3

(* However requests interleave with the turn of days and months, a caller's *)
(* budget for a day or a month is overrun by at most one charge per         *)
(* goroutine, whatever the number of goroutines: given a ledger that        *)
(* answers the gate's queries, for a query that fails lets its request by.  *)
THEOREM OverspendIsBounded ==
  ASSUME "gate" \notin Failures
  PROVE  Spec => []OverspendBounded
<1>1. Spec => []OverspendInv
  BY InitOverspend, StepOverspend, CoreInvariant, PTL DEF Spec
<1> QED
  BY <1>1, OverspendFollows, CoreInvariant, PTL
=============================================================================
