------------------------- MODULE BudgetAlertsProofs -------------------------
(***************************************************************************)
(* A budget alert is missed only when a check across midnight has sent it  *)
(* too early, for any number of workers, any costs, budget and thresholds, *)
(* across restarts, as long as the ledger can be read.                     *)
(*                                                                         *)
(* MissedOnlyByStaleSum speaks of quiet states only and is not inductive.  *)
(* The strengthening says who will send a missing alert: while a threshold     *)
(* reached today is unannounced, some worker carries it, that is, it is    *)
(* about to sum today's rows, or it holds a sum that reaches the threshold *)
(* and will hand it to Spend for today; or else a crash took the worker    *)
(* that carried it, and no worker of the new process has got past          *)
(* LogRequest yet.                                                         *)
(***************************************************************************)
EXTENDS BudgetAlerts, TLAPS

Carries(w, p) ==
  \/ pc[w] = "start"
  \/ pc[w] = "sum" /\ start[w] = day
  \/ pc[w] = "now" /\ amount[w] >= ThresholdMicro(p)
  \/ pc[w] = "spend" /\ amount[w] >= ThresholdMicro(p) /\ today[w] = day

(* No row is stamped in the future. *)
Ledger == \A d \in Days : d > day => since[d] = 0

(* No sum has been taken since the process started.  *)
Fresh == dayKey = 0 /\ \A w \in Workers : pc[w] \in {"idle", "log"}

(* An event for day d has been emitted.  *)
Known(d, p) == Announced(d, p) \/ Forestalled(d, p)

FiredWasSent == \A p \in fired : dayKey \in Days /\ Known(dayKey, p)

(* Nobody hands a sum to Spend for a day before the one it has summed.  *)
SumsAreOld == \A w \in Workers : pc[w] = "spend" => start[w] <= today[w]

NothingLost ==
  \A p \in Thresholds :
    Reached(p) => Known(day, p) \/ Fresh \/ \E w \in Workers : Carries(w, p)

AlertInv == TypeOK /\ Ledger /\ SumsAreOld /\ FiredWasSent /\ NothingLost

LEMMA ThresholdType == \A p \in Thresholds : ThresholdMicro(p) \in Int
BY BudgetAssumption DEF Thresholds, ThresholdMicro

LEMMA ReadingsAreDays ==
  TypeOK => \A w \in Workers : today[w] \in Days /\ start[w] \in Days
BY BudgetAssumption DEF TypeOK, Days

-----------------------------------------------------------------------------
LEMMA InitAlert == Init => AlertInv
<1> SUFFICES ASSUME Init PROVE AlertInv
  OBVIOUS
<1>1. TypeOK
  BY BudgetAssumption DEF Init, NoSpend, TypeOK, Days, Events, Steps
<1>3. Ledger /\ SumsAreOld /\ FiredWasSent
  BY DEF Init, NoSpend, Ledger, SumsAreOld, FiredWasSent
<1>4. NothingLost
  BY <1>1 DEF Init, NoSpend, NothingLost, Reached, TypeOK
<1> QED
  BY <1>1, <1>3, <1>4 DEF AlertInv

LEMMA StepTypes == TypeOK /\ [Next]_vars => TypeOK'
<1> SUFFICES ASSUME TypeOK, [Next]_vars PROVE TypeOK'
  OBVIOUS
<1> USE BudgetAssumption DEF TypeOK, Days, Events, Steps, Goto
<1>1. ASSUME NEW w \in Workers, NEW c \in Costs, OnCost(w, c) PROVE TypeOK'
  BY <1>1 DEF OnCost
<1>2. ASSUME NEW w \in Workers, LogRequest(w) PROVE TypeOK'
  <2>1. CASE WriteRow(w)
    BY <2>1 DEF WriteRow, AddRow
  <2>2. CASE LoseRow(w)
    BY <2>2 DEF LoseRow
  <2> QED BY <1>2, <2>1, <2>2 DEF LogRequest
<1>3. ASSUME NEW w \in Workers, ReadDayStart(w) PROVE TypeOK'
  BY <1>3 DEF ReadDayStart
<1>4. ASSUME NEW w \in Workers, SumActualCost(w) PROVE TypeOK'
  BY <1>4, ReadingsAreDays DEF SumActualCost
<1>5. ASSUME NEW w \in Workers, ReadNow(w) PROVE TypeOK'
  BY <1>5 DEF ReadNow
<1>6. ASSUME NEW w \in Workers, Spend(w) PROVE TypeOK'
  <2> HIDE DEF Events
  <2>1. sent' \in [Events -> Nat]
    BY <1>6 DEF Spend
  <2>2. fired' \subseteq Thresholds
    BY <1>6 DEF Spend, Crossed, FiredOn
  <2> QED
    BY <1>6, <2>1, <2>2, ReadingsAreDays DEF Spend
<1>7. ASSUME NEW w \in Workers, Return(w) PROVE TypeOK'
  BY <1>7 DEF Return
<1>8. CASE Midnight
  BY <1>8 DEF Midnight
<1>9. CASE UNCHANGED vars
  BY <1>9 DEF vars
<1>10. ASSUME NEW durable \in Durable, Restart(durable) PROVE TypeOK'
  BY <1>10 DEF Restart, NoSpend
<1> QED
  BY <1>1, <1>2, <1>3, <1>4, <1>5, <1>6, <1>7, <1>8, <1>9, <1>10
  DEF Next, Step, CheckBudget, BoundsReached

LEMMA StepLedger == TypeOK /\ Ledger /\ [Next]_vars => Ledger'
<1> SUFFICES ASSUME TypeOK, Ledger, [Next]_vars PROVE Ledger'
  OBVIOUS
<1>1. ASSUME NEW w \in Workers, LogRequest(w) PROVE Ledger'
  <2>1. today[w] \in 1..day /\ day \in Int /\ day' = day
    BY <1>1, BudgetAssumption DEF LogRequest, WriteRow, LoseRow, TypeOK, Days
  <2>2. CASE since' = AddRow(today[w], amount[w])
    BY <2>1, <2>2 DEF AddRow, Ledger, Days
  <2>3. CASE since' = since
    BY <2>1, <2>3 DEF Ledger
  <2> QED
    BY <1>1, <2>2, <2>3 DEF LogRequest, WriteRow, LoseRow
<1>2. CASE Midnight
  BY <1>2 DEF Midnight, Ledger, TypeOK, Days
<1>3. CASE UNCHANGED <<day, since>>
  BY <1>3 DEF Ledger
<1>4. ASSUME NEW durable \in Durable, Restart(durable) PROVE Ledger'
  BY <1>4 DEF Restart, NoSpend, Ledger
<1> QED
  BY <1>1, <1>2, <1>3, <1>4
  DEF Next, Step, CheckBudget, OnCost, ReadDayStart, SumActualCost, ReadNow, Spend, Return,
      BoundsReached, vars

LEMMA StepOld == TypeOK /\ SumsAreOld /\ [Next]_vars => SumsAreOld'
<1> SUFFICES ASSUME TypeOK, SumsAreOld, [Next]_vars, NEW v \in Workers, pc'[v] = "spend"
             PROVE  start'[v] <= today'[v]
  BY DEF SumsAreOld
<1>1. CASE ReadNow(v)
  BY <1>1, BudgetAssumption DEF ReadNow, TypeOK, Days
<1>2. CASE UNCHANGED <<pc[v], start[v], today[v]>>
  BY <1>2 DEF SumsAreOld
<1>3. ASSUME NEW u \in Workers, u # v, Step(u) \/ \E c \in Costs : OnCost(u, c)
      PROVE  UNCHANGED <<pc[v], start[v], today[v]>>
  BY <1>3
  DEF Step, CheckBudget, OnCost, LogRequest, WriteRow, LoseRow, ReadDayStart, SumActualCost, ReadNow, Spend,
      Return, Goto, TypeOK
<1>4. CASE Midnight \/ BoundsReached \/ UNCHANGED vars
  BY <1>2, <1>4 DEF Midnight, BoundsReached, vars
<1>5. \A durable \in Durable : ~Restart(durable)
  BY DEF Restart
<1>6. CASE Step(v) \/ \E c \in Costs : OnCost(v, c)
  BY <1>1, <1>6
  DEF Step, CheckBudget, OnCost, LogRequest, WriteRow, LoseRow, ReadDayStart, SumActualCost, Spend,
      Return, Goto, TypeOK
<1> QED
  BY <1>2, <1>3, <1>4, <1>5, <1>6 DEF Next

(* What is known stays known, and Spend makes known what it finds crossed.  *)
LEMMA SpendMakesKnown ==
  ASSUME TypeOK, SumsAreOld, NEW w \in Workers, Spend(w), NEW d \in Days, NEW p \in Thresholds
  PROVE  /\ Known(d, p) => Known(d, p)'
         /\ (d = today[w] /\ p \in Crossed(w, FiredOn(d))) => Known(d, p)'
<1>1. \A s \in Days : /\ <<d, p, s>> \in Events
                      /\ sent[<<d, p, s>>] \in Nat
                      /\ sent'[<<d, p, s>>] >= sent[<<d, p, s>>]
  BY DEF Spend, Events, TypeOK
<1>2. ASSUME Known(d, p) PROVE Known(d, p)'
  <2>1. PICK s \in Days : (s = d \/ s < d) /\ sent[<<d, p, s>>] >= 1
    BY <1>2 DEF Known, Announced, Forestalled
  <2>2. sent'[<<d, p, s>>] \in Nat
    BY <1>1 DEF Spend
  <2>3. sent'[<<d, p, s>>] >= 1
    BY <1>1, <2>1, <2>2
  <2> QED
    BY <2>1, <2>3 DEF Known, Announced, Forestalled
<1>3. ASSUME d = today[w], p \in Crossed(w, FiredOn(d)) PROVE Known(d, p)'
  <2>1. start[w] \in Days /\ start[w] <= d
    BY <1>3, ReadingsAreDays DEF Spend, SumsAreOld
  <2>2. sent'[<<d, p, start[w]>>] = sent[<<d, p, start[w]>>] + 1
    BY <1>1, <1>3, <2>1 DEF Spend
  <2>3. sent'[<<d, p, start[w]>>] >= 1
    BY <1>1, <2>1, <2>2
  <2>4. start[w] = d \/ start[w] < d
    BY <2>1 DEF Days
  <2> QED
    BY <2>1, <2>3, <2>4 DEF Known, Announced, Forestalled
<1> QED
  BY <1>2, <1>3

LEMMA StepFired ==
  TypeOK /\ SumsAreOld /\ FiredWasSent /\ [Next]_vars => FiredWasSent'
<1> SUFFICES ASSUME TypeOK, SumsAreOld, FiredWasSent, [Next]_vars PROVE FiredWasSent'
  OBVIOUS
<1>1. ASSUME NEW w \in Workers, Spend(w) PROVE FiredWasSent'
  <2>1. PICK d \in Days : d = today[w]
    BY ReadingsAreDays
  <2> DEFINE new == Crossed(w, FiredOn(d))
  <2>2. new \subseteq Thresholds /\ FiredOn(d) \subseteq Thresholds
    BY DEF Crossed, FiredOn, TypeOK
  <2>3. ASSUME NEW p \in fired' PROVE dayKey' \in Days /\ Known(d, p)' /\ dayKey' = d
    <3>1. p \in Thresholds /\ dayKey' = d
      BY <1>1, <2>1, <2>2, <2>3 DEF Spend
    <3>2. p \in new \/ p \in FiredOn(d)
      BY <1>1, <2>1, <2>3 DEF Spend
    <3>3. p \in FiredOn(d) => Known(d, p)
      BY DEF FiredOn, FiredWasSent
    <3> QED
      BY <1>1, <2>1, <3>1, <3>2, <3>3, SpendMakesKnown
  <2>4. ASSUME NEW p \in fired' PROVE Known(dayKey, p)'
    BY <2>3, <2>4 DEF Known, Announced, Forestalled
  <2> QED
    BY <2>3, <2>4 DEF FiredWasSent
<1>2. CASE UNCHANGED <<dayKey, fired, sent>>
  BY <1>2 DEF FiredWasSent, Known, Announced, Forestalled
<1>3. ASSUME NEW durable \in Durable, Restart(durable) PROVE FiredWasSent'
  BY <1>3 DEF Restart, FiredWasSent
<1> QED
  BY <1>1, <1>2, <1>3
  DEF Next, Step, CheckBudget, OnCost, LogRequest, WriteRow, LoseRow, ReadDayStart, SumActualCost, ReadNow, Return,
      Midnight, BoundsReached, vars

-----------------------------------------------------------------------------
(* A missing alert is always on its way.  Only LogRequest makes today's     *)
(* spend reach a threshold, and it leaves its worker about to sum; the sum  *)
(* from today's start is today's spend; Spend either emits or knows that    *)
(* the alert was sent; and the first worker of a new process that gets past *)
(* LogRequest carries whatever the crash took.                              *)
LEMMA StepNothingLost ==
  ASSUME "sum" \notin Failures, AlertInv, [Next]_vars
  PROVE  NothingLost'
<1>0. TypeOK /\ Ledger /\ SumsAreOld /\ FiredWasSent /\ NothingLost
  BY DEF AlertInv
<1> SUFFICES ASSUME NEW p \in Thresholds, Reached(p)'
             PROVE  \/ Known(day, p)' \/ Fresh'
                    \/ \E w \in Workers : Carries(w, p)'
  BY DEF NothingLost
<1> DEFINE thr == ThresholdMicro(p)
<1>t. thr \in Int
  BY ThresholdType
<1>d. day \in Days /\ since[day] \in Int
  BY <1>0 DEF TypeOK
<1>r. ASSUME NEW durable \in Durable, Restart(durable) PROVE Fresh'
  BY <1>r DEF Restart, Fresh
<1>1. CASE UNCHANGED <<day, since>> /\ ~\E durable \in Durable : Restart(durable)
  <2>0. Reached(p)
    BY <1>1 DEF Reached
  <2>1. CASE Known(day, p)
    <3>1. CASE UNCHANGED sent
      BY <1>1, <2>1, <3>1 DEF Known, Announced, Forestalled
    <3>2. ASSUME NEW w \in Workers, Spend(w) PROVE Known(day, p)'
      <4>1. PICK d \in Days : d = day
        BY <1>d
      <4>2. Known(d, p)'
        BY <1>0, <2>1, <3>2, <4>1, SpendMakesKnown
      <4> QED
        BY <1>1, <4>1, <4>2 DEF Known, Announced, Forestalled
    <3> QED
      BY <1>1, <3>1, <3>2
      DEF Next, Step, CheckBudget, OnCost, LogRequest, WriteRow, LoseRow, ReadDayStart, SumActualCost, ReadNow,
          Return, Midnight, BoundsReached, vars
  <2>2. ASSUME NEW v \in Workers, Carries(v, p)
        PROVE  Known(day, p)' \/ \E w \in Workers : Carries(w, p)'
    <3>t. today[v] \in Days /\ start[v] \in Days /\ amount[v] \in Int /\ pc[v] \in Steps
      BY <1>0, ReadingsAreDays DEF TypeOK
    <3>1. CASE UNCHANGED <<pc[v], today[v], start[v], amount[v]>>
      BY <1>1, <2>2, <3>1 DEF Carries, ThresholdMicro
    <3>2. CASE ReadDayStart(v)
      <4>1. DailyBudget > 0
        BY DEF Thresholds
      <4> QED
        BY <1>0, <1>1, <3>2, <4>1 DEF ReadDayStart, Goto, Carries, TypeOK
    <3>3. CASE SumActualCost(v)
      <4>1. pc'[v] = "now" /\ amount'[v] = since[start[v]] /\ start[v] = day
        BY <1>0, <2>2, <3>3 DEF SumActualCost, Goto, TypeOK, Carries
      <4>2. amount'[v] >= thr
        BY <1>d, <1>t, <2>0, <4>1 DEF Reached
      <4> QED
        BY <4>1, <4>2 DEF Carries, ThresholdMicro
    <3>4. CASE ReadNow(v)
      BY <1>0, <1>1, <2>2, <3>4 DEF ReadNow, Goto, Carries, TypeOK, ThresholdMicro
    <3>5. CASE Spend(v)
      <4>1. amount[v] >= thr /\ today[v] = day
        BY <2>2, <3>5 DEF Spend, Carries
      <4>2. PICK d \in Days : d = day
        BY <1>d
      <4>3. p \in FiredOn(d) \/ p \in Crossed(v, FiredOn(d))
        BY <4>1 DEF Crossed
      <4>4. p \in FiredOn(d) => Known(d, p)
        BY <1>0 DEF FiredOn, FiredWasSent
      <4>5. Known(d, p)'
        BY <1>0, <3>5, <4>1, <4>2, <4>3, <4>4, SpendMakesKnown
      <4> QED
        BY <1>1, <4>2, <4>5 DEF Known, Announced, Forestalled
    <3>6. ~LogRequest(v) /\ ~Return(v) /\ \A c \in Costs : ~OnCost(v, c)
      BY <2>2 DEF OnCost, LogRequest, WriteRow, LoseRow, Return, Carries
    <3>7. ASSUME NEW u \in Workers, u # v, Step(u) \/ \E c \in Costs : OnCost(u, c)
          PROVE  UNCHANGED <<pc[v], today[v], start[v], amount[v]>>
      BY <1>0, <3>7
      DEF Step, CheckBudget, OnCost, LogRequest, WriteRow, LoseRow, ReadDayStart, SumActualCost, ReadNow, Spend,
          Return, Goto, TypeOK
    <3>8. CASE Midnight \/ BoundsReached \/ UNCHANGED vars
      BY <3>1, <3>8 DEF Midnight, BoundsReached, vars
    <3>9. CASE Step(v)
      BY <3>2, <3>3, <3>4, <3>5, <3>6, <3>9 DEF Step, CheckBudget
    <3> QED
      BY <1>1, <3>1, <3>6, <3>7, <3>8, <3>9 DEF Next
  <2>3. ASSUME Fresh PROVE Fresh' \/ \E w \in Workers : Carries(w, p)'
    <3>1. ASSUME NEW w \in Workers, NEW c \in Costs, OnCost(w, c) PROVE Fresh'
      BY <1>0, <2>3, <3>1 DEF OnCost, Goto, Fresh, TypeOK
    <3>2. ASSUME NEW w \in Workers, LogRequest(w) PROVE Carries(w, p)'
      BY <1>0, <3>2 DEF LogRequest, WriteRow, LoseRow, Goto, Carries, TypeOK
    <3>3. ASSUME NEW w \in Workers PROVE ~CheckBudget(w) /\ ~Return(w)
      BY <2>3 DEF Fresh, CheckBudget, ReadDayStart, SumActualCost, ReadNow, Spend, Return
    <3>4. CASE Midnight \/ BoundsReached \/ UNCHANGED vars
      BY <2>3, <3>4 DEF Midnight, BoundsReached, vars, Fresh
    <3> QED
      BY <1>1, <3>1, <3>2, <3>3, <3>4 DEF Next, Step
  <2> QED
    BY <1>0, <2>0, <2>1, <2>2, <2>3 DEF NothingLost
<1>2. ASSUME NEW w \in Workers, LogRequest(w) PROVE Carries(w, p)'
  BY <1>0, <1>2 DEF LogRequest, WriteRow, LoseRow, Goto, Carries, TypeOK
<1>3. CASE Midnight
  <2>1. day' = day + 1 /\ day' \in Days /\ since' = since
    BY <1>0, <1>3, BudgetAssumption DEF Midnight, TypeOK, Days
  <2>2. since'[day'] = 0
    BY <1>0, <1>d, <2>1 DEF Ledger, Days
  <2> QED
    BY <2>2 DEF Reached
<1> QED
  BY <1>r, <1>1, <1>2, <1>3
  DEF Next, Step, CheckBudget, OnCost, ReadDayStart, SumActualCost, ReadNow, Spend, Return,
      BoundsReached, vars

-----------------------------------------------------------------------------
(* Whenever no response is being accounted for, every threshold that the    *)
(* day's recorded spend has reached has been announced from that day's      *)
(* spend, unless a check across midnight had announced it for the day       *)
(* before; for any number of workers, if the ledger can be read             *)
(* (checkBudget after LogRequest in onCost).  An alert that a crash took    *)
(* with it is announced by the first response the new process accounts for  *)
(* on that day.                                                             *)
THEOREM AlertsAreMissedOnlyByStaleSums ==
  ASSUME "sum" \notin Failures
  PROVE  Spec => []MissedOnlyByStaleSum
<1>1. AlertInv /\ [Next]_vars => AlertInv'
  BY StepTypes, StepLedger, StepOld, StepFired, StepNothingLost DEF AlertInv
<1>2. AlertInv => MissedOnlyByStaleSum
  BY DEF AlertInv, NothingLost, MissedOnlyByStaleSum, Settled, Known, Carries, Fresh
<1> QED
  BY <1>1, <1>2, InitAlert, PTL DEF Spec

=============================================================================
