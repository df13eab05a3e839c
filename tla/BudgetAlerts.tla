---------------------------- MODULE BudgetAlerts ----------------------------
(***************************************************************************)
(* The advisory daily budget: onCost writes the row of a finished request, *)
(* then checkBudget (pkg/proxy/alerting.go) sums the day's spend and hands *)
(* it to BudgetMonitor.Spend (pkg/proxy/budget.go), which alerts once per  *)
(* threshold and UTC day.                                                  *)
(*                                                                         *)
(* Each worker is the goroutine of one finished response.  Only Spend is   *)
(* under the monitor's mutex.  The row's timestamp, the start of the day   *)
(* that is summed and the time handed to Spend are three separate readings *)
(* of the clock, taken outside it, so midnight may fall between any two of *)
(* them and workers may reach Spend in another order than they read the    *)
(* time in.  Of the clock only the UTC day matters.                        *)
(*                                                                         *)
(* The ledger is kept as what is read from it: since[d] is the actual cost *)
(* of the rows stamped on day d or later.  A cost is any integer: it is    *)
(* computed from token counts taken unchecked from the upstream's answer.  *)
(*                                                                         *)
(* The process may die at any moment.  A new one has a new monitor, and    *)
(* finds the rows again only if they are in the SQLite file.               *)
(***************************************************************************)
EXTENDS Integers, FiniteSets

CONSTANTS
  Workers,          (* goroutines that finish responses                    *)
  Costs,            (* possible costs of one response, in uUSD             *)
  DailyBudget,      (* cfg.DailyBudgetMicro; 0 or less disables the monitor *)
  ThresholdInputs,  (* cfg.ThresholdPct as configured                      *)
  Failures,         (* the store calls that may fail: "log", "sum"         *)
  Durable,          (* whether rows may outlive the process: TRUE with -db, *)
                    (* FALSE with the in-memory store                      *)
  MaxRestarts,      (* bound: times the process is started again           *)
  MaxDay,           (* bound: the last UTC day                             *)
  MaxRows           (* bound: responses that finish                        *)

ASSUME BudgetAssumption ==
  /\ Costs \subseteq Int
  /\ DailyBudget \in Int
  /\ ThresholdInputs \subseteq Int
  /\ Durable \subseteq BOOLEAN
  /\ MaxDay \in Nat \ {0}
  /\ MaxRows \in Nat /\ MaxRestarts \in Nat

VARIABLES
  day,      (* today                                                       *)
  since,    (* SumActualCostSince, by day                                  *)
  pc,       (* where each worker is in onCost                              *)
  today,    (* the day it read last: row timestamp, then the now of Spend  *)
  start,    (* the day from whose start it sums                            *)
  amount,   (* the cost it is to record, then the sum it has read          *)
  dayKey,   (* m.dayKey; 0 before the first Spend                          *)
  fired,    (* m.fired: the thresholds fired on dayKey                     *)
  sent,     (* history: budget_level events emitted, by day, threshold and *)
            (* the day that was summed                                     *)
  rows,     (* history: responses finished so far                          *)
  restarts  (* history: times the process has been started again           *)

vars == <<day, since, pc, today, start, amount, dayKey, fired, sent, rows, restarts>>

Days == 1..MaxDay

(* sanitizeThresholds keeps the percentages in 1..100, and NewBudgetMonitor *)
(* drops them all when there is no budget.                                  *)
Thresholds ==
  {p \in ThresholdInputs : DailyBudget > 0 /\ 0 < p /\ p <= 100}

(* Integer division, as in the code. *)
ThresholdMicro(p) == (DailyBudget * p) \div 100

Events == Days \X Thresholds \X Days

Steps == {"idle", "log", "start", "sum", "now", "spend", "complete"}

Goto(w, step) == pc' = [pc EXCEPT ![w] = step]

-----------------------------------------------------------------------------
(* The response of a tracked request has been read to its end or closed:    *)
(* onCost prices it and stamps the row.                                     *)
OnCost(w, c) ==
  /\ pc[w] = "idle"
  /\ rows < MaxRows
  /\ rows' = rows + 1
  /\ amount' = [amount EXCEPT ![w] = c]
  /\ today' = [today EXCEPT ![w] = day]
  /\ Goto(w, "log")
  /\ UNCHANGED <<day, since, start, dayKey, fired, sent, restarts>>

(* A row stamped on day s counts in every sum that starts on s or before. *)
AddRow(s, c) == [d \in Days |-> IF d <= s THEN since[d] + c ELSE since[d]]

(* store.LogRequest, whose error is ignored: the row is written or lost.    *)
WriteRow(w) ==
  /\ pc[w] = "log"
  /\ since' = AddRow(today[w], amount[w])
  /\ Goto(w, "start")
  /\ UNCHANGED <<day, today, start, amount, dayKey, fired, sent, rows, restarts>>

LoseRow(w) ==
  /\ pc[w] = "log"
  /\ "log" \in Failures
  /\ Goto(w, "start")
  /\ UNCHANGED <<day, since, today, start, amount, dayKey, fired, sent, rows, restarts>>

LogRequest(w) == WriteRow(w) \/ LoseRow(w)

(* checkBudget: start := utcDayStart(time.Now()).  No monitor is wired      *)
(* without a budget, and then there is nothing to check.                    *)
ReadDayStart(w) ==
  /\ pc[w] = "start"
  /\ start' = [start EXCEPT ![w] = day]
  /\ Goto(w, IF DailyBudget > 0 THEN "sum" ELSE "complete")
  /\ UNCHANGED <<day, since, today, amount, dayKey, fired, sent, rows, restarts>>

(* ledger.SumActualCostSince(start); an error ends checkBudget. *)
SumActualCost(w) ==
  /\ pc[w] = "sum"
  /\ \/ /\ amount' = [amount EXCEPT ![w] = since[start[w]]]
        /\ Goto(w, "now")
     \/ /\ "sum" \in Failures
        /\ Goto(w, "complete")
        /\ UNCHANGED amount
  /\ UNCHANGED <<day, since, today, start, dayKey, fired, sent, rows, restarts>>

(* The argument time.Now() of budget.Spend, evaluated before its lock. *)
ReadNow(w) ==
  /\ pc[w] = "now"
  /\ today' = [today EXCEPT ![w] = day]
  /\ Goto(w, "spend")
  /\ UNCHANGED <<day, since, start, amount, dayKey, fired, sent, rows, restarts>>

(* Mutant: a threshold must be exceeded. *)
CrossedStrictly(w, already) ==
  {p \in Thresholds \ already : amount[w] > ThresholdMicro(p)}

(* BudgetMonitor.Spend, under m.mu: another day than the last one resets    *)
(* fired; then every threshold that is reached and has not fired is         *)
(* emitted.  checkBudget's emit always succeeds.  Without thresholds Spend  *)
(* returns at once (fired and sent are empty then).                         *)
Crossed(w, already) ==
  {p \in Thresholds \ already : amount[w] >= ThresholdMicro(p)}

(* Mutant: no reset at the turn of the day. *)
FiredEver(d) == fired

FiredOn(d) == IF d = dayKey THEN fired ELSE {}

Spend(w) ==
  LET d   == today[w]
      new == Crossed(w, FiredOn(d))
  IN  /\ pc[w] = "spend"
      /\ dayKey' = IF Thresholds = {} THEN dayKey ELSE d
      /\ fired' = FiredOn(d) \cup new
      /\ sent' = [e \in Events |->
           IF e[1] = d /\ e[2] \in new /\ e[3] = start[w] THEN sent[e] + 1 ELSE sent[e]]
      /\ Goto(w, "complete")
      /\ UNCHANGED <<day, since, today, start, amount, rows, restarts>>

CheckBudget(w) ==
  \/ ReadDayStart(w)
  \/ SumActualCost(w)
  \/ ReadNow(w)
  \/ Spend(w)

(* onCost publishes request.complete and returns. *)
Return(w) ==
  /\ pc[w] = "complete"
  /\ amount' = [amount EXCEPT ![w] = 0]
  /\ today' = [today EXCEPT ![w] = 1]
  /\ start' = [start EXCEPT ![w] = 1]
  /\ Goto(w, "idle")
  /\ UNCHANGED <<day, since, dayKey, fired, sent, rows, restarts>>

Midnight ==
  /\ day < MaxDay
  /\ day' = day + 1
  /\ UNCHANGED <<since, pc, today, start, amount, dayKey, fired, sent, rows, restarts>>

NoSpend == [d \in Days |-> 0]

(* The process dies and is started again: its goroutines, its monitor and,  *)
(* without a database file, its rows are gone.                              *)
Restart(durable) ==
  /\ restarts < MaxRestarts
  /\ restarts' = restarts + 1
  /\ since' = IF durable THEN since ELSE NoSpend
  /\ pc' = [w \in Workers |-> "idle"]
  /\ today' = [w \in Workers |-> 1]
  /\ start' = [w \in Workers |-> 1]
  /\ amount' = [w \in Workers |-> 0]
  /\ dayKey' = 0
  /\ fired' = {}
  /\ UNCHANGED <<day, sent, rows>>

(* The bounds of the model are used up; the program would go on. *)
BoundsReached ==
  /\ day = MaxDay /\ rows = MaxRows
  /\ \A w \in Workers : pc[w] = "idle"
  /\ UNCHANGED vars

Init ==
  /\ day = 1
  /\ since = NoSpend
  /\ pc = [w \in Workers |-> "idle"]
  /\ today = [w \in Workers |-> 1]
  /\ start = [w \in Workers |-> 1]
  /\ amount = [w \in Workers |-> 0]
  /\ dayKey = 0
  /\ fired = {}
  /\ sent = [e \in Events |-> 0]
  /\ rows = 0 /\ restarts = 0

Step(w) ==
  \/ LogRequest(w)
  \/ CheckBudget(w)
  \/ Return(w)

Next ==
  \/ \E w \in Workers, c \in Costs : OnCost(w, c)
  \/ \E w \in Workers : Step(w)
  \/ \E durable \in Durable : Restart(durable)
  \/ Midnight
  \/ BoundsReached

Spec == Init /\ [][Next]_vars

(* A goroutine that is in onCost runs to its end: nothing in it waits for   *)
(* another party except the mutex around Spend's bounded loop.              *)
FairSpec == Spec /\ \A w \in Workers : WF_vars(Step(w))

-----------------------------------------------------------------------------
(* The types of the variables; no worker has read a day yet to come. *)
TypeOK ==
  /\ day \in Days
  /\ since \in [Days -> Int]
  /\ pc \in [Workers -> Steps]
  /\ today \in [Workers -> 1..day]
  /\ start \in [Workers -> 1..day]
  /\ amount \in [Workers -> Int]
  /\ dayKey \in 0..MaxDay
  /\ fired \subseteq Thresholds
  /\ sent \in [Events -> Nat]
  /\ rows \in 0..MaxRows /\ restarts \in 0..MaxRestarts

Reached(p) == since[day] > 0 /\ since[day] >= ThresholdMicro(p)

(* The threshold has been announced on day d by a check that had summed day *)
(* d, and by one that had summed an earlier day: midnight fell between its  *)
(* sum and the clock reading it handed to Spend.                            *)
Announced(d, p) == sent[<<d, p, d>>] >= 1

Forestalled(d, p) == \E s \in Days : s < d /\ sent[<<d, p, s>>] >= 1

Settled == dayKey # 0 /\ \A w \in Workers : pc[w] = "idle"

(* BudgetMonitor's promise: budget_level events when the real spend of a    *)
(* day crosses a threshold.  Whenever no response is being accounted for,   *)
(* every threshold that today's recorded spend has reached has been         *)
(* announced from today's spend.                                            *)
RealCrossingIsAnnounced ==
  Settled => \A p \in Thresholds : Reached(p) => Announced(day, p)

(* What does hold: there is one way only to miss an alert.  Whenever no     *)
(* response is being accounted for, a threshold that today's recorded spend *)
(* has reached and that was not announced from it is one that a check       *)
(* across midnight announced for today from the spend of the day before,    *)
(* which keeps the real alert from being sent.  No interleaving of workers  *)
(* within a day, no negative cost and no restart loses one: a crash between *)
(* LogRequest and Spend takes the alert with it only until the new process  *)
(* hands its first sum to Spend (dayKey # 0).  It relies on checkBudget     *)
(* running strictly after LogRequest (and on ledger reads that do not fail).*)
MissedOnlyByStaleSum ==
  Settled => \A p \in Thresholds :
               Reached(p) => Announced(day, p) \/ Forestalled(day, p)

(* While a response is being accounted for, a threshold that is reached is  *)
(* announced from the day's own spend, unless a check across midnight has   *)
(* announced it for this day before, the day ends, a negative cost brings   *)
(* the spend down again, or the process dies first.                         *)
CrossingIsAlerted ==
  \A d \in Days, p \in Thresholds, n \in 0..MaxRestarts :
    (day = d /\ restarts = n /\ Reached(p) /\ \E w \in Workers : pc[w] # "idle")
      ~> (Announced(d, p) \/ Forestalled(d, p) \/ day > d \/ restarts > n \/ ~Reached(p))

(* BudgetMonitor's promise: at most one budget_level event per threshold    *)
(* and UTC day.                                                             *)
OncePerDay ==
  \A e, f \in Events : sent[e] <= 1 /\
    (e[1] = f[1] /\ e[2] = f[2] /\ sent[e] = 1 /\ sent[f] = 1 => e = f)
=============================================================================
