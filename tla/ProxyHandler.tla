---------------------------- MODULE ProxyHandler ----------------------------
(***************************************************************************)
(* The request path of the proxy: ServeHTTP and handleDeleteHistory        *)
(* (pkg/proxy/handler.go), modifyResponse and onCost                       *)
(* (pkg/proxy/cost_tracking.go), the atomic counters of Metrics and the    *)
(* request log the budgets are read from.  It composes two components:     *)
(*                                                                         *)
(*   D   the loop detector every hashed body is checked against;           *)
(*   B   the accounting of a finished response and the daily-budget alerts.*)
(*                                                                         *)
(* A request is the goroutine net/http runs for it.  Nothing but the       *)
(* detector, the store and the budget monitor is locked, each by itself,   *)
(* so the goroutines interleave between any two of the steps below.  One   *)
(* clock drives the windows, the days and the months.                      *)
(***************************************************************************)
EXTENDS Integers, FiniteSets

CONSTANTS
  Requests,       (* goroutines that serve requests, used again and again  *)
  Inputs,         (* what may arrive: [kind, caller, agent, fp]            *)
  Callers,        (* callers with an API key                               *)
  Anonymous,      (* no caller in the context: authentication is off       *)
  Unknown,        (* a key the authenticator rejects                       *)
  CallerDaily,    (* caller -> DailyBudgetMicro, 0 = unlimited             *)
  CallerMonthly,  (* caller -> MonthlyBudgetMicro, 0 = unlimited           *)
  DayTicks,       (* ticks in a UTC day                                    *)
  MonthDays,      (* days in a month                                       *)
  MaxArrivals,    (* bound: requests that arrive                           *)
  Agents, Fps, TTL, MaxEntries, InitLimit, Second, MaxClock,
  Costs, DailyBudget, ThresholdInputs, Failures

(* A day is a whole number of seconds and a cost, like every int64, has an  *)
(* upper bound; agents and fingerprints are those the detector tracks.      *)
ASSUME HandlerAssumption ==
  /\ IsFiniteSet(Requests)
  /\ Unknown \notin Callers /\ Anonymous \notin Callers \cup {Unknown}
  /\ \A i \in Inputs : /\ i.caller \in Callers \cup {Anonymous, Unknown}
                       /\ i.agent \in Agents /\ i.fp \in Fps
  /\ \A k \in Callers \cup {Anonymous} : CallerDaily[k] \in Int /\ CallerMonthly[k] \in Int
  /\ Second \in Nat \ {0} /\ DayTicks \in Nat \ {0} /\ DayTicks % Second = 0
  /\ MonthDays \in Nat \ {0} /\ TTL \in Nat \ {0} /\ MaxEntries \in Nat \ {0}
  /\ InitLimit \in Int /\ DailyBudget \in Int /\ ThresholdInputs \subseteq Int
  /\ Costs \subseteq Int /\ \E c \in Costs \cup {0} : \A e \in Costs \cup {0} : e <= c
  /\ MaxClock \in Nat /\ MaxArrivals \in Nat

VARIABLES
  now, seen, limit, verdict, alerts, passed,          (* the detector       *)
  since, cost, today, start, amount, dayKey, fired, sent,  (* cost accounting *)
  keySince,    (* SumActualCostForKeySince, by caller and day               *)
  blocked,     (* rows with IsLoopBlocked                                   *)
  actual,      (* rows without                                              *)
  active,      (* Metrics.active                                            *)
  requests,    (* Metrics.requests                                          *)
  loopBlocks,  (* Metrics.loopBlocks                                        *)
  pc,          (* where a request is in ServeHTTP                           *)
  req,         (* what arrived                                              *)
  gate,        (* the time its budget gate read                             *)
  res,         (* its CheckResult                                           *)
  finalized,   (* the sync.Once of its usageTrackingBody                    *)
  forwarded,   (* history: tracked requests the upstream has answered      *)
  notices,     (* history: loop_blocked notifications, by key               *)
  events,      (* history: live-log events, by type                         *)
  lost,        (* history: rows whose write failed                          *)
  arrivals     (* history: requests so far                                  *)

(* UTC days count from 1; a day has DayTicks ticks, a month MonthDays days. *)
Day(t) == t \div DayTicks + 1
MonthStart(t) == ((Day(t) - 1) \div MonthDays) * MonthDays + 1
Days == 1..Day(MaxClock)

D == INSTANCE HashDetector WITH
       LimitInputs <- {}, MaxSightings <- MaxArrivals

B == INSTANCE BudgetAlerts WITH
       Workers <- Requests, MaxDay <- Day(MaxClock), MaxRows <- MaxArrivals,
       Durable <- {}, MaxRestarts <- 0,
       day <- Day(now), pc <- cost, rows <- requests, restarts <- 0

detectorVars == <<now, seen, limit, verdict, alerts, passed>>
costVars     == <<since, cost, today, start, amount, dayKey, fired, sent>>
storeVars    == <<keySince, blocked, actual>>
meterVars    == <<active, requests, loopBlocks>>
localVars    == <<req, gate, res, finalized>>
historyVars  == <<forwarded, notices, events, lost, arrivals>>

vars == <<detectorVars, costVars, storeVars, meterVars, pc, localVars, historyVars>>

(* Where a request can be. *)
Places == {"idle", "gate", "month", "day", "monthDenied", "dayDenied", "body", "check",
           "blocked", "record", "notify", "answer", "untracked", "forward", "stream",
           "close", "done"}

EventTypes == {"complete", "loop_blocked", "budget_exceeded"}

NoRequest == [kind |-> "none", caller |-> Anonymous, agent |-> Anonymous, fp |-> Anonymous]

Key(r) == <<req[r].agent, req[r].fp>>

Goto(r, from, to) == pc[r] = from /\ pc' = [pc EXCEPT ![r] = to]

Publish(type) == events' = [events EXCEPT ![type] = @ + 1]

(* The handler returns: markDone runs on every path, and its locals die. *)
Return(r) ==
  /\ pc' = [pc EXCEPT ![r] = "idle"]
  /\ active' = active - 1
  /\ req' = [req EXCEPT ![r] = NoRequest]
  /\ gate' = [gate EXCEPT ![r] = 0]
  /\ res' = [res EXCEPT ![r] = D!Pass]
  /\ finalized' = [finalized EXCEPT ![r] = FALSE]

-----------------------------------------------------------------------------
(* A request arrives.  Middleware turns a key it does not know away with a  *)
(* 401; everyone else is in flight until the handler returns.  A request    *)
(* without a body to hash is forwarded untracked.                           *)
Unauthorized ==
  /\ arrivals < MaxArrivals
  /\ \E i \in Inputs : i.caller = Unknown
  /\ arrivals' = arrivals + 1
  /\ UNCHANGED <<detectorVars, costVars, storeVars, meterVars, pc, localVars,
                 forwarded, notices, events, lost>>

AfterFastPath(i) ==
  IF i.kind = "free" THEN "untracked"
  ELSE IF i.caller = Anonymous THEN "body" ELSE "gate"

Arrive(r, i) ==
  /\ arrivals < MaxArrivals
  /\ i.caller # Unknown
  /\ Goto(r, "idle", AfterFastPath(i))
  /\ req' = [req EXCEPT ![r] = i]
  /\ active' = active + 1
  /\ arrivals' = arrivals + 1
  /\ UNCHANGED <<detectorVars, costVars, storeVars, requests, loopBlocks,
                 gate, res, finalized, forwarded, notices, events, lost>>

(* The per-caller gate: one reading of the clock, then the month's and the  *)
(* day's sum, each a query of its own.  A query that fails lets the request *)
(* through to the next check.                                               *)
GateTime(r) ==
  /\ Goto(r, "gate", "month")
  /\ gate' = [gate EXCEPT ![r] = now]
  /\ UNCHANGED <<detectorVars, costVars, storeVars, meterVars, req, res,
                 finalized, historyVars>>

(* Mutant: a budget that is exhausted only when exceeded. *)
Exceeded(caller, budget, from) == budget > 0 /\ keySince[caller][from] > budget

Exhausted(caller, budget, from) == budget > 0 /\ keySince[caller][from] >= budget

MonthExhausted(r) ==
  Exhausted(req[r].caller, CallerMonthly[req[r].caller], MonthStart(gate[r]))

DayExhausted(r) ==
  Exhausted(req[r].caller, CallerDaily[req[r].caller], Day(gate[r]))

GateMonth(r) ==
  /\ \/ MonthExhausted(r) /\ Goto(r, "month", "monthDenied")
     \/ (~MonthExhausted(r) \/ "gate" \in Failures) /\ Goto(r, "month", "day")
  /\ UNCHANGED <<detectorVars, costVars, storeVars, meterVars, localVars, historyVars>>

GateDay(r) ==
  /\ \/ DayExhausted(r) /\ Goto(r, "day", "dayDenied")
     \/ (~DayExhausted(r) \/ "gate" \in Failures) /\ Goto(r, "day", "body")
  /\ UNCHANGED <<detectorVars, costVars, storeVars, meterVars, localVars, historyVars>>

(* Mutant: the next day, whichever budget is exhausted. *)
NextDay(r) == Day(gate[r]) * DayTicks

(* writeBudgetExceeded: a live event and a 429; no row, no counter.  The    *)
(* Retry-After is the time to the next window in whole seconds, at least 1. *)
NextWindow(r) ==
  IF pc[r] = "monthDenied"
  THEN (MonthStart(gate[r]) + MonthDays - 1) * DayTicks
  ELSE Day(gate[r]) * DayTicks

BudgetRetryAfter(r) ==
  LET wait == NextWindow(r) \div Second - gate[r] \div Second
  IN  IF wait < 1 THEN 1 ELSE wait

WriteBudgetExceeded(r) ==
  /\ pc[r] \in {"monthDenied", "dayDenied"}
  /\ Return(r)
  /\ Publish("budget_exceeded")
  /\ UNCHANGED <<detectorVars, costVars, storeVars, requests, loopBlocks,
                 forwarded, notices, lost, arrivals>>

(* A declared length above the cap is forwarded untouched and untracked; a  *)
(* body that cannot be read, or proves too long, is answered 413.           *)
ReadBody(r) ==
  /\ req[r].kind # "unreadable"
  /\ Goto(r, "body", IF req[r].kind = "oversized" THEN "untracked" ELSE "check")
  /\ UNCHANGED <<detectorVars, costVars, storeVars, meterVars, localVars, historyVars>>

RequestTooLarge(r) ==
  /\ pc[r] = "body" /\ req[r].kind = "unreadable"
  /\ Return(r)
  /\ UNCHANGED <<detectorVars, costVars, storeVars, requests, loopBlocks, historyVars>>

(* Mutant: looking a body up without recording it. *)
LookUpLoop(r) ==
  /\ pc[r] = "check"
  /\ verdict' = IF Key(r) \in DOMAIN seen THEN [D!Pass EXCEPT !.block = TRUE] ELSE D!Pass
  /\ res' = [res EXCEPT ![r] = verdict']
  /\ IF Key(r) \in DOMAIN seen THEN UNCHANGED seen
     ELSE seen' = [k \in DOMAIN seen \cup {Key(r)} |-> D!NewEntry(now)]
  /\ Goto(r, "check", IF verdict'.block THEN "blocked" ELSE "forward")
  /\ UNCHANGED <<now, limit, alerts, passed, costVars, storeVars, meterVars, req,
                 gate, finalized, historyVars>>

(* The detector decides. *)
CheckLoop(r) ==
  /\ pc[r] = "check"
  /\ D!Check(Key(r))
  /\ res' = [res EXCEPT ![r] = verdict']
  /\ Goto(r, "check", IF verdict'.block THEN "blocked" ELSE "forward")
  /\ UNCHANGED <<costVars, storeVars, meterVars, req, gate, finalized, historyVars>>

-----------------------------------------------------------------------------
(* The block path: the counters, the row (its write may fail, or be         *)
(* cancelled with the request), the notification of a first block, then the *)
(* live event and the 429.                                                  *)
MarkLoopBlocked(r) ==
  /\ Goto(r, "blocked", "record")
  /\ loopBlocks' = loopBlocks + 1
  /\ UNCHANGED <<detectorVars, costVars, storeVars, active, requests, localVars,
                 historyVars>>

LogBlocked(r) ==
  /\ Goto(r, "record", "notify")
  /\ \/ blocked' = blocked + 1 /\ UNCHANGED lost
     \/ "log" \in Failures /\ lost' = lost + 1 /\ UNCHANGED blocked
  /\ UNCHANGED <<detectorVars, costVars, keySince, actual, meterVars, localVars,
                 forwarded, notices, events, arrivals>>

(* Mutant: the last verdict of the detector, not this request's. *)
NotifyLastVerdict(r) ==
  /\ Goto(r, "notify", "answer")
  /\ notices' = [notices EXCEPT ![Key(r)] = IF verdict.first THEN @ + 1 ELSE @]
  /\ UNCHANGED <<detectorVars, costVars, storeVars, meterVars, localVars, forwarded,
                 events, lost, arrivals>>

NotifyLoop(r) ==
  /\ Goto(r, "notify", "answer")
  /\ notices' = [notices EXCEPT ![Key(r)] = IF res[r].first THEN @ + 1 ELSE @]
  /\ UNCHANGED <<detectorVars, costVars, storeVars, meterVars, localVars, forwarded,
                 events, lost, arrivals>>

WriteLoopBlocked(r) ==
  /\ pc[r] = "answer"
  /\ Return(r)
  /\ Publish("loop_blocked")
  /\ UNCHANGED <<detectorVars, costVars, storeVars, requests, loopBlocks,
                 forwarded, notices, lost, arrivals>>

-----------------------------------------------------------------------------
(* The reverse proxy.  An upstream that cannot be reached, or a client that *)
(* goes away first, is a 502; an untracked response is only copied.         *)
UpstreamFails(r) ==
  /\ pc[r] \in {"forward", "untracked"}
  /\ Return(r)
  /\ UNCHANGED <<detectorVars, costVars, storeVars, requests, loopBlocks, historyVars>>

UntrackedDone(r) ==
  /\ pc[r] = "untracked"
  /\ Return(r)
  /\ UNCHANGED <<detectorVars, costVars, storeVars, requests, loopBlocks, historyVars>>

(* modifyResponse wraps the body of a tracked response. *)
ModifyResponse(r) ==
  /\ Goto(r, "forward", "stream")
  /\ forwarded' = forwarded + 1
  /\ UNCHANGED <<detectorVars, costVars, storeVars, meterVars, localVars, notices,
                 events, lost, arrivals>>

(* Mutant: no sync.Once. *)
FinalizeAgain(r, c) ==
  /\ finalized' = [finalized EXCEPT ![r] = TRUE]
  /\ UNCHANGED detectorVars
  /\ B!OnCost(r, c)

(* finalize, under sync.Once, starts onCost the first time only: when Read  *)
(* meets the end of the stream, or in Close when the copy was cut short.    *)
Finalize(r, c) ==
  /\ finalized' = [finalized EXCEPT ![r] = TRUE]
  /\ UNCHANGED detectorVars
  /\ IF finalized[r] THEN UNCHANGED <<costVars, requests>> ELSE B!OnCost(r, c)

EndOfStream(r, c) ==
  /\ Goto(r, "stream", "close")
  /\ Finalize(r, c)
  /\ UNCHANGED <<storeVars, active, loopBlocks, req, gate, res, historyVars>>

CopyAborted(r, c) ==
  /\ Goto(r, "stream", "done")
  /\ Finalize(r, c)
  /\ UNCHANGED <<storeVars, active, loopBlocks, req, gate, res, historyVars>>

(* After the end of the stream the reverse proxy still closes the body. *)
CloseBody(r, c) ==
  /\ cost[r] = "idle"
  /\ Goto(r, "close", "done")
  /\ Finalize(r, c)
  /\ UNCHANGED <<storeVars, active, loopBlocks, req, gate, res, historyVars>>

(* onCost, as in B; its row also counts for the caller.                     *)
LogActual(r) ==
  /\ UNCHANGED <<detectorVars, requests>>
  /\ \/ /\ B!WriteRow(r)
        /\ keySince' = [keySince EXCEPT ![req[r].caller] =
              [d \in Days |-> IF d <= today[r] THEN @[d] + amount[r] ELSE @[d]]]
        /\ actual' = actual + 1
        /\ UNCHANGED lost
     \/ /\ B!LoseRow(r)
        /\ lost' = lost + 1
        /\ UNCHANGED <<keySince, actual>>
  /\ UNCHANGED <<blocked, active, loopBlocks, pc, localVars, forwarded, notices,
                 events, arrivals>>

CheckBudget(r) ==
  /\ UNCHANGED <<detectorVars, requests>>
  /\ B!CheckBudget(r)
  /\ UNCHANGED <<storeVars, active, loopBlocks, pc, localVars, historyVars>>

PublishComplete(r) ==
  /\ UNCHANGED <<detectorVars, requests>>
  /\ B!Return(r)
  /\ Publish("complete")
  /\ UNCHANGED <<storeVars, active, loopBlocks, pc, localVars, forwarded, notices,
                 lost, arrivals>>

ResponseDone(r) ==
  /\ pc[r] = "done" /\ cost[r] = "idle"
  /\ Return(r)
  /\ UNCHANGED <<detectorVars, costVars, storeVars, requests, loopBlocks, historyVars>>

-----------------------------------------------------------------------------
(* DELETE /v1/agent/{id}/history, and GET /v1/metrics, whose count of       *)
(* blocked agents sweeps the detector.                                      *)
DeleteHistory(a) ==
  /\ D!Reset(a)
  /\ UNCHANGED <<costVars, storeVars, meterVars, pc, localVars, historyVars>>

PollMetrics ==
  /\ D!SweepAll
  /\ UNCHANGED <<costVars, storeVars, meterVars, pc, localVars, historyVars>>

Tick ==
  /\ D!Tick
  /\ UNCHANGED <<costVars, storeVars, meterVars, pc, localVars, historyVars>>

Init ==
  /\ D!Init
  /\ B!Init
  /\ keySince = [k \in Callers \cup {Anonymous} |-> [d \in Days |-> 0]]
  /\ blocked = 0 /\ actual = 0 /\ forwarded = 0 /\ lost = 0
  /\ active = 0 /\ loopBlocks = 0
  /\ pc = [r \in Requests |-> "idle"]
  /\ req = [r \in Requests |-> NoRequest]
  /\ gate = [r \in Requests |-> 0]
  /\ res = [r \in Requests |-> D!Pass]
  /\ finalized = [r \in Requests |-> FALSE]
  /\ notices = [k \in Agents \X Fps |-> 0]
  /\ events = [t \in EventTypes |-> 0]
  /\ arrivals = 0

(* What a goroutine does on its own, and what it needs the upstream for. *)
Deny(r) == GateTime(r) \/ GateMonth(r) \/ GateDay(r) \/ WriteBudgetExceeded(r)

Block(r) ==
  \/ ReadBody(r) \/ RequestTooLarge(r) \/ CheckLoop(r)
  \/ MarkLoopBlocked(r) \/ LogBlocked(r) \/ NotifyLoop(r) \/ WriteLoopBlocked(r)

Account(r) ==
  \/ LogActual(r) \/ CheckBudget(r) \/ PublishComplete(r) \/ ResponseDone(r)
  \/ \E c \in Costs : CloseBody(r, c)

Upstream(r) ==
  \/ UpstreamFails(r) \/ UntrackedDone(r) \/ ModifyResponse(r)
  \/ \E c \in Costs : EndOfStream(r, c) \/ CopyAborted(r, c)

Next ==
  \/ Unauthorized
  \/ \E r \in Requests :
       \/ \E i \in Inputs : Arrive(r, i)
       \/ Deny(r) \/ Block(r) \/ Account(r) \/ Upstream(r)
  \/ \E a \in Agents : DeleteHistory(a)
  \/ PollMetrics
  \/ Tick

Spec == Init /\ [][Next]_vars

-----------------------------------------------------------------------------
(* The types of the variables this module adds to those of D and B. *)
TypeOK ==
  /\ D!TypeOK /\ B!TypeOK
  /\ keySince \in [Callers \cup {Anonymous} -> [Days -> Int]]
  /\ blocked \in Nat /\ actual \in Nat
  /\ active \in 0..Cardinality(Requests) /\ loopBlocks \in Nat
  /\ pc \in [Requests -> Places]
  /\ req \in [Requests -> Inputs \cup {NoRequest}]
  /\ gate \in [Requests -> 0..now]
  /\ finalized \in [Requests -> BOOLEAN]
  /\ notices \in [Agents \X Fps -> Nat]
  /\ events \in [EventTypes -> Nat]
  /\ forwarded \in Nat /\ lost \in Nat /\ arrivals \in 0..MaxArrivals

Quiescent == \A r \in Requests : pc[r] = "idle"

(* The gate reads the sum and the row follows much later, so a caller can   *)
(* overspend; but never by more than what all goroutines together can have  *)
(* had past the gate at once: the last request admitted saw less than the   *)
(* budget.  It relies on ledger reads that do not fail.                     *)
MaxCost == CHOOSE c \in Costs \cup {0} : \A e \in Costs \cup {0} : e <= c

Overspend(budget) == budget - 1 + Cardinality(Requests) * MaxCost

SpentBetween(k, d, e) == keySince[k][d] - (IF e \in Days THEN keySince[k][e] ELSE 0)

OverspendBounded ==
  \A k \in Callers, d \in Days :
    /\ CallerDaily[k] > 0 =>
         SpentBetween(k, d, d + 1) <= Overspend(CallerDaily[k])
    /\ (CallerMonthly[k] > 0 /\ MonthStart((d - 1) * DayTicks) = d) =>
         SpentBetween(k, d, d + MonthDays) <= Overspend(CallerMonthly[k])

(* The books agree: once no request is in flight the gauge is back at zero, *)
(* every tracked response was accounted once however its body ended, and    *)
(* counters, live events and rows tell the same story, up to the rows whose *)
(* write failed.                                                            *)
BooksBalance ==
  Quiescent =>
    /\ active = 0
    /\ requests = forwarded
    /\ events["complete"] = requests
    /\ events["loop_blocked"] = loopBlocks
    /\ actual <= requests /\ blocked <= loopBlocks
    /\ actual + blocked + lost = requests + loopBlocks

(* An incident is never silent: once no request is in flight, a key whose   *)
(* open window has been blocked has had its loop_blocked notification.      *)
IncidentIsNotified ==
  Quiescent =>
    \A k \in DOMAIN seen : seen[k].blockedAt # D!ZeroTime => notices[k] >= 1

(* A caller that waits as long as its budget 429 tells it to comes back in  *)
(* a later window than the one whose sum refused it, and not a second later *)
(* than needed.                                                             *)
RetryReachesNextWindow ==
  \A r \in Requests :
    LET back == gate[r] + BudgetRetryAfter(r) * Second IN
      /\ pc[r] = "dayDenied" =>
           Day(back) > Day(gate[r]) /\ Day(back - Second) = Day(gate[r])
      /\ pc[r] = "monthDenied" =>
           /\ MonthStart(back) > MonthStart(gate[r])
           /\ MonthStart(back - Second) = MonthStart(gate[r])

(* The request path uses the detector and the accounting of costs only as   *)
(* their specifications allow, so what is proved of them holds here.        *)
PartsAreUsedAsSpecified == D!Spec /\ B!Spec
=============================================================================
